---------------------------- MODULE DecisionChain ---------------------------
(***************************************************************************)
(* The two ways to an approved plan: a decision of the models that is      *)
(* judged by the system's risk gate (the live path, composed as in         *)
(* tests/integration/test_ai_to_risk_gate.py: one market snapshot is both  *)
(* the models' context and what the gate sees), and a paper scenario whose *)
(* proposal is a fixture.                                                  *)
(***************************************************************************)
EXTENDS DecisionEngine, PaperTrade

CONSTANT Cases  \* the accounts, markets and symbols the gate is asked about

ASSUME CasesAssumption ==
  Cases \subseteq [account : Accounts, market : Markets, spec : SymbolSpecs]

vars == <<decisionVars, riskVars, paperVars>>

NotAsked ==
  /\ account = NoEvaluation /\ market = NoEvaluation /\ spec = NoEvaluation
  /\ evaluation = NoEvaluation

Init ==
  /\ DecisionInit /\ PaperInit /\ NotAsked
  /\ \/ pc = "context" /\ stage = "off"
     \/ pc = "off" /\ stage = "ready" /\ age = 0

\* The gate evaluates the record, age seconds after the snapshot.
Gate(case) ==
  /\ pc = "decided" /\ pc' = "gated"
  /\ Evaluated(record, case.account, case.market, case.spec, age)
  /\ UNCHANGED <<level, attempt, calls, said, age, record, paperVars>>

Next ==
  \/ DecisionStep /\ UNCHANGED <<riskVars, paperVars>>
  \/ \E case \in Cases : Gate(case)
  \/ PaperStep /\ UNCHANGED decisionVars

Spec == Init /\ [][Next]_vars
=============================================================================
