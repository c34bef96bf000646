----------------------------- MODULE RiskEngine -----------------------------
(***************************************************************************)
(* The risk engine (risk_engine/engine.py, validators.py, calculators.py,  *)
(* models.py, config.py): a proposal, an account, a market snapshot and a  *)
(* symbol specification in, an approved plan or a rejection out.           *)
(*                                                                         *)
(* Prices and distances are in points, lots in hundredths, and money in    *)
(* the value of one point of a hundredth lot of contract size 1 (0.0001    *)
(* USC), which is the precision the code rounds PnL and risk to.  Capital  *)
(* is a multiple of 1000 of these units, so that its shares are exact.     *)
(***************************************************************************)
EXTENDS Integers, Sequences, FiniteSetsExt

CONSTANTS
  RiskBasis,       \* risk_basis
  RiskPermille,    \* risk_per_trade
  MaxPositions,    \* max_simultaneous_positions
  MaxDrawdown,     \* max_drawdown, in percent
  SlPoints,        \* sl_distance_points
  MaxSpread,       \* max_spread_points
  ExposureRatio,   \* max_exposure_equity_ratio, in percent
  MarginRatio,     \* min_free_margin_equity_ratio, in percent
  BudgetMultiplier,\* margin_risk_budget_multiplier
  Leverage,        \* leverage_fallback
  ObservedSpread,  \* observed_spread_points
  MaxStale,        \* max_stale_seconds
  MinConfidence,   \* min_ai_confidence, in percent
  NoEvaluation

ReasonCodes ==
  {"APPROVED", "AI_NO_TRADE", "INVALID_MARKET_CONTEXT", "INVALID_ACCOUNT_STATE",
   "SPREAD_TOO_HIGH", "DRAWDOWN_LIMIT", "EXPOSURE_LIMIT", "INSUFFICIENT_MARGIN",
   "LOT_OUT_OF_RANGE", "LOT_STEP_INVALID", "RISK_LIMIT", "INVALID_SL",
   "BROKER_CONSTRAINT", "STALE_CONTEXT", "UNKNOWN_RISK_INPUT", "AUTHORITY_VIOLATION"}

Accounts ==
  [numeric : BOOLEAN, balance : Int, equity : Int, freeMargin : Int,
   positions : Int, exposure : Int, drawdown : Int]

Timestamps == {"iso", "garbled", "empty"}

Markets ==
  [numeric : BOOLEAN, bid : Int, ask : Int, spread : Int, timestamp : Timestamps]

SymbolSpecs ==
  [contract : Int, pointRisk : Int, volumeMin : Int, volumeMax : Int,
   volumeStep : Int, stopsLevel : Int, marginInitial : Int]

\* "LONG" stands for whatever else a proposal may say.
Directions == {"BUY", "SELL", "NO-TRADE", "LONG"}

Evaluations ==
  [decision : {"APPROVE", "REJECT"}, direction : Directions, reason_code : ReasonCodes,
   lot : Nat, sl : Int, risk_amount : Nat]

ASSUME RiskAssumption ==
  /\ {RiskPermille, MaxPositions, MaxDrawdown, SlPoints, MaxSpread, ExposureRatio,
      MarginRatio, BudgetMultiplier, Leverage, ObservedSpread, MaxStale,
      MinConfidence} \subseteq Nat
  /\ Leverage > 0
  /\ NoEvaluation \notin Evaluations

VARIABLES account, market, spec,  \* what the engine was asked about
          evaluation              \* its RiskEvaluationRecord

riskVars == <<account, market, spec, evaluation>>

-----------------------------------------------------------------------------
(* What the data classes accept.  numeric stands for the checks that every *)
(* field is a finite number.                                               *)

AccountValid(a) ==
  a.numeric /\ a.balance >= 0 /\ a.equity >= 0 /\ a.positions >= 0

MarketValid(m) ==
  /\ m.numeric /\ m.bid > 0 /\ m.ask > 0
  /\ m.ask >= m.bid /\ m.spread >= 0 /\ m.timestamp # "empty"

SpecValid(s) ==
  /\ s.contract > 0 /\ s.pointRisk > 0
  /\ s.volumeMin > 0 /\ s.volumeMax >= s.volumeMin /\ s.volumeStep > 0

ConfigValid ==
  /\ RiskBasis \in {"EQUITY", "BALANCE"} /\ RiskPermille \in 1..1000
  /\ MaxPositions >= 1 /\ MaxDrawdown \in 1..99
  /\ SlPoints > ObservedSpread /\ MaxSpread > 0
  /\ ExposureRatio > 0 /\ MaxStale > 0

-----------------------------------------------------------------------------
(* The trade plan *)

Capital(a) == IF RiskBasis = "EQUITY" THEN a.equity ELSE a.balance
Budget(a) == (Capital(a) \div 1000) * RiskPermille

Entry(direction, m) == IF direction = "BUY" THEN m.ask ELSE m.bid

SlDistance(s) == IF s.stopsLevel > SlPoints THEN s.stopsLevel ELSE SlPoints

SlPrice(direction, m, s) ==
  IF direction = "BUY" THEN m.ask - SlDistance(s) ELSE m.bid + SlDistance(s)

(* Mutated form: the distance is the configured one, whatever the broker's stops level. *)
MutLossPerHundredth(s) == SlPoints * s.pointRisk

\* (points / tick_size) * tick_value of a hundredth lot.
LossPerHundredth(s) == SlDistance(s) * s.pointRisk

RoundDownStep(n, step) == (n \div step) * step

CandidateLot(a, s) ==
  RoundDownStep(Budget(a) \div LossPerHundredth(s), s.volumeStep)

FinalLot(a, s) ==
  IF CandidateLot(a, s) > s.volumeMax THEN s.volumeMax ELSE CandidateLot(a, s)

Cents(x) == ((x + 50) \div 100) * 100   \* round(x, 2)

Exposure(direction, a, m, s) ==
  FinalLot(a, s) * s.contract * Entry(direction, m)

RequiredMargin(direction, a, m, s) ==
  Cents(IF s.marginInitial > 0 THEN FinalLot(a, s) * s.marginInitial
        ELSE Exposure(direction, a, m, s) \div Leverage)

RequiredFreeMargin(a) ==
  (Capital(a) \div 100) * MarginRatio + Budget(a) * BudgetMultiplier

-----------------------------------------------------------------------------
(* The checks in their order: each is a reason to reject and whether it    *)
(* applies.                                                                *)

Check(code, applies) == [code |-> code, applies |-> applies]

(* Mutated form: only snapshots of the future are refused. *)
MutStale(m, age) == m.timestamp # "iso" \/ age < -5

Stale(m, age) == m.timestamp # "iso" \/ age < -5 \/ age > MaxStale

InputChecks(p, a, m, s, age) ==
  << Check("AUTHORITY_VIOLATION", ~p.validation_ok),
     Check("AUTHORITY_VIOLATION", p.direction \notin {"BUY", "SELL", "NO-TRADE"}),
     Check("AI_NO_TRADE", p.direction = "NO-TRADE"),
     Check("AUTHORITY_VIOLATION", p.confidence < MinConfidence),
     Check("INVALID_ACCOUNT_STATE", ~AccountValid(a)),
     Check("INVALID_MARKET_CONTEXT", ~MarketValid(m)),
     Check("BROKER_CONSTRAINT", ~SpecValid(s)),
     Check("UNKNOWN_RISK_INPUT", ~ConfigValid),
     Check("STALE_CONTEXT", Stale(m, age)),
     Check("SPREAD_TOO_HIGH", m.spread > MaxSpread),
     Check("DRAWDOWN_LIMIT", a.drawdown >= MaxDrawdown),
     Check("EXPOSURE_LIMIT", a.positions >= MaxPositions) >>

PlanChecks(p, a, m, s) ==
  << Check("BROKER_CONSTRAINT", Capital(a) <= 0),
     Check("INVALID_SL", p.direction = "BUY" /\ SlPrice("BUY", m, s) <= 0),
     Check("INVALID_SL", SlDistance(s) <= ObservedSpread),
     Check("LOT_OUT_OF_RANGE", CandidateLot(a, s) < s.volumeMin) >>

LimitChecks(p, a, m, s) ==
  << Check("EXPOSURE_LIMIT",
           a.exposure + Cents(Exposure(p.direction, a, m, s))
             > (Capital(a) \div 100) * ExposureRatio),
     Check("INSUFFICIENT_MARGIN",
           a.freeMargin - RequiredMargin(p.direction, a, m, s)
             < RequiredFreeMargin(a)),
     Check("RISK_LIMIT",
           FinalLot(a, s) * LossPerHundredth(s) > Budget(a) + Budget(a) \div 10000) >>

FirstFailure(checks) ==
  LET failing == {i \in DOMAIN checks : checks[i].applies}
  IN  IF failing = {} THEN "APPROVED" ELSE checks[Min(failing)].code

\* The numbers of a plan are only computed for inputs that passed.
Verdict(p, a, m, s, age) ==
  LET first == FirstFailure(InputChecks(p, a, m, s, age))
      plan  == FirstFailure(PlanChecks(p, a, m, s))
  IN  IF first # "APPROVED" THEN first
      ELSE IF plan # "APPROVED" THEN plan
      ELSE FirstFailure(LimitChecks(p, a, m, s))

Evaluate(p, a, m, s, age) ==
  LET code == Verdict(p, a, m, s, age)
  IN  IF code = "APPROVED"
      THEN [decision |-> "APPROVE", direction |-> p.direction, reason_code |-> code,
            lot |-> FinalLot(a, s), sl |-> SlPrice(p.direction, m, s),
            risk_amount |-> FinalLot(a, s) * LossPerHundredth(s)]
      ELSE [decision |-> "REJECT", direction |-> p.direction, reason_code |-> code,
            lot |-> 0, sl |-> 0, risk_amount |-> 0]

\* SystemRiskGate: the proposal p is evaluated.
Evaluated(p, a, m, s, age) ==
  /\ account' = a /\ market' = m /\ spec' = s
  /\ evaluation' = Evaluate(p, a, m, s, age)
=============================================================================
