----------------------- MODULE ReconciliationService ------------------------
(***************************************************************************)
(* The reconciliation service and its runner                               *)
(* (collector/reconciliation/reconciler.py, runner.py).  A run takes a     *)
(* broker snapshot, compares it with the derived tables and records the    *)
(* outcome; broker and tables may move between these steps.                *)
(*                                                                         *)
(* A row of reconciliation_runs is its signature: trigger, result and      *)
(* diffs.  The reconciliation id is the hash of the signature.  The latest *)
(* row is the one with the greatest run_ts, which follows the wall clock.  *)
(***************************************************************************)
EXTENDS DerivedState, Classifier

CONSTANTS Triggers,    \* the triggers of an up runner that are used
          NoRun        \* the table has no row yet

AllTriggers == Triggers \cup {"STARTUP"}

EntityDiffs ==
  [entity : {"POSITION", "ORDER"}, id : Trades, class : Classes,
   local : {"full", Unknown, Absent}, broker : {"full", "part", Absent}]

RunRows == [trigger : AllTriggers, result : Results, diffs : SUBSET EntityDiffs]

ASSUME ServiceAssumption ==
  /\ Triggers \subseteq {"HEARTBEAT", "POST_EXECUTION", "MISMATCH"}
  /\ NoRun \notin RunRows

VARIABLES pc,        \* "down", "ready", or the next step of a run
          trigger, snapshot,
          row,       \* the row of this run
          answer,    \* latest_result of the last run's stats
          recorded,  \* the rows of reconciliation_runs
          latest,    \* the row with the greatest run_ts
          disorder,  \* has an outcome come back, or the clock gone back?
          adoptions  \* the rows of reconciliation_adoptions

runVars == <<trigger, snapshot, row>>
tableVars == <<recorded, latest, disorder, adoptions>>
worldVars == <<streamVars, derivedVars>>
vars == <<worldVars, pc, runVars, answer, tableVars>>

NoView == [positions |-> [t \in {} |-> Absent], orders |-> [t \in {} |-> Absent]]

Init ==
  /\ StreamInit /\ DerivedInit
  /\ pc = "down" /\ trigger = "STARTUP" /\ snapshot = NoView /\ row = NoRun
  /\ answer = "NONE"
  /\ recorded = {} /\ latest = NoRun /\ disorder = FALSE /\ adoptions = {}

-----------------------------------------------------------------------------
(* What is compared *)

\* A projected order has neither volume nor price, a position has those it
\* was opened with.
LocalView == [positions |-> [t \in OpenPositions |-> "full"],
              orders |-> [t \in OpenOrders |-> Unknown]]

BrokerView == [positions |-> [t \in {u \in Trades : deal[u] \in {"full", "part"}} |-> deal[t]],
               orders |-> [t \in {u \in Trades : deal[u] = "placed"} |-> "full"]]

Signature(by, outcome) ==
  [trigger |-> by, result |-> outcome.result, diffs |-> outcome.diffs]

(* Mutated form: any run of the trigger that ran last is skipped. *)
MutUnchangedSince(run, new) == run # NoRun /\ run.trigger = new.trigger

UnchangedSince(run, new) == run # NoRun /\ run = new

\* shadow_state
ShadowState == IF latest = NoRun THEN "UNKNOWN" ELSE latest.result

\* An adoption for every broker entity without local mapping, whatever the result.
AdoptionsFor(run) ==
  {[run |-> run, entity |-> d.entity, id |-> d.id] : d \in BrokerOrphans(run.diffs)}

-----------------------------------------------------------------------------
(* A run *)

\* An outage, a failed transaction, a crash or a step of the clock.
Trouble == Faulty /\ UNCHANGED <<deal, feed>>

Idle == trigger' = "STARTUP" /\ snapshot' = NoView /\ row' = NoRun

\* start(), maybe_heartbeat() or an on-demand call, up to the snapshot.
Begin(by) ==
  /\ IF by = "STARTUP" THEN pc = "down" ELSE pc = "ready"
  /\ pc' = "compare"
  /\ trigger' = by /\ snapshot' = BrokerView
  /\ UNCHANGED <<worldVars, row, answer, tableVars>>

(* Mutated form: an outage is answered with the shadow state. *)
MutUnavailable(by) ==
  /\ IF by = "STARTUP" THEN pc = "down" ELSE pc = "ready"
  /\ Trouble
  /\ pc' = "ready" /\ answer' = ShadowState
  /\ UNCHANGED <<derivedVars, runVars, tableVars>>

\* The same calls when the broker has no snapshot: a TIMEOUT event, no result.
Unavailable(by) ==
  /\ IF by = "STARTUP" THEN pc = "down" ELSE pc = "ready"
  /\ Trouble
  /\ pc' = "ready" /\ answer' = "NONE"
  /\ UNCHANGED <<derivedVars, runVars, tableVars>>

\* Reads the derived tables and the latest row; an unchanged outcome is skipped.
Compare ==
  LET outcome == Classify(LocalView, snapshot)
      new == Signature(trigger, outcome)
  IN  /\ pc = "compare"
      /\ IF UnchangedSince(latest, new)
         THEN pc' = "ready" /\ answer' = outcome.result /\ Idle
         ELSE pc' = "save" /\ row' = new /\ UNCHANGED <<trigger, snapshot, answer>>
      /\ UNCHANGED <<worldVars, tableVars>>

\* INSERT OR IGNORE: a row of a known id is ignored.  A new one is the latest,
\* unless the wall clock has gone back behind the run_ts of the one before.
InsertRun ==
  /\ recorded' = recorded \cup {row}
  /\ IF row \in recorded
     THEN disorder' = TRUE /\ UNCHANGED <<latest, streamVars>>
     ELSE \/ latest' = row /\ UNCHANGED <<disorder, streamVars>>
          \/ latest # NoRun /\ Trouble /\ disorder' = TRUE /\ UNCHANGED latest

\* save_reconciliation_run(), one transaction: the event is new each time, the
\* row and the adoptions of a known id are ignored.
Save ==
  /\ pc = "save" /\ pc' = "ready"
  /\ answer' = row.result
  /\ InsertRun
  /\ adoptions' = adoptions \cup AdoptionsFor(row)
  /\ Idle
  /\ UNCHANGED derivedVars

\* The transaction fails: at BEGIN the runner logs a ReconciliationError, at a
\* statement or at COMMIT a sqlite3 error that it does not catch ends it.
Fail ==
  /\ pc = "save" /\ Trouble
  /\ pc' \in {"ready", "down"} /\ answer' = "NONE" /\ Idle
  /\ UNCHANGED <<derivedVars, tableVars>>

Crash ==
  /\ pc # "down" /\ Trouble
  /\ pc' = "down" /\ answer' = "NONE" /\ Idle
  /\ UNCHANGED <<derivedVars, tableVars>>

ServiceStep ==
  \/ \E by \in AllTriggers : Begin(by) \/ Unavailable(by)
  \/ Compare \/ Save \/ Fail

ProjectStep == Project /\ UNCHANGED <<pc, runVars, answer, tableVars>>

BrokerStep ==
  /\ BrokerMoves
  /\ UNCHANGED <<derivedVars, pc, runVars, answer, tableVars>>

Next == ServiceStep \/ ProjectStep \/ BrokerStep \/ Crash

Spec == Init /\ [][Next]_vars
=============================================================================
