---------------------- MODULE ReconciliationProperties ----------------------
(* What must hold of the reconciliation service and its derived tables.  *)
EXTENDS ReconciliationService

TypeOK ==
  /\ StreamTypeOK /\ DerivedTypeOK
  /\ pc \in {"down", "ready", "compare", "save"} /\ trigger \in AllTriggers
  /\ answer \in Results \cup {"NONE"} /\ disorder \in BOOLEAN
  /\ recorded \subseteq RunRows /\ {row, latest} \subseteq RunRows \cup {NoRun}

-----------------------------------------------------------------------------
(* Safety *)

\* The shadow state is the result the last completed run reported
\* (shadow_state: "last persisted result"), across crashes, outages and
\* failed transactions.
ShadowIsLatest == answer # "NONE" => ShadowState = answer

\* The same, as long as no outcome has come back under the trigger it was
\* recorded with and the wall clock has not gone back.
ShadowIsLatestInOrder == ~disorder => ShadowIsLatest

\* Once every event has arrived, the derived tables agree with the broker on
\* every trade that no unreported change happened to: no false alarm remains.
SettledIsSynced ==
  /\ feed = <<>> /\ faults = 0
  /\ \A t \in Trades : deal[t] \notin {"part", "cancelled"}
  => Classify(LocalView, BrokerView).result = "SYNCED"

-----------------------------------------------------------------------------
(* Liveness *)

\* The runner's heartbeat comes again and again, and the collector is started
\* again after it stopped: a step of the service is always enabled, so infinitely
\* many of them are taken, and all but an outage move pc.
RunnerGoesOn == []<><<pc' # pc>>_pc

\* Events that are not lost arrive.
Fairness == RunnerGoesOn /\ WF_vars(ProjectStep)

FairSpec == Spec /\ Fairness

\* When broker and tables have come to rest, the shadow state is what a
\* comparison of the two yields, and stays so, if no outcome ever came back and
\* the clock never went back.
Converges ==
  <>[](disorder \/ ShadowState = Classify(LocalView, BrokerView).result)

\* Only one side has an open position of the trade.
IsOneSided(t) == (t \in OpenPositions) # (deal[t] \in {"full", "part"})

Escalated(t) ==
  \E r \in recorded : /\ r.result = "ESCALATED"
                       /\ \E d \in LocalOrphans(r.diffs, "POSITION") : d.id = t

Adopted(t) == \E a \in adoptions : a.entity = "POSITION" /\ a.id = t

\* A position that only one side knows is acted on, whatever outcomes came back
\* and however the clock went: adopted if it is the broker's, escalated if it is
\* the collector's, unless the sides come to agree before.
MismatchesAreHandled ==
  \A t \in Trades :
    IsOneSided(t) ~> \/ ~IsOneSided(t)
                     \/ IF t \in OpenPositions THEN Escalated(t) ELSE Adopted(t)
=============================================================================
