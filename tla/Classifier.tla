----------------------------- MODULE Classifier -----------------------------
(***************************************************************************)
(* The comparison of local state with one broker snapshot                  *)
(* (collector/reconciliation/classifier.py), a pure function.  A view has  *)
(* positions and orders, each a function from ids to terms: the terms      *)
(* stand for direction, volume and price.  Unknown terms are those of a    *)
(* row without volume and price, which agrees with anything.               *)
(***************************************************************************)
CONSTANTS Unknown,  \* terms of a row that has none
          Absent    \* no entity on this side

Classes == {"RECOVERABLE", "MISSING_BROKER", "NO_MISMATCH", "CONFLICTING_STATE"}

Agree(mine, theirs) == mine = Unknown \/ theirs = Unknown \/ mine = theirs

Class(local, broker, id) ==
  IF id \notin DOMAIN local THEN "RECOVERABLE"
  ELSE IF id \notin DOMAIN broker THEN "MISSING_BROKER"
  ELSE IF Agree(local[id], broker[id]) THEN "NO_MISMATCH" ELSE "CONFLICTING_STATE"

Terms(side, id) == IF id \in DOMAIN side THEN side[id] ELSE Absent

(* Mutated form: ids only the local side knows are not looked at. *)
MutDiffsOf(entity, local, broker) ==
  {[entity |-> entity, id |-> id, class |-> Class(local, broker, id),
    local |-> Terms(local, id), broker |-> Terms(broker, id)] : id \in DOMAIN broker}

\* One EntityDiff for every id either side knows.
DiffsOf(entity, local, broker) ==
  {[entity |-> entity, id |-> id, class |-> Class(local, broker, id),
    local |-> Terms(local, id), broker |-> Terms(broker, id)]
     : id \in DOMAIN local \cup DOMAIN broker}

Diffs(local, broker) ==
  DiffsOf("POSITION", local.positions, broker.positions)
    \cup DiffsOf("ORDER", local.orders, broker.orders)

BrokerOrphans(diffs) == {d \in diffs : d.class = "RECOVERABLE"}
Conflicts(diffs) == {d \in diffs : d.class = "CONFLICTING_STATE"}
LocalOrphans(diffs, entity) ==
  {d \in diffs : d.class = "MISSING_BROKER" /\ d.entity = entity}

\* A local order without a broker order is excused by any broker orphan.
ForcesEscalation(diffs) ==
  \/ Conflicts(diffs) # {}
  \/ LocalOrphans(diffs, "POSITION") # {}
  \/ LocalOrphans(diffs, "ORDER") # {} /\ BrokerOrphans(diffs) = {}

Result(diffs) ==
  IF ForcesEscalation(diffs) THEN "ESCALATED"
  ELSE IF BrokerOrphans(diffs) # {} THEN "ADOPTED_BROKER" ELSE "SYNCED"

Results == {"SYNCED", "ADOPTED_BROKER", "ESCALATED"}

Classify(local, broker) ==
  LET diffs == Diffs(local, broker) IN [result |-> Result(diffs), diffs |-> diffs]
=============================================================================
