------------------------ MODULE ReconciliationProofs ------------------------
(***************************************************************************)
(* The classifier for all views, and the shadow state for every set of     *)
(* trades and triggers, every number of outages, failures and crashes, and *)
(* events that are lost, repeated or overtaken.                            *)
(***************************************************************************)
EXTENDS ReconciliationProperties, SequenceTheorems, TLAPS

-----------------------------------------------------------------------------
(* The classifier *)

\* Nothing of a kind is missing, unknown or in conflict exactly when both sides
\* know the same ids with terms that agree.
LEMMA AgreementHasNoDiffs ==
  ASSUME NEW local, NEW broker
  PROVE  (\A id \in DOMAIN local \cup DOMAIN broker :
            Class(local, broker, id) = "NO_MISMATCH")
           <=> /\ DOMAIN local = DOMAIN broker
               /\ \A id \in DOMAIN local : Agree(local[id], broker[id])
<1>1. ASSUME \A id \in DOMAIN local \cup DOMAIN broker :
               Class(local, broker, id) = "NO_MISMATCH"
      PROVE  /\ DOMAIN local = DOMAIN broker
             /\ \A id \in DOMAIN local : Agree(local[id], broker[id])
  BY <1>1 DEF Class
<1>2. ASSUME /\ DOMAIN local = DOMAIN broker
             /\ \A id \in DOMAIN local : Agree(local[id], broker[id])
      PROVE  \A id \in DOMAIN local \cup DOMAIN broker :
               Class(local, broker, id) = "NO_MISMATCH"
  BY <1>2 DEF Class
<1> QED  BY <1>1, <1>2

\* The result is SYNCED exactly when every diff is a match.
LEMMA SyncedMeansMatches ==
  ASSUME NEW local, NEW broker
  PROVE  Classify(local, broker).result = "SYNCED"
           <=> \A d \in Diffs(local, broker) : d.class = "NO_MISMATCH"
<1> DEFINE diffs == Diffs(local, broker)
<1>1. \A d \in diffs : /\ d.entity \in {"POSITION", "ORDER"}
                       /\ d.class \in Classes
  BY DEF Diffs, DiffsOf, Class, Classes
<1>2. Classify(local, broker).result = Result(diffs)
  BY DEF Classify
<1>3. Result(diffs) = "SYNCED" <=> ~ForcesEscalation(diffs) /\ BrokerOrphans(diffs) = {}
  BY DEF Result
<1>4. ~ForcesEscalation(diffs) /\ BrokerOrphans(diffs) = {}
        <=> \A d \in diffs : d.class = "NO_MISMATCH"
  <2> HIDE DEF diffs
  <2> QED  BY <1>1 DEF ForcesEscalation, BrokerOrphans, Conflicts, LocalOrphans, Classes
<1> QED  BY <1>2, <1>3, <1>4

\* The diffs of a kind are all of one class exactly when all ids are.
LEMMA DiffsAreTheIds ==
  ASSUME NEW entity, NEW local, NEW broker
  PROVE  (\A d \in DiffsOf(entity, local, broker) : d.class = "NO_MISMATCH")
           <=> \A id \in DOMAIN local \cup DOMAIN broker :
                 Class(local, broker, id) = "NO_MISMATCH"
<1> DEFINE diff(id) == [entity |-> entity, id |-> id, class |-> Class(local, broker, id),
                        local |-> Terms(local, id), broker |-> Terms(broker, id)]
<1>1. DiffsOf(entity, local, broker) = {diff(id) : id \in DOMAIN local \cup DOMAIN broker}
  BY DEF DiffsOf
<1>2. \A id : diff(id).class = Class(local, broker, id)
  OBVIOUS
<1> HIDE DEF diff
<1> QED  BY <1>1, <1>2

\* SYNCED is reported exactly when both sides know the same positions and the
\* same orders, with terms that agree (classify).
THEOREM SyncedIsAgreement ==
  ASSUME NEW local, NEW broker
  PROVE  Classify(local, broker).result = "SYNCED"
           <=> /\ DOMAIN local.positions = DOMAIN broker.positions
               /\ DOMAIN local.orders = DOMAIN broker.orders
               /\ \A id \in DOMAIN local.positions :
                    Agree(local.positions[id], broker.positions[id])
               /\ \A id \in DOMAIN local.orders :
                    Agree(local.orders[id], broker.orders[id])
<1>1. (\A d \in Diffs(local, broker) : d.class = "NO_MISMATCH")
        <=> /\ \A id \in DOMAIN local.positions \cup DOMAIN broker.positions :
                 Class(local.positions, broker.positions, id) = "NO_MISMATCH"
            /\ \A id \in DOMAIN local.orders \cup DOMAIN broker.orders :
                 Class(local.orders, broker.orders, id) = "NO_MISMATCH"
  BY DiffsAreTheIds DEF Diffs
<1> QED  BY <1>1, SyncedMeansMatches, AgreementHasNoDiffs

\* A local position the broker does not have, or has with other terms, is always
\* escalated, whatever else the snapshot shows (never adopted over, never closed).
THEOREM LocalPositionIsNeverExcused ==
  ASSUME NEW local, NEW broker, NEW id \in DOMAIN local.positions,
         \/ id \notin DOMAIN broker.positions
         \/ ~Agree(local.positions[id], broker.positions[id])
  PROVE  Classify(local, broker).result = "ESCALATED"
<1> DEFINE diffs == Diffs(local, broker)
           d == [entity |-> "POSITION", id |-> id,
                 class |-> Class(local.positions, broker.positions, id),
                 local |-> Terms(local.positions, id),
                 broker |-> Terms(broker.positions, id)]
<1>1. d \in diffs
  BY DEF Diffs, DiffsOf
<1>2. d.entity = "POSITION" /\ d.class \in {"MISSING_BROKER", "CONFLICTING_STATE"}
  BY DEF Class
<1>3. d \in LocalOrphans(diffs, "POSITION") \/ d \in Conflicts(diffs)
  <2> HIDE DEF d, diffs
  <2> QED  BY <1>1, <1>2 DEF LocalOrphans, Conflicts
<1>4. ForcesEscalation(diffs)
  <2> HIDE DEF d, diffs
  <2> QED  BY <1>3 DEF ForcesEscalation
<1> QED  BY <1>4 DEF Classify, Result
-----------------------------------------------------------------------------
(* The shadow state *)

\* What a run holds between its steps, and the property.
ViewTypeOK(view) ==
  /\ \A id \in DOMAIN view.positions : id \in Trades /\ view.positions[id] \in {"full", "part"}
  /\ \A id \in DOMAIN view.orders : id \in Trades /\ view.orders[id] \in {"full", "part"}

ShadowInv ==
  /\ trigger \in AllTriggers
  /\ ViewTypeOK(snapshot)
  /\ pc = "save" => row \in RunRows
  /\ ShadowIsLatestInOrder

LEMMA SnapshotIsTyped == ViewTypeOK(BrokerView) /\ ViewTypeOK(NoView)
BY DEF ViewTypeOK, BrokerView, NoView

\* The diffs of views of trades are ones the table can hold.
LEMMA DiffsAreTyped ==
  ASSUME NEW entity \in {"POSITION", "ORDER"}, NEW local, NEW broker,
         \A id \in DOMAIN local : id \in Trades /\ local[id] \in {"full", Unknown},
         \A id \in DOMAIN broker : id \in Trades /\ broker[id] \in {"full", "part"}
  PROVE  DiffsOf(entity, local, broker) \subseteq EntityDiffs
<1> SUFFICES ASSUME NEW id \in DOMAIN local \cup DOMAIN broker
             PROVE  [entity |-> entity, id |-> id, class |-> Class(local, broker, id),
                     local |-> Terms(local, id), broker |-> Terms(broker, id)] \in EntityDiffs
  BY DEF DiffsOf
<1>1. id \in Trades
  OBVIOUS
<1>2. Class(local, broker, id) \in Classes
  BY DEF Class, Classes
<1>3. Terms(local, id) \in {"full", Unknown, Absent}
  BY DEF Terms
<1>4. Terms(broker, id) \in {"full", "part", Absent}
  BY DEF Terms
<1> QED  BY <1>1, <1>2, <1>3, <1>4 DEF EntityDiffs

\* The row of a run is one the table can hold.
LEMMA SignatureIsRow ==
  ASSUME NEW by \in AllTriggers, ViewTypeOK(snapshot)
  PROVE  Signature(by, Classify(LocalView, snapshot)) \in RunRows
<1> DEFINE diffs == Diffs(LocalView, snapshot)
<1>1. diffs \in SUBSET EntityDiffs
  <2>1. /\ \A id \in DOMAIN LocalView.positions :
              id \in Trades /\ LocalView.positions[id] \in {"full", Unknown}
        /\ \A id \in DOMAIN LocalView.orders :
              id \in Trades /\ LocalView.orders[id] \in {"full", Unknown}
    BY DEF LocalView, OpenPositions, OpenOrders
  <2>2. DiffsOf("POSITION", LocalView.positions, snapshot.positions) \subseteq EntityDiffs
    BY <2>1, DiffsAreTyped DEF ViewTypeOK
  <2>3. DiffsOf("ORDER", LocalView.orders, snapshot.orders) \subseteq EntityDiffs
    BY <2>1, DiffsAreTyped DEF ViewTypeOK
  <2> QED  BY <2>2, <2>3 DEF Diffs
<1>2. Result(diffs) \in Results
  BY DEF Result, Results
<1> QED  BY <1>1, <1>2 DEF Signature, Classify, RunRows

LEMMA ShadowInvInit == Init => ShadowInv
BY SnapshotIsTyped DEF Init, ShadowInv, AllTriggers, ShadowIsLatestInOrder, ShadowIsLatest

LEMMA ShadowInvStep == ShadowInv /\ [Next]_vars => ShadowInv'
<1> SUFFICES ASSUME ShadowInv, [Next]_vars PROVE ShadowInv'
  OBVIOUS
<1> USE DEF ShadowInv
<1>1. ASSUME NEW by \in AllTriggers, Begin(by) PROVE ShadowInv'
  <2>1. trigger' \in AllTriggers /\ ViewTypeOK(snapshot')
    BY <1>1, SnapshotIsTyped DEF Begin
  <2>2. ShadowIsLatestInOrder'
    BY <1>1 DEF Begin, tableVars, ShadowIsLatestInOrder, ShadowIsLatest, ShadowState
  <2> QED  BY <1>1, <2>1, <2>2 DEF Begin, ViewTypeOK
<1>2. ASSUME NEW by \in AllTriggers, Unavailable(by) PROVE ShadowInv'
  BY <1>2 DEF Unavailable, runVars, ViewTypeOK, ShadowIsLatestInOrder, ShadowIsLatest
<1>3. CASE Compare
  <2> DEFINE outcome == Classify(LocalView, snapshot)
             new == Signature(trigger, outcome)
  <2>1. CASE UnchangedSince(latest, new)
    <3>1. pc' = "ready" /\ answer' = outcome.result /\ Idle /\ latest' = latest
      BY <1>3, <2>1 DEF Compare, tableVars
    <3>2. ShadowState' = outcome.result
      BY <2>1, <3>1 DEF UnchangedSince, Signature, ShadowState
    <3>3. ShadowIsLatestInOrder'
      BY <3>1, <3>2 DEF ShadowIsLatestInOrder, ShadowIsLatest
    <3>4. trigger' \in AllTriggers /\ ViewTypeOK(snapshot')
      BY <3>1, SnapshotIsTyped DEF Idle, AllTriggers
    <3> QED  BY <3>1, <3>3, <3>4 DEF ViewTypeOK
  <2>2. CASE ~UnchangedSince(latest, new)
    <3>1. /\ pc' = "save" /\ row' = new
          /\ UNCHANGED <<trigger, snapshot, answer>> /\ UNCHANGED tableVars
      BY <1>3, <2>2 DEF Compare
    <3>2. row' \in RunRows
      BY <3>1, SignatureIsRow
    <3> QED
      BY <3>1, <3>2 DEF tableVars, ViewTypeOK, ShadowIsLatestInOrder, ShadowIsLatest,
                        ShadowState, RunRows
  <2> QED  BY <2>1, <2>2
<1>4. CASE Save
  <2>1. row # NoRun
    BY <1>4, ServiceAssumption DEF Save
  <2>2. ShadowIsLatestInOrder'
    BY <1>4, <2>1 DEF Save, InsertRun, ShadowIsLatestInOrder, ShadowIsLatest, ShadowState
  <2>3. trigger' \in AllTriggers /\ ViewTypeOK(snapshot')
    BY <1>4, SnapshotIsTyped DEF Save, Idle, AllTriggers
  <2> QED  BY <1>4, <2>2, <2>3 DEF Save, ViewTypeOK
<1>5. CASE Fail \/ Crash
  <2>1. Idle /\ answer' = "NONE" /\ pc' # "save"
    BY <1>5 DEF Fail, Crash
  <2>2. trigger' \in AllTriggers /\ ViewTypeOK(snapshot')
    BY <2>1, SnapshotIsTyped DEF Idle, AllTriggers
  <2> QED  BY <2>1, <2>2 DEF ViewTypeOK, ShadowIsLatestInOrder, ShadowIsLatest
<1>6. CASE ProjectStep \/ BrokerStep \/ UNCHANGED vars
  <2>1. UNCHANGED <<pc, runVars, answer, tableVars>>
    BY <1>6 DEF ProjectStep, BrokerStep, vars
  <2> QED
    BY <2>1 DEF runVars, tableVars, ViewTypeOK, ShadowIsLatestInOrder, ShadowIsLatest,
                ShadowState
<1> QED  BY <1>1, <1>2, <1>3, <1>4, <1>5, <1>6 DEF Next, ServiceStep

\* As long as no outcome comes back under its trigger and the clock does not go
\* back, the shadow state is the result the last completed run reported
\* (shadow_state, run).
THEOREM ShadowIsLatestInOrderHolds == Spec => []ShadowIsLatestInOrder
<1>1. ShadowInv => ShadowIsLatestInOrder
  BY DEF ShadowInv
<1> QED  BY <1>1, ShadowInvInit, ShadowInvStep, PTL DEF Spec

-----------------------------------------------------------------------------
(* The feed and the derived tables *)

\* The events of a trade are sent, and projected, in this order.
Rank(type) ==
  CASE type = "ORDER_ACKNOWLEDGED" -> 1
    [] type = "ORDER_FILLED" -> 2
    [] type = "POSITION_OPENED" -> 3
    [] type = "POSITION_CLOSED" -> 4

\* The rank of the last event sent of a trade, and of the last one projected.
Sent(t) ==
  CASE deal[t] = "none" -> 0
    [] deal[t] \in {"placed", "cancelled"} -> 1
    [] deal[t] \in {"full", "part"} -> 3
    [] deal[t] = "closed" -> 4

Projected(t) ==
  CASE orders[t] = "none" -> 0
    [] orders[t] = "PLACED" -> 1
    [] orders[t] = "FILLED" /\ positions[t] = "none" -> 2
    [] orders[t] = "FILLED" /\ positions[t] = "OPEN" -> 3
    [] orders[t] = "FILLED" /\ positions[t] = "CLOSED" -> 4

\* Of every trade, the feed holds exactly the events sent and not yet projected, in
\* their order: what an event stream without a fault is.
InOrder(t) ==
  \A i, j \in DOMAIN feed :
    i < j /\ feed[i].trade = t /\ feed[j].trade = t => Rank(feed[i].type) < Rank(feed[j].type)

OnTheWay(t) ==
  /\ \A i \in DOMAIN feed :
       feed[i].trade = t => Projected(t) < Rank(feed[i].type) /\ Rank(feed[i].type) <= Sent(t)
  /\ \A r \in 1..4 : Projected(t) < r /\ r <= Sent(t) =>
       \E i \in DOMAIN feed : feed[i].trade = t /\ Rank(feed[i].type) = r

TradeInv(t) ==
  /\ positions[t] # "none" => orders[t] = "FILLED"
  /\ Projected(t) <= Sent(t)
  /\ InOrder(t) /\ OnTheWay(t)

FeedInv ==
  /\ StreamTypeOK /\ DerivedTypeOK
  /\ faults = 0 => \A t \in Trades : TradeInv(t)

LEMMA RanksAreSmall ==
  /\ \A type \in EventTypes : Rank(type) \in 1..4
  /\ StreamTypeOK => \A t \in Trades : Sent(t) \in 0..4
<1>1. \A type \in EventTypes : Rank(type) \in 1..4
  BY DEF EventTypes, Rank
<1>2. ASSUME StreamTypeOK, NEW t \in Trades PROVE Sent(t) \in 0..4
  BY <1>2 DEF StreamTypeOK, DealStates, Sent
<1> QED  BY <1>1, <1>2

\* The broker moves a trade on, and sends the events next in order.
LEMMA MoveKeepsFeed ==
  ASSUME FeedInv, UNCHANGED derivedVars, NEW t \in Trades,
         NEW from, NEW to \in DealStates, NEW types \in Seq(EventTypes),
         Moves(t, from, to, types),
         Sent(t)' = Sent(t) + Len(types),
         \A k \in 1..Len(types) : Rank(types[k]) = Sent(t) + k
  PROVE  FeedInv'
<1> DEFINE more == [i \in DOMAIN types |-> [type |-> types[i], trade |-> t]]
<1>0. StreamTypeOK /\ DerivedTypeOK
  BY DEF FeedInv
<1>1. /\ more \in Seq(Events) /\ Len(more) = Len(types)
      /\ \A k \in 1..Len(types) : more[k].type = types[k] /\ more[k].trade = t
  <2>1. Len(types) \in Nat /\ DOMAIN types = 1..Len(types)
    OBVIOUS
  <2>2. more \in [1..Len(types) -> Events]
    BY <2>1 DEF Events
  <2> HIDE DEF more
  <2>3. more \in Seq(Events) /\ Len(more) = Len(types)
    BY <2>1, <2>2
  <2> QED  BY <2>1, <2>3 DEF more
<1>2. /\ feed' = feed \o more /\ UNCHANGED faults
      /\ deal' = [deal EXCEPT ![t] = to]
  BY DEF Moves
<1> HIDE DEF more
<1>3. /\ feed' \in Seq(Events) /\ Len(feed') = Len(feed) + Len(types)
      /\ Len(feed) \in Nat /\ Len(types) \in Nat
      /\ \A i \in 1..Len(feed) : feed'[i] = feed[i]
      /\ \A k \in 1..Len(types) : feed'[Len(feed) + k] = more[k]
  BY <1>0, <1>1, <1>2 DEF StreamTypeOK
<1>4. \A i \in 1..Len(feed') :
        i \in 1..Len(feed) \/ \E k \in 1..Len(types) : i = Len(feed) + k
  <2> SUFFICES ASSUME NEW i \in 1..Len(feed'), i \notin 1..Len(feed)
               PROVE  \E k \in 1..Len(types) : i = Len(feed) + k
    OBVIOUS
  <2>1. i - Len(feed) \in 1..Len(types) /\ i = Len(feed) + (i - Len(feed))
    BY <1>3
  <2> QED  BY <2>1
<1>5. StreamTypeOK' /\ DerivedTypeOK'
  BY <1>0, <1>2, <1>3 DEF StreamTypeOK, DerivedTypeOK, derivedVars
<1>6. DOMAIN feed = 1..Len(feed) /\ DOMAIN feed' = 1..Len(feed')
  BY <1>0, <1>3 DEF StreamTypeOK
<1>7. \A u \in Trades :
        /\ Projected(u)' = Projected(u) /\ positions'[u] = positions[u] /\ orders'[u] = orders[u]
        /\ Sent(u) \in 0..4
  BY <1>0, RanksAreSmall DEF derivedVars, Projected
<1>8. ASSUME NEW u \in Trades \ {t}, faults = 0 PROVE TradeInv(u)'
  <2>1. TradeInv(u)
    BY <1>8 DEF FeedInv
  <2>2. Sent(u)' = Sent(u)
    BY <1>0, <1>2 DEF StreamTypeOK, Sent
  <2>3. ASSUME NEW i \in 1..Len(feed'), feed'[i].trade = u PROVE i \in 1..Len(feed)
    <3>1. ASSUME NEW k \in 1..Len(types), i = Len(feed) + k PROVE FALSE
      <4>1. feed'[i].trade = t
        BY <1>1, <1>3, <3>1
      <4> QED  BY <2>3, <4>1
    <3> QED  BY <1>4, <3>1
  <2>4. InOrder(u)'
    BY <1>3, <1>6, <2>1, <2>3 DEF TradeInv, InOrder
  <2>5. \A i \in DOMAIN feed' : feed'[i].trade = u =>
          Projected(u)' < Rank(feed'[i].type) /\ Rank(feed'[i].type) <= Sent(u)'
    BY <1>3, <1>6, <1>7, <2>1, <2>2, <2>3 DEF TradeInv, OnTheWay
  <2>6. ASSUME NEW r \in 1..4, Projected(u) < r, r <= Sent(u)
        PROVE  \E i \in DOMAIN feed' : feed'[i].trade = u /\ Rank(feed'[i].type) = r
    <3>1. PICK i \in DOMAIN feed : feed[i].trade = u /\ Rank(feed[i].type) = r
      BY <2>1, <2>6 DEF TradeInv, OnTheWay
    <3>2. i \in DOMAIN feed' /\ feed'[i] = feed[i]
      BY <1>3, <1>6
    <3> QED  BY <3>1, <3>2
  <2> QED  BY <1>7, <2>1, <2>2, <2>4, <2>5, <2>6 DEF TradeInv, OnTheWay
<1>9. ASSUME faults = 0 PROVE TradeInv(t)'
  <2>0. TradeInv(t) /\ Projected(t) \in 0..4 /\ Sent(t) \in 0..4
    BY <1>0, <1>7, <1>9 DEF FeedInv, Projected, DerivedTypeOK, TradeInv
  <2>1. \A k \in 1..Len(types) :
          /\ feed'[Len(feed) + k].trade = t
          /\ Rank(feed'[Len(feed) + k].type) = Sent(t) + k
    BY <1>1, <1>3
  <2>2. \A i \in 1..Len(feed) :
          /\ Rank(feed'[i].type) \in 1..4 /\ feed'[i] = feed[i]
          /\ feed[i].trade = t =>
               Projected(t) < Rank(feed[i].type) /\ Rank(feed[i].type) <= Sent(t)
    <3>1. \A i \in 1..Len(feed) : feed[i].type \in EventTypes
      <4>1. \A i \in 1..Len(feed) : feed[i] \in Events
        BY <1>0, ElementOfSeq DEF StreamTypeOK
      <4> QED  BY <4>1 DEF Events
    <3> QED  BY <1>3, <1>6, <2>0, <3>1, RanksAreSmall DEF TradeInv, OnTheWay
  <2>3. InOrder(t)'
    <3> SUFFICES ASSUME NEW i \in 1..Len(feed'), NEW j \in 1..Len(feed'), i < j,
                        feed'[i].trade = t, feed'[j].trade = t
                 PROVE  Rank(feed'[i].type) < Rank(feed'[j].type)
      BY <1>6 DEF InOrder
    <3>1. CASE j \in 1..Len(feed)
      <4>1. i \in 1..Len(feed)
        BY <1>3, <3>1
      <4> QED  BY <1>3, <1>6, <2>0, <3>1, <4>1 DEF TradeInv, InOrder
    <3>2. ASSUME NEW k \in 1..Len(types), j = Len(feed) + k
          PROVE  Rank(feed'[i].type) < Rank(feed'[j].type)
      <4>1. CASE i \in 1..Len(feed)
        <5>1. Rank(feed'[i].type) \in 1..4 /\ Rank(feed'[i].type) <= Sent(t)
          BY <2>2, <4>1
        <5>2. Rank(feed'[j].type) = Sent(t) + k /\ k \in Nat /\ k > 0
          BY <1>3, <2>1, <3>2
        <5> QED  BY <2>0, <5>1, <5>2
      <4>2. ASSUME NEW l \in 1..Len(types), i = Len(feed) + l
            PROVE  Rank(feed'[i].type) < Rank(feed'[j].type)
        BY <1>3, <2>0, <2>1, <3>2, <4>2
      <4> QED  BY <1>4, <4>1, <4>2
    <3> QED  BY <1>4, <3>1, <3>2
  <2>4. ASSUME NEW i \in 1..Len(feed'), feed'[i].trade = t
        PROVE  Projected(t) < Rank(feed'[i].type) /\ Rank(feed'[i].type) <= Sent(t) + Len(types)
    <3>1. CASE i \in 1..Len(feed)
      BY <1>3, <2>0, <2>2, <2>4, <3>1
    <3>2. ASSUME NEW k \in 1..Len(types), i = Len(feed) + k
          PROVE  Projected(t) < Rank(feed'[i].type)
                   /\ Rank(feed'[i].type) <= Sent(t) + Len(types)
      <4>1. k \in Nat /\ k >= 1 /\ k <= Len(types) /\ Len(types) \in Nat
        BY <1>3
      <4>2. Rank(feed'[i].type) = Sent(t) + k
        BY <2>1, <3>2
      <4>3. Projected(t) <= Sent(t) /\ Projected(t) \in Nat /\ Sent(t) \in Nat
        BY <2>0 DEF TradeInv
      <4> QED  BY <4>1, <4>2, <4>3
    <3> QED  BY <1>4, <3>1, <3>2
  <2>5. ASSUME NEW r \in 1..4, Projected(t) < r, r <= Sent(t) + Len(types)
        PROVE  \E i \in 1..Len(feed') : feed'[i].trade = t /\ Rank(feed'[i].type) = r
    <3>1. CASE r <= Sent(t)
      <4>1. PICK i \in DOMAIN feed : feed[i].trade = t /\ Rank(feed[i].type) = r
        BY <2>0, <2>5, <3>1 DEF TradeInv, OnTheWay
      <4>2. i \in 1..Len(feed') /\ feed'[i] = feed[i]
        BY <1>3, <1>6
      <4> QED  BY <4>1, <4>2
    <3>2. CASE Sent(t) < r
      <4>1. r - Sent(t) \in 1..Len(types) /\ Sent(t) + (r - Sent(t)) = r
        BY <1>3, <2>0, <2>5, <3>2
      <4>2. Len(feed) + (r - Sent(t)) \in 1..Len(feed')
        BY <1>3, <4>1
      <4> QED  BY <2>1, <4>1, <4>2
    <3> QED  BY <2>0, <3>1, <3>2
  <2>6. OnTheWay(t)'
    BY <1>6, <1>7, <2>4, <2>5 DEF OnTheWay
  <2>7. Projected(t)' <= Sent(t)'
    BY <1>3, <1>7, <2>0 DEF TradeInv
  <2> QED  BY <1>7, <2>0, <2>3, <2>6, <2>7 DEF TradeInv
<1> QED  BY <1>2, <1>5, <1>8, <1>9 DEF FeedInv

\* The events on their way stay typed, wherever one leaves the feed or comes back.
LEMMA ArrivesIsTyped ==
  ASSUME StreamTypeOK, NEW e \in Events, Arrives(e)
  PROVE  StreamTypeOK'
<1>1. PICK i \in DOMAIN feed :
        /\ e = feed[i]
        /\ \/ i = 1 /\ feed' = Tail(feed) /\ UNCHANGED faults
           \/ i = 1 /\ feed' = Append(Tail(feed), e) /\ Faulty
           \/ i > 1 /\ feed' = RemoveAt(feed, i) /\ Faulty
  BY DEF Arrives
<1>2. feed \in Seq(Events) /\ feed # <<>> /\ i \in 1..Len(feed)
  BY <1>1 DEF StreamTypeOK
<1>3. Tail(feed) \in Seq(Events)
  BY <1>2
<1>4. RemoveAt(feed, i) \in Seq(Events)
  <2>1. SubSeq(feed, 1, i - 1) \in Seq(Events) /\ SubSeq(feed, i + 1, Len(feed)) \in Seq(Events)
    BY <1>2
  <2> QED  BY <2>1 DEF RemoveAt
<1>5. faults' \in 0..MaxFaults
  BY <1>1, StreamAssumption DEF Faulty, StreamTypeOK
<1>6. Append(Tail(feed), e) \in Seq(Events)
  BY <1>3
<1>7. feed' \in Seq(Events)
  BY <1>1, <1>3, <1>4, <1>6
<1> QED  BY <1>5, <1>7 DEF Arrives, StreamTypeOK

\* The oldest event is the next one of its trade, and is what the tables lack.
LEMMA ProjectKeepsFeed ==
  ASSUME FeedInv, Project
  PROVE  FeedInv'
<1>0. StreamTypeOK /\ DerivedTypeOK
  BY DEF FeedInv
<1>1. PICK e \in Events :
        /\ Arrives(e)
        /\ orders' = [orders EXCEPT ![e.trade] = OrderAfter(orders[e.trade], e.type)]
        /\ positions' = [positions EXCEPT ![e.trade] = PositionAfter(positions[e.trade], e.type)]
  BY DEF Project
<1>2. e.trade \in Trades /\ e.type \in EventTypes
  BY DEF Events
<1>3. StreamTypeOK' /\ DerivedTypeOK'
  BY <1>0, <1>1, <1>2, ArrivesIsTyped DEF DerivedTypeOK, OrderAfter, PositionAfter
<1>4. ASSUME faults' = 0, NEW u \in Trades PROVE TradeInv(u)'
  <2> DEFINE t == e.trade
             r == Rank(e.type)
  <2>1. /\ faults = 0 /\ feed' = Tail(feed) /\ feed # <<>> /\ e = feed[1] /\ deal' = deal
    BY <1>0, <1>1, <1>4 DEF Arrives, Faulty, StreamTypeOK
  <2>2. /\ Len(feed) \in Nat \ {0} /\ Len(feed') = Len(feed) - 1
        /\ DOMAIN feed = 1..Len(feed) /\ DOMAIN feed' = 1..Len(feed')
        /\ \A i \in 1..Len(feed') : i + 1 \in 1..Len(feed) /\ feed'[i] = feed[i + 1]
    BY <1>0, <2>1 DEF StreamTypeOK
  <2>3. \A i \in 2..Len(feed) : i - 1 \in 1..Len(feed') /\ feed'[i - 1] = feed[i]
    BY <1>0, <2>1, <2>2 DEF StreamTypeOK
  <2>4. TradeInv(u) /\ TradeInv(t)
    BY <1>2, <2>1 DEF FeedInv
  <2>5. Sent(u)' = Sent(u) /\ Sent(u) \in 0..4 /\ Projected(u) \in 0..4
    <3>1. Sent(u)' = Sent(u)
      BY <2>1 DEF Sent
    <3>2. Projected(u) \in 0..4
      BY <1>0, <2>4 DEF Projected, TradeInv, DerivedTypeOK
    <3> QED  BY <1>0, <3>1, <3>2, RanksAreSmall
  <2>6. \A i \in 1..Len(feed) : Rank(feed[i].type) \in 1..4
    <3>1. \A i \in 1..Len(feed) : feed[i] \in Events
      BY <1>0, ElementOfSeq DEF StreamTypeOK
    <3> QED  BY <3>1, RanksAreSmall DEF Events
  <2>7. InOrder(u)'
    <3> SUFFICES ASSUME NEW i \in 1..Len(feed'), NEW j \in 1..Len(feed'), i < j,
                        feed'[i].trade = u, feed'[j].trade = u
                 PROVE  Rank(feed'[i].type) < Rank(feed'[j].type)
      BY <2>2 DEF InOrder
    <3>1. i + 1 < j + 1
      OBVIOUS
    <3> QED  BY <2>2, <2>4, <3>1 DEF TradeInv, InOrder
  <2>8. CASE u # t
    <3>1. orders'[u] = orders[u] /\ positions'[u] = positions[u]
      BY <1>0, <1>1, <2>8 DEF DerivedTypeOK
    <3>2. Projected(u)' = Projected(u)
      BY <3>1 DEF Projected
    <3>3. \A i \in DOMAIN feed' : feed'[i].trade = u =>
            Projected(u) < Rank(feed'[i].type) /\ Rank(feed'[i].type) <= Sent(u)
      <4> SUFFICES ASSUME NEW i \in 1..Len(feed'), feed'[i].trade = u
                   PROVE  Projected(u) < Rank(feed'[i].type) /\ Rank(feed'[i].type) <= Sent(u)
        BY <2>2
      <4>1. i + 1 \in DOMAIN feed /\ feed'[i] = feed[i + 1]
        BY <2>2
      <4> QED  BY <2>4, <4>1 DEF TradeInv, OnTheWay
    <3>4. ASSUME NEW n \in 1..4, Projected(u) < n, n <= Sent(u)
          PROVE  \E i \in DOMAIN feed' : feed'[i].trade = u /\ Rank(feed'[i].type) = n
      <4>1. PICK i \in DOMAIN feed : feed[i].trade = u /\ Rank(feed[i].type) = n
        BY <2>4, <3>4 DEF TradeInv, OnTheWay
      <4>2. i \in 2..Len(feed)
        BY <2>1, <2>2, <2>8, <4>1
      <4> QED  BY <2>2, <2>3, <4>1, <4>2
    <3> QED  BY <2>4, <2>5, <2>7, <3>1, <3>2, <3>3, <3>4 DEF TradeInv, OnTheWay
  <2>9. CASE u = t
    <3>1. r \in 1..4 /\ Projected(u) < r /\ r <= Sent(u)
      BY <1>2, <2>1, <2>2, <2>4, <2>9, RanksAreSmall DEF TradeInv, OnTheWay
    <3>2. r = Projected(u) + 1
      <4>1. SUFFICES ASSUME Projected(u) + 1 < r PROVE FALSE
        BY <2>5, <3>1
      <4>2. PICK i \in DOMAIN feed : feed[i].trade = u /\ Rank(feed[i].type) = Projected(u) + 1
        BY <2>4, <2>5, <3>1, <4>1 DEF TradeInv, OnTheWay
      <4>3. i \in 1..Len(feed) /\ i # 1
        BY <2>1, <2>2, <4>1, <4>2, <2>5
      <4>4. r < Rank(feed[i].type)
        BY <2>1, <2>2, <2>4, <2>9, <4>2, <4>3 DEF TradeInv, InOrder
      <4> QED  BY <2>5, <3>1, <4>1, <4>2, <4>4
    <3>3. /\ orders'[u] = OrderAfter(orders[u], e.type)
          /\ positions'[u] = PositionAfter(positions[u], e.type)
      BY <1>0, <1>1, <2>9 DEF DerivedTypeOK
    <3>4. /\ Projected(u)' = r
          /\ positions'[u] # "none" => orders'[u] = "FILLED"
      BY <1>0, <1>2, <2>4, <3>2, <3>3
      DEF Projected, Rank, OrderAfter, PositionAfter, TradeInv, DerivedTypeOK, EventTypes
    <3>5. \A i \in DOMAIN feed' : feed'[i].trade = u =>
            r < Rank(feed'[i].type) /\ Rank(feed'[i].type) <= Sent(u)
      <4> SUFFICES ASSUME NEW i \in 1..Len(feed'), feed'[i].trade = u
                   PROVE  r < Rank(feed'[i].type) /\ Rank(feed'[i].type) <= Sent(u)
        BY <2>2
      <4>1. i + 1 \in 1..Len(feed) /\ feed'[i] = feed[i + 1] /\ 1 < i + 1 /\ 1 \in 1..Len(feed)
        BY <2>2
      <4> QED  BY <2>1, <2>2, <2>4, <2>9, <4>1 DEF TradeInv, InOrder, OnTheWay
    <3>6. ASSUME NEW n \in 1..4, r < n, n <= Sent(u)
          PROVE  \E i \in DOMAIN feed' : feed'[i].trade = u /\ Rank(feed'[i].type) = n
      <4>1. PICK i \in DOMAIN feed : feed[i].trade = u /\ Rank(feed[i].type) = n
        BY <2>4, <2>5, <3>1, <3>6 DEF TradeInv, OnTheWay
      <4>2. i \in 2..Len(feed)
        BY <2>1, <2>2, <3>1, <3>6, <4>1
      <4> QED  BY <2>2, <2>3, <4>1, <4>2
    <3> QED  BY <2>5, <2>7, <3>1, <3>4, <3>5, <3>6 DEF TradeInv, OnTheWay
  <2> QED  BY <2>8, <2>9
<1> QED  BY <1>3, <1>4 DEF FeedInv

\* Every other step of the broker and of the service: a fault is counted, and what
\* leaves the feed as it is keeps the invariant.
LEMMA BrokerKeepsFeed ==
  ASSUME FeedInv, BrokerStep
  PROVE  FeedInv'
<1>0. StreamTypeOK /\ DerivedTypeOK /\ UNCHANGED derivedVars
  BY DEF FeedInv, BrokerStep
<1>1. ASSUME NEW t \in Trades, PlaceOrder(t) PROVE FeedInv'
  <2> DEFINE types == <<"ORDER_ACKNOWLEDGED">>
  <2>1. Sent(t) = 0 /\ Sent(t)' = 1
    BY <1>0, <1>1 DEF PlaceOrder, Moves, Sent, StreamTypeOK
  <2>2. types \in Seq(EventTypes) /\ Len(types) = 1
    BY DEF EventTypes
  <2>3. \A k \in 1..1 : Rank(types[k]) = 0 + k
    BY DEF Rank
  <2>4. Moves(t, {"none"}, "placed", types) /\ "placed" \in DealStates
    BY <1>1 DEF PlaceOrder, DealStates
  <2> HIDE DEF types
  <2>5. /\ Sent(t)' = Sent(t) + Len(types)
        /\ \A k \in 1..Len(types) : Rank(types[k]) = Sent(t) + k
    BY <2>1, <2>2, <2>3
  <2> QED  BY <1>0, <2>2, <2>4, <2>5, MoveKeepsFeed
<1>2. ASSUME NEW t \in Trades, FillOrder(t) PROVE FeedInv'
  <2> DEFINE types == <<"ORDER_FILLED", "POSITION_OPENED">>
  <2>1. Sent(t) = 1 /\ Sent(t)' = 3
    BY <1>0, <1>2 DEF FillOrder, Moves, Sent, StreamTypeOK
  <2>2. types \in Seq(EventTypes) /\ Len(types) = 2
    BY DEF EventTypes
  <2>3. \A k \in 1..2 : Rank(types[k]) = 1 + k
    BY DEF Rank
  <2>4. Moves(t, {"placed"}, "full", types) /\ "full" \in DealStates
    BY <1>2 DEF FillOrder, DealStates
  <2> HIDE DEF types
  <2>5. /\ Sent(t)' = Sent(t) + Len(types)
        /\ \A k \in 1..Len(types) : Rank(types[k]) = Sent(t) + k
    BY <2>1, <2>2, <2>3
  <2> QED  BY <1>0, <2>2, <2>4, <2>5, MoveKeepsFeed
<1>3. ASSUME NEW t \in Trades, ReducePosition(t) PROVE FeedInv'
  <2> DEFINE types == <<>>
  <2>1. Sent(t) = 3 /\ Sent(t)' = 3
    BY <1>0, <1>3 DEF ReducePosition, Moves, Sent, StreamTypeOK
  <2>2. types \in Seq(EventTypes) /\ Len(types) = 0
    BY DEF EventTypes
  <2>3. \A k \in 1..0 : Rank(types[k]) = 3 + k
    BY DEF Rank
  <2>4. Moves(t, {"full"}, "part", types) /\ "part" \in DealStates
    BY <1>3 DEF ReducePosition, DealStates
  <2> HIDE DEF types
  <2>5. /\ Sent(t)' = Sent(t) + Len(types)
        /\ \A k \in 1..Len(types) : Rank(types[k]) = Sent(t) + k
    BY <2>1, <2>2, <2>3
  <2> QED  BY <1>0, <2>2, <2>4, <2>5, MoveKeepsFeed
<1>4. ASSUME NEW t \in Trades, CancelOrder(t) PROVE FeedInv'
  <2> DEFINE types == <<>>
  <2>1. Sent(t) = 1 /\ Sent(t)' = 1
    BY <1>0, <1>4 DEF CancelOrder, Moves, Sent, StreamTypeOK
  <2>2. types \in Seq(EventTypes) /\ Len(types) = 0
    BY DEF EventTypes
  <2>3. \A k \in 1..0 : Rank(types[k]) = 1 + k
    BY DEF Rank
  <2>4. Moves(t, {"placed"}, "cancelled", types) /\ "cancelled" \in DealStates
    BY <1>4 DEF CancelOrder, DealStates
  <2> HIDE DEF types
  <2>5. /\ Sent(t)' = Sent(t) + Len(types)
        /\ \A k \in 1..Len(types) : Rank(types[k]) = Sent(t) + k
    BY <2>1, <2>2, <2>3
  <2> QED  BY <1>0, <2>2, <2>4, <2>5, MoveKeepsFeed
<1>5. ASSUME NEW t \in Trades, ClosePosition(t) PROVE FeedInv'
  <2> DEFINE types == <<"POSITION_CLOSED">>
  <2>1. Sent(t) = 3 /\ Sent(t)' = 4
    BY <1>0, <1>5 DEF ClosePosition, Moves, Sent, StreamTypeOK
  <2>2. types \in Seq(EventTypes) /\ Len(types) = 1
    BY DEF EventTypes
  <2>3. \A k \in 1..1 : Rank(types[k]) = 3 + k
    BY DEF Rank
  <2>4. Moves(t, {"full", "part"}, "closed", types) /\ "closed" \in DealStates
    BY <1>5 DEF ClosePosition, DealStates
  <2> HIDE DEF types
  <2>5. /\ Sent(t)' = Sent(t) + Len(types)
        /\ \A k \in 1..Len(types) : Rank(types[k]) = Sent(t) + k
    BY <2>1, <2>2, <2>3
  <2> QED  BY <1>0, <2>2, <2>4, <2>5, MoveKeepsFeed
<1>6. CASE LoseEvent
  <2>1. StreamTypeOK' /\ faults' # 0
    BY <1>0, <1>6, StreamAssumption DEF LoseEvent, Faulty, StreamTypeOK
  <2> QED  BY <1>0, <2>1 DEF FeedInv, DerivedTypeOK, derivedVars
<1> QED  BY <1>1, <1>2, <1>3, <1>4, <1>5, <1>6 DEF BrokerStep, BrokerMoves

LEMMA FeedInvIsInvariant == Spec => []FeedInv
<1>1. Init => FeedInv
  BY StreamAssumption
  DEF Init, StreamInit, DerivedInit, FeedInv, StreamTypeOK, DerivedTypeOK, DealStates,
      TradeInv, InOrder, OnTheWay, Projected, Sent
<1>2. FeedInv /\ [Next]_vars => FeedInv'
  <2> SUFFICES ASSUME FeedInv, [Next]_vars PROVE FeedInv'
    OBVIOUS
  <2>1. CASE UNCHANGED worldVars
    <3>1. UNCHANGED <<deal, feed, faults, orders, positions>>
      BY <2>1 DEF worldVars, streamVars, derivedVars
    <3>2. \A t \in Trades : Sent(t)' = Sent(t) /\ Projected(t)' = Projected(t)
      BY <3>1 DEF Sent, Projected
    <3>3. \A t \in Trades : TradeInv(t) => TradeInv(t)'
      BY <3>1, <3>2 DEF TradeInv, InOrder, OnTheWay
    <3> QED  BY <3>1, <3>3 DEF FeedInv, StreamTypeOK, DerivedTypeOK
  <2>2. CASE Trouble /\ UNCHANGED derivedVars
    <3>1. StreamTypeOK' /\ faults' # 0
      BY <2>2, StreamAssumption DEF Trouble, Faulty, FeedInv, StreamTypeOK
    <3> QED  BY <2>2, <3>1 DEF FeedInv, DerivedTypeOK, derivedVars
  <2>3. CASE Project
    BY <2>3, ProjectKeepsFeed
  <2>4. CASE BrokerStep
    BY <2>4, BrokerKeepsFeed
  <2> QED
    BY <2>1, <2>2, <2>3, <2>4
    DEF Next, ServiceStep, Begin, Unavailable, Compare, Save, InsertRun, Fail, Crash,
        ProjectStep, worldVars, vars
<1> QED  BY <1>1, <1>2, PTL DEF Spec

\* Once every event has arrived, and none was lost, repeated or early, the comparison
\* of the derived tables with the broker finds no mismatch, on every trade that no
\* unreported change happened to: no false alarm, for any number of trades.
THEOREM SettledIsSyncedHolds == Spec => []SettledIsSynced
<1>1. FeedInv => SettledIsSynced
  <2> SUFFICES ASSUME FeedInv, feed = <<>>, faults = 0,
                      \A t \in Trades : deal[t] \notin {"part", "cancelled"}
               PROVE  Classify(LocalView, BrokerView).result = "SYNCED"
    BY DEF SettledIsSynced
  <2>1. ASSUME NEW t \in Trades
        PROVE  /\ positions[t] = "OPEN" <=> deal[t] = "full"
               /\ orders[t] \notin {"none", "FILLED"} <=> deal[t] = "placed"
    <3>1. TradeInv(t) /\ Projected(t) \in 0..4 /\ Sent(t) \in 0..4
      BY RanksAreSmall DEF FeedInv, Projected, TradeInv, DerivedTypeOK
    <3>2. ~ (Projected(t) < Sent(t))
      <4> SUFFICES ASSUME Projected(t) < Sent(t) PROVE FALSE
        OBVIOUS
      <4>1. \E i \in DOMAIN feed : feed[i].trade = t /\ Rank(feed[i].type) = Sent(t)
        BY <3>1 DEF TradeInv, OnTheWay
      <4> QED  BY <4>1
    <3>3. Projected(t) = Sent(t)
      BY <3>1, <3>2 DEF TradeInv
    <3> QED
      BY <3>1, <3>3 DEF FeedInv, StreamTypeOK, DealStates, DerivedTypeOK, TradeInv, Projected, Sent
  <2>2. /\ DOMAIN LocalView.positions = DOMAIN BrokerView.positions
        /\ DOMAIN LocalView.orders = DOMAIN BrokerView.orders
    BY <2>1 DEF LocalView, BrokerView, OpenPositions, OpenOrders
  <2>3. \A t \in DOMAIN LocalView.positions :
          Agree(LocalView.positions[t], BrokerView.positions[t])
    BY <2>1, <2>2 DEF LocalView, BrokerView, OpenPositions, Agree
  <2>4. \A t \in DOMAIN LocalView.orders :
          Agree(LocalView.orders[t], BrokerView.orders[t])
    BY <2>1, <2>2 DEF LocalView, BrokerView, OpenOrders, Agree
  <2> QED  BY <2>2, <2>3, <2>4, SyncedIsAgreement
<1> QED  BY <1>1, FeedInvIsInvariant, PTL

-----------------------------------------------------------------------------
(* Types *)

\* What a run shows and records keeps its type: every row is one that the
\* comparison of two views of trades can yield.
THEOREM TypeOKHolds == Spec => []TypeOK
<1>1. Init /\ FeedInv => TypeOK
  BY DEF Init, FeedInv, TypeOK, AllTriggers
<1>2. FeedInv' /\ ShadowInv /\ TypeOK /\ [Next]_vars => TypeOK'
  <2> SUFFICES ASSUME FeedInv', ShadowInv, TypeOK, [Next]_vars PROVE TypeOK'
    OBVIOUS
  <2>0. StreamTypeOK' /\ DerivedTypeOK'
    BY DEF FeedInv
  <2>1. ASSUME NEW by \in AllTriggers, Begin(by) \/ Unavailable(by) PROVE TypeOK'
    BY <2>0, <2>1 DEF TypeOK, Begin, Unavailable, tableVars, runVars
  <2>2. CASE Compare
    <3> DEFINE outcome == Classify(LocalView, snapshot)
    <3>1. outcome.result \in Results
      BY DEF Classify, Result, Results
    <3>2. Signature(trigger, outcome) \in RunRows
      BY SignatureIsRow DEF ShadowInv
    <3> HIDE DEF outcome
    <3>3. pc' \in {"ready", "save"} /\ answer' \in Results \cup {"NONE"} /\ UNCHANGED tableVars
      BY <2>2, <3>1 DEF Compare, TypeOK, outcome
    <3>4. trigger' \in AllTriggers /\ row' \in RunRows \cup {NoRun}
      BY <2>2, <3>2 DEF Compare, Idle, AllTriggers, TypeOK, outcome
    <3> QED  BY <2>0, <3>3, <3>4 DEF TypeOK, tableVars
  <2>3. CASE Save
    <3>1. row \in RunRows /\ row.result \in Results
      BY <2>3 DEF Save, ShadowInv, RunRows
    <3>2. /\ recorded' \subseteq RunRows /\ latest' \in RunRows \cup {NoRun}
          /\ disorder' \in BOOLEAN
      BY <2>3, <3>1 DEF Save, InsertRun, TypeOK
    <3> QED  BY <2>0, <2>3, <3>1, <3>2 DEF Save, Idle, TypeOK, AllTriggers
  <2>4. CASE Fail \/ Crash
    BY <2>0, <2>4 DEF Fail, Crash, Idle, TypeOK, AllTriggers, tableVars
  <2>5. CASE ProjectStep \/ BrokerStep \/ UNCHANGED vars
    BY <2>0, <2>5 DEF ProjectStep, BrokerStep, vars, runVars, tableVars, TypeOK
  <2> QED  BY <2>1, <2>2, <2>3, <2>4, <2>5 DEF Next, ServiceStep
<1> QED  BY <1>1, <1>2, FeedInvIsInvariant, ShadowInvInit, ShadowInvStep, PTL DEF Spec
=============================================================================
