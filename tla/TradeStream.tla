---------------------------- MODULE TradeStream -----------------------------
(***************************************************************************)
(* What the collector's reconciliation observes: the trades at the broker, *)
(* and the canonical events that tell the collector about them.  Nothing   *)
(* here is code of the collector.  A trade has one order and one position. *)
(* Events may be lost, arrive twice, or overtake one another.              *)
(***************************************************************************)
EXTENDS Naturals, SequencesExt

CONSTANTS Trades,
          Closes,    \* do orders and positions ever go away?
          MaxFaults  \* bound on events lost, repeated or early, and the service's own

ASSUME StreamAssumption ==
  Closes \in BOOLEAN /\ MaxFaults \in Nat

VARIABLES deal,  \* the trade at the broker
          feed,  \* events on their way
          faults \* faults so far, of the events and of the service

streamVars == <<deal, feed, faults>>

DealStates == {"none", "placed", "full", "part", "closed", "cancelled"}
EventTypes == {"ORDER_ACKNOWLEDGED", "ORDER_FILLED", "POSITION_OPENED", "POSITION_CLOSED"}
Events == [type : EventTypes, trade : Trades]

StreamTypeOK ==
  /\ deal \in [Trades -> DealStates]
  /\ feed \in Seq(Events)
  /\ faults \in 0..MaxFaults

StreamInit == deal = [t \in Trades |-> "none"] /\ feed = <<>> /\ faults = 0

\* Trade t moves on, and the events that say so are sent.
Moves(t, from, to, types) ==
  /\ deal[t] \in from
  /\ deal' = [deal EXCEPT ![t] = to]
  /\ feed' = feed \o [i \in DOMAIN types |-> [type |-> types[i], trade |-> t]]
  /\ UNCHANGED faults

PlaceOrder(t) == Moves(t, {"none"}, "placed", <<"ORDER_ACKNOWLEDGED">>)
FillOrder(t) == Moves(t, {"placed"}, "full", <<"ORDER_FILLED", "POSITION_OPENED">>)

\* No event carries a new volume or the end of an order that was not filled.
ReducePosition(t) == Moves(t, {"full"}, "part", <<>>)
CancelOrder(t) == Closes /\ Moves(t, {"placed"}, "cancelled", <<>>)
ClosePosition(t) == Closes /\ Moves(t, {"full", "part"}, "closed", <<"POSITION_CLOSED">>)

Faulty == faults < MaxFaults /\ faults' = faults + 1

LoseEvent == Faulty /\ feed # <<>> /\ feed' = Tail(feed) /\ UNCHANGED deal

\* An event arrives: the oldest one, which may arrive again later, or a later one.
Arrives(e) ==
  /\ \E i \in DOMAIN feed :
       /\ e = feed[i]
       /\ \/ i = 1 /\ feed' = Tail(feed) /\ UNCHANGED faults
          \/ i = 1 /\ feed' = Append(Tail(feed), e) /\ Faulty
          \/ i > 1 /\ feed' = RemoveAt(feed, i) /\ Faulty
  /\ UNCHANGED deal

BrokerMoves ==
  \/ \E t \in Trades : PlaceOrder(t) \/ FillOrder(t) \/ ReducePosition(t)
                       \/ CancelOrder(t) \/ ClosePosition(t)
  \/ LoseEvent
=============================================================================
