---------------------------- MODULE DerivedState ----------------------------
(***************************************************************************)
(* The derived tables the reconciliation compares with the broker          *)
(* (collector/persistence/projector.py, records.py).  An event is appended *)
(* and projected in one transaction, and projected again if it is a        *)
(* duplicate: insert_event_with_derived does not look at the result of the *)
(* insert.  The tables hold a trade's state by its row; the trades table,  *)
(* which nothing reads here, is left out.                                  *)
(***************************************************************************)
EXTENDS TradeStream

VARIABLES orders,    \* orders.order_state
          positions  \* positions.state

derivedVars == <<orders, positions>>

DerivedTypeOK ==
  /\ orders \in [Trades -> {"none", "PLACED", "FILLED"}]
  /\ positions \in [Trades -> {"none", "OPEN", "CLOSED"}]

DerivedInit ==
  /\ orders = [t \in Trades |-> "none"]
  /\ positions = [t \in Trades |-> "none"]

(* Mutated form: a fill is not projected to the order's row. *)
MutOrderAfter(state, type) == IF type = "ORDER_ACKNOWLEDGED" THEN "PLACED" ELSE state

OrderAfter(state, type) ==
  CASE type = "ORDER_ACKNOWLEDGED" -> "PLACED"
    [] type = "ORDER_FILLED" -> "FILLED"
    [] OTHER -> state

PositionAfter(state, type) ==
  CASE type = "POSITION_OPENED" -> "OPEN"
    [] type = "POSITION_CLOSED" -> "CLOSED"
    [] OTHER -> state

\* insert_event_with_derived()
Project ==
  \E e \in Events :
    /\ Arrives(e)
    /\ orders' = [orders EXCEPT ![e.trade] = OrderAfter(@, e.type)]
    /\ positions' = [positions EXCEPT ![e.trade] = PositionAfter(@, e.type)]

\* open_orders(), open_positions()
OpenOrders == {t \in Trades : orders[t] \notin {"none", "FILLED"}}
OpenPositions == {t \in Trades : positions[t] = "OPEN"}
=============================================================================
