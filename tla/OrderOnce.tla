----------------------------- MODULE OrderOnce ------------------------------
(***************************************************************************)
(* What the execution layer promises about a command, without saying how:  *)
(* its intent is written down before the broker can hold an order for it,  *)
(* the broker gets at most one order for it, a trade has at most one       *)
(* unfinished command, and a finished command stays finished.              *)
(***************************************************************************)
EXTENDS Naturals

CONSTANTS Commands, TradeOf

VARIABLES intent,   \* "none", "accepted", "sent" or "done" per command
          orders    \* number of orders the broker ever took for it

orderVars == <<intent, orders>>

Init == /\ intent = [c \in Commands |-> "none"]
        /\ orders = [c \in Commands |-> 0]

Unfinished(c) == intent[c] \in {"accepted", "sent"}

Accept(c) ==
  /\ intent[c] = "none"
  /\ \A d \in Commands : Unfinished(d) => TradeOf[d] # TradeOf[c]
  /\ intent' = [intent EXCEPT ![c] = "accepted"]
  /\ UNCHANGED orders

Commit(c) ==
  /\ intent[c] = "accepted"
  /\ intent' = [intent EXCEPT ![c] = "sent"]
  /\ UNCHANGED orders

Place(c) ==
  /\ intent[c] = "sent"
  /\ orders[c] = 0
  /\ orders' = [orders EXCEPT ![c] = 1]
  /\ UNCHANGED intent

Finish(c) ==
  /\ Unfinished(c)
  /\ intent' = [intent EXCEPT ![c] = "done"]
  /\ UNCHANGED orders

Next == \E c \in Commands : Accept(c) \/ Commit(c) \/ Place(c) \/ Finish(c)

Spec == Init /\ [][Next]_orderVars
=============================================================================
