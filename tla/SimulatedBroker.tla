-------------------------- MODULE SimulatedBroker ---------------------------
(***************************************************************************)
(* The broker as the engine sees it: the book SimulatedExecutor keeps      *)
(* (execution/simulated.py), one order and one position per command, and   *)
(* the calls submit, get_position, attach_sl, close_position and query.    *)
(*                                                                         *)
(* A call that the scenario knobs can make fail is nondeterministic.       *)
(* Volumes, prices and identifiers are abstracted; what is kept of a       *)
(* position is whether it is open and whether its stop loss is the one     *)
(* the command asked for.                                                  *)
(***************************************************************************)
EXTENDS Naturals, CommandLifecycle

CONSTANTS Modes,        \* the submit scenarios the broker may play
          LateLanding   \* may a request that timed out still arrive later?

AllModes == {"FULL_FILL", "PARTIAL_FILL", "REJECT", "TIMEOUT",
             "TIMEOUT_LANDED", "AMBIGUOUS", "EXPIRED"}

ASSUME BrokerAssumption == /\ Modes \subseteq AllModes
                           /\ LateLanding \in BOOLEAN

VARIABLES order,        \* the order the broker holds for a command
          position,     \* the position a fill of that order opened
          protected,    \* position.sl equals command.sl
          openings,     \* how many positions the broker ever opened for it
          delayed,      \* requests that timed out and are still on the wire
          expired       \* commands whose expires_at is in the past

brokerVars == <<order, position, protected, openings, delayed, expired>>

OrderStates == {"NONE", "PLACED", "FILLED", "CANCELED"}
PositionStates == {"NONE", "OPEN", "CLOSED"}

BrokerTypeOK ==
  /\ order \in [Commands -> OrderStates]
  /\ position \in [Commands -> PositionStates]
  /\ protected \in [Commands -> BOOLEAN]
  /\ openings \in [Commands -> Nat]
  /\ delayed \subseteq Commands
  /\ expired \subseteq Commands

BrokerInit ==
  /\ order = [c \in Commands |-> "NONE"]
  /\ position = [c \in Commands |-> "NONE"]
  /\ protected = [c \in Commands |-> FALSE]
  /\ openings = [c \in Commands |-> 0]
  /\ delayed = {}
  /\ expired = {}

-----------------------------------------------------------------------------
(* _place_order and _fill_order: the order ends in state o with an open     *)
(* position; the stop loss travels with the fill unless its attachment      *)
(* fails (sl_attach_fail).                                                  *)
Fill(c, o) ==
  /\ order' = [order EXCEPT ![c] = o]
  /\ position' = [position EXCEPT ![c] = "OPEN"]
  /\ openings' = [openings EXCEPT ![c] = @ + 1]
  /\ \E sl \in BOOLEAN : protected' = [protected EXCEPT ![c] = sl]

NoFill == UNCHANGED <<position, protected, openings>>

\* Every scenario of submit() that reaches the market, with its answer.
\* REQUOTE, STALE_FEED and POSITION_EXISTS answer as REJECT does.
Play(c, mode, answer) ==
  \/ /\ mode = "FULL_FILL" /\ answer = "FILLED"
     /\ Fill(c, "FILLED") /\ UNCHANGED delayed
  \/ /\ mode = "PARTIAL_FILL" /\ answer = "PARTIALLY_FILLED"
     /\ Fill(c, "CANCELED") /\ UNCHANGED delayed
  \/ /\ mode = "TIMEOUT_LANDED" /\ answer = "NETWORK_TIMEOUT"
     /\ Fill(c, "FILLED") /\ UNCHANGED delayed
  \/ /\ mode = "TIMEOUT" /\ answer = "NETWORK_TIMEOUT"
     /\ delayed' = IF LateLanding THEN delayed \cup {c} ELSE delayed
     /\ NoFill /\ UNCHANGED order
  \/ /\ mode = "AMBIGUOUS" /\ answer = "AMBIGUOUS_RESPONSE"
     /\ order' = [order EXCEPT ![c] = "PLACED"]
     /\ NoFill /\ UNCHANGED delayed
  \/ /\ mode = "REJECT" /\ answer = "REJECTED"
     /\ NoFill /\ UNCHANGED <<order, delayed>>
  \/ /\ mode = "EXPIRED" /\ answer = "EXPIRED"
     /\ NoFill /\ UNCHANGED <<order, delayed>>

(* Mutated form: the broker no longer refuses a command_id it already holds. *)
MutSubmitOrder(c, answer) ==
  /\ UNCHANGED expired
  /\ \/ /\ c \in expired
        /\ answer = "EXPIRED"
        /\ NoFill /\ UNCHANGED <<order, delayed>>
     \/ /\ c \notin expired
        /\ \E mode \in Modes : Play(c, mode, answer)

(* submit(): a command_id already in the book is refused, then an expired   *)
(* command is refused, then the scenario plays.                             *)
SubmitOrder(c, answer) ==
  /\ UNCHANGED expired
  /\ \/ /\ order[c] # "NONE"
        /\ answer = "REJECTED"
        /\ NoFill /\ UNCHANGED <<order, delayed>>
     \/ /\ order[c] = "NONE" /\ c \in expired
        /\ answer = "EXPIRED"
        /\ NoFill /\ UNCHANGED <<order, delayed>>
     \/ /\ order[c] = "NONE" /\ c \notin expired
        /\ \E mode \in Modes : Play(c, mode, answer)

\* attach_sl(): only an open position can be modified, and it may fail.
AttachSl(c, ok) ==
  /\ ok => position[c] = "OPEN"
  /\ protected' = IF ok THEN [protected EXCEPT ![c] = TRUE] ELSE protected
  /\ UNCHANGED <<order, position, openings, delayed, expired>>

(* Mutated form: a close request is answered as done before it is. *)
MutClosePosition(c, ok) ==
  /\ ok => position[c] = "OPEN"
  /\ UNCHANGED <<order, position, protected, openings, delayed, expired>>

\* close_position(): fails on a missing or closed position, and may fail.
ClosePosition(c, ok) ==
  /\ ok => position[c] = "OPEN"
  /\ position' = IF ok THEN [position EXCEPT ![c] = "CLOSED"] ELSE position
  /\ UNCHANGED <<order, protected, openings, delayed, expired>>

(* Mutated form: a pending order is reported under the broker's own name. *)
MutBrokerTruth(c) ==
  CASE order[c] = "NONE"      -> "NONE"
    [] position[c] = "CLOSED" -> "CLOSED"
    [] order[c] = "FILLED"    -> "FILLED"
    [] order[c] = "PLACED"    -> "PLACED"
    [] order[c] = "CANCELED"  -> "REJECTED"

\* _order_to_command_state(): what the book says of a command.
BrokerTruth(c) ==
  CASE order[c] = "NONE"      -> "NONE"
    [] position[c] = "CLOSED" -> "CLOSED"
    [] order[c] = "FILLED"    -> "FILLED"
    [] order[c] = "PLACED"    -> "SUBMITTED"
    [] order[c] = "CANCELED"  -> "REJECTED"

\* query(): the truth, or no conclusion (the broker is unreachable or the
\* scenario is ambiguous).
QueryAnswers(c) == {BrokerTruth(c), "AMBIGUOUS"}

-----------------------------------------------------------------------------
(* What the broker does on its own, outside any call of the engine.         *)

\* The market fills an order it acknowledged without deal evidence.
MarketFills(c) ==
  /\ order[c] = "PLACED"
  /\ Fill(c, "FILLED")
  /\ UNCHANGED <<delayed, expired>>

\* The stop loss, or the trader at the terminal, closes the position.
MarketCloses(c) ==
  /\ position[c] = "OPEN"
  /\ position' = [position EXCEPT ![c] = "CLOSED"]
  /\ UNCHANGED <<order, protected, openings, delayed, expired>>

\* A request whose caller gave up on it reaches the broker after all.
RequestLands(c) ==
  /\ c \in delayed
  /\ delayed' = delayed \ {c}
  /\ IF order[c] = "NONE" /\ c \notin expired
     THEN Fill(c, "FILLED") /\ UNCHANGED expired
     ELSE UNCHANGED <<order, position, protected, openings, expired>>

\* is_expired(): the clock passes a command's expires_at, once and for all.
ClockPassesExpiry(c) ==
  /\ c \notin expired
  /\ expired' = expired \cup {c}
  /\ UNCHANGED <<order, position, protected, openings, delayed>>

BrokerActs ==
  \E c \in Commands : \/ MarketFills(c) \/ MarketCloses(c)
                      \/ RequestLands(c) \/ ClockPassesExpiry(c)
=============================================================================
