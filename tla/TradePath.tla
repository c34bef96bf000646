------------------------------ MODULE TradePath ------------------------------
(***************************************************************************)
(* What a valid event stream promises about each trade: it is decided,     *)
(* ordered, held and closed, in that order, no step twice, and a trade     *)
(* that was rejected, failed or closed stays over.  The abstract           *)
(* specification of TradeContract.                                         *)
(***************************************************************************)
CONSTANTS Trades, NoTrade, NoEvent

VARIABLES phase,   \* how far each trade is
          event    \* the last event of the stream

Phases ==
  {"new", "deciding", "approved", "ordered", "filled", "held", "exiting", "over"}

\* The events that move a trade on, or that belong to a phase.
Moves ==
  {<<"new", "TRIGGER_DETECTED", "deciding">>, <<"approved", "ORDER_SUBMITTED", "ordered">>,
   <<"ordered", "ORDER_FILLED", "filled">>, <<"filled", "POSITION_OPENED", "held">>,
   <<"held", "EXIT_SUBMITTED", "exiting">>, <<"exiting", "POSITION_CLOSED", "over">>}

Belongs ==
  {<<"deciding", "CONTEXT_BUILT">>, <<"deciding", "AI_REQUEST">>,
   <<"deciding", "AI_RESPONSE">>, <<"ordered", "ORDER_ACKNOWLEDGED">>,
   <<"held", "POSITION_UPDATED">>, <<"held", "NET_PROFIT_POSITIVE">>}

PathInit == phase = [t \in Trades |-> "new"] /\ event = NoEvent

\* A new stream.
Restart == phase' = [t \in Trades |-> "new"] /\ event' = NoEvent

Becomes(t, next) == phase' = [phase EXCEPT ![t] = next]

Happens(t, type, rejects) ==
  \/ type \in {"ERROR", "TIMEOUT"} /\ Becomes(t, "over")
  \/ type = "RECONCILIATION" /\ phase[t] = "ordered" /\ Becomes(t, "over")
  \/ type = "RECONCILIATION" /\ phase[t] # "ordered" /\ UNCHANGED phase
  \/ type = "TICK_RECEIVED" /\ UNCHANGED phase
  \/ type = "RISK_GATE" /\ phase[t] = "deciding"
       /\ Becomes(t, IF rejects THEN "over" ELSE "approved")
  \/ \E move \in Moves : move[1] = phase[t] /\ move[2] = type /\ Becomes(t, move[3])
  \/ <<phase[t], type>> \in Belongs /\ UNCHANGED phase

PathNext ==
  \/ Restart
  \/ \E t \in Trades : event'.trade = t /\ Happens(t, event'.type, event'.rejects)
  \/ event'.trade = NoTrade /\ event' # NoEvent /\ UNCHANGED phase

PathSpec == PathInit /\ [][PathNext]_<<phase, event>>
=============================================================================
