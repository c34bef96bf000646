---------------------------- MODULE TradeContract ----------------------------
(***************************************************************************)
(* The lifecycle rules of the canonical event stream                       *)
(* (shared/contracts/lifecycle.py) and the validator of a whole stream     *)
(* (collector/event_model/lifecycle.py, validate_sequence): one state per  *)
(* trade, fed event by event until the first violation.                    *)
(*                                                                         *)
(* Of a payload only the result of the risk gate counts, of the            *)
(* correlation id whether there is one.                                    *)
(***************************************************************************)
EXTENDS Naturals

CONSTANTS Trades,
          NoTrade,      \* an event without a trade id
          LastTime      \* ts_monotonic is in 0..LastTime

ASSUME ContractAssumption == NoTrade \notin Trades /\ LastTime \in Nat

VARIABLES
  state,     \* _state of each trade
  reason,    \* its _terminal_reason; NotTerminal while _terminal is False
  rejected,  \* is _last_payload that of a risk gate that rejected?
  time,      \* last_monotonic
  verdict,   \* what the validator does: "none", "reading", "invalid"
  event      \* the last event that was accepted

contractVars == <<state, reason, rejected, time, verdict, event>>

OUT_OF_BAND_EVENTS == {"TICK_RECEIVED", "RECONCILIATION", "ERROR", "TIMEOUT"}

TRADE_FLOW_EVENTS ==
  {"TRIGGER_DETECTED", "CONTEXT_BUILT", "AI_REQUEST", "AI_RESPONSE", "RISK_GATE",
   "ORDER_SUBMITTED", "ORDER_ACKNOWLEDGED", "ORDER_FILLED", "POSITION_OPENED",
   "POSITION_UPDATED", "NET_PROFIT_POSITIVE", "EXIT_SUBMITTED", "POSITION_CLOSED"}

TERMINAL_EVENTS == {"POSITION_CLOSED", "ERROR", "TIMEOUT"}

EventTypes == OUT_OF_BAND_EVENTS \cup TRADE_FLOW_EVENTS

NoState == "None"
NotTerminal == "None"
Reasons == {NotTerminal, "risk gate rejected", "order failure"} \cup TERMINAL_EVENTS
NoEvent == [type |-> "None", trade |-> NoTrade, rejects |-> FALSE]

\* linked: is there a correlation id?  Only a trigger is asked for it.
Events ==
  {e \in [type : EventTypes, trade : Trades \cup {NoTrade}, rejects : BOOLEAN,
          linked : BOOLEAN, time : 0..LastTime] :
     /\ e.rejects => e.type = "RISK_GATE"
     /\ ~e.linked => e.type = "TRIGGER_DETECTED"}

ContractTypeOK ==
  /\ state \in [Trades -> EventTypes \cup {NoState}]
  /\ reason \in [Trades -> Reasons]
  /\ rejected \in [Trades -> BOOLEAN]
  /\ time \in 0..LastTime
  /\ verdict \in {"none", "reading", "invalid"}
  /\ event = NoEvent \/ event \in [type : EventTypes, trade : Trades \cup {NoTrade},
                                    rejects : BOOLEAN]

Fresh ==
  /\ state' = [t \in Trades |-> NoState] /\ reason' = [t \in Trades |-> NotTerminal]
  /\ rejected' = [t \in Trades |-> FALSE] /\ time' = 0 /\ event' = NoEvent

ContractInit ==
  /\ state = [t \in Trades |-> NoState] /\ reason = [t \in Trades |-> NotTerminal]
  /\ rejected = [t \in Trades |-> FALSE] /\ time = 0 /\ event = NoEvent
  /\ verdict = "none"

-----------------------------------------------------------------------------
(* The lifecycle of one trade *)

NEXT_ALLOWED(previous) ==
  CASE previous = "TRIGGER_DETECTED"    -> {"CONTEXT_BUILT", "RISK_GATE"}
    [] previous = "CONTEXT_BUILT"       -> {"AI_REQUEST"}
    [] previous = "AI_REQUEST"          -> {"AI_RESPONSE"}
    [] previous = "AI_RESPONSE"         -> {"RISK_GATE"}
    [] previous = "RISK_GATE"           -> {"ORDER_SUBMITTED"}
    [] previous = "ORDER_SUBMITTED"     -> {"ORDER_ACKNOWLEDGED"}
    [] previous = "ORDER_ACKNOWLEDGED"  -> {"ORDER_FILLED"}
    [] previous = "ORDER_FILLED"        -> {"POSITION_OPENED"}
    [] previous \in {"POSITION_OPENED", "POSITION_UPDATED"}
         -> {"POSITION_UPDATED", "NET_PROFIT_POSITIVE", "EXIT_SUBMITTED"}
    [] previous = "NET_PROFIT_POSITIVE" -> {"POSITION_UPDATED", "EXIT_SUBMITTED"}
    [] previous = "EXIT_SUBMITTED"      -> {"POSITION_CLOSED"}
    [] OTHER                            -> {}

\* validate_transition(), for an event of the trade path.
LegalTransition(previous, type, gateRejected) ==
  /\ previous \in TRADE_FLOW_EVENTS
  /\ type \in NEXT_ALLOWED(previous)
  /\ ~(previous = "RISK_GATE" /\ gateRejected)

\* apply() does not raise.
Applies(t, type) ==
  \/ type \in OUT_OF_BAND_EVENTS
  \/ /\ reason[t] = NotTerminal
     /\ IF state[t] = NoState THEN type = "TRIGGER_DETECTED"
        ELSE LegalTransition(state[t], type, rejected[t])

(* Mutated form: only an order that was not yet acknowledged can fail. *)
MutReasonAfter(t, e) ==
  CASE e.type = "RISK_GATE" /\ e.rejects -> "risk gate rejected"
    [] e.type = "RECONCILIATION" /\ state[t] = "ORDER_SUBMITTED" -> "order failure"
    [] e.type \in TERMINAL_EVENTS -> e.type
    [] OTHER -> reason[t]

\* _apply_special_rules()
ReasonAfter(t, e) ==
  CASE e.type = "RISK_GATE" /\ e.rejects -> "risk gate rejected"
    [] e.type = "RECONCILIATION"
         /\ state[t] \in {"ORDER_SUBMITTED", "ORDER_ACKNOWLEDGED"} -> "order failure"
    [] e.type \in TERMINAL_EVENTS -> e.type
    [] OTHER -> reason[t]

Apply(t, e) ==
  /\ reason' = [reason EXCEPT ![t] = ReasonAfter(t, e)]
  /\ state' = IF e.type \notin OUT_OF_BAND_EVENTS \/ e.type \in TERMINAL_EVENTS
              THEN [state EXCEPT ![t] = e.type] ELSE state
  /\ rejected' = IF e.type \in TRADE_FLOW_EVENTS
                 THEN [rejected EXCEPT ![t] = (e.type = "RISK_GATE" /\ e.rejects)]
                 ELSE rejected

-----------------------------------------------------------------------------
(* The stream *)

\* validate_sequence() starts with no trades.
StartStream ==
  /\ verdict' = "reading"
  /\ Fresh

\* No check of the event raises.
Accepts(e) ==
  /\ e.time >= time
  /\ e.type = "TRIGGER_DETECTED" => e.linked
  /\ e.type \in TRADE_FLOW_EVENTS => e.trade # NoTrade
  /\ e.trade # NoTrade => Applies(e.trade, e.type)

NextEvent(e) ==
  /\ verdict = "reading"
  /\ IF Accepts(e)
     THEN /\ time' = e.time
          /\ event' = [type |-> e.type, trade |-> e.trade, rejects |-> e.rejects]
          /\ IF e.trade = NoTrade THEN UNCHANGED <<state, reason, rejected>>
             ELSE Apply(e.trade, e)
          /\ UNCHANGED verdict
     ELSE /\ verdict' = "invalid"
          /\ UNCHANGED <<state, reason, rejected, time, event>>

ContractStep == StartStream \/ \E e \in Events : NextEvent(e)

ContractSpec == ContractInit /\ [][ContractStep]_contractVars
=============================================================================
