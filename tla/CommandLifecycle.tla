-------------------------- MODULE CommandLifecycle --------------------------
(***************************************************************************)
(* The lifecycle of one execution command and the classification of the    *)
(* answers that drive it: execution/state_machine.py and                   *)
(* execution/retry.py.  Nothing here has state; the journal keeps the      *)
(* state and the engine applies the events.                                *)
(***************************************************************************)

CONSTANT Commands   \* the command identifiers

ActiveStates == {"CREATED", "VALIDATED", "SUBMITTED", "PARTIALLY_FILLED",
                 "FILLED", "MODIFYING", "UNKNOWN"}

TerminalStates == {"CLOSED", "REJECTED", "FAILED", "EXPIRED"}

States == ActiveStates \cup TerminalStates

(* Mutated form: a fill is not among the states reconciliation may adopt. *)
MutReconcilableStates == {"SUBMITTED", "PARTIALLY_FILLED", "MODIFYING",
                          "CLOSED", "REJECTED", "EXPIRED", "FAILED"}

\* States a broker may report for a command whose fate is unknown.
ReconcilableStates == {"SUBMITTED", "PARTIALLY_FILLED", "FILLED", "MODIFYING",
                       "CLOSED", "REJECTED", "EXPIRED", "FAILED"}

Transitions ==
  { <<"CREATED", "VALIDATE_OK", "VALIDATED">>,
    <<"CREATED", "VALIDATE_FAIL", "FAILED">>,
    <<"CREATED", "EXPIRE", "EXPIRED">>,
    <<"VALIDATED", "SUBMIT", "SUBMITTED">>,
    <<"VALIDATED", "VALIDATE_FAIL", "FAILED">>,
    <<"VALIDATED", "EXPIRE", "EXPIRED">>,
    <<"SUBMITTED", "PARTIAL_FILL", "PARTIALLY_FILLED">>,
    <<"SUBMITTED", "FULL_FILL", "FILLED">>,
    <<"SUBMITTED", "REJECTED", "REJECTED">>,
    <<"SUBMITTED", "FAILED", "FAILED">>,
    <<"SUBMITTED", "EXPIRE", "EXPIRED">>,
    <<"SUBMITTED", "UNKNOWN", "UNKNOWN">>,
    <<"PARTIALLY_FILLED", "FULL_FILL", "FILLED">>,
    <<"PARTIALLY_FILLED", "CLOSED", "CLOSED">>,
    <<"PARTIALLY_FILLED", "UNKNOWN", "UNKNOWN">>,
    <<"PARTIALLY_FILLED", "FAILED", "FAILED">>,
    <<"FILLED", "SL_ATTACHING", "MODIFYING">>,
    <<"FILLED", "CLOSED", "CLOSED">>,
    <<"FILLED", "UNKNOWN", "UNKNOWN">>,
    <<"FILLED", "FAILED", "FAILED">>,
    <<"MODIFYING", "SL_ATTACHED", "FILLED">>,
    <<"MODIFYING", "CLOSED", "CLOSED">>,
    <<"MODIFYING", "UNKNOWN", "UNKNOWN">>,
    <<"MODIFYING", "FAILED", "FAILED">> }
  \cup ({"UNKNOWN"} \X {"RECONCILED"} \X ReconcilableStates)

\* transition(): event e leads from s to t; anything else raises.
LeadsTo(s, e, t) == <<s, e, t>> \in Transitions

\* The pairs of states some event connects.
Edge(s, t) == \E tr \in Transitions : tr[1] = s /\ tr[3] = t

-----------------------------------------------------------------------------
(* Error codes an executor or the engine itself attaches to an answer.  *)

RetryMatrix ==
  [INVALID_COMMAND |-> "PERMANENT",     AUTHENTICATION |-> "PERMANENT",
   NETWORK_TIMEOUT |-> "SAFE",          BROKER_REJECT |-> "PERMANENT",
   INSUFFICIENT_MARGIN |-> "PERMANENT", INVALID_VOLUME_SL |-> "PERMANENT",
   MARKET_CLOSED |-> "PERMANENT",       REQUOTE_SLIPPAGE |-> "PERMANENT",
   DUPLICATE_COMMAND |-> "IDEMPOTENT",  AMBIGUOUS_RESPONSE |-> "RECONCILE",
   STALE_FEED |-> "PERMANENT",          POSITION_EXISTS |-> "PERMANENT",
   EXPIRED |-> "PERMANENT",             SL_ATTACH_FAILED |-> "EMERGENCY",
   CLOSE_FAILED |-> "SAFE",             EMERGENCY_CLOSE_FAILED |-> "RECONCILE",
   RECONCILIATION_PENDING |-> "RECONCILE", FAILED |-> "UNSAFE"]

\* A missing or unknown code is treated as RECONCILE: establish truth first.
ClassifyError(code) ==
  IF code \in DOMAIN RetryMatrix THEN RetryMatrix[code] ELSE "RECONCILE"
=============================================================================
