------------------------ MODULE EventStoreProperties -------------------------
(* What must hold of the event store and of the streams it finds valid. *)
EXTENDS EventStore

\* A version is recorded exactly when all it created is there, versions are
\* applied in their order, and who has the database open has all of it, although
\* two processes migrate at once from what each read before it had the lock, fail
\* and die (apply_migrations: "re-running migrations never damages the database").
SchemaIsWhole ==
  /\ tables = applied
  /\ \A v \in applied : 1..v \subseteq applied
  /\ \A p \in Openers : step[p] = "open" => applied = Versions

-----------------------------------------------------------------------------

\* The path of each trade in the stream read so far.
PhaseOf(t) ==
  CASE reason[t] # NotTerminal -> "over"
    [] reason[t] = NotTerminal /\ state[t] = NoState -> "new"
    [] reason[t] = NotTerminal /\ state[t] \in
         {"TRIGGER_DETECTED", "CONTEXT_BUILT", "AI_REQUEST", "AI_RESPONSE"} -> "deciding"
    [] reason[t] = NotTerminal /\ state[t] = "RISK_GATE" -> "approved"
    [] reason[t] = NotTerminal /\ state[t] \in {"ORDER_SUBMITTED", "ORDER_ACKNOWLEDGED"}
         -> "ordered"
    [] reason[t] = NotTerminal /\ state[t] = "ORDER_FILLED" -> "filled"
    [] reason[t] = NotTerminal /\ state[t] = "EXIT_SUBMITTED" -> "exiting"
    [] OTHER -> "held"

Phase == [t \in Trades |-> PhaseOf(t)]

Path == INSTANCE TradePath WITH phase <- Phase

\* Every stream that validate_sequence accepts, event by event, keeps the promise
\* of TradePath for each of its trades, whatever events come in between.
ImplementsTradePath == Path!PathSpec

-----------------------------------------------------------------------------

\* A process is started again after an opening that failed, and SQLite gives every
\* statement an answer; a lock is waited for no longer than busy_timeout.
FairSpec == Spec /\ \A p \in Openers : WF_vars(Migrate /\ OpenStep(p))

\* Each process that starts gets the database open, although another one takes its
\* lock or applies its pending migration first.
EveryOpenerGetsThrough ==
  \A p \in Openers : (step[p] = "closed") ~> (step[p] = "open")
=============================================================================
