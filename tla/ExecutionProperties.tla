------------------------ MODULE ExecutionProperties -------------------------
(* What must hold of the execution engine, its journal and its broker.  *)
EXTENDS ExecutionEngine

-----------------------------------------------------------------------------
(* Evidence before action *)

\* submit() journals SUBMITTED before the executor is called, so a command
\* that recover() reports as SUBMIT_SAFE never left anything at the broker,
\* neither an order nor a request on the wire.
WriteAhead ==
  \A c \in Commands :
    (order[c] # "NONE" \/ c \in delayed) =>
      state[c] \notin {"ABSENT", "CREATED", "VALIDATED"}

\* Reconciliation comes before every resend: whenever the engine is about to
\* call executor.submit, the broker holds no order for that command_id.
NoResendOverEvidence == pc = "send" => order[cmd] = "NONE"

\* One command opens at most one position, whatever timed out, was retried,
\* crashed or arrived late.
AtMostOnePosition == \A c \in Commands : openings[c] <= 1

\* A stored CLOSED result, or a CLOSED state, is backed by a position that the
\* broker really closed.
ClosedIsClosed ==
  \A c \in Commands :
    (state[c] = "CLOSED" \/ result[c] = "CLOSED") => position[c] = "CLOSED"

\* A stored FILLED result carries sl_applied = True: the position behind it
\* has the stop loss the command asked for, across crashes and reconciliation.
FilledIsProtected ==
  \A c \in Commands :
    result[c] = "FILLED" => protected[c] /\ position[c] # "NONE"

-----------------------------------------------------------------------------
(* Exposure *)

\* A partial fill leaves its order CANCELED with an open position, which
\* _order_to_command_state() reports as REJECTED.
FilledInPart(c) == order[c] = "CANCELED"

\* No position escapes the close path, unless it was filled in part: a command
\* the journal considers finished has no open position, and a trade, whose slot
\* is then released to a second command, never holds two.
NoPositionEscapes ==
  \A c \in Commands :
    ~FilledInPart(c) /\ position[c] = "OPEN" =>
      /\ state[c] \notin TerminalStates
      /\ \A d \in Commands \ {c} :
           TradeOf[d] = TradeOf[c] /\ ~FilledInPart(d) => position[d] # "OPEN"

\* The command's entry may still turn into a position nobody knows of yet.
EntryInDoubt(c) ==
  \/ state[c] \in {"CREATED", "VALIDATED", "SUBMITTED"}
  \/ state[c] = "UNKNOWN" /\ position[c] = "NONE"

\* The fail-closed gate of create_command keeps at most one entry undecided
\* at a time, through crashes, lost answers and reconciliations.
OneEntryInDoubt ==
  \A c, d \in Commands : EntryInDoubt(c) /\ EntryInDoubt(d) => c = d

\* When no call is in progress, an open position without its stop loss belongs
\* to a command that recover() reports for reconciliation, which also keeps
\* the gate shut.
UnprotectedIsReported ==
  Idle => \A c \in Commands :
    position[c] = "OPEN" /\ ~protected[c] => RecoveryAction(c) = "RECONCILE"

\* What recover() tells the caller to reconcile, reconcile() accepts: it raises for
\* every state but UNKNOWN, and recover() names SUBMITTED commands as well.
ReportedIsReconcilable ==
  Idle => \A c \in Commands :
    RecoveryAction(c) = "RECONCILE" => ENABLED ReconcileCall(c)

\* The journal is the truth about a command: a whole fill without its stop loss
\* is reported for reconciliation, and the stored result that submit() and
\* close() replay tells the command's state.
IsCurrent(c) ==
  /\ position[c] = "OPEN" /\ ~protected[c] /\ ~FilledInPart(c) =>
       RecoveryAction(c) = "RECONCILE"
  /\ state[c] \in TerminalStates \cup {"FILLED", "UNKNOWN"} => result[c] = state[c]

\* As long as no call was cut short, the journal is the truth between calls about
\* every command.
JournalIsCurrent == Idle /\ crashes = 0 => \A c \in Commands : IsCurrent(c)

-----------------------------------------------------------------------------
(* Lifecycle *)

\* The projected state only ever moves along an edge of the state machine,
\* the unchecked SL_CONFIRMED record included; terminal states are final.
LegalLifecycle ==
  [][\A c \in Commands :
       state'[c] # state[c] =>
         \/ state[c] = "ABSENT" /\ state'[c] = "CREATED"
         \/ Edge(state[c], state'[c])]_vars

\* The most effects a call still has, with n attempts behind it at label.
EffectsLeft(label, n) ==
  LET protect == SlAttachRetries + 5
      submit  == protect + 2 + 2 * SubmitRetries
  IN  CASE label = "idle"                 -> 0
        [] label = "store"                -> 1
        [] label \in {"settle", "attached"} -> 2
        [] label = "emergency"            -> 3
        [] label = "attach"               -> 4 + SlAttachRetries - n
        [] label = "close"                -> 3 + CloseRetries - n
        [] label = "protect"              -> protect
        [] label = "adopt"                -> protect + 1
        [] label = "classify"             -> submit - 2 * n
        [] label = "send"                 -> submit + 1 - 2 * n
        [] label = "gate"                 -> submit + 2
        [] label = "validate"             -> submit + 3

\* Every effect of a call brings it nearer to its end, whatever the broker answers:
\* no retry is taken twice from the same budget (RetryPolicy), and no effect leads
\* back to one that the call has left behind.
CallsRunDown ==
  [][EngineStep =>
       EffectsLeft(pc', tries') \in 0..(EffectsLeft(pc, tries) - 1)]_vars

\* The engine, its journal and its broker implement the abstract promise.
Intent(s) ==
  CASE s = "ABSENT"                 -> "none"
    [] s \in {"CREATED", "VALIDATED"} -> "accepted"
    [] s \in TerminalStates         -> "done"
    [] OTHER                        -> "sent"

Promise == INSTANCE OrderOnce
             WITH intent <- [c \in Commands |-> Intent(state[c])],
                  orders <- [c \in Commands |-> IF order[c] = "NONE" THEN 0 ELSE 1]

KeepsPromise == Promise!Spec

-----------------------------------------------------------------------------
(* The inductive invariant behind the safety properties *)

\* The broker's book: a position exists exactly when an order was filled, it is
\* the only one ever opened, and only a position can carry a stop loss.
BookInv ==
  \A c \in Commands :
    /\ position[c] = "NONE" <=> order[c] \in {"NONE", "PLACED"}
    /\ openings[c] = IF position[c] = "NONE" THEN 0 ELSE 1
    /\ protected[c] => position[c] # "NONE"

\* The journal never claims a fill the broker does not have.
JournalInv ==
  /\ WriteAhead
  /\ ClosedIsClosed
  /\ FilledIsProtected
  /\ \A c \in Commands :
       state[c] \in {"FILLED", "PARTIALLY_FILLED", "MODIFYING"} => position[c] # "NONE"

\* What a call carries with value a to the effect at label is true: an answer of
\* the broker has the position it reports, the stop loss of a filled order only
\* is looked after, a discovered SUBMITTED command is the only entry in doubt,
\* and a result is stored only when it is deserved.
Carries(label, a) ==
  /\ label \in {"send", "classify"} => state[cmd] = "SUBMITTED"
  /\ label = "protect" => state[cmd] \in {"FILLED", "PARTIALLY_FILLED"}
  /\ label = "classify" =>
       /\ a \in {"FILLED", "PARTIALLY_FILLED", "REJECTED", "EXPIRED",
                 "NETWORK_TIMEOUT", "AMBIGUOUS_RESPONSE"}
       /\ a \in {"FILLED", "PARTIALLY_FILLED"} => position[cmd] # "NONE"
  /\ label = "adopt" =>
       /\ a \in {"FILLED", "SUBMITTED", "CLOSED", "REJECTED"}
       /\ a = "FILLED" => position[cmd] # "NONE"
       /\ a = "SUBMITTED" => (\A d \in Commands : EntryInDoubt(d) => d = cmd)
  /\ label = "attached" => protected[cmd] /\ position[cmd] # "NONE"
  /\ label = "settle" => a \in {"CLOSED", "UNKNOWN"}
  /\ label = "store" => /\ a \in Results
                        /\ a = "FILLED" => protected[cmd] /\ position[cmd] # "NONE"
  /\ (label \in {"adopt", "settle", "store"} /\ a = "CLOSED") =>
       position[cmd] = "CLOSED"

CallInv == (Idle <=> cmd = NoCommand) /\ Carries(pc, answer)

\* Type correctness is inductive only together with what an answer may be at
\* each point of a call, and each property only together with the others.
Inductive == TypeOK /\ BookInv /\ JournalInv /\ CallInv /\ OneEntryInDoubt

\* Without late requests the journal keeps up with the broker's book: an order
\* that may still fill, and a whole fill that is open, belong to a command the
\* journal has not given up, and a trade has one such command.
ExposureInv ==
  /\ delayed = {}
  /\ \A c \in Commands :
       /\ order[c] = "PLACED" => state[c] \in {"SUBMITTED", "UNKNOWN"}
       /\ order[c] = "FILLED" /\ position[c] = "OPEN" => state[c] \notin TerminalStates
       /\ state[c] = "PARTIALLY_FILLED" => order[c] = "CANCELED"
  /\ \A c, d \in Commands :
       Active(c) /\ Active(d) /\ TradeOf[c] = TradeOf[d] => c = d

\* What a call with value a at label then knows of its order and its own record.
Knows(label, a) ==
  /\ label \in {"validate", "gate"} => state[cmd] \notin {"SUBMITTED", "UNKNOWN"}
  /\ label = "send" => order[cmd] = "NONE"
  /\ label = "classify" =>
       /\ a \in {"REJECTED", "EXPIRED"} => order[cmd] = "NONE"
       /\ a = "PARTIALLY_FILLED" => order[cmd] = "CANCELED"
  /\ label = "adopt" => /\ state[cmd] = "UNKNOWN"
                        /\ a = "REJECTED" => order[cmd] = "CANCELED"
  /\ label \in {"attach", "attached", "emergency"} => state[cmd] = "MODIFYING"
  /\ label = "store" => state[cmd] = a

\* The journal is the truth about every command but the one in progress, and
\* about that one up to the effect that makes it untrue for a while.
CurrentInv(label) ==
  /\ \A c \in Commands \ {cmd} : IsCurrent(c)
  /\ label \in {"validate", "gate", "close"} => IsCurrent(cmd)
  /\ label = "settle" => IsCurrent(cmd) \/ state[cmd] = "MODIFYING"

\* What is inductive in addition when every request arrives while its caller
\* waits for it.
Prompt == ExposureInv /\ Knows(pc, answer) /\ (crashes = 0 => CurrentInv(pc))

PromptInductive == Inductive /\ Prompt

-----------------------------------------------------------------------------
(* Liveness *)

\* A call in progress runs: the engine is a plain synchronous function.
EngineFairness == WF_vars(EngineStep)

FairSpec == Spec /\ EngineFairness

\* Every call returns or raises, or the process dies: the retry budgets bound
\* the loops.
CallsEnd == ~Idle ~> Idle

\* recover() tells the caller to reconcile UNKNOWN commands first, so a caller
\* that gets the chance again and again does, and the broker, when it has an
\* order to report, is not unreachable for ever.
ConclusiveReconcile(c) == ReconcileCall(c) /\ answer' # "UNKNOWN"

RecoverySpec ==
  /\ Spec
  /\ EngineFairness
  /\ \A c \in Commands : /\ SF_vars(ReconcileCall(c))
                         /\ SF_vars(ConclusiveReconcile(c))

\* An UNKNOWN command the broker has an order for does not stay UNKNOWN.
UnknownIsResolved ==
  \A c \in Commands :
    (state[c] = "UNKNOWN" /\ order[c] # "NONE") ~> (state[c] # "UNKNOWN")
=============================================================================
