-------------------------- MODULE ExecutionEngine ---------------------------
(***************************************************************************)
(* The execution engine (execution/engine.py) over its journal and its     *)
(* broker.  The engine is synchronous and keeps nothing between calls, so  *)
(* there is at most one call in progress; between any two durable effects  *)
(* of a call (a journal transaction, a request to the broker) the process  *)
(* may die, or the journal may raise, and the broker may act.  One action  *)
(* is one such effect with the local code up to the next one; an audit     *)
(* record that rewrites the current state belongs to the effect before it. *)
(*                                                                         *)
(* pc names the next effect of the call in progress, cmd its command,      *)
(* tries its loop counter and answer the value the next effect uses: a     *)
(* broker answer, a discovered state, or the result to store.              *)
(***************************************************************************)
EXTENDS SimulatedBroker, ExecutionJournal

CONSTANTS NoCommand,       \* no call in progress
          InvalidCommands, \* commands validate_command() refuses
          SubmitRetries, SlAttachRetries, CloseRetries,  \* RetryPolicy
          MaxCrashes       \* bound on crashes

ASSUME EngineAssumption ==
  /\ NoCommand \notin Commands
  /\ InvalidCommands \subseteq Commands
  /\ SubmitRetries \in Nat /\ SlAttachRetries \in Nat /\ CloseRetries \in Nat
  /\ MaxCrashes \in Nat

VARIABLES pc, cmd, tries, answer, crashes

callVars == <<pc, cmd, tries, answer>>
vars == <<brokerVars, journalVars, callVars, crashes>>

Labels == {"idle", "validate", "gate", "send", "classify", "adopt", "protect",
           "attach", "attached", "emergency", "close", "settle", "store"}

Answers == {"NONE", "FILLED", "PARTIALLY_FILLED", "REJECTED", "EXPIRED",
            "FAILED", "CLOSED", "UNKNOWN", "SUBMITTED", "NETWORK_TIMEOUT",
            "AMBIGUOUS_RESPONSE"}

CallTypeOK ==
  /\ pc \in Labels
  /\ cmd \in Commands \cup {NoCommand}
  /\ tries \in Nat
  /\ answer \in Answers
  /\ crashes \in 0..MaxCrashes

TypeOK == BrokerTypeOK /\ JournalTypeOK /\ CallTypeOK

Init ==
  /\ BrokerInit
  /\ JournalInit
  /\ pc = "idle" /\ cmd = NoCommand /\ tries = 0 /\ answer = "NONE"
  /\ crashes = 0

-----------------------------------------------------------------------------
(* Control flow of a call. *)

Idle == pc = "idle"

Begin(c, label, a) ==
  /\ Idle
  /\ cmd' = c /\ pc' = label /\ tries' = 0 /\ answer' = a
  /\ UNCHANGED crashes

Goto(label, n, a) ==
  /\ pc' = label /\ tries' = n /\ answer' = a
  /\ UNCHANGED <<cmd, crashes>>

\* The call returns or raises; the engine remembers nothing of it.
Return ==
  /\ pc' = "idle" /\ cmd' = NoCommand /\ tries' = 0 /\ answer' = "NONE"
  /\ UNCHANGED crashes

(* Mutated form: an event is journaled whether or not it is legal. *)
MutRecordTransition(event, target, Continue) ==
  /\ Record(cmd, target)
  /\ Continue

(* _record_transition(): journal the state the event leads to and go on, or *)
(* raise ExecutionStateError and journal nothing.                           *)
RecordTransition(event, target, Continue) ==
  \/ /\ LeadsTo(state[cmd], event, target)
     /\ Record(cmd, target)
     /\ Continue
  \/ /\ ~LeadsTo(state[cmd], event, target)
     /\ UNCHANGED journalVars
     /\ Return

-----------------------------------------------------------------------------
(* create_command() *)

(* Mutated form: only commands that were never sent block new entries. *)
MutRecoveryAction(c) ==
  CASE state[c] \in {"CREATED", "VALIDATED"} -> "SUBMIT_SAFE"
    [] OTHER                                 -> "NONE"

\* recover(): what a restart should do with a command.
RecoveryAction(c) ==
  CASE state[c] \in {"SUBMITTED", "UNKNOWN"} -> "RECONCILE"
    [] state[c] \in {"CREATED", "VALIDATED"} -> "SUBMIT_SAFE"
    [] OTHER                                 -> "NONE"

\* _pending_reconciliation_ids(): new entries are refused while not empty.
EntriesBlocked == \E c \in Commands : RecoveryAction(c) # "NONE"

\* The record COMMAND_CREATED that follows the insert changes nothing.
CreateCommand(c) ==
  /\ Idle
  /\ c \notin expired
  /\ ~EntriesBlocked
  /\ InsertCommand(c)
  /\ UNCHANGED <<brokerVars, callVars, crashes>>

-----------------------------------------------------------------------------
(* submit() *)

\* A stored result is replayed, a terminal command refused, and a command in
\* flight answered UNKNOWN: none of these calls changes anything.
SubmitCall(c) ==
  /\ Active(c)
  /\ result[c] = "NONE"
  /\ state[c] \notin {"SUBMITTED", "UNKNOWN"}
  /\ Begin(c, "validate", "NONE")
  /\ UNCHANGED <<brokerVars, journalVars>>

Validate ==
  /\ pc = "validate"
  /\ UNCHANGED brokerVars
  /\ \/ /\ cmd \in InvalidCommands
        /\ RecordTransition("VALIDATE_FAIL", "FAILED", Goto("store", 0, "FAILED"))
     \/ /\ cmd \notin InvalidCommands /\ state[cmd] = "CREATED"
        /\ RecordTransition("VALIDATE_OK", "VALIDATED", Goto("gate", 0, "NONE"))
     \/ /\ cmd \notin InvalidCommands /\ state[cmd] # "CREATED"
        /\ UNCHANGED journalVars
        /\ Goto("gate", 0, "NONE")

(* Mutated form: the order is sent before its intent is journaled. *)
MutGate ==
  /\ pc = "gate"
  /\ \/ /\ cmd \in expired
        /\ UNCHANGED brokerVars
        /\ RecordTransition("EXPIRE", "EXPIRED", Goto("store", 0, "EXPIRED"))
     \/ /\ cmd \notin expired
        /\ UNCHANGED journalVars
        /\ \E a \in Answers : SubmitOrder(cmd, a) /\ Goto("classify", 0, a)

\* The expiry gate, then the write-ahead record of the submission.
Gate ==
  /\ pc = "gate"
  /\ UNCHANGED brokerVars
  /\ \/ /\ cmd \in expired
        /\ RecordTransition("EXPIRE", "EXPIRED", Goto("store", 0, "EXPIRED"))
     \/ /\ cmd \notin expired
        /\ RecordTransition("SUBMIT", "SUBMITTED", Goto("send", 0, "NONE"))

Send ==
  /\ pc = "send"
  /\ UNCHANGED journalVars
  /\ \E a \in Answers : SubmitOrder(cmd, a) /\ Goto("classify", tries, a)

(* Mutated form: a retry resends without asking the broker first. *)
MutAskBeforeRetry ==
  /\ UNCHANGED journalVars
  /\ Goto("send", tries + 1, "NONE")

\* A timed-out submission is retried, with the same command_id, only when
\* the broker holds no evidence of it.
AskBeforeRetry ==
  \E q \in QueryAnswers(cmd) :
    \/ /\ q = "NONE"
       /\ UNCHANGED journalVars
       /\ Goto("send", tries + 1, "NONE")
    \/ /\ q = "AMBIGUOUS"
       /\ RecordTransition("UNKNOWN", "UNKNOWN", Goto("store", 0, "UNKNOWN"))
    \/ /\ q \notin {"NONE", "AMBIGUOUS"}
       /\ RecordTransition("UNKNOWN", "UNKNOWN", Goto("adopt", 0, q))

(* Mutated form: the retries are not limited. *)
MutRetriable == ClassifyError(answer) = "SAFE"

Retriable == ClassifyError(answer) = "SAFE" /\ tries < SubmitRetries

Classify ==
  /\ pc = "classify"
  /\ UNCHANGED brokerVars
  /\ \/ /\ answer = "FILLED"
        /\ RecordTransition("FULL_FILL", "FILLED", Goto("protect", 0, "NONE"))
     \/ /\ answer = "PARTIALLY_FILLED"
        /\ RecordTransition("PARTIAL_FILL", "PARTIALLY_FILLED",
                            Goto("protect", 0, "NONE"))
     \/ /\ answer \in {"REJECTED", "FAILED"}
        /\ RecordTransition(answer, answer, Goto("store", 0, answer))
     \/ /\ answer = "EXPIRED"
        /\ RecordTransition("EXPIRE", "EXPIRED", Goto("store", 0, "EXPIRED"))
     \/ /\ answer \in {"NETWORK_TIMEOUT", "AMBIGUOUS_RESPONSE"}
        /\ IF Retriable
           THEN AskBeforeRetry
           ELSE RecordTransition("UNKNOWN", "UNKNOWN", Goto("store", 0, "UNKNOWN"))

-----------------------------------------------------------------------------
(* _ensure_sl_protection() and _emergency_close() *)

(* Mutated form: any observable position counts as protected. *)
MutProtect ==
  /\ pc = "protect"
  /\ UNCHANGED brokerVars
  /\ \/ /\ position[cmd] = "NONE"
        /\ RecordTransition("UNKNOWN", "UNKNOWN", Goto("store", 0, "UNKNOWN"))
     \/ /\ position[cmd] # "NONE"
        /\ Record(cmd, "FILLED")
        /\ Goto("store", 0, "FILLED")

\* SL_CONFIRMED journals FILLED without asking the state machine.
Protect ==
  /\ pc = "protect"
  /\ UNCHANGED brokerVars
  /\ \/ /\ position[cmd] = "NONE"
        /\ RecordTransition("UNKNOWN", "UNKNOWN", Goto("store", 0, "UNKNOWN"))
     \/ /\ position[cmd] # "NONE" /\ protected[cmd]
        /\ Record(cmd, "FILLED")
        /\ Goto("store", 0, "FILLED")
     \/ /\ position[cmd] # "NONE" /\ ~protected[cmd]
        /\ RecordTransition("SL_ATTACHING", "MODIFYING", Goto("attach", 0, "NONE"))

(* Mutated form: an exhausted attach budget leaves the position as it is. *)
MutAttach ==
  /\ pc = "attach"
  /\ UNCHANGED journalVars
  /\ \E ok \in BOOLEAN :
       /\ AttachSl(cmd, ok)
       /\ IF ok THEN Goto("attached", 0, "NONE")
          ELSE IF tries < SlAttachRetries THEN Goto("attach", tries + 1, "NONE")
          ELSE Return

\* At most 1 + SlAttachRetries attempts, then the emergency close.
Attach ==
  /\ pc = "attach"
  /\ UNCHANGED journalVars
  /\ \E ok \in BOOLEAN :
       /\ AttachSl(cmd, ok)
       /\ IF ok THEN Goto("attached", 0, "NONE")
          ELSE IF tries < SlAttachRetries THEN Goto("attach", tries + 1, "NONE")
          ELSE Goto("emergency", 0, "NONE")

Attached ==
  /\ pc = "attached"
  /\ UNCHANGED brokerVars
  /\ RecordTransition("SL_ATTACHED", "FILLED", Goto("store", 0, "FILLED"))

Emergency ==
  /\ pc = "emergency"
  /\ UNCHANGED journalVars
  /\ \E ok \in BOOLEAN :
       /\ ClosePosition(cmd, ok)
       /\ Goto("settle", 0, IF ok THEN "CLOSED" ELSE "UNKNOWN")

-----------------------------------------------------------------------------
(* close() *)

\* A stored CLOSED result is replayed and an UNKNOWN command refused; every
\* other journaled command goes to the broker.
CloseCall(c) ==
  /\ state[c] \notin {"ABSENT", "UNKNOWN"}
  /\ result[c] # "CLOSED"
  /\ Begin(c, "close", "NONE")
  /\ UNCHANGED <<brokerVars, journalVars>>

(* Mutated form: the attempt counter is not advanced. *)
MutClose ==
  /\ pc = "close"
  /\ UNCHANGED journalVars
  /\ \E ok \in BOOLEAN :
       /\ ClosePosition(cmd, ok)
       /\ IF ok THEN Goto("settle", 0, "CLOSED")
          ELSE IF tries < CloseRetries THEN Goto("close", tries, "NONE")
          ELSE Goto("settle", 0, "UNKNOWN")

Close ==
  /\ pc = "close"
  /\ UNCHANGED journalVars
  /\ \E ok \in BOOLEAN :
       /\ ClosePosition(cmd, ok)
       /\ IF ok THEN Goto("settle", 0, "CLOSED")
          ELSE IF tries < CloseRetries THEN Goto("close", tries + 1, "NONE")
          ELSE Goto("settle", 0, "UNKNOWN")

(* Mutated form: the final answer is returned but not stored. *)
MutSettle ==
  /\ pc = "settle"
  /\ UNCHANGED brokerVars
  /\ RecordTransition(answer, answer, Return)

\* The transition that ends close() and _emergency_close().
Settle ==
  /\ pc = "settle"
  /\ UNCHANGED brokerVars
  /\ RecordTransition(answer, answer, Goto("store", 0, answer))

-----------------------------------------------------------------------------
(* reconcile() and _resolve_reconciliation() *)

(* Mutated form: an inconclusive query is adopted as a rejection. *)
MutReconcileCall(c) ==
  /\ state[c] = "UNKNOWN"
  /\ UNCHANGED <<brokerVars, journalVars>>
  /\ \E q \in QueryAnswers(c) :
       Begin(c, "adopt", IF q \in {"NONE", "AMBIGUOUS"} THEN "REJECTED" ELSE q)

ReconcileCall(c) ==
  /\ state[c] = "UNKNOWN"
  /\ UNCHANGED <<brokerVars, journalVars>>
  /\ \E q \in QueryAnswers(c) :
       IF q \in {"NONE", "AMBIGUOUS"} THEN Begin(c, "store", "UNKNOWN")
                                      ELSE Begin(c, "adopt", q)

\* A fill resumes at the stop loss, a pending order is left alone and its
\* UNKNOWN answer not stored, a terminal state is stored as the result.
Adopt ==
  /\ pc = "adopt"
  /\ UNCHANGED brokerVars
  /\ RecordTransition("RECONCILED", answer,
       CASE answer \in {"FILLED", "PARTIALLY_FILLED"} -> Goto("protect", 0, "NONE")
         [] answer = "SUBMITTED"                      -> Return
         [] OTHER                                     -> Goto("store", 0, answer))

Store ==
  /\ pc = "store"
  /\ UNCHANGED brokerVars
  /\ StoreResult(cmd, answer)
  /\ Return

-----------------------------------------------------------------------------
\* The process dies, or a journal write raises, between two effects.
Crash ==
  /\ ~Idle
  /\ crashes < MaxCrashes
  /\ crashes' = crashes + 1
  /\ pc' = "idle" /\ cmd' = NoCommand /\ tries' = 0 /\ answer' = "NONE"
  /\ UNCHANGED <<brokerVars, journalVars>>

EngineStep ==
  \/ Validate \/ Gate \/ Send \/ Classify
  \/ Protect \/ Attach \/ Attached \/ Emergency
  \/ Close \/ Settle \/ Adopt \/ Store

CallerStep ==
  \E c \in Commands : \/ CreateCommand(c) \/ SubmitCall(c)
                      \/ CloseCall(c) \/ ReconcileCall(c)

MarketStep == BrokerActs /\ UNCHANGED <<journalVars, callVars, crashes>>

Next == EngineStep \/ CallerStep \/ Crash \/ MarketStep

Spec == Init /\ [][Next]_vars
=============================================================================
