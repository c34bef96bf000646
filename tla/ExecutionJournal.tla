-------------------------- MODULE ExecutionJournal --------------------------
(***************************************************************************)
(* The durable part of the execution layer (execution/journal.py): one     *)
(* SQLite row per command with its projected state and its latest result.  *)
(* Each operation is one transaction.  record() appends an audit line and  *)
(* sets the projected state in the same transaction, so a record that      *)
(* carries the state the row already has changes nothing modelled here.    *)
(***************************************************************************)
EXTENDS CommandLifecycle

CONSTANT TradeOf      \* the trade each command belongs to

VARIABLES state,      \* execution_commands.state, "ABSENT" without a row
          result      \* execution_commands.result_json, "NONE" when null

journalVars == <<state, result>>

Results == {"FILLED", "CLOSED", "REJECTED", "FAILED", "EXPIRED", "UNKNOWN"}

JournalTypeOK ==
  /\ state \in [Commands -> States \cup {"ABSENT"}]
  /\ result \in [Commands -> Results \cup {"NONE"}]

JournalInit ==
  /\ state = [c \in Commands |-> "ABSENT"]
  /\ result = [c \in Commands |-> "NONE"]

Active(c) == state[c] \in ActiveStates

(* Mutated form: without the partial unique index on active trades. *)
MutInsertCommand(c) ==
  /\ state[c] = "ABSENT"
  /\ state' = [state EXCEPT ![c] = "CREATED"]
  /\ UNCHANGED result

\* create_command(): the primary key and the unique index on the trades of
\* non-terminal commands make a duplicate insert fail.
InsertCommand(c) ==
  /\ state[c] = "ABSENT"
  /\ \A d \in Commands : Active(d) => TradeOf[d] # TradeOf[c]
  /\ state' = [state EXCEPT ![c] = "CREATED"]
  /\ UNCHANGED result

\* record() with a state other than the current one.
Record(c, s) ==
  /\ state' = [state EXCEPT ![c] = s]
  /\ UNCHANGED result

\* store_result(): overwrite the latest result.
StoreResult(c, r) ==
  /\ result' = [result EXCEPT ![c] = r]
  /\ UNCHANGED state
=============================================================================
