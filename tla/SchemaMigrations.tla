-------------------------- MODULE SchemaMigrations ---------------------------
(***************************************************************************)
(* How the processes of the collector open their common database           *)
(* (collector/persistence/repository.py, open; migrations.py).  A process  *)
(* reads which versions are applied before it takes the write lock, and    *)
(* applies each missing one in a transaction of its own.  An opening that  *)
(* fails closes its connection, which rolls back and gives up the lock;    *)
(* the process ends with the error and is started again.                   *)
(***************************************************************************)
EXTENDS Naturals, FiniteSets

CONSTANTS Openers,      \* the processes: ingestion, reconciliation
          NoOpener,
          LastVersion,  \* the versions of MIGRATIONS are 1..LastVersion
          MaxFailures,  \* bound on openings that fail of themselves
          MaxCrashes    \* bound on processes that die while they open

ASSUME MigrationsAssumption ==
  /\ NoOpener \notin Openers
  /\ {LastVersion, MaxFailures, MaxCrashes} \subseteq Nat

VARIABLES
  tables,   \* the versions whose statements are committed
  applied,  \* the rows of schema_migrations that are committed
  lock,     \* who is inside BEGIN IMMEDIATE .. COMMIT
  executed, \* the versions whose statements that transaction has executed
  step,     \* the next step of each opener
  seen,     \* the versions it read as applied, and those it applied itself
  failures, crashes

schemaVars == <<tables, applied, lock, executed, step, seen, failures, crashes>>

Versions == 1..LastVersion

SchemaTypeOK ==
  /\ tables \subseteq Versions /\ applied \subseteq Versions
  /\ lock \in Openers \cup {NoOpener} /\ executed \subseteq Versions
  /\ step \in [Openers -> {"closed", "connected", "pending", "statements", "record", "open"}]
  /\ seen \in [Openers -> SUBSET Versions]
  /\ failures \in 0..MaxFailures /\ crashes \in 0..MaxCrashes

SchemaInit ==
  /\ tables = {} /\ applied = {} /\ lock = NoOpener /\ executed = {}
  /\ step = [p \in Openers |-> "closed"] /\ seen = [p \in Openers |-> {}]
  /\ failures = 0 /\ crashes = 0

Goto(p, label) == step' = [step EXCEPT ![p] = label]

-----------------------------------------------------------------------------

\* connect(), the PRAGMAs, quick_check, and the table of versions if it is missing.
Connect(p) ==
  /\ step[p] = "closed" /\ Goto(p, "connected")
  /\ UNCHANGED <<tables, applied, lock, executed, seen, failures, crashes>>

\* applied_versions(), outside any transaction.
ReadVersions(p) ==
  /\ step[p] = "connected" /\ Goto(p, "pending")
  /\ seen' = [seen EXCEPT ![p] = applied]
  /\ UNCHANGED <<tables, applied, lock, executed, failures, crashes>>

Pending(p) == Versions \ seen[p]

\* The first migration of the list that is not among them.
IsNext(p, v) == v \in Pending(p) /\ \A w \in Pending(p) : v <= w

(* Mutated form: the connection is left open, with its transaction. *)
MutGiveUp(p) ==
  /\ Goto(p, "closed") /\ seen' = [seen EXCEPT ![p] = {}]
  /\ UNCHANGED <<tables, applied, lock, executed>>

\* The opening ends: the connection is closed, an open transaction rolled back.
GiveUp(p) ==
  /\ Goto(p, "closed") /\ seen' = [seen EXCEPT ![p] = {}]
  /\ lock' = IF lock = p THEN NoOpener ELSE lock
  /\ executed' = IF lock = p THEN {} ELSE executed
  /\ UNCHANGED <<tables, applied>>

\* BEGIN IMMEDIATE: it waits for the lock, but no longer than busy_timeout.
Begin(p) ==
  /\ step[p] = "pending" /\ Pending(p) # {}
  /\ IF lock = NoOpener
     THEN /\ lock' = p /\ Goto(p, "statements")
          /\ UNCHANGED <<tables, applied, executed, seen>>
     ELSE GiveUp(p)
  /\ UNCHANGED <<failures, crashes>>

(* Mutated form: the statements commit themselves, as without BEGIN. *)
MutExecute(p, v) == tables' = tables \cup {v} /\ UNCHANGED executed

Execute(p, v) == executed' = executed \cup {v} /\ UNCHANGED tables

\* The statements of the migration; each is CREATE .. IF NOT EXISTS.
Statements(p) ==
  /\ step[p] = "statements"
  /\ \E v \in Versions : IsNext(p, v) /\ Execute(p, v)
  /\ Goto(p, "record")
  /\ UNCHANGED <<applied, lock, seen, failures, crashes>>

\* INSERT INTO schema_migrations and COMMIT.  A version that another opener has
\* recorded since ReadVersions violates the primary key: PersistenceError.
Record(p) ==
  /\ step[p] = "record"
  /\ \E v \in Versions :
       /\ IsNext(p, v)
       /\ IF v \in applied THEN GiveUp(p)
          ELSE /\ applied' = applied \cup {v} /\ tables' = tables \cup executed
               /\ lock' = NoOpener /\ executed' = {}
               /\ seen' = [seen EXCEPT ![p] = @ \cup {v}]
               /\ Goto(p, "pending")
  /\ UNCHANGED <<failures, crashes>>

\* Nothing is pending: open() returns.
Opened(p) ==
  /\ step[p] = "pending" /\ Pending(p) = {}
  /\ Goto(p, "open")
  /\ UNCHANGED <<tables, applied, lock, executed, seen, failures, crashes>>

-----------------------------------------------------------------------------

Opening(p) == step[p] \notin {"closed", "open"}

\* Any statement of an opening may fail: a full disk, an I/O error.
Fail(p) ==
  /\ Opening(p) /\ failures < MaxFailures
  /\ GiveUp(p)
  /\ failures' = failures + 1
  /\ UNCHANGED crashes

\* The process dies; SQLite rolls back what was not committed.
Crash(p) ==
  /\ Opening(p) /\ crashes < MaxCrashes
  /\ step' = [step EXCEPT ![p] = "closed"] /\ seen' = [seen EXCEPT ![p] = {}]
  /\ lock' = IF lock = p THEN NoOpener ELSE lock
  /\ executed' = IF lock = p THEN {} ELSE executed
  /\ crashes' = crashes + 1
  /\ UNCHANGED <<tables, applied, failures>>

\* close(), at the end of a run that started well.
Close(p) ==
  /\ step[p] = "open" /\ Goto(p, "closed")
  /\ seen' = [seen EXCEPT ![p] = {}]
  /\ UNCHANGED <<tables, applied, lock, executed, failures, crashes>>

OpenStep(p) ==
  Connect(p) \/ ReadVersions(p) \/ Begin(p) \/ Statements(p) \/ Record(p) \/ Opened(p)

SchemaStep ==
  \E p \in Openers : OpenStep(p) \/ Fail(p) \/ Crash(p) \/ Close(p)
=============================================================================
