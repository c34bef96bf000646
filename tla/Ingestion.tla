----------------------------- MODULE Ingestion ------------------------------
(***************************************************************************)
(* The ingestion pipeline and its runner (collector/adapters/pipeline.py,  *)
(* runner.py) over the reader and the persistence repository.  The durable *)
(* state is the event table and the cursor of the source; each line is one *)
(* transaction.  A transaction may fail, which ends the poll, and the      *)
(* process may die between any two steps and start again.                  *)
(*                                                                         *)
(* events holds line numbers: an event gets a fresh event_id each time its *)
(* line is handled, so the insert never finds a duplicate to ignore.       *)
(*                                                                         *)
(* forgotten and unseen record what the properties excuse: lines framed    *)
(* with others as one or dropped by a failed transaction, and a file that  *)
(* was removed and created again between two polls.                        *)
(***************************************************************************)
EXTENDS JsonlReader

CONSTANTS EventLines,   \* lines that carry an event to persist
          MaxFailures,  \* bound on failed transactions
          MaxCrashes    \* bound on crashes

ASSUME IngestionAssumption ==
  /\ EventLines \subseteq Lines
  /\ MaxFailures \in Nat /\ MaxCrashes \in Nat

VARIABLES events,   \* the event table, in insertion order
          cursor,   \* ingestion_cursor.byte_offset
          pc,       \* the next step of the process
          lines,    \* the lines of the current poll still to be handled
          failures, crashes,
          forgotten,\* lines handed over as part of another, or dropped
          unseen    \* was a file removed and created again between two polls?

history == <<forgotten, unseen>>
vars == <<streamVars, readerVars, events, cursor, pc, lines, failures, crashes, history>>

RawLines == [data : Seq(Lines \cup {NL}), start : Nat]

TypeOK ==
  /\ StreamTypeOK /\ ReaderTypeOK
  /\ events \in Seq(EventLines)
  /\ cursor \in Nat
  /\ pc \in {"down", "idle", "read", "rotated read", "rotated", "lines"}
  /\ lines \in Seq(RawLines)
  /\ failures \in 0..MaxFailures /\ crashes \in 0..MaxCrashes
  /\ forgotten \subseteq Lines /\ unseen \in BOOLEAN

Init ==
  /\ StreamInit
  /\ offset = 0 /\ partial = <<>> /\ identity = NoInode /\ gap = FALSE
  /\ events = <<>> /\ cursor = 0 /\ pc = "down" /\ lines = <<>>
  /\ failures = 0 /\ crashes = 0 /\ forgotten = {} /\ unseen = FALSE

-----------------------------------------------------------------------------
(* The runner and the poll *)

\* start(): resume at the persisted cursor.
Start ==
  /\ pc = "down"
  /\ FreshReader(cursor)
  /\ pc' = "idle"
  /\ UNCHANGED <<streamVars, events, cursor, lines, failures, crashes, history>>

\* poll() until the file is opened, if it has anything new.
PollStat ==
  /\ pc = "idle"
  /\ Stat
  /\ pc' = IF ~present THEN "idle"
           ELSE IF Len(file) <= offset'
                THEN IF Rotated THEN "rotated" ELSE "idle"
                ELSE IF Rotated THEN "rotated read" ELSE "read"
  /\ UNCHANGED <<streamVars, events, cursor, lines, failures, crashes, history>>

\* The lines some of whose cells are in one of these raw lines.
LinesIn(raws) == {n \in Lines : \E raw \in raws : n \in Range(raw.data)}

\* Those that have a newline inside.
Merged(raws) == {raw \in raws : NL \in Range(raw.data)}

\* The file is opened and read to its end, or is gone by now.
PollRead ==
  /\ pc \in {"read", "rotated read"}
  /\ pc' = IF pc = "rotated read" THEN "rotated" ELSE "lines"
  /\ IF present
     THEN /\ Read /\ lines' = Frames(Buffer)
          /\ forgotten' = forgotten \cup LinesIn(Merged(Range(lines')))
     ELSE UNCHANGED <<readerVars, lines, forgotten>>
  /\ UNCHANGED <<streamVars, events, cursor, failures, crashes, unseen>>

\* A transaction fails and is rolled back; the lines of the poll are forgotten.
\* When BEGIN fails, PersistenceIngestionError reaches the runner, which goes on
\* with the next poll.  When a statement or COMMIT fails, sqlite3.DatabaseError
\* passes every handler of the runner and the process ends.
Fail ==
  /\ failures < MaxFailures
  /\ failures' = failures + 1
  /\ lines' = <<>> /\ forgotten' = forgotten \cup LinesIn(Range(lines))
  /\ UNCHANGED <<events, cursor>>
  /\ \/ pc' = "idle" /\ UNCHANGED readerVars
     \/ pc' = "down" /\ FreshReader(0)

(* Mutated form: a rotation leaves the persisted cursor as it is. *)
MutResetCursor ==
  /\ pc = "rotated"
  /\ pc' = "lines"
  /\ UNCHANGED <<streamVars, readerVars, events, cursor, lines, failures, crashes,
                 history>>

\* A rotation first resets the persisted cursor.
ResetCursor ==
  /\ pc = "rotated"
  /\ \/ /\ cursor' = 0 /\ pc' = "lines"
        /\ UNCHANGED <<readerVars, events, lines, failures, forgotten>>
     \/ Fail
  /\ UNCHANGED <<streamVars, crashes, unseen>>

-----------------------------------------------------------------------------
(* The lines *)

(* Mutated form: a line of any kind is taken for an event. *)
MutCarriesEvent(line) ==
  \E n \in Lines : line.data = [i \in 1..Width |-> n]

\* A line is parsed as a whole: anything but exactly the cells of one line is
\* malformed, and a malformed line is skipped like one without an event.
CarriesEvent(line) ==
  \E n \in EventLines : line.data = [i \in 1..Width |-> n]

(* Mutated form: the cursor stays on the newline of the handled line. *)
MutCursorFor(line) == line.start + Len(line.data)

\* _cursor_for(): past the line and its newline.
CursorFor(line) == line.start + Len(line.data) + 1

(* Mutated form: the cursor is not written with the event. *)
MutPersist(line) ==
  IF CarriesEvent(line)
  THEN events' = Append(events, line.data[1]) /\ UNCHANGED cursor
  ELSE cursor' = CursorFor(line) /\ UNCHANGED events

(* Mutated form: the cursor is advanced, the event is not inserted. *)
MutAdvance(line) ==
  /\ cursor' = CursorFor(line)
  /\ UNCHANGED events

\* insert_event_with_cursor() or save_ingestion_cursor(), one transaction.
Persist(line) ==
  /\ cursor' = CursorFor(line)
  /\ events' = IF CarriesEvent(line) THEN Append(events, line.data[1]) ELSE events

HandleLine ==
  /\ pc = "lines" /\ lines # <<>>
  /\ \/ /\ Persist(Head(lines))
        /\ lines' = Tail(lines)
        /\ UNCHANGED <<readerVars, pc, failures, forgotten>>
     \/ Fail
  /\ UNCHANGED <<streamVars, crashes, unseen>>

EndPoll ==
  /\ pc = "lines" /\ lines = <<>>
  /\ pc' = "idle"
  /\ UNCHANGED <<streamVars, readerVars, events, cursor, lines, failures, crashes,
                 history>>

\* The process dies; the reader's memory goes with it.
Crash ==
  /\ pc # "down" /\ crashes < MaxCrashes
  /\ crashes' = crashes + 1
  /\ pc' = "down" /\ lines' = <<>> /\ FreshReader(0)
  /\ UNCHANGED <<streamVars, events, cursor, failures, history>>

CollectorStep ==
  Start \/ PollStat \/ PollRead \/ ResetCursor \/ HandleLine \/ EndPoll

BridgeStep ==
  /\ \/ FlushLine \/ FlushPart \/ BreakOff \/ Replace \/ Unlink
     \/ Recreate
  /\ unseen' = (unseen \/ (~present /\ present' /\ rotations > 0 /\ ~gap /\ pc # "down"))
  /\ UNCHANGED <<readerVars, events, cursor, pc, lines, failures, crashes, forgotten>>

Next == CollectorStep \/ BridgeStep \/ Crash

Spec == Init /\ [][Next]_vars
=============================================================================
