------------------------ MODULE IngestionProperties -------------------------
(* What must hold of the collector's ingestion of the bridge's stream.  *)
EXTENDS Ingestion

\* Line n is whole in the file, delimited on both sides, and ends before `end`.
WholeBefore(n, end) ==
  \E i \in 0..(end - Width - 1) :
    /\ SubSeq(file, i + 1, i + Width + 1) = Cells(n)
    /\ i = 0 \/ file[i] = NL

InFile(n) == WholeBefore(n, Len(file))

ReadPast(n) == cursor <= Len(file) /\ WholeBefore(n, cursor)

Ingested(n) == \E i \in DOMAIN events : events[i] = n

\* As long as the file is the same, the cursor never moves past an event that
\* was not durably persisted (insert_event_with_cursor): a restart at the cursor
\* misses nothing.
NothingSkipped ==
  rotations = 0 => \A n \in EventLines : ReadPast(n) => Ingested(n)

\* It moves past no other event than those framed with another line as one, and
\* those a failed transaction dropped.  A line that broke off takes the next one
\* with it, and no more.
NothingElseSkipped ==
  rotations = 0 => \A n \in EventLines \ forgotten : ReadPast(n) => Ingested(n)

\* As long as the file is the same, events are inserted in the order of the
\* stream and never twice, although polls fail, lines arrive in pieces and the
\* process restarts.
InOrderOnce ==
  rotations = 0 => \A i, j \in DOMAIN events : i < j => events[i] < events[j]

\* As long as the file is the same, the held partial line is what it holds at
\* the reader's offset: the next poll completes the line that is really there.
HeldIsFile ==
  rotations = 0 /\ pc # "down" =>
    /\ offset + Len(partial) <= Len(file)
    /\ partial = SubSeq(file, offset + 1, offset + Len(partial))

\* Unless a transaction failed, no line the process still holds lies before the
\* persisted cursor, and between polls the cursor is where the reader goes on: a
\* crash loses no line and a restart reads neither less nor more than the running
\* reader would, whatever was torn, broken off or rotated before.
CursorKeepsPace ==
  failures = 0 =>
    /\ pc = "lines" => \A i \in DOMAIN lines : cursor <= lines[i].start
    /\ pc = "idle" => cursor = offset

-----------------------------------------------------------------------------
(* Liveness *)

\* The runner polls again and again, and is started again after a crash.
CollectorFairness == WF_vars(CollectorStep)

FairSpec == Spec /\ CollectorFairness

\* Every event line that is whole in the file is ingested, unless the file is
\* rotated away first, whatever is torn, broken off, rotated, crashed or failed
\* elsewhere.  Excused are the lines framed with others or dropped by a failed
\* transaction, a file that came and went between two polls, and a rotation
\* together with a restart, since the identity of the file is not persisted.
StreamIsIngested ==
  \A n \in EventLines :
    InFile(n) ~> \/ Ingested(n) \/ ~InFile(n)
                 \/ n \in forgotten \/ unseen
                 \/ rotations > 0 /\ crashes + failures > 0
=============================================================================
