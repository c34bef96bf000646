---------------------------- MODULE JsonlReader -----------------------------
(***************************************************************************)
(* The incremental reader (collector/adapters/reader.py): its memory and   *)
(* the two system calls of a poll, stat and open-and-read.  A rotation may *)
(* fall between them.                                                      *)
(***************************************************************************)
EXTENDS BridgeStream, FiniteSetsExt, SequencesExt

CONSTANT NoInode        \* no identity seen yet

VARIABLES offset,       \* first cell of the next line not yet consumed
          partial,      \* cells of that line already read
          identity,     \* the inode of the last poll
          gap           \* was the file missing at the last poll?

readerVars == <<offset, partial, identity, gap>>

ReaderTypeOK ==
  /\ offset \in Nat
  /\ partial \in Seq(Lines \cup {NL})
  /\ identity \in Nat \cup {NoInode}
  /\ gap \in BOOLEAN

\* A reader that resumes at a cell of the file.
FreshReader(start) ==
  /\ offset' = start /\ partial' = <<>> /\ identity' = NoInode /\ gap' = FALSE

(* Mutated form: a file that was missing is told by its inode only. *)
MutRotated == (identity # NoInode /\ identity # inode) \/ Len(file) < offset

\* The file was missing and is back, has another inode, or is shorter than
\* what was read of it.
Rotated ==
  \/ identity # NoInode /\ (gap \/ identity # inode)
  \/ Len(file) < offset

\* stat(): a missing file is remembered; a rotated one is read from its start.
Stat ==
  IF present
  THEN /\ identity' = inode /\ gap' = FALSE
       /\ IF Rotated THEN offset' = 0 /\ partial' = <<>>
                     ELSE UNCHANGED <<offset, partial>>
  ELSE gap' = TRUE /\ UNCHANGED <<offset, partial, identity>>

-----------------------------------------------------------------------------
(* Framing: the buffer is the held partial line and the new cells. *)

Buffer == partial \o SubSeq(file, offset + Len(partial) + 1, Len(file))

Newlines(buffer) == {i \in DOMAIN buffer : buffer[i] = NL}

NewlineBefore(buffer, cell) == Max({i \in Newlines(buffer) : i < cell} \cup {0})

LastNewline(buffer) == NewlineBefore(buffer, Len(buffer) + 1)

\* The newline that has k of them up to it.
NthNewline(buffer, k) ==
  CHOOSE e \in Newlines(buffer) : Cardinality({i \in Newlines(buffer) : i <= e}) = k

\* The line that ends before newline e of the buffer and begins after newline b.
RawLine(buffer, b, e) == [data |-> SubSeq(buffer, b + 1, e - 1), start |-> offset + b]

\* The line that ends at its k-th newline.
NthLine(buffer, k) ==
  LET e == NthNewline(buffer, k) IN RawLine(buffer, NewlineBefore(buffer, e), e)

(* Mutated form: the last line of the buffer is dropped with the empty rest. *)
MutEveryLine(buffer) ==
  [k \in 1..(Cardinality(Newlines(buffer)) - 1) |-> NthLine(buffer, k)]

EveryLine(buffer) == [k \in 1..Cardinality(Newlines(buffer)) |-> NthLine(buffer, k)]

\* A buffer that ends in a newline is split at every newline, any other one
\* only at its last (rsplit): what lies before it is published as one line.
Frames(buffer) ==
  IF Newlines(buffer) = {} THEN <<>>
  ELSE IF buffer[Len(buffer)] = NL THEN EveryLine(buffer)
  ELSE <<RawLine(buffer, 0, LastNewline(buffer))>>

(* Mutated form: the offset moves past the cells of the held partial line too. *)
MutRead ==
  /\ offset' = offset + Len(Buffer)
  /\ partial' = SubSeq(Buffer, LastNewline(Buffer) + 1, Len(Buffer))
  /\ UNCHANGED <<identity, gap>>

\* read(): the offset moves to the start of the line still held.
Read ==
  /\ offset' = offset + LastNewline(Buffer)
  /\ partial' = SubSeq(Buffer, LastNewline(Buffer) + 1, Len(Buffer))
  /\ UNCHANGED <<identity, gap>>
=============================================================================
