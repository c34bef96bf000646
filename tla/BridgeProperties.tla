-------------------------- MODULE BridgeProperties ---------------------------
(* What must hold of the bridge and of the file it writes. *)
EXTENDS BridgeExporter

-----------------------------------------------------------------------------
(* The stream the collector reads *)

\* The cells a reader sees.
Visible == SubSeq(disk, 1, shown)

\* The line the next cell to become visible belongs to.
ShownNext ==
  IF shown = Len(disk) THEN emitted + 1
  ELSE IF disk[shown + 1] # NL THEN disk[shown + 1] ELSE disk[shown]

ShownCells == Cardinality({i \in 1..shown : disk[i] = ShownNext})

Stream == INSTANCE BridgeStream
            WITH file <- Visible, next <- ShownNext, torn <- ShownCells,
                 TornFlushes <- TRUE, Breaks <- TRUE, Rotations <- {"remove"}

\* What a reader sees of the file is the stream the ingestion is checked with:
\* complete lines in the order they were emitted, torn only at its end or where a
\* write failed or the terminal was killed, never overwritten and never shortened
\* but by a rotation (JsonExporter.mqh: append-only).
ImplementsStream == Stream!StreamSpec

-----------------------------------------------------------------------------
(* What is lost *)

\* The lines a reader of the whole file finds: delimited on both sides.
Readable ==
  {n \in 1..emitted :
     \E i \in 0..(Len(disk) - Width - 1) :
       /\ SubSeq(disk, i + 1, i + Width + 1) = Cells(n)
       /\ i = 0 \/ disk[i] = NL}

\* The lines that end without their newline.
Unfinished ==
  {n \in 1..emitted :
     \E i \in DOMAIN disk : disk[i] = n /\ (i = Len(disk) \/ disk[i + 1] \notin {n, NL})}

\* Every line counted as written is readable, but for one after each line that a
\* failed write or a killed terminal left without its newline (AppendLine,
\* OnWrite).
WrittenIsReadable ==
  rotations = 0 =>
    writes <= Cardinality(Readable \cap first..emitted) + Cardinality(Unfinished)

\* A killed terminal loses less than InpFlushLines lines, as long as no call left
\* an error (EmitLine, Flush).
UnflushedIsBounded ==
  pending = <<>> /\ ~lastError =>
    Cardinality({i \in (shown + 1)..Len(disk) : disk[i] = NL}) < FlushLines

\* An outage of InpHeartbeatSec timer events has been reported, and one that is
\* reported is not over: each episode has its TIMEOUT and its end
\* (OnTimer: "report once per episode").
EpisodesAreReported ==
  /\ outage >= HeartbeatSec => reported
  /\ reported => outage > 0
=============================================================================
