------------------------- MODULE BridgeToCollector --------------------------
(***************************************************************************)
(* The bridge and the collector over the file they share (InpEventFile of  *)
(* the bridge, source_path of the runner): the exporter as it is in place  *)
(* of the abstract stream, and the collector, which polls what the         *)
(* operating system shows of the exporter's file.  Terminal and collector  *)
(* are processes of their own and know nothing else of each other.         *)
(***************************************************************************)
EXTENDS BridgeProperties

CONSTANTS NoInode, EventLines, MaxFailures, MaxCrashes  \* as in the collector

ASSUME PipelineAssumption ==
  /\ EventLines \subseteq 1..MaxLines
  /\ MaxFailures \in Nat /\ MaxCrashes \in Nat

VARIABLES offset, partial, identity, gap,           \* the reader
          events, cursor,                           \* the database
          pc, lines, failures, crashes,             \* the runner
          forgotten, unseen                         \* what is excused

idleVars == <<offset, partial, identity, gap, events, cursor, pc, lines, failures,
              crashes, forgotten>>
pipelineVars == <<vars, idleVars, unseen>>

Collector ==
  INSTANCE IngestionProperties
    WITH file <- Visible, next <- ShownNext, torn <- ShownCells,
         TornFlushes <- TRUE, Breaks <- TRUE, Rotations <- {"remove"}

PipelineInit == Init /\ Collector!Init

\* A step of the terminal, the bridge or the operating system.  The collector
\* notices with its next poll, or never, when a file comes and goes in between.
BridgeMoves ==
  /\ Next
  /\ unseen' = (unseen \/ (~present /\ present' /\ rotations > 0 /\ ~gap /\ pc # "down"))
  /\ UNCHANGED idleVars

CollectorMoves ==
  /\ UNCHANGED vars
  /\ Collector!CollectorStep \/ Collector!Crash

PipelineNext == BridgeMoves \/ CollectorMoves

PipelineSpec == PipelineInit /\ [][PipelineNext]_pipelineVars

-----------------------------------------------------------------------------
(* What must hold from end to end *)

\* Over the file of the real exporter the collector does what it does over the
\* abstract stream, so that what is shown of the ingestion holds in operation:
\* whichever write fails, whenever the terminal is killed or the file removed.
ImplementsIngestion == Collector!Spec

\* All that was written is visible, and the cursor is at its end.
CaughtUp == shown = Len(disk) /\ cursor = shown

\* Lines the event table should not have, has, or was excused from: those handed
\* over as part of another, and those dropped with a failed transaction.
Accounted(n) == n \notin EventLines \/ Collector!Ingested(n) \/ n \in forgotten

\* What the bridge's health counts as written is in the event table once the
\* collector has caught up, but for the lines excused and one line after each
\* that a failed write or a killed terminal left unfinished: no event is lost
\* between the two programs in any other way (EmitLine's m_writeCount, the
\* event table of insert_event_with_cursor).
WrittenIsStored ==
  rotations = 0 /\ CaughtUp =>
    writes <= Cardinality({n \in first..emitted : Accounted(n)}) + Cardinality(Unfinished)
=============================================================================
