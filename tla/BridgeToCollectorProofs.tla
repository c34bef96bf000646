---------------------- MODULE BridgeToCollectorProofs -----------------------
(***************************************************************************)
(* Bridge and collector together, for every width of a line, every number  *)
(* of lines, faults, rotations, failures and crashes: over the exporter's  *)
(* file the collector is the one of Ingestion.tla, so that what is proved  *)
(* there holds of the real stream, and what the bridge counts as written   *)
(* is accounted for in the event table.                                    *)
(***************************************************************************)
EXTENDS BridgeToCollector, BridgeProofs

\* The collector with what is proved of it.
Proved ==
  INSTANCE IngestionProofs
    WITH file <- Visible, next <- ShownNext, torn <- ShownCells,
         TornFlushes <- TRUE, Breaks <- TRUE, Rotations <- {"remove"}

-----------------------------------------------------------------------------
(* The collector over the exporter's file *)

StreamSteps ==
  \/ Stream!FlushLine \/ Stream!FlushPart \/ Stream!BreakOff \/ Stream!Replace
  \/ Stream!Unlink \/ Stream!Recreate

\* The stream the bridge implements is the one the collector reads.
LEMMA SameStream ==
  StreamSteps => \/ Collector!FlushLine \/ Collector!FlushPart \/ Collector!BreakOff
                 \/ Collector!Replace \/ Collector!Unlink \/ Collector!Recreate
<1>1. \A n : Stream!Cells(n) = Collector!Cells(n)
  BY DEF Stream!Cells, Collector!Cells, Stream!NL, Collector!NL
<1>2. Stream!FlushLine => Collector!FlushLine
  BY <1>1 DEF Stream!FlushLine, Collector!FlushLine
<1>3. Stream!FlushPart => Collector!FlushPart
  BY DEF Stream!FlushPart, Collector!FlushPart
<1>4. Stream!BreakOff => Collector!BreakOff
  BY DEF Stream!BreakOff, Collector!BreakOff
<1>5. /\ Stream!Replace => Collector!Replace
      /\ Stream!Unlink => Collector!Unlink
      /\ Stream!Recreate => Collector!Recreate
  BY DEF Stream!Replace, Collector!Replace, Stream!Unlink, Collector!Unlink,
         Stream!Recreate, Collector!Recreate, Stream!StartOver, Collector!StartOver
<1> QED BY <1>2, <1>3, <1>4, <1>5 DEF StreamSteps

\* What the collector's steps change, apart from the stream.
LEMMA CollectorVarsAre ==
  /\ UNCHANGED Collector!vars <=>
       UNCHANGED <<Visible, present, inode, ShownNext, ShownCells, rotations>>
         /\ UNCHANGED idleVars /\ UNCHANGED unseen
BY DEF Collector!vars, Collector!streamVars, Collector!readerVars, Collector!history, idleVars

\* It is always known whether a file was missed.
KnownMiss == unseen \in BOOLEAN

\* A step of the bridge is a step of the stream, or one the collector cannot see.
LEMMA BridgeIsStream ==
  ASSUME BridgeMoves \/ UNCHANGED pipelineVars, [Stream!StreamNext]_Seen, KnownMiss
  PROVE  [Collector!Next]_(Collector!vars)
<1>1. CASE UNCHANGED pipelineVars
  <2>1. UNCHANGED <<disk, shown, emitted, present, inode, rotations>>
        /\ UNCHANGED idleVars /\ UNCHANGED unseen
    BY <1>1 DEF pipelineVars, vars, fileVars
  <2>2. UNCHANGED <<Visible, ShownNext, ShownCells>>
    BY <2>1 DEF Visible, ShownNext, ShownCells
  <2> QED BY <2>1, <2>2, CollectorVarsAre
<1>2. CASE BridgeMoves /\ UNCHANGED Seen
  <2>1. UNCHANGED <<Visible, present, inode, ShownNext, ShownCells, rotations>>
    BY <1>2 DEF Seen
  <2>2. UNCHANGED idleVars
    BY <1>2 DEF BridgeMoves
  <2>3. unseen' = unseen
    <3>1. unseen' = (unseen \/ (~present /\ present' /\ rotations > 0 /\ ~gap /\ pc # "down"))
      BY <1>2 DEF BridgeMoves
    <3>2. ~(~present /\ present')
      BY <2>1
    <3> QED BY <3>1, <3>2 DEF KnownMiss
  <2> QED BY <2>1, <2>2, <2>3, CollectorVarsAre
<1>3. CASE BridgeMoves /\ Stream!StreamNext
  <2>1. StreamSteps
    BY <1>3 DEF Stream!StreamNext, StreamSteps
  <2>2. /\ unseen' = (unseen \/ (~present /\ present' /\ rotations > 0 /\ ~gap /\ pc # "down"))
        /\ UNCHANGED idleVars
    BY <1>3 DEF BridgeMoves
  <2>3. Collector!BridgeStep
    BY <2>1, <2>2, SameStream DEF Collector!BridgeStep, Collector!readerVars, idleVars
  <2> QED BY <2>3 DEF Collector!Next
<1> QED BY <1>1, <1>2, <1>3

\* Over the file of the real exporter the collector does what Ingestion.tla describes over
\* the abstract stream, whichever write fails and whenever the terminal is killed or the
\* file removed (JsonExporter.mqh, Bridge.mq5, reader.py, runner.py).
THEOREM ImplementsIngestionHolds == PipelineSpec => ImplementsIngestion
<1>1. [PipelineNext]_pipelineVars => [Next]_vars
  BY DEF PipelineNext, BridgeMoves, CollectorMoves, pipelineVars
<1>2. TypeInv /\ StreamInv /\ [Next]_vars => StreamInv'
  BY NextKeepsStream
<1>3. TypeInv /\ StreamInv /\ KnownMiss /\ [PipelineNext]_pipelineVars
        => [Collector!Next]_(Collector!vars)
  <2> SUFFICES ASSUME TypeInv, StreamInv, KnownMiss, [PipelineNext]_pipelineVars
               PROVE  [Collector!Next]_(Collector!vars)
    OBVIOUS
  <2>1. CASE CollectorMoves
    BY <2>1 DEF CollectorMoves, Collector!Next
  <2>2. CASE BridgeMoves \/ UNCHANGED pipelineVars
    <3>1. [Stream!StreamNext]_Seen
      BY <1>1, NextRefinesStream
    <3> QED BY <2>2, <3>1, BridgeIsStream
  <2> QED BY <2>1, <2>2 DEF PipelineNext
<1>4. PipelineSpec => Spec
  BY <1>1, PTL DEF PipelineSpec, PipelineInit, Spec
<1>5. Init => StreamInv
  BY StreamAtStart
<1>6. PipelineInit => KnownMiss
  BY DEF KnownMiss, PipelineInit, Collector!Init
<1>7. KnownMiss /\ [PipelineNext]_pipelineVars => KnownMiss'
  <2> SUFFICES ASSUME unseen \in BOOLEAN, [PipelineNext]_pipelineVars PROVE unseen' \in BOOLEAN
    BY DEF KnownMiss
  <2>1. CASE BridgeMoves
    BY <2>1 DEF BridgeMoves
  <2>2. CASE CollectorMoves
    <3>1. unseen' = unseen
      BY <2>2 DEF CollectorMoves, Collector!CollectorStep, Collector!Start, Collector!PollStat,
                  Collector!PollRead, Collector!ResetCursor, Collector!HandleLine,
                  Collector!EndPoll, Collector!Crash, Collector!history
    <3> QED BY <3>1
  <2>3. CASE UNCHANGED pipelineVars
    BY <2>3 DEF pipelineVars
  <2> QED BY <2>1, <2>2, <2>3 DEF PipelineNext
<1> QED BY <1>1, <1>2, <1>3, <1>4, <1>5, <1>6, <1>7, TypesAreInvariant, PTL
        DEF PipelineSpec, PipelineInit, Spec, ImplementsIngestion, Collector!Spec

-----------------------------------------------------------------------------
(* What is proved of the collector holds of the real stream *)

\* The two instances of the collector are the same.
LEMMA SameStart == Collector!Init => Proved!Init
BY DEF Collector!Init, Proved!Init, Collector!StreamInit, Proved!StreamInit

LEMMA SameFraming ==
  /\ Collector!Buffer = Proved!Buffer
  /\ \A b : Collector!Frames(b) = Proved!Frames(b)
  /\ \A b : Collector!LastNewline(b) = Proved!LastNewline(b)
BY DEF Collector!Buffer, Proved!Buffer, Collector!Frames, Proved!Frames,
         Collector!Newlines, Proved!Newlines, Collector!NewlineBefore,
         Proved!NewlineBefore, Collector!LastNewline, Proved!LastNewline,
         Collector!NthNewline, Proved!NthNewline, Collector!RawLine, Proved!RawLine,
         Collector!NthLine, Proved!NthLine, Collector!EveryLine, Proved!EveryLine,
         Collector!NL, Proved!NL, Collector!Max, Proved!Max, Collector!Cardinality,
         Proved!Cardinality

LEMMA SameForgotten ==
  /\ \A raws : Collector!LinesIn(raws) = Proved!LinesIn(raws)
  /\ \A raws : Collector!Merged(raws) = Proved!Merged(raws)
  /\ \A ls : Collector!Range(ls) = Proved!Range(ls)
BY DEF Collector!LinesIn, Proved!LinesIn, Collector!Merged, Proved!Merged,
         Collector!Range, Proved!Range, Collector!Lines, Proved!Lines, Collector!NL,
         Proved!NL

LEMMA SameReading ==
  /\ Collector!Read <=> Proved!Read
  /\ Collector!Stat <=> Proved!Stat
  /\ Collector!Rotated <=> Proved!Rotated
  /\ \A start : Collector!FreshReader(start) <=> Proved!FreshReader(start)
<1>1. Collector!Read <=> Proved!Read
  BY SameFraming DEF Collector!Read, Proved!Read
<1>2. Collector!Rotated <=> Proved!Rotated
  BY DEF Collector!Rotated, Proved!Rotated
<1>3. Collector!Stat <=> Proved!Stat
  BY <1>2 DEF Collector!Stat, Proved!Stat
<1>4. \A start : Collector!FreshReader(start) <=> Proved!FreshReader(start)
  BY DEF Collector!FreshReader, Proved!FreshReader
<1> QED BY <1>1, <1>2, <1>3, <1>4

LEMMA SamePersisting ==
  \A line : Collector!Persist(line) <=> Proved!Persist(line)
BY DEF Collector!Persist, Proved!Persist, Collector!CursorFor, Proved!CursorFor,
         Collector!CarriesEvent, Proved!CarriesEvent

LEMMA SameVars ==
  /\ Collector!vars = Proved!vars /\ Collector!readerVars = Proved!readerVars
  /\ Collector!streamVars = Proved!streamVars /\ Collector!history = Proved!history
BY DEF Collector!vars, Proved!vars, Collector!readerVars, Proved!readerVars,
         Collector!streamVars, Proved!streamVars, Collector!history, Proved!history

LEMMA SameChanges ==
  /\ UNCHANGED Collector!vars <=> UNCHANGED Proved!vars
  /\ UNCHANGED Collector!readerVars <=> UNCHANGED Proved!readerVars
  /\ UNCHANGED Collector!streamVars <=> UNCHANGED Proved!streamVars
  /\ UNCHANGED Collector!history <=> UNCHANGED Proved!history
BY DEF Collector!vars, Proved!vars, Collector!readerVars, Proved!readerVars,
         Collector!streamVars, Proved!streamVars, Collector!history, Proved!history

LEMMA SameFailing == Collector!Fail <=> Proved!Fail
BY SameReading, SameForgotten, SameChanges DEF Collector!Fail, Proved!Fail

LEMMA SameCollectorStep ==
  Collector!CollectorStep \/ Collector!Crash => Proved!CollectorStep \/ Proved!Crash
<1>1. Collector!Start => Proved!Start
  BY SameReading, SameChanges DEF Collector!Start, Proved!Start
<1>2. Collector!PollStat => Proved!PollStat
  BY SameReading, SameChanges DEF Collector!PollStat, Proved!PollStat
<1>3. Collector!PollRead => Proved!PollRead
  BY SameReading, SameFraming, SameForgotten, SameChanges
     DEF Collector!PollRead, Proved!PollRead
<1>4. Collector!ResetCursor => Proved!ResetCursor
  BY SameFailing, SameChanges DEF Collector!ResetCursor, Proved!ResetCursor
<1>5. Collector!HandleLine => Proved!HandleLine
  BY SameFailing, SamePersisting, SameChanges DEF Collector!HandleLine, Proved!HandleLine
<1>6. Collector!EndPoll => Proved!EndPoll
  BY SameChanges DEF Collector!EndPoll, Proved!EndPoll
<1>7. Collector!Crash => Proved!Crash
  BY SameReading, SameChanges DEF Collector!Crash, Proved!Crash
<1> QED BY <1>1, <1>2, <1>3, <1>4, <1>5, <1>6, <1>7
        DEF Collector!CollectorStep, Proved!CollectorStep

LEMMA SameBridgeStep == Collector!BridgeStep => Proved!BridgeStep
BY DEF Collector!BridgeStep, Proved!BridgeStep, Collector!FlushLine, Proved!FlushLine,
         Collector!FlushPart, Proved!FlushPart, Collector!BreakOff, Proved!BreakOff,
         Collector!Replace, Proved!Replace, Collector!Unlink, Proved!Unlink,
         Collector!Recreate, Proved!Recreate, Collector!StartOver, Proved!StartOver,
         Collector!Cells, Proved!Cells, Collector!NL, Proved!NL, Collector!readerVars,
         Proved!readerVars

LEMMA SameSpec == Collector!Spec => Proved!Spec
<1>1. [Collector!Next]_(Collector!vars) => [Proved!Next]_(Proved!vars)
  BY SameCollectorStep, SameBridgeStep, SameChanges DEF Collector!Next, Proved!Next
<1> QED BY <1>1, SameStart, PTL DEF Collector!Spec, Proved!Spec

\* The bounds of the exporter's file are bounds of the stream.
LEMMA ConstantsFit == Proved!StreamAssumption /\ Proved!IngestionAssumption
<1>1. /\ Width \in Nat \ {0} /\ MaxLines \in Nat /\ MaxRotations \in Nat
      /\ EventLines \subseteq 1..MaxLines /\ MaxFailures \in Nat /\ MaxCrashes \in Nat
  BY ConstantsAreTyped, PipelineAssumption
<1>2. Proved!StreamAssumption
  BY <1>1 DEF Proved!StreamAssumption
<1>3. Proved!IngestionAssumption
  BY <1>1 DEF Proved!IngestionAssumption, Proved!Lines
<1> QED BY <1>2, <1>3

LEMMA SameProperties ==
  /\ Proved!HeldIsFile => Collector!HeldIsFile
  /\ Proved!InOrderOnce => Collector!InOrderOnce
  /\ Proved!CursorKeepsPace => Collector!CursorKeepsPace
  /\ Proved!NothingElseSkipped => Collector!NothingElseSkipped
<1>1. Proved!HeldIsFile => Collector!HeldIsFile
  BY DEF Proved!HeldIsFile, Collector!HeldIsFile
<1>2. Proved!InOrderOnce => Collector!InOrderOnce
  BY DEF Proved!InOrderOnce, Collector!InOrderOnce
<1>3. Proved!CursorKeepsPace => Collector!CursorKeepsPace
  BY DEF Proved!CursorKeepsPace, Collector!CursorKeepsPace
<1>4. Proved!NothingElseSkipped => Collector!NothingElseSkipped
  BY DEF Proved!NothingElseSkipped, Collector!NothingElseSkipped, Proved!ReadPast,
         Collector!ReadPast, Proved!WholeBefore, Collector!WholeBefore, Proved!Ingested,
         Collector!Ingested, Proved!Cells, Collector!Cells, Proved!NL, Collector!NL
<1> QED BY <1>1, <1>2, <1>3, <1>4

\* In operation, with the real exporter's file: the held partial line is what the file
\* holds, events are stored in the order they were emitted and never twice, a restart reads
\* neither less nor more, and no other event is skipped (reader.py, pipeline.py,
\* repository.py).
THEOREM CollectorHolds ==
  PipelineSpec => /\ []Collector!HeldIsFile /\ []Collector!InOrderOnce
                  /\ []Collector!CursorKeepsPace /\ []Collector!NothingElseSkipped
<1>1. Proved!Spec => []Proved!HeldIsFile
  BY ConstantsFit, Proved!HeldIsFileHolds
<1>2. Proved!Spec => []Proved!InOrderOnce
  BY ConstantsFit, Proved!InOrderOnceHolds
<1>3. Proved!Spec => []Proved!CursorKeepsPace
  BY ConstantsFit, Proved!CursorKeepsPaceHolds
<1>4. Proved!Spec => []Proved!NothingElseSkipped
  BY ConstantsFit, Proved!NothingElseSkippedHolds
<1>5. PipelineSpec => Collector!Spec
  BY ImplementsIngestionHolds DEF ImplementsIngestion
<1> QED BY <1>1, <1>2, <1>3, <1>4, <1>5, SameSpec, SameProperties, PTL

-----------------------------------------------------------------------------
(* What is written is stored *)

\* A line that can be read in a file the cursor has passed was read past.
LEMMA ReadableIsReadPast ==
  ASSUME TypeInv, CaughtUp, NEW n \in Readable
  PROVE  n \in 1..emitted /\ Collector!ReadPast(n)
<1>1. disk \in Seq(0..MaxLines) /\ Len(disk) \in Nat
  BY Places
<1>2. Visible = disk
  BY <1>1 DEF CaughtUp, Visible
<1>3. cursor = Len(disk)
  BY DEF CaughtUp
<1>4. /\ n \in 1..emitted
      /\ \E i \in 0..(Len(disk) - Width - 1) :
           SubSeq(disk, i + 1, i + Width + 1) = Cells(n) /\ (i = 0 \/ disk[i] = NL)
  BY DEF Readable
<1>5. Collector!WholeBefore(n, cursor)
  BY <1>2, <1>3, <1>4 DEF Collector!WholeBefore, Collector!Cells, Collector!NL, Cells, NL
<1>6. cursor <= Len(Visible)
  BY <1>1, <1>2, <1>3
<1> QED BY <1>4, <1>5, <1>6 DEF Collector!ReadPast

\* What the bridge counts as written is in the event table once the collector has caught
\* up, but for the lines excused and one after each that was left unfinished: together,
\* EmitLine() of Bridge.mq5 and insert_event_with_cursor() of repository.py lose no
\* event in any other way, for every width of a line, number of lines, and number and
\* place of failing writes, killed terminals, failed transactions and crashes.
THEOREM WrittenIsStoredHolds == PipelineSpec => []WrittenIsStored
<1>1. TypeInv /\ WrittenIsReadable /\ Collector!NothingElseSkipped => WrittenIsStored
  <2> SUFFICES ASSUME TypeInv, WrittenIsReadable, Collector!NothingElseSkipped,
                      rotations = 0, CaughtUp
               PROVE  writes <= Cardinality({n \in first..emitted : Accounted(n)})
                                + Cardinality(Unfinished)
    BY DEF WrittenIsStored
  <2> DEFINE Stored == {n \in first..emitted : Accounted(n)}
  <2>1. ReadableNow \subseteq Stored
    <3> SUFFICES ASSUME NEW n \in ReadableNow PROVE n \in Stored
      OBVIOUS
    <3>1. n \in Readable /\ n \in first..emitted
      BY DEF ReadableNow
    <3>2. Collector!ReadPast(n)
      BY <3>1, ReadableIsReadPast
    <3>3. n \in EventLines \ forgotten => Collector!Ingested(n)
      BY <3>2 DEF Collector!NothingElseSkipped
    <3> QED BY <3>1, <3>3 DEF Accounted
  <2>2. IsFiniteSet(Stored)
    <3>1. first \in Int /\ emitted \in Int
      <4>1. first \in 1..(MaxLines + 1) /\ emitted \in Nat
        BY Places DEF TypeInv, TypeOK
      <4> QED BY <4>1
    <3>2. IsFiniteSet(first..emitted)
      BY <3>1, FS_Interval
    <3> QED BY <3>2, FS_Subset
  <2> HIDE DEF Stored
  <2>3. Cardinality(ReadableNow) <= Cardinality(Stored) /\ Cardinality(Stored) \in Nat
    BY <2>1, <2>2, FS_Subset, FS_CardinalityType
  <2>4. writes <= Cardinality(ReadableNow) + Cardinality(Unfinished)
    BY DEF WrittenIsReadable, ReadableNow
  <2>5. /\ Cardinality(ReadableNow) \in Nat /\ Cardinality(Unfinished) \in Nat
        /\ writes \in Nat
    <3>1. writes \in 0..MaxLines
      BY DEF TypeInv, TypeOK
    <3> QED BY <3>1, LinesAreFinite
  <2>6. writes <= Cardinality(Stored) + Cardinality(Unfinished)
    BY <2>3, <2>4, <2>5
  <2> QED BY <2>6 DEF Stored
<1>2. [PipelineNext]_pipelineVars => [Next]_vars
  BY DEF PipelineNext, BridgeMoves, CollectorMoves, pipelineVars
<1>3. PipelineSpec => Spec
  BY <1>2, PTL DEF PipelineSpec, PipelineInit, Spec
<1>4. Spec => []TypeInv /\ []WrittenIsReadable
  BY TypesAreInvariant, WrittenIsReadableHolds, PTL
<1> QED BY <1>1, <1>3, <1>4, CollectorHolds, PTL
=============================================================================
