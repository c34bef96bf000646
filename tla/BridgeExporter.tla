--------------------------- MODULE BridgeExporter ----------------------------
(***************************************************************************)
(* The MQL5 bridge and its exporter (mql5-bridge/src/Bridge.mq5,           *)
(* Export/JsonExporter.mqh, Health/HealthMonitor.mqh): which lines its     *)
(* event handlers write, and how they get into the file.  The terminal     *)
(* runs one handler at a time; a handler's lines and flushes are separate  *)
(* steps, between which the operating system may show cells of the file to *)
(* its readers and the terminal may be killed.                             *)
(*                                                                         *)
(* A line that reaches the file, whole or in part, is the next number; a   *)
(* lost one has none.  What a line says is left out.                       *)
(***************************************************************************)
EXTENDS Naturals, Sequences, FiniteSets

CONSTANTS Width, MaxLines,      \* cells of a line, bound on lines written
          HeartbeatSec, PositionUpdateSec, SnapshotSec,  \* periods in timer events
          FlushLines,           \* InpFlushLines
          MaxReopenAttempts,    \* InpMaxReopenAttempts
          MaxFaults,            \* bound on failing file operations
          MaxRotations          \* bound on the times the file goes away

ASSUME ExporterAssumption ==
  /\ Width \in Nat \ {0} /\ MaxLines \in Nat
  /\ {HeartbeatSec, PositionUpdateSec, SnapshotSec, FlushLines} \subseteq Nat \ {0}
  /\ {MaxReopenAttempts, MaxFaults, MaxRotations} \subseteq Nat

VARIABLES
  disk,       \* the cells written to the file at the path
  shown,      \* how many of them a reader can see
  present,    \* is there a file at the path?
  inode,      \* its identity
  emitted,    \* lines that reached the file so far
  open,       \* m_handle # INVALID_HANDLE
  attempts,   \* m_reopenAttempts
  renamed,    \* m_corruptFileRenamed
  lastError,  \* _LastError # 0: no call of the bridge ever resets it
  pending,    \* what the current handler still has to do
  up,         \* has OnInit run, and OnDeinit not yet?
  sinceFlush, \* g_writesSinceFlush
  writes,     \* m_writeCount of g_health
  timer,      \* timerCount
  reported,   \* g_disconnectedReported
  outage,     \* timer events in a row that saw the terminal disconnected
  first,      \* the first line of this run of the program
  faults, rotations

fileVars == <<disk, shown, present, inode, emitted, rotations>>
exporterVars == <<open, attempts, renamed>>
healthVars == <<sinceFlush, writes>>
outageVars == <<timer, reported, outage>>
vars == <<fileVars, exporterVars, lastError, pending, up, healthVars, outageVars,
          first, faults>>

NL == 0
Cells(n) == [i \in 1..(Width + 1) |-> IF i <= Width THEN n ELSE NL]

Cycle == HeartbeatSec * PositionUpdateSec * SnapshotSec

TypeOK ==
  /\ disk \in Seq(0..MaxLines) /\ shown \in 0..Len(disk) /\ emitted \in 0..MaxLines
  /\ present \in BOOLEAN /\ inode \in Nat
  /\ open \in BOOLEAN /\ attempts \in 0..MaxReopenAttempts /\ renamed \in BOOLEAN
  /\ lastError \in BOOLEAN /\ up \in BOOLEAN /\ reported \in BOOLEAN
  /\ pending \in Seq({"line", "again", "flush", "close"})
  /\ sinceFlush \in 0..(FlushLines - 1) /\ writes \in 0..MaxLines
  /\ timer \in 0..(Cycle - 1) /\ outage \in 0..HeartbeatSec
  /\ first \in 1..(MaxLines + 1)
  /\ faults \in 0..MaxFaults /\ rotations \in 0..MaxRotations

Init ==
  /\ disk = <<>> /\ shown = 0 /\ present \in BOOLEAN /\ inode = 0 /\ emitted = 0
  /\ open = FALSE /\ attempts = 0 /\ renamed = FALSE /\ lastError = FALSE
  /\ pending = <<>> /\ up = FALSE
  /\ sinceFlush = 0 /\ writes = 0 /\ timer = 0 /\ reported = FALSE /\ outage = 0
  /\ first = 1 /\ faults = 0 /\ rotations = 0

-----------------------------------------------------------------------------
(* The exporter *)

Fault == faults < MaxFaults /\ faults' = faults + 1

Doing(what) == pending # <<>> /\ Head(pending) = what
Done == pending' = Tail(pending)
Before(what) == pending' = <<what>> \o pending

(* Mutated form: the file is opened without FILE_READ, which empties it. *)
MutOpenAppend ==
  /\ open' = TRUE /\ present' = TRUE /\ disk' = <<>> /\ shown' = 0
  /\ inode' \in IF present THEN {inode} ELSE {inode, inode + 1}
  /\ UNCHANGED <<emitted, rotations, faults>>

\* OpenAppend(): a missing file is created, possibly with the inode number of
\* the old one.
OpenAppend ==
  /\ open' = TRUE /\ present' = TRUE
  /\ inode' \in IF present THEN {inode} ELSE {inode, inode + 1}
  /\ UNCHANGED <<disk, shown, emitted, rotations, faults>>

\* A call of it fails.  With an error left over, EnsureDirectory() fails without
\* any, where FolderCreate() answers false for a directory that exists.
OpenAppendFails(error) == Fault \/ (error /\ UNCHANGED faults)

\* FileMove() of the file that cannot be opened.
MoveAway ==
  /\ present /\ rotations < MaxRotations
  /\ present' = FALSE /\ disk' = <<>> /\ shown' = 0
  /\ rotations' = rotations + 1
  /\ UNCHANGED <<inode, emitted>>

\* AppendLine() without a handle: ReopenAfterFailure(), until the second call of
\* OpenAppend() if the file had to be moved away.
Reopen ==
  /\ Doing("line") /\ ~open
  /\ \/ /\ attempts >= MaxReopenAttempts /\ Done
        /\ UNCHANGED <<fileVars, exporterVars, lastError, faults>>
     \/ /\ attempts < MaxReopenAttempts /\ OpenAppend
        /\ attempts' = attempts + 1
        /\ UNCHANGED <<pending, renamed, lastError>>
     \/ /\ attempts < MaxReopenAttempts /\ OpenAppendFails(lastError)
        /\ lastError' = TRUE /\ UNCHANGED open
        /\ \/ /\ ~renamed /\ MoveAway
              /\ renamed' = TRUE /\ attempts' = 0 /\ Before("again")
           \/ /\ attempts' = attempts + 1 /\ Done
              /\ UNCHANGED <<fileVars, renamed>>
  /\ UNCHANGED <<up, healthVars, outageVars, first>>

\* The second call.
ReopenAgain ==
  /\ Doing("again")
  /\ \/ OpenAppend /\ Done
     \/ /\ OpenAppendFails(lastError) /\ UNCHANGED <<fileVars, open>>
        /\ pending' = Tail(Tail(pending))
  /\ UNCHANGED <<attempts, renamed, lastError, up, healthVars, outageVars, first>>

(* Mutated form: only the heartbeat flushes. *)
MutFlushIsDue(count) == FALSE

FlushIsDue(count) == count >= FlushLines

\* EmitLine(), when AppendLine() reports the line as written.
CountWrite ==
  /\ writes' = writes + 1
  /\ IF FlushIsDue(sinceFlush + 1)
     THEN sinceFlush' = 0 /\ pending' = <<"flush">> \o Tail(pending)
     ELSE sinceFlush' = sinceFlush + 1 /\ Done

(* Mutated form: a line is counted whatever AppendLine() reports. *)
MutCountError == Done /\ writes' = writes + 1 /\ UNCHANGED sinceFlush

\* ... and when it does not: only the error counter moves.
CountError == Done /\ UNCHANGED healthVars

(* Mutated form: any cells written are taken for success. *)
MutAppendFails(cells) ==
  /\ Fault /\ lastError' = TRUE
  /\ IF cells = 0 THEN CountError ELSE CountWrite

\* FileWriteString() fails after some cells of the line.
AppendFails(cells) ==
  /\ Fault /\ lastError' = TRUE
  /\ CountError

\* It succeeds; an error left over makes AppendLine() report a failure.
AppendSucceeds ==
  /\ IF lastError THEN CountError ELSE CountWrite
  /\ UNCHANGED <<lastError, faults>>

\* AppendLine() with a handle.
AppendLine ==
  /\ Doing("line") /\ open /\ emitted < MaxLines
  /\ \E cells \in 0..(Width + 1) :
       /\ disk' = disk \o SubSeq(Cells(emitted + 1), 1, cells)
       /\ emitted' = IF cells = 0 THEN emitted ELSE emitted + 1
       /\ IF cells = Width + 1 THEN AppendSucceeds ELSE AppendFails(cells)
  /\ attempts' = 0
  /\ UNCHANGED <<shown, present, inode, rotations, open, renamed, up, outageVars, first>>

\* Flush(): everything written is visible when it returns, unless it fails.
Flush ==
  /\ Doing("flush") /\ Done
  /\ \/ shown = Len(disk) /\ UNCHANGED <<lastError, faults>>
     \/ shown < Len(disk) /\ Fault /\ lastError' = TRUE
  /\ UNCHANGED <<fileVars, exporterVars, up, healthVars, outageVars, first>>

\* The operating system shows one more cell to the readers of the file.
Spill ==
  /\ shown < Len(disk)
  /\ shown' = shown + 1
  /\ UNCHANGED <<disk, present, inode, emitted, rotations, exporterVars, lastError,
                 pending, up, healthVars, outageVars, first, faults>>

-----------------------------------------------------------------------------
(* The event handlers *)

Ready == up /\ pending = <<>>

\* A call that reads the terminal fails, before or between the lines of a handler.
CallFails ==
  /\ up /\ ~lastError
  /\ lastError' = TRUE
  /\ UNCHANGED <<fileVars, exporterVars, pending, up, healthVars, outageVars, first, faults>>

Repeat(what, n) == [i \in 1..n |-> what]

\* The handler writes n lines; the bound on lines keeps it from starting.
Room(n) == emitted + n <= MaxLines

\* OnTick(); a tick that cannot be read has no line (CallFails).
OnTick ==
  /\ Ready /\ Room(1)
  /\ pending' = <<"line">>
  /\ UNCHANGED <<fileVars, exporterVars, lastError, up, healthVars, outageVars, first, faults>>

\* OnTradeTransaction(): an order's line, or a fill's and an opened or closed
\* position's; none for a ticket that cannot be selected.
OnTradeTransaction ==
  /\ Ready
  /\ \E n \in 0..2 : Room(n) /\ pending' = Repeat("line", n)
  /\ UNCHANGED <<fileVars, exporterVars, lastError, up, healthVars, outageVars, first, faults>>

(* Mutated form: the flag is not cleared on recovery. *)
MutReports(connected, now) == reported \/ (~connected /\ now % HeartbeatSec = 0)

\* g_disconnectedReported after the event: an outage is noticed with a heartbeat.
Reports(connected, now) == ~connected /\ (reported \/ now % HeartbeatSec = 0)

\* OnTimer(): an outage's beginning or end, the open positions (at most one), the
\* snapshots of positions and orders, and the heartbeat with its flush.
OnTimer ==
  /\ Ready
  /\ \E connected \in BOOLEAN, positions \in 0..1, orders \in 0..1 :
       LET now       == timer + 1
           outages   == IF reported' # reported THEN 1 ELSE 0
           updates   == IF now % PositionUpdateSec = 0 THEN positions ELSE 0
           snapshots == IF now % SnapshotSec = 0 THEN positions + orders ELSE 0
           beats     == now % HeartbeatSec = 0
           lines     == outages + updates + snapshots + IF beats THEN 1 ELSE 0
       IN  /\ timer' = now % Cycle
           /\ reported' = Reports(connected, now)
           /\ outage' = CASE connected -> 0
                          [] ~connected /\ outage < HeartbeatSec -> outage + 1
                          [] OTHER -> outage
           /\ Room(lines)
           /\ pending' = Repeat("line", lines) \o IF beats THEN <<"flush">> ELSE <<>>
  /\ UNCHANGED <<fileVars, exporterVars, lastError, up, healthVars, first, faults>>

\* OnInit(): _LastError is reset before it; a file that does not open is no
\* reason not to start.
OnInit ==
  /\ ~up /\ Room(1)
  /\ up' = TRUE /\ pending' = <<"line", "flush">>
  /\ \E error \in BOOLEAN :
       \/ OpenAppend /\ lastError' = error
       \/ OpenAppendFails(error) /\ lastError' = TRUE /\ UNCHANGED <<fileVars, open>>
  /\ UNCHANGED <<attempts, renamed, healthVars, outageVars, first>>

\* OnDeinit(), up to Close().
OnDeinit ==
  /\ Ready /\ Room(1)
  /\ pending' = <<"flush", "line", "flush", "close">>
  /\ UNCHANGED <<fileVars, exporterVars, lastError, up, healthVars, outageVars, first, faults>>

\* The program's variables as the terminal loads it.
Load ==
  /\ attempts' = 0 /\ renamed' = FALSE
  /\ sinceFlush' = 0 /\ writes' = 0 /\ timer' = 0 /\ reported' = FALSE /\ outage' = 0
  /\ first' = emitted + 1

\* Close(), which ends OnDeinit().  The terminal unloads the program, or keeps
\* its variables for the next OnInit().
Close ==
  /\ Doing("close") /\ Done /\ shown = Len(disk)
  /\ open' = FALSE /\ up' = FALSE
  /\ \/ Load
     \/ UNCHANGED <<attempts, renamed, healthVars, outageVars, first>>
  /\ UNCHANGED <<fileVars, lastError, faults>>

-----------------------------------------------------------------------------
(* The world *)

\* The terminal is killed; what was not yet visible is lost.
Kill ==
  /\ up
  /\ disk' = SubSeq(disk, 1, shown)
  /\ open' = FALSE /\ up' = FALSE /\ pending' = <<>> /\ lastError' = FALSE
  /\ Load
  /\ UNCHANGED <<shown, present, inode, emitted, rotations, faults>>

\* Someone removes the file, which Windows allows while nobody has it open.
Remove ==
  /\ ~open /\ MoveAway
  /\ UNCHANGED <<exporterVars, lastError, pending, up, healthVars, outageVars, first, faults>>

Next ==
  \/ Reopen \/ ReopenAgain \/ AppendLine \/ Flush \/ Spill \/ Close
  \/ CallFails \/ OnTick \/ OnTradeTransaction \/ OnTimer \/ OnInit \/ OnDeinit
  \/ Kill \/ Remove

Spec == Init /\ [][Next]_vars
=============================================================================
