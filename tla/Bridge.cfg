SPECIFICATION Spec
CONSTANTS
  Width = 1
  MaxLines = 4
  HeartbeatSec = 2
  PositionUpdateSec = 1
  SnapshotSec = 2
  FlushLines = 2
  MaxReopenAttempts = 2
  MaxFaults = 2
  MaxRotations = 1
INVARIANTS WrittenIsReadable UnflushedIsBounded EpisodesAreReported
PROPERTY ImplementsStream
\* The program may stay unloaded, and MaxLines ends what it writes.
CHECK_DEADLOCK FALSE
