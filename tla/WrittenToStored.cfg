SPECIFICATION PipelineSpec
CONSTANTS
  Width = 1
  MaxLines = 2
  HeartbeatSec = 1
  PositionUpdateSec = 1
  SnapshotSec = 1
  FlushLines = 2
  MaxReopenAttempts = 1
  MaxFaults = 1
  MaxRotations = 1
  NoInode = noInode
  noInode = noInode
  EventLines <- MCEventLines
  MaxFailures = 1
  MaxCrashes = 1
INVARIANT WrittenIsStored
PROPERTY ImplementsIngestion
\* The terminal may stay down, and MaxLines ends what it writes.
CHECK_DEADLOCK FALSE
