SPECIFICATION Spec
CONSTANTS
  Width = 2
  MaxLines = 4
  TornFlushes = TRUE
  Breaks = FALSE
  Rotations <- MCNone
  MaxRotations = 0
  NoInode = noInode
  noInode = noInode
  EventLines <- MCEventLines
  MaxFailures = 0
  MaxCrashes = 0
INVARIANT NothingSkipped
