SPECIFICATION FairSpec
CONSTANTS
  Width = 2
  MaxLines = 3
  TornFlushes = TRUE
  Breaks = TRUE
  Rotations <- MCBoth
  MaxRotations = 2
  NoInode = noInode
  noInode = noInode
  EventLines <- MCEventLines
  MaxFailures = 1
  MaxCrashes = 2
INVARIANTS TypeOK InOrderOnce HeldIsFile CursorKeepsPace NothingElseSkipped
PROPERTY StreamIsIngested
