SPECIFICATION FairSpec
CONSTANTS
  Trades = {t1}
  Triggers <- MCHeartbeat
  Closes = TRUE
  MaxFaults = 1
  Unknown = unknown
  Absent = absent
  NoRun = noRun
INVARIANTS TypeOK ShadowIsLatestInOrder SettledIsSynced
PROPERTIES Converges MismatchesAreHandled
