SPECIFICATION Spec
CONSTANTS
  Trades = {t1}
  Triggers <- MCHeartbeat
  Closes = TRUE
  MaxFaults = 0
  Unknown = unknown
  Absent = absent
  NoRun = noRun
INVARIANT ShadowIsLatest
