CONSTANTS
  c1 = c1
  c2 = c2
  t1 = t1
  t2 = t2
  Commands = {c1, c2}
  SameTrade = FALSE
  TradeOf <- MCTradeOf
  NoCommand = NoCommand
  InvalidCommands = {c2}
  Modes = {"FULL_FILL", "PARTIAL_FILL", "REJECT", "TIMEOUT", "TIMEOUT_LANDED", "AMBIGUOUS", "EXPIRED"}
  LateLanding = TRUE
  SubmitRetries = 2
  SlAttachRetries = 2
  CloseRetries = 2
  MaxCrashes = 1
SPECIFICATION RecoverySpec
INVARIANTS
  AtMostOnePosition
  OneEntryInDoubt
PROPERTIES
  CallsRunDown
  CallsEnd
  UnknownIsResolved
CHECK_DEADLOCK FALSE
