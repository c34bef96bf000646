CONSTANTS
  c1 = c1
  c2 = c2
  t1 = t1
  t2 = t2
  Commands = {c1}
  SameTrade = TRUE
  TradeOf <- MCTradeOf
  NoCommand = NoCommand
  InvalidCommands = {}
  Modes = {"FULL_FILL", "PARTIAL_FILL", "REJECT", "TIMEOUT", "TIMEOUT_LANDED", "AMBIGUOUS", "EXPIRED"}
  LateLanding = FALSE
  SubmitRetries = 1
  SlAttachRetries = 1
  CloseRetries = 1
  MaxCrashes = 1
SPECIFICATION Spec
INVARIANT
  ReportedIsReconcilable
CHECK_DEADLOCK FALSE
