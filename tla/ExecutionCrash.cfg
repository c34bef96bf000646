CONSTANTS
  c1 = c1
  c2 = c2
  t1 = t1
  t2 = t2
  Commands = {c1, c2}
  SameTrade = TRUE
  TradeOf <- MCTradeOf
  NoCommand = NoCommand
  InvalidCommands = {}
  Modes = {"FULL_FILL", "PARTIAL_FILL", "REJECT", "TIMEOUT", "TIMEOUT_LANDED", "AMBIGUOUS", "EXPIRED"}
  LateLanding = FALSE
  SubmitRetries = 2
  SlAttachRetries = 2
  CloseRetries = 2
  MaxCrashes = 2
SPECIFICATION Spec
INVARIANTS
  TypeOK
  WriteAhead
  NoResendOverEvidence
  ClosedIsClosed
  FilledIsProtected
  NoPositionEscapes
  JournalIsCurrent
PROPERTIES
  LegalLifecycle
  KeepsPromise
CHECK_DEADLOCK FALSE
