SPECIFICATION FairSpec
CONSTANTS
  MaxAttempts = 2
  TimeoutS = 60
  RetrySleepS = 10
  Latencies = {1}
  StartAges <- MCStartAges
  Statuses = {"TIMEOUT", "HTTP503", "HTTP429", "HTTP400"}
  Answers <- MCAnswers
  NoAnswer = noAnswer
  NoRecord = noRecord
  RiskBasis = "EQUITY"
  RiskPermille = 5
  MaxPositions = 1
  MaxDrawdown = 5
  SlPoints = 50
  MaxSpread = 45
  ExposureRatio = 100
  MarginRatio = 10
  BudgetMultiplier = 1
  Leverage = 2000
  ObservedSpread = 36
  MaxStale = 10
  MinConfidence = 50
  NoEvaluation = noEvaluation
  Scenarios <- MCScenarios
  FirstTicks <- MCFirstTicks
  LaterTicks <- MCLaterTicks
  Window = 3
  PaperSpec <- MCPaperSpec
  NoScenario = noScenario
  NoPosition = noPosition
  NoEvidence = noEvidence
  NoOverride = noOverride
  Cases <- MCCases
INVARIANTS
  CallsFollowTheChain
  OnlyVettedAnswersTrade
  ApprovedLotIsLargest
  ApprovalFitsTheAccount
  EvidenceMatchesHistory
PROPERTY EveryPathEnds
CHECK_DEADLOCK FALSE
