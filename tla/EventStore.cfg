SPECIFICATION FairSpec
CONSTANTS
  ingestion = ingestion
  reconciliation = reconciliation
  nobody = nobody
  trade = trade
  noTrade = noTrade
  Openers = {ingestion, reconciliation}
  NoOpener = nobody
  LastVersion = 3
  MaxFailures = 1
  MaxCrashes = 1
  Trades = {trade}
  NoTrade = noTrade
  LastTime = 1
INVARIANT SchemaIsWhole
PROPERTIES ImplementsTradePath EveryOpenerGetsThrough
