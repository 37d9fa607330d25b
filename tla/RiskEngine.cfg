\* A client and the name "portfolio", failing backends, a fair loop.
CONSTANTS
  Names = {"CLIENT_001", "portfolio"}
  Seeds = {"CLIENT_001"}
  Traders = {"CLIENT_001"}
  Sectors = {"Technology", "Energy", "Industrial"}
  Books <- Drawn
  Notionals = {1000}
  Reached = {"db", "kafka"}
  Faults = {"kafka"}
  Holdings <- Market
  MaxRecent = 1
SPECIFICATION FairSpec
CHECK_DEADLOCK FALSE
INVARIANT TypeOK
INVARIANT SnapshotIsCurrent
INVARIANT MarginCallBlocks
INVARIANT AlertsTell
INVARIANT PassesComplete
PROPERTY EveryClientWatched
