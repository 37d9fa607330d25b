\* A client that cancels five orders within 30 seconds.
CONSTANTS
  Names = {"CLIENT_001"}
  Seeds = {"CLIENT_001"}
  Traders = {"CLIENT_001"}
  Sectors = {"Technology", "Energy"}
  Books <- Drawn
  Notionals = {1000}
  Reached = {"db", "kafka"}
  Faults = {}
  Holdings <- Market
  MaxRecent = 5
SPECIFICATION Spec
CHECK_DEADLOCK FALSE
PROPERTY SpoofingReported
