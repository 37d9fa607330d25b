\* An order that the service admits without the engine.
CONSTANTS
  Names = {"CLIENT_001"}
  Seeds = {"CLIENT_001"}
  Traders = {"CLIENT_001"}
  Sectors = {"Technology", "Energy"}
  Books <- Drawn
  Notionals = {1000}
  Reached = {"db", "kafka"}
  Faults = {}
  Holdings <- Market
  MaxRecent = 1
SPECIFICATION Spec
CHECK_DEADLOCK FALSE
INVARIANT EveryOrderChecked
