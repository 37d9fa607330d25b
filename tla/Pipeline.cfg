\* Trades of any kind and a tick, failing sends, services that die at any point.
CONSTANTS
  Inputs = {"trades", "market-data"}
  Kinds <- OpenTrades
  Symbols = {1}
  Faults = {"kafka"}
  Kept = 1
  Pruned = 1
  MaxWritten = 2
  MaxExpired = 1
  MaxJoins = 2
  MaxMinutes = 1
SPECIFICATION FairSpec
CHECK_DEADLOCK FALSE
INVARIANT TypeOK
INVARIANT CommittedIsLogged
INVARIANT Forwarded
INVARIANT BookedOnce
PROPERTY ProcessorReads
PROPERTY AdapterReads
PROPERTY CatchesUp
