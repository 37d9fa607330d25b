\* Messages of any kind between the calls of the flush, failing backends, a restart.
CONSTANTS
  MessageKinds = {"trade", "odd_trade", "text_price", "rejected", "untyped", "broken"}
  Seeds <- Seeded
  Activity <- Rounds
  Reached = {"kafka", "postgres", "es"}
  Faults = {"kafka", "postgres", "es"}
  Kept = 2
  MaxMessages = 2
  MaxRounds = 1
  MaxRestarts = 1
SPECIFICATION FairSpec
CHECK_DEADLOCK FALSE
INVARIANT TypeOK
INVARIANT CountersTell
INVARIANT SameSnapshot
PROPERTY FlushesGoOn
