\* Five steps that return or raise, a database that fails, a process that is killed.
CONSTANTS
  Steps = 5
  HasPool = {TRUE, FALSE}
  Faults = {"db"}
  MaxStarts = 2
SPECIFICATION FairSpec
CHECK_DEADLOCK FALSE
INVARIANT TypeOK
INVARIANT RowsTell
PROPERTY CyclesGoOn
