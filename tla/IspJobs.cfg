SPECIFICATION FairSpec
CONSTANTS
  Hids = {kbd}
  MaxJob = 2
  MaxMsg = 3
  Retries = 2
  ErrCost = 2
  MaxReports = 1
  MaxBreaks = 1
INVARIANTS
  DataSound
  ReportsOnce
PROPERTIES
  MessageEnds
CHECK_DEADLOCK FALSE
