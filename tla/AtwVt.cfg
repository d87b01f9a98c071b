SPECIFICATION FairSpec
CONSTANTS
  Last = 3
  LendWait = 1
  MaxStarts = 3
  MaxAsks = 2
  MaxLends = 1
  MaxKills = 1
  Hurried = FALSE
INVARIANTS TypeOK OneShown
PROPERTIES Settles
CHECK_DEADLOCK FALSE
