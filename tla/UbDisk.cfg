SPECIFICATION FairSpec
CONSTANTS
  u1 = u1
  u2 = u2
  Users = {u1}
  Admins = {u2}
  Present = {1}
  Sizes <- Small
  Bounce = 2
  Chunk = 3
  HubEvery = 2
  Word = 8
  Reqs <- SomeReqs
  RwArgs <- SomeRw
  MaxDevs = 1
  MaxLosses = 1
  MaxOps = 1
  MaxCalls = 2
INVARIANTS
  LockSound
  RequestsSound
PROPERTIES
  GoesOn
CHECK_DEADLOCK FALSE
