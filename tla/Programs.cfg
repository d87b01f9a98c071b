SPECIFICATION Spec
CONSTANTS
  Slices = 3
  Drives = 5
  FirstDrive = 1
  Reserved = 2
  MaxDrives = 2
  RootTag = 2
  Clients = {"c1", "c2"}
  Servers = {"s1", "s2"}
  Pool <- ThePool
  Secs <- TheSecs
  Wait0 = 1
  WaitMax = 1
  XidByte = 256
  MaxXid = 1
  MaxLines = 3
  Zones <- TheZones
  Window = 1
  Step = 1
  MaxTime = 4
  MaxBoots = 2
  MaxRecs = 2
  ChipErrs = {0, 2}
  Plain = {"a"}
  FKeys = {"f1"}
  BufSize = 5
  MaxWire = 2
  MaxMoves = 5
  MaxTurns = 2
INVARIANTS TypeOK FilesSound LeaseSound KeysSound
PROPERTIES RecordsKept
CHECK_DEADLOCK FALSE
