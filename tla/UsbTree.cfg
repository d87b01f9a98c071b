SPECIFICATION FairSpec
CONSTANTS
  box = box  disk = disk  keys = keys  pad = pad
  Things = {box, disk, keys}
  Kind <- KindDef
  NoThing = NoThing
  Root = Root
  NPorts = 2
  MaxDev = 4
  MaxHub = 2
  MaxStor = 1
  MaxHid = 1
  PortTries = 3
  MaxMoves = 4
  MaxFaults = 1
INVARIANTS
  TablesSound
PROPERTIES
  Undisturbed
  BusSettles
CHECK_DEADLOCK FALSE
