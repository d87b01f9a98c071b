SPECIFICATION FairSpec
CONSTANTS
  Streams = {ip}
  NoQ = NoQ
  NMinor = 2
  Saps = {2048}
  RxSap = 2048
  NoSap = NoSap
  Ring = 3
  FramePages = {2}
  Skips = {0}
  Burst = 2
  Turns = 2
  MaxAge = 1
  RecoverEvery = 2
  Bad = {}
  BadRx = {2}
  MaxRx = 3
  MaxTx = 2
  MaxFaults = 1
INVARIANTS
  QueuesSound
PROPERTIES
  FramesWhole
  FramesLeave
