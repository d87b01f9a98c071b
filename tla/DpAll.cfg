SPECIFICATION FairSpec
CONSTANTS
  p = p
  o = o
  ip = ip
  arp = arp
  Procs = {p}
  NoProc = NoProc
  Streams = {ip, arp}
  NoQ = NoQ
  NMinor = 2
  Saps = {2048}
  NoSap = NoSap
  Bad = {2}
  MaxFrames = 3
  MaxFaults = 1
  MaxErrs = 2
  Retries = 1
  Flushes = TRUE
INVARIANTS TypeOK CommandSound StreamsSound
PROPERTIES GoesOn
