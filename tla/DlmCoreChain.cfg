SPECIFICATION FairSpec
CONSTANTS
  a = a
  b = b
  c = c
  s = s
  r = r
  h = h
  NoProc = NoProc
  NoName = NoName
  Procs = {p, q}
  Names = {a, b, c, s}
  Static = {s}
  Keys = {r, h}
  Depends <- DependsChain
  Links <- LinksChain
  Owners <- OwnersChain
  MaxDepth = 3
  Intr = {"open", "image", "inload", "inunl"}
  AllocSleeps = FALSE
  MaxId = 9
  MaxRefs = 1
  MaxCalls = 3
INVARIANTS
  NoPanic
PROPERTIES
  RegistrySpec
  CallReturns
CHECK_DEADLOCK FALSE
