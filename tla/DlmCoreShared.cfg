SPECIFICATION Spec
CONSTANTS
  a = a
  b = b
  c = c
  s = s
  r = r
  h = h
  NoProc = NoProc
  NoName = NoName
  Procs = {p, q}
  Names = {a, b, c, s}
  Static = {s}
  Keys = {r, h}
  Depends <- DependsShared
  Links <- LinksShared
  Owners <- OwnersShared
  MaxDepth = 3
  Intr = {"open", "image", "inload", "inunl"}
  AllocSleeps = TRUE
  MaxId = 6
  MaxRefs = 1
  MaxCalls = 3
SYMMETRY Perms
INVARIANTS
  TypeOK
  TransOwned
  SlotLive
  InService
  CountsKept
CHECK_DEADLOCK FALSE
