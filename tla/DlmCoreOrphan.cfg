SPECIFICATION Spec
CONSTANTS
  a = a
  b = b
  c = c
  s = s
  r = r
  h = h
  NoProc = NoProc
  NoName = NoName
  Procs = {p, q}
  Names = {a, b, c, s}
  Static = {s}
  Keys = {r, h}
  Depends <- DependsShared
  Links <- LinksShared
  Owners <- OwnersShared
  MaxDepth = 3
  Intr = {"open", "image", "inload", "failun", "inunl"}
  AllocSleeps = FALSE
  MaxId = 6
  MaxRefs = 1
  MaxCalls = 4
SYMMETRY Perms
INVARIANTS
  TransOwned
CHECK_DEADLOCK FALSE
