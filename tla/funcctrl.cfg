\* BlockSeqFunc with three goroutines, BlockFuncN, SkipFunc, keyFunc and progLock.
SPECIFICATION FuncCtrlSpec
CONSTANTS
  Procs = {p1, p2, p3}
  CtxUsers = {}
  MaxSwaps = 6
  GivesUp = p2
  a1 = a1
  Ones = {p1, p2, p3}
  Alls = {a1, a2}
  max = 3
  Runners = {p1, p2}
  Addrs = {1, 2}
  MaxFlashes = 3
  Programs = {p1, p2}
  Second = 2
  lock_timeout = 1
  MaxClock = 5
INVARIANTS
  AllAlone
  OneProgram
PROPERTIES
  OrderSpec
  NobodyLeftWaiting
  GetEnds
CHECK_DEADLOCK FALSE
