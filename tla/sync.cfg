\* Three goroutines on two keys, three blocks, two objects, three ids, two Files.
SPECIFICATION SyncSpec
CONSTANTS
  Keys = {k1, k2}
  Threads = {t1, t2, t3}
  Ops = {"Store", "Delete", "CompareAndDelete"}
  MaxCalls = 3
  ClearKeys = {k1, k2, k3}
  Cleaner = cleaner
  MaxClears = 8
  TimedKeys = {k1, k2}
  Objs = {o1, o2, o3}
  Callers = {c1, c2}
  MaxTimed = 2
  None = None
  GetUsers = {g1, g2}
  AutoUsers = {a1, a2}
  blockNum = 3
  FlexUsers = {g1, g2, g3}
  flexNum = 2
  PoolUsers = {g1, g2}
  Items = 4
  maxsize = 2
  HasInUse = TRUE
  InitKeys = {"k", "l"}
  TKeys = {"k", "l", "m"}
  TVals = {"v", "w"}
  Limits <- MCLimits
  Druation = 1
  Epoch = 9
  MaxClock = 11
  MaxIds = 3
  Writers = {g1, g2}
  slotN = 2
  CounterMod = 3
  MaxCacheWrites = 8
  Files = {"f", "g"}
  FileUsers = {"u", "v"}
  Main = "f"
  OpsOf <- MCOpsOf
  CurIndexes <- MCCurIndexes
  MaxFileOps = 3
INVARIANTS
  InFlight
  MapsExact
  Accounted
  LastPutSeen
  HandedOutOnce
  SoloFile
CHECK_DEADLOCK FALSE
