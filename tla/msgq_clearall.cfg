\* ClearAll with two subscribers, then a push.
SPECIFICATION MsgqSpec
CONSTANTS
  int = int
  Items = {i1, i2}
  Pushers = {p1}
  Removers = {r1}
  Kinds = {int}
  Kind <- OneKind
  AtFront = {}
  Nesters = {}
  NoThread = NoThread
  Nil = Nil
  MaxPush = 1
  MaxClear = 1
  Batch <- MCBatch
  TagPushers = {p, q}
  MaxTagPush = 2
  MaxStores = 2
  WsSess = {a, b}
  WsPushers = {p, q}
  SseSess = {s, t}
  SsePushers = {p}
  Addrs = {1, 2}
  MaxUserPush = 2
  Units = {"msgq"}
INVARIANTS
  ClearedNotCalled
CHECK_DEADLOCK FALSE
