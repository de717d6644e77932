\* Two subscribers of one type, one of whom pushes from its handler, and two pushers.
SPECIFICATION MsgqSpec
CONSTANTS
  int = int
  Items = {i1, i2}
  Pushers = {p1, p2}
  Removers = {r1, r2}
  Kinds = {int}
  Kind <- OneKind
  AtFront = {i2}
  Nesters = {i1}
  NoThread = NoThread
  Nil = Nil
  MaxPush = 1
  MaxClear = 1
  Batch <- MCBatch
  TagPushers = {p, q}
  MaxTagPush = 2
  MaxStores = 2
  WsSess = {a, b}
  WsPushers = {p, q}
  SseSess = {s, t}
  SsePushers = {p}
  Addrs = {1, 2}
  MaxUserPush = 2
  Units = {"msgq", "tags", "ws", "sse"}
SYMMETRY Perms
INVARIANTS
  NoCallAfterCancel
  EveryoneCalledOnce
  DisabledForGood
  SessionsApart
PROPERTIES
  ListStable
CHECK_DEADLOCK FALSE
