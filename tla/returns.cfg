\* The blocking calls of ctx, msgq, signal, limit and web, one unit at a time.
SPECIFICATION Spec
CONSTANTS
  root = root
  sub = sub
  a = a
  b = b
  n1 = n1
  n2 = n2
  n3 = n3
  n4 = n4
  i1 = i1
  i2 = i2
  r1 = r1
  r2 = r2
  r3 = r3
  r4 = r4
  p1 = p1
  w1 = w1
  w2 = w2
  d1 = d1
  d2 = d2
  t1 = t1
  t2 = t2
  int = int
  Head = Head
  None = None
  Nil = Nil
  NoThread = NoThread
  Nobody = Nobody
  Refill = Refill
PROPERTIES
  Downstream
  DoneReturns
  CallsReturn
  LimitReturns
  SlotsReturn
CHECK_DEADLOCK FALSE
