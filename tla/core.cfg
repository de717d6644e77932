\* limit: callers that take a token or give up at once, and two goroutines that close.
\* ctx: done() against children that register and finish at any moment; the nested scope
\* has a timeout, the root does not.  web: up to seven paths, with two handlers.
SPECIFICATION CoreSpec
CONSTANTS
  Refill = Refill
  Waiters = {Refill}
  Closers = {d1, d2}
  TOCallers = {t1, t2, t3}
  maxNum_in_period = 2
  Mode = "none"
  ZeroPeriod = FALSE
  MaxTicks = 3
  MaxCalls = 3
  root = root
  sub = sub
  a = a
  b = b
  c1 = c1
  c2 = c2
  Scopes <- MCScopes
  Root = root
  Tasks <- MCTasks
  Callers <- MCCallers
  Under <- MCUnderTask
  Owner <- MCOwnerTask
  PlanNum <- MCPlan
  WithTO <- MCSubTO
  h1 = h1
  h2 = h2
  Nil = Nil
SYMMETRY Perms
INVARIANTS
  DoneWaits
  RateBound
  CloseWaits
  NilMeansPlanFinished
  NilMeansSeenFinished
  ActualCounts
  RoutesExact
CHECK_DEADLOCK FALSE
