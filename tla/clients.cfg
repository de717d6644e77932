\* Lists of up to three transactions, two requests, a pipe and a websocket.
SPECIFICATION ClientsSpec
CONSTANTS
  MaxTxs = 3
  MaxStmts = 2
  Vals <- MCVals
  Chunks = 2
  MaxReqs = 2
  ReadTypes = {"text", "ping", "pong"}
  Periodic = TRUE
  MaxWsOps = 4
INVARIANTS
  NoneLeftOpen
  ErrorMeansNothing
  OneAttemptSeen
PROPERTIES
  PipeReturns
  TimeoutEnds
  ClientEnds
CHECK_DEADLOCK FALSE
