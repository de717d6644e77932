\* Runs that end in a panic.
SPECIFICATION Spec
CONSTANTS
  MaxTxs = 3
  MaxStmts = 2
INVARIANTS
  EveryTxEnded
CHECK_DEADLOCK FALSE
