\* One registrar and one goroutine that drops keys, with room for one key.
SPECIFICATION Spec
CONSTANTS
  Keys = {k1, k2}
  Registrars = {reg}
  Renewers = {}
  Droppers = {drop}
  Checkers = {chk}
  max = 1
  None = None
  MaxCalls = 1
INVARIANTS
  AnsweredFound
CHECK_DEADLOCK FALSE
