SPECIFICATION Spec
CONSTANTS
  Calls = {a, b, c}
  Workers = {w1, w2, w3}
  None = None
  MaxWorkers = 2
  Big = {a}
  Loud = {b, c}
  StderrRoom = 1
  MaxTimeouts = 0
  MaxDeaths = 0
  MaxCancels = 0
  MaxUnreaped = 0
INVARIANTS FailsOfItsOwn
CHECK_DEADLOCK FALSE
