SPECIFICATION FairSpec
CONSTANTS
  Calls = {a, b, c}
  Workers = {w1, w2, w3}
  None = None
  MaxWorkers = 2
  Big = {a}
  Loud = {b, c}
  StderrRoom = 1
  MaxTimeouts = 2
  MaxDeaths = 1
  MaxCancels = 2
  MaxUnreaped = 1
INVARIANTS AnswersOwn Accounted
PROPERTIES Served
CHECK_DEADLOCK FALSE
