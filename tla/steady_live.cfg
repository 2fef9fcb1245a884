SPECIFICATION ProductiveSpec
CONSTANTS
  Seeds = {s}
  Mutants = {m1, m2}
  Cells = 1
  MaxInFlight = 2
  EpochSize = 1
  MaxEpochs = 1
  Budget = FALSE
  MaxErrors = 1
PROPERTIES GateReopens Resolved Stops
CHECK_DEADLOCK FALSE
