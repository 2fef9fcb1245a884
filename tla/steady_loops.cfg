SPECIFICATION Spec
CONSTANTS
  Seeds = {s}
  Mutants = {m1, m2, m3}
  Cells = 2
  MaxInFlight = 2
  EpochSize = 1
  MaxEpochs = 2
  Budget = TRUE
  MaxErrors = 1
SYMMETRY MutantSymmetry
INVARIANTS SlotsConserved Tracked NeverJudgedTwice StoppedDrained
PROPERTIES ScopedDrain
CHECK_DEADLOCK FALSE
