SPECIFICATION Spec
CONSTANTS
  Programs = {p1, p2}
  MaxConcurrentDags = 2
  PrefetchFactor = 2
  MaxRounds = 1
  MaxErrors = 1
  MaxStrays = 1
  MaxCrashes = 0
SYMMETRY ProgramSymmetry
INVARIANTS OwnsRunning OneOwner Indexed
