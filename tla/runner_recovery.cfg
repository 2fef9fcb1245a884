SPECIFICATION FairSpec
CONSTANTS
  Programs = {p1, p2}
  MaxConcurrentDags = 2
  PrefetchFactor = 2
  MaxRounds = 1
  MaxErrors = 1
  MaxStrays = 0
  MaxCrashes = 1
INVARIANTS NeverForgotten
PROPERTIES Settles
