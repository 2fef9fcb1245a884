SPECIFICATION StopperSpec
CONSTANTS
  Window = 2
  MinDelta = 2
  MaxGenerations = 5
  MaxHist = 6
  Mode = "any"
  Fitness <- Levels
  HigherIsBetter = TRUE
  MaxAsks = 2
  MaxFailures = 2
INVARIANTS PlateauLastedOnce PlateauCaught
CHECK_DEADLOCK FALSE
