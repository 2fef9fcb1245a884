CONSTANTS
  a = a
  b = b
  c = c
  Stages = {a, b, c}
  Dags <- SomeDags
  Versions = {1, 2}
  MaxParallel = 2
  MaxRuns = 2
SPECIFICATION FairSpec
CHECK_DEADLOCK FALSE
INVARIANTS AllResolved FreshResults SkippedIsRuledOut
PROPERTIES OutcomesHold RunEnds
