SPECIFICATION FairSpec
CONSTANTS
  Instances = {i1, i2}
  Closers = {c1, c2}
  Expiry = 10
  Renewal = 3
  OpTime = 2
  MaxFailures = 1
INVARIANTS CalmExclusive
PROPERTIES StaleKeyExpires
