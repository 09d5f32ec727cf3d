CONSTANTS
  d1 = d1
  d2 = d2
  None = None
  Devices = {d1, d2}
  MaxAttempts = 2
  MaxActions = 2
  MaxFailures = 1
SPECIFICATION FairSpec
INVARIANTS TypeOK LatestActionKept
PROPERTIES PullKeepsAction StatusConverges
