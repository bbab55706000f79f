\* The second side is late.
CONSTANTS
  UUIDs = {1, 2}
  TidOf <- Sides
  StartOf <- LateStart
  MayEnd = {}
  Brief = {}
  RejectTimeout = 1
  CleanupPeriod = 9
  MaxDelta = 1
  MaxRounds = 4
  MaxTime = 5
SPECIFICATION Spec
INVARIANT NothingTakenBack
CHECK_DEADLOCK FALSE
