\* A second UUID on one side; connections end and entries are cleaned up.
CONSTANTS
  UUIDs = {1, 2, 3}
  TidOf <- Sides
  StartOf <- LateStart
  MayEnd = {1, 2}
  Brief = {3}
  RejectTimeout = 1
  CleanupPeriod = 3
  MaxDelta = 1
  MaxRounds = 3
  MaxTime = 4
SPECIFICATION Spec
INVARIANTS TypeOK AcceptedIsConfirmed NothingHeldBack RejectedWhenSilent
           CrashesBySecondUUID
CHECK_DEADLOCK FALSE
