\* Two crashes, one failing system call, a clock that is set back.
CONSTANTS
  Bytes = {1, 3}
  MaxAdds = 4
  MaxResets = 1
  MaxCrashes = 2
  MaxFaults = 1
  MaxTime = 3
  MaxStepsBack = 1
SPECIFICATION Spec
INVARIANTS TypeOK NothingForgotten NothingInvented
CHECK_DEADLOCK FALSE
