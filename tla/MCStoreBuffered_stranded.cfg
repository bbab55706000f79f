\* The claim that a timer is set for the next flush, with one rejected write.
CONSTANTS
  a = a
  NoTag = NoTag
  Tags <- OneTag
  MaxFlowsPerObject = 2
  MaxFlowArraySize = 2
  MaxObjectDuration = 2
  MaxStreamDuration = 2
  TicksPerSecond = 2
  WriteFaults = {"rejected"}
  MaxTime = 6
  MaxBatch = 2
  MaxFlows = 3
  MaxFaults = 1
  MaxRestarts = 0
SPECIFICATION Spec
INVARIANT FlushIsPending
CHECK_DEADLOCK FALSE
