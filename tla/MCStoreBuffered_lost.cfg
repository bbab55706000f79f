\* The claim that only flushed flows are freed, with nothing that fails.
CONSTANTS
  a = a
  NoTag = NoTag
  Tags <- OneTag
  MaxFlowsPerObject = 2
  MaxFlowArraySize = 2
  MaxObjectDuration = 2
  MaxStreamDuration = 2
  TicksPerSecond = 2
  WriteFaults = {}
  MaxTime = 6
  MaxBatch = 2
  MaxFlows = 3
  MaxFaults = 0
  MaxRestarts = 0
SPECIFICATION Spec
INVARIANT NoSilentLoss
CHECK_DEADLOCK FALSE
