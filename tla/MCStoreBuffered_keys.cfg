\* One tag; writes are rejected and the exporter restarts.
CONSTANTS
  a = a
  NoTag = NoTag
  Tags <- OneTag
  MaxFlowsPerObject = 2
  MaxFlowArraySize = 3
  MaxObjectDuration = 2
  MaxStreamDuration = 2
  TicksPerSecond = 2
  WriteFaults = {"rejected"}
  MaxTime = 6
  MaxBatch = 3
  MaxFlows = 5
  MaxFaults = 2
  MaxRestarts = 1
SPECIFICATION Spec
INVARIANTS TypeOK BufferIsLatest SizesBounded ObjectsInOrder StreamConsecutive
PROPERTIES TakenOnlyToStore NothingOverwritten ImplementsFlowLog
CHECK_DEADLOCK FALSE
