\* Nothing fails; two tags and time for three flushes of each, fair scheduling.
CONSTANTS
  a = a
  b = b
  NoTag = NoTag
  Tags <- TwoTags
  MaxFlowsPerObject = 2
  MaxFlowArraySize = 2
  MaxObjectDuration = 2
  MaxStreamDuration = 2
  TicksPerSecond = 2
  WriteFaults = {}
  MaxTime = 6
  MaxBatch = 2
  MaxFlows = 2
  MaxFaults = 0
  MaxRestarts = 0
SPECIFICATION FairTimedSpec
INVARIANTS FlushIsPending FlushedWithinTwoDurations
PROPERTY EventuallyFlushed
CHECK_DEADLOCK FALSE
