\* The claim about inactive flows, with every interleaving.
CONSTANTS
  Items <- OneOfEach
  Timeout = 2
  MaxCalls = 2
  LastCall = 3
  MaxTime = 6
SPECIFICATION Spec
PROPERTY InactiveRemoved
CHECK_DEADLOCK FALSE
