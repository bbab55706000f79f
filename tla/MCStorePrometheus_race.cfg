\* Two connections, an interface, every interleaving.
CONSTANTS
  Items <- TwoConnections
  Timeout = 2
  MaxCalls = 2
  LastCall = 3
  MaxTime = 5
SPECIFICATION Spec
INVARIANTS TypeOK SameKeys OldestFirst EntriesExported
PROPERTY EntriesExpire
CHECK_DEADLOCK FALSE
