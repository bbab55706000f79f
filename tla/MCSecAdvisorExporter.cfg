\* A restart, topology that changes, queries that fail in three ways.
CONSTANTS
  Flows = {"f1", "f2", "f3"}
  UpdateLifetime = 2
  EndedLifetime = 1
  FinishesOf <- MCFinishes
  FirstOwner <- MCOwner
  Addresses = {"pod", "node"}
  TIDs = {1, 2}
  AOf <- MCA
  BOf <- MCB
  TIDOf <- MCTID
  Peers <- MCPeers
  FailureModes = {{}, {"runc", "docker"}, {"pod", "type", "extend"}}
  ContextLifetime = 1
  ExtendLifetime = 2
  MaxReports = 3
  MaxMoves = 1
  Nodes = {"n1", "n2"}
  AddressesOf <- MCNodes
  ClusterAddresses = {}
  ExcludedTags = {"internal"}
  MaxRestarts = 1
SPECIFICATION Spec
INVARIANTS TypeOK CountsOfLiveFlows NeverPanics PeersRightAfterCalm ExtensionRightAfterCalm
PROPERTIES CountsFollow WithheldWhenNew NodesLearnt EventuallyRunning
CHECK_DEADLOCK FALSE
