------------------------- MODULE SecAdvisorExporter -------------------------
(***************************************************************************)
(* The life of a security advisor exporter.  It asks the analyzer for the  *)
(* nodes of the Kubernetes cluster until it gets an answer, and only then  *)
(* subscribes to flows; it classifies flows by the addresses of the nodes  *)
(* it learnt of, for as long as it runs, drops those of the excluded tags  *)
(* and transforms the others (SecAdvisorTransform).  A restart begins all  *)
(* over.                                                                   *)
(***************************************************************************)
EXTENDS SecAdvisorTransform, Sequences, FiniteSetsExt

CONSTANTS
  Nodes,            \* Kubernetes nodes
  AddressesOf,      \* the addresses of a node: a sequence of type and ip
  ClusterAddresses, \* the addresses in classify.cluster_net_masks
  ExcludedTags,     \* filter.excluded_tags
  MaxRestarts       \* bound

ASSUME ExporterAssumption ==
  /\ AddressesOf \in
       [Nodes -> Seq([type : {"ExternalIP", "InternalIP", "Hostname"},
                      ip : Addresses])]
  /\ ClusterAddresses \subseteq Addresses
  /\ MaxRestarts \in Nat

VARIABLES
  phase,            \* "discovering", "waiting" to ask again, or "running"
  analyzerUp,       \* the analyzer answers what is asked at the start
  clusterNetMasks,  \* the addresses that count as the cluster's
  clusterNodes,     \* the nodes in the analyzer's topology
  restarts          \* restarts left

startVars == <<phase, analyzerUp, clusterNetMasks, clusterNodes, restarts>>
vars == <<transformVars, startVars>>

Init ==
  /\ TransformInit
  /\ phase = "discovering"
  /\ analyzerUp \in BOOLEAN
  /\ clusterNetMasks = {}
  /\ clusterNodes \in SUBSET Nodes
  /\ restarts = MaxRestarts
-----------------------------------------------------------------------------
(* Discovery: FindClusterNodesIPs and getClusterNodesIPsWithRetries.       *)

\* Where a node's addresses of a type are.
OfType(n, type) == {i \in DOMAIN AddressesOf[n] : AddressesOf[n][i].type = type}

\* Faulty variant: the search goes on behind an external address.
LastIP(n) ==
  LET known == OfType(n, "ExternalIP") \cup OfType(n, "InternalIP")
  IN IF known # {} THEN {AddressesOf[n][Max(known)].ip} ELSE {}

\* extractNodeIP: the first external address, or else the last internal one.
NodeIP(n) ==
  LET external == OfType(n, "ExternalIP")
      internal == OfType(n, "InternalIP")
  IN IF external # {} THEN {AddressesOf[n][Min(external)].ip}
     ELSE IF internal # {} THEN {AddressesOf[n][Max(internal)].ip} ELSE {}

\* The addresses of the nodes known, and those that are configured.
Learnt == ClusterAddresses \cup UNION {NodeIP(n) : n \in clusterNodes}

\* Faulty variant: an answer without nodes is asked for again.
DiscoverSome ==
  /\ phase = "discovering"
  /\ analyzerUp
  /\ IF clusterNodes = {}
       THEN phase' = "waiting" /\ UNCHANGED clusterNetMasks
       ELSE phase' = "running" /\ clusterNetMasks' = Learnt
  /\ UNCHANGED <<analyzerUp, clusterNodes, restarts, transformVars>>

\* The query is answered, be it with no node at all; the pipeline is complete
\* and the subscriber starts.
Discover ==
  /\ phase = "discovering"
  /\ analyzerUp
  /\ clusterNetMasks' = Learnt
  /\ phase' = "running"
  /\ UNCHANGED <<analyzerUp, clusterNodes, restarts, transformVars>>

\* It fails: the exporter sleeps for a second.
FailToDiscover ==
  /\ phase = "discovering"
  /\ ~ analyzerUp
  /\ phase' = "waiting"
  /\ UNCHANGED <<analyzerUp, clusterNetMasks, clusterNodes, restarts,
                 transformVars>>

\* And asks again.
Retry ==
  /\ phase = "waiting"
  /\ phase' = "discovering"
  /\ UNCHANGED <<analyzerUp, clusterNetMasks, clusterNodes, restarts,
                 transformVars>>

\* The analyzer goes up or down, as often as it likes.  Queries that fail later
\* are FailureModes.
Flip ==
  /\ phase # "running"
  /\ analyzerUp' = ~ analyzerUp
  /\ UNCHANGED <<phase, clusterNetMasks, clusterNodes, restarts, transformVars>>
-----------------------------------------------------------------------------
(* Running: Pipeline.filter and split, then Transform.                     *)

InCluster(ip) == ip \in clusterNetMasks

\* Flows without a network layer or with an address that is not one.
GetFlowTag(f) ==
  LET a == InCluster(AOf[f])
      b == InCluster(BOf[f])
  IN CASE ~ HasNetwork(f) \/ NoAddress \in {AOf[f], BOf[f]} -> "other"
       [] OTHER -> IF a THEN IF b THEN "internal" ELSE "egress"
                        ELSE IF b THEN "ingress" ELSE "other"

Receive(f, finish, fails) ==
  /\ phase = "running"
  /\ GetFlowTag(f) \notin ExcludedTags
  /\ Transform(f, finish, fails)
  /\ UNCHANGED startVars

\* A node joins the cluster, or the analyzer learns of it.
Join(n) ==
  /\ left.moves > 0
  /\ left' = [left EXCEPT !.moves = @ - 1]
  /\ n \notin clusterNodes
  /\ clusterNodes' = clusterNodes \cup {n}
  /\ UNCHANGED <<phase, analyzerUp, clusterNetMasks, restarts>>
  /\ UNCHANGED <<statusVars, contextCache, typeCache, gremlinExprCache,
                 panicked, record, owner, calm>>

\* Whatever happens in the meantime.
Environment ==
  /\ \/ \E place \in Places, p \in Peers : Move(place, p)
     \/ TransformTick
  /\ UNCHANGED startVars

Restart ==
  /\ restarts > 0
  /\ restarts' = restarts - 1
  /\ phase' = "discovering"
  /\ analyzerUp' \in BOOLEAN
  /\ clusterNetMasks' = {}
  /\ StatusRestart
  /\ contextCache' = EmptyCache
  /\ typeCache' = EmptyCache
  /\ gremlinExprCache' = EmptyCache
  /\ panicked' = FALSE
  /\ record' = NoRecord
  /\ UNCHANGED <<clusterNodes, owner, calm, left>>

Next ==
  \/ Discover
  \/ FailToDiscover
  \/ Retry
  \/ Flip
  \/ \E f \in Flows, finish \in FinishTypes, fails \in FailureModes :
       Receive(f, finish, fails)
  \/ \E n \in Nodes : Join(n)
  \/ Environment
  \/ Restart

\* The exporter's own steps at its start are taken; what it meets is left open.
Spec == /\ Init /\ [][Next]_vars
        /\ WF_vars(Discover \/ FailToDiscover)
        /\ WF_vars(Retry)
-----------------------------------------------------------------------------
(* Properties.                                                             *)

StartTypeOK ==
  /\ phase \in {"discovering", "waiting", "running"}
  /\ analyzerUp \in BOOLEAN
  /\ clusterNetMasks \subseteq Addresses
  /\ clusterNodes \subseteq Nodes
  /\ restarts \in 0..MaxRestarts

TypeOK == TransformTypeOK /\ StartTypeOK

\* classify_autodiscovery.go:45-57: an exporter that was started before its
\* analyzer, or whose analyzer comes and goes meanwhile, runs as soon as there is
\* an answer to stay, though the analyzer does not know any node yet.
EventuallyRunning ==
  <>[]analyzerUp => (phase # "running" ~> phase = "running")

\* The addresses of a node that are of the better kind.
BetterIPs(n) ==
  LET ips(type) == {AddressesOf[n][i].ip : i \in OfType(n, type)}
  IN IF ips("ExternalIP") # {} THEN ips("ExternalIP") ELSE ips("InternalIP")

\* "External IPs are preferred, but if not found then internal IPs are returned"
\* (cluster_ips.go:36): of every node the analyzer knows when the exporter
\* starts, an address of the better kind counts as the cluster's.
NodesLearnt ==
  [][phase # "running" /\ phase' = "running" =>
       \A n \in clusterNodes :
         BetterIPs(n) # {} => BetterIPs(n) \cap clusterNetMasks' # {}]_vars
=============================================================================
