------------------------ MODULE SecAdvisorTransform ------------------------
(***************************************************************************)
(* The flow transformer of the security advisor: it counts the reports of  *)
(* a flow (FlowStatus) and asks the analyzer's topology who the two peers  *)
(* are, what the capture point is, and what the configured extensions say. *)
(* Every answer is kept in a cache; the answers change while they are kept *)
(* and the queries fail.                                                   *)
(*                                                                         *)
(* The lookups of one flow are one step: the pipeline's lock is held all   *)
(* the while, and the topology changes between two flows.                  *)
(***************************************************************************)
EXTENDS FlowStatus

CONSTANTS
  Addresses,
  TIDs,               \* capture points
  AOf, BOf,           \* the addresses of a flow (Network.A and B), NoNetwork
                      \*   for a flow without a network layer
  TIDOf,              \* NodeTID of a flow
  Peers,              \* what an address may belong to: see PeerAssumption
  FirstOwner,         \* who has an address at the beginning
  FailureModes,       \* sets of queries that fail together
  ContextLifetime,    \* how long a peer or a type is kept: 5 minutes
  ExtendLifetime,     \* the same for an extension: 10 minutes
  MaxReports,         \* bounds: reports, and changes of the topology
  MaxMoves

Queries == {"runc", "docker", "vm", "pod", "type", "extend"}

NoAddress == ""
NoNetwork == "no network"

\* A peer is found by some of the queries, by none if the topology does not know
\* it; it has a name or not, and belongs to a pod or not.
ASSUME PeerAssumption ==
  /\ AOf \in [Flows -> Addresses \cup {NoAddress, NoNetwork}]
  /\ BOf \in [Flows -> Addresses \cup {NoAddress, NoNetwork}]
  /\ TIDOf \in [Flows -> TIDs]
  /\ Peers \subseteq [name : STRING, found : SUBSET {"runc", "docker", "vm"},
                      named : BOOLEAN, pod : BOOLEAN]
  /\ FailureModes \subseteq SUBSET Queries
  /\ {ContextLifetime, ExtendLifetime, MaxReports, MaxMoves} \subseteq Nat

ASSUME NamesAssumption == {NoAddress, NoNetwork} \cap Addresses = {}

VARIABLES
  contextCache,       \* resolveCache: the peer at an address and capture point
  typeCache,          \*   the node type of a capture point
  gremlinExprCache,   \* extendGremlin: the answer to a query
  panicked,           \* a cached value did not have the type asserted
  record,             \* what the last Transform returned, NoRecord for nil
  owner,              \* the topology: who has an address, seen from a TID
  calm,               \* time since a query failed or the topology changed
  left                \* what is left of each bound

topologyVars == <<contextCache, typeCache, gremlinExprCache, panicked, record,
                  owner, calm, left>>
transformVars == <<statusVars, topologyVars>>

\* Where peers are looked up: an address, seen from a capture point.
Places ==
  {<<AOf[f], TIDOf[f]>> : f \in {g \in Flows : AOf[g] \in Addresses}} \cup
  {<<BOf[f], TIDOf[f]>> : f \in {g \in Flows : BOf[g] \in Addresses}}

ASSUME OwnerAssumption == FirstOwner \in [Places -> Peers]

NoRecord == [flow |-> "none"]
NodeType == "netns"

LongestLifetime ==
  IF ContextLifetime < ExtendLifetime THEN ExtendLifetime ELSE ContextLifetime

TransformInit ==
  /\ StatusInit
  /\ contextCache = EmptyCache
  /\ typeCache = EmptyCache
  /\ gremlinExprCache = EmptyCache
  /\ panicked = FALSE
  /\ record = NoRecord
  /\ owner = FirstOwner
  /\ calm = LongestLifetime + 1
  /\ left = [reports |-> MaxReports, moves |-> MaxMoves]
-----------------------------------------------------------------------------
(* The resolvers: what they answer about a peer while some queries fail.   *)

NoContext == [type |-> "", name |-> ""]       \* a nil *PeerContext
UntypedNil == [type |-> "nil", name |-> ""]   \* nil in an interface
NotFound == [type |-> "error", name |-> ""]   \* an error; all look alike here

Context(type, name) == [type |-> type, name |-> name]

Found(p, query, fails) == query \in p.found /\ query \notin fails

\* queryPodByContainerID, and the container when there is no pod.
PodOrContainer(p, fails) ==
  IF p.pod /\ "pod" \notin fails THEN Context("pod", p.name)
  ELSE Context("container", IF p.named THEN p.name ELSE "")

ResolveRunc(p, fails) ==
  IF Found(p, "runc", fails) THEN PodOrContainer(p, fails) ELSE NotFound

ResolveDocker(p, fails) ==
  IF Found(p, "docker", fails) /\ p.named THEN PodOrContainer(p, fails)
  ELSE NotFound

ResolveVM(p, fails) ==
  IF Found(p, "vm", fails) /\ p.named THEN Context("host", p.name) ELSE NotFound

\* The first resolver that has no error.
ResolveMulti(p, fails) ==
  IF ResolveRunc(p, fails) # NotFound THEN ResolveRunc(p, fails)
  ELSE IF ResolveDocker(p, fails) # NotFound THEN ResolveDocker(p, fails)
  ELSE ResolveVM(p, fails)

ResolveFallback(p, fails) ==
  IF ResolveMulti(p, fails) = NotFound THEN NoContext ELSE ResolveMulti(p, fails)

\* Faulty variant: the cache is put on the resolvers without the fallback.
ResolverWithoutFallback(p, fails) == ResolveMulti(p, fails)

\* What resolveCache asks.
Resolver(p, fails) == ResolveFallback(p, fails)

\* Faulty variant: the capture point is not part of the key.
KeyByAddress(ip, tid) == <<ip, CHOOSE t \in TIDs : TRUE>>

CacheKey(ip, tid) == <<ip, tid>>

\* resolveCache.IPToContext: the cache it leaves, and what it answers.
Remembered(c, ip, tid, fails) ==
  LET key == CacheKey(ip, tid)
      answer == Resolver(owner[<<ip, tid>>], fails)
  IN IF ip = NoAddress \/ key \in DOMAIN c THEN c
     ELSE Set(c, key, IF answer = NotFound THEN UntypedNil ELSE answer,
              ContextLifetime)

Answered(c, ip, tid) ==
  IF ip = NoAddress THEN NoContext ELSE c[CacheKey(ip, tid)].value

\* The type assertion on a cached value.
AssertionFails(c, ip, tid) ==
  /\ CacheKey(ip, tid) \in DOMAIN c
  /\ c[CacheKey(ip, tid)].value = UntypedNil

\* TIDToType of the cache and of the fallback below it: the three resolvers ask
\* the same question, and an error becomes an empty type.
TypesKept(tid, fails) ==
  IF tid \in DOMAIN typeCache THEN typeCache
  ELSE Set(typeCache, tid, IF "type" \in fails THEN "" ELSE NodeType,
           ContextLifetime)
-----------------------------------------------------------------------------
(* The extensions: a query is made of the text of one address.             *)

\* The hosts the topology has for an address; the first one is taken.
Hosts(ip) ==
  {owner[pl].name : pl \in {q \in Places : q[1] = ip /\ "vm" \in owner[q].found}}

ExtensionAnswers(ip, fails) ==
  IF Hosts(ip) = {} \/ "extend" \in fails THEN {""} ELSE Hosts(ip)

\* Faulty variant: a query that is used is kept for longer.
ExtendedWhileUsed(ip, fails) ==
  IF ip \in DOMAIN gremlinExprCache
    THEN {[gremlinExprCache EXCEPT ![ip].left = ExtendLifetime]}
    ELSE {Set(gremlinExprCache, ip, x, ExtendLifetime) :
            x \in ExtensionAnswers(ip, fails)}

\* extendGremlin.Extend, with one template on the address of A.
Extended(ip, fails) ==
  IF ip \in DOMAIN gremlinExprCache THEN {gremlinExprCache}
  ELSE {Set(gremlinExprCache, ip, x, ExtendLifetime) :
          x \in ExtensionAnswers(ip, fails)}
-----------------------------------------------------------------------------
(* Transform, for a flow whose report comes with a finish type.            *)

HasNetwork(f) == AOf[f] # NoNetwork /\ BOf[f] # NoNetwork

Unresolved(f) ==
  /\ record' = [flow |-> f, a |-> NoContext, b |-> NoContext,
                type |-> typeCache'[TIDOf[f]].value, extend |-> ""]
  /\ UNCHANGED <<contextCache, gremlinExprCache, panicked>>

Resolved(f, fails) ==
  LET tid == TIDOf[f]
      afterA == Remembered(contextCache, AOf[f], tid, fails)
  IN IF \/ AssertionFails(contextCache, AOf[f], tid)
        \/ AssertionFails(afterA, BOf[f], tid)
     THEN /\ panicked' = TRUE
          /\ UNCHANGED <<contextCache, gremlinExprCache, record>>
     ELSE \E extensions \in Extended(AOf[f], fails) :
          /\ contextCache' = Remembered(afterA, BOf[f], tid, fails)
          /\ gremlinExprCache' = extensions
          /\ record' = [flow |-> f,
                        a |-> Answered(contextCache', AOf[f], tid),
                        b |-> Answered(contextCache', BOf[f], tid),
                        type |-> typeCache'[tid].value,
                        extend |-> extensions[AOf[f]].value]
          /\ UNCHANGED panicked

Transform(f, finish, fails) ==
  /\ ~ panicked
  /\ left.reports > 0
  /\ left' = [left EXCEPT !.reports = @ - 1]
  /\ CountReport(f, finish)
  /\ IF Withheld(f, finish)
       THEN /\ record' = NoRecord
            /\ UNCHANGED <<contextCache, typeCache, gremlinExprCache, panicked,
                           calm>>
       ELSE /\ typeCache' = TypesKept(TIDOf[f], fails)
            /\ IF HasNetwork(f) THEN Resolved(f, fails) ELSE Unresolved(f)
            /\ calm' = IF fails = {} THEN calm ELSE 0
  /\ UNCHANGED owner
-----------------------------------------------------------------------------
(* The environment.                                                        *)

\* An address goes to someone else: a pod is replaced, a container is started.
Move(place, p) ==
  /\ left.moves > 0
  /\ owner[place] # p
  /\ owner' = [owner EXCEPT ![place] = p]
  /\ left' = [left EXCEPT !.moves = @ - 1]
  /\ calm' = 0
  /\ record' = NoRecord
  /\ UNCHANGED <<statusVars, contextCache, typeCache, gremlinExprCache, panicked>>

TransformTick ==
  /\ StatusTick
  /\ contextCache' = Aged(contextCache)
  /\ typeCache' = Aged(typeCache)
  /\ gremlinExprCache' = Aged(gremlinExprCache)
  /\ calm' = IF calm > LongestLifetime THEN calm ELSE calm + 1
  /\ record' = NoRecord
  /\ UNCHANGED <<panicked, owner, left>>

TransformNext ==
  \/ \E f \in Flows, finish \in FinishTypes, fails \in FailureModes :
       Transform(f, finish, fails)
  \/ \E place \in Places, p \in Peers : Move(place, p)
  \/ TransformTick

TransformSpec == TransformInit /\ [][TransformNext]_transformVars
-----------------------------------------------------------------------------
(* Properties.                                                             *)

Names == {p.name : p \in Peers} \cup {""}

Contexts == [type : {"", "pod", "container", "host"}, name : Names]
NodeTypes == {"", NodeType}

TransformTypeOK ==
  /\ StatusTypeOK
  /\ IsCache(contextCache, Places, Contexts, ContextLifetime)
  /\ IsCache(typeCache, TIDs, NodeTypes, ContextLifetime)
  /\ IsCache(gremlinExprCache, Addresses \cup {NoAddress}, Names, ExtendLifetime)
  /\ panicked \in BOOLEAN
  /\ owner \in [Places -> Peers]
  /\ calm \in 0..(LongestLifetime + 1)

\* resolve_cache.go:62: what the cache holds is always a *PeerContext.  A nil
\* without a type, which the cache stores for an address that is not found,
\* would stop the exporter at the next flow of that address.
NeverPanics == ~ panicked

\* The peer at one end as the topology has it, when no query fails.
Truth(ip, f) ==
  IF ip = NoAddress THEN NoContext
  ELSE ResolveFallback(owner[<<ip, TIDOf[f]>>], {})

\* A record names the wrong peer, or none, for as long as an answer is kept
\* after the topology changed or a query failed, and no longer.
PeersRightAfterCalm ==
  record # NoRecord /\ HasNetwork(record.flow) /\ calm > ContextLifetime =>
    /\ record.a = Truth(AOf[record.flow], record.flow)
    /\ record.b = Truth(BOf[record.flow], record.flow)
    /\ record.type = NodeType

\* The same for the extensions, whose answers are kept longer: within that time
\* the extension of a record may speak of another host than its context.
ExtensionRightAfterCalm ==
  record # NoRecord /\ HasNetwork(record.flow) /\ calm > ExtendLifetime =>
    record.extend \in ExtensionAnswers(AOf[record.flow], {})
=============================================================================
