--------------------- MODULE SecAdvisorExporter_proofs ----------------------
(***************************************************************************)
(* Proofs about a security advisor exporter as a whole, for any flows,     *)
(* topology and life times.  Its runs are runs of FlowStatus, so what is   *)
(* proved there of the counts and statuses holds of the exporter; and its  *)
(* cache never gets the value that would stop it.                          *)
(***************************************************************************)
EXTENDS SecAdvisorExporter, FlowStatus_proofs, WellFoundedInduction

LEMMA TransformCounts ==
  ASSUME NEW f, NEW finish, NEW fails, Transform(f, finish, fails)
  PROVE  CountReport(f, finish)
BY DEF Transform

LEMMA ExporterStepCounts == [Next]_vars => [StatusNext]_statusVars
<1> SUFFICES ASSUME [Next]_vars PROVE [StatusNext]_statusVars
  OBVIOUS
<1>1. CASE Discover \/ FailToDiscover \/ Retry \/ Flip
  BY <1>1 DEF Discover, FailToDiscover, Retry, Flip, transformVars
<1>2. CASE \E f \in Flows, finish \in FinishTypes, fails \in FailureModes :
             Receive(f, finish, fails)
  BY <1>2, TransformCounts DEF Receive, StatusNext
<1>3. CASE \E n \in Nodes : Join(n)
  BY <1>3 DEF Join
<1>4. CASE Environment
  <2>1. CASE \E place \in Places, p \in Peers : Move(place, p)
    BY <2>1 DEF Move
  <2>2. CASE TransformTick
    BY <2>2 DEF TransformTick, StatusNext
  <2> QED
    BY <1>4, <2>1, <2>2 DEF Environment
<1>5. CASE Restart
  BY <1>5 DEF Restart, StatusNext
<1>6. CASE UNCHANGED vars
  BY <1>6 DEF vars, transformVars
<1> QED
  BY <1>1, <1>2, <1>3, <1>4, <1>5, <1>6 DEF Next

\* transform.go:133-155: of the steps of the exporter only the transformation of a
\* flow, the passing of time and a restart touch the update counts, and each does
\* what FlowStatus says.
THEOREM ExporterImplementsStatus == Spec => StatusSpec
<1>1. Init => StatusInit
  BY DEF Init, TransformInit
<1> QED
  BY <1>1, ExporterStepCounts, PTL DEF Spec, StatusSpec

\* transform.go:133-155: the exporter, from its start and through restarts, has
\* an update count for each flow that goes on and for no other.
THEOREM ExporterCountsAreOfLiveFlows == Spec => []CountsOfLiveFlows
BY ExporterImplementsStatus, CountsAreOfLiveFlows, PTL

\* transform.go:138: the update counts in the exporter's records of a flow have
\* no gap and no repetition while it runs.
THEOREM ExporterCountsFollow == Spec => CountsFollow
BY ExporterImplementsStatus, CountsAlwaysFollow, PTL

\* transform.go:263: with exclude_started_flows the exporter withholds exactly
\* the reports that begin a flow.
THEOREM ExporterWithholdsOnlyWhenNew == Spec => WithheldWhenNew
BY ExporterImplementsStatus, WithheldOnlyWhenNew, PTL
-----------------------------------------------------------------------------

\* The fallback has a context for every peer, be it an empty one.
LEMMA FallbackAnswers ==
  ASSUME NEW p, NEW fails
  PROVE  Resolver(p, fails) \notin {NotFound, UntypedNil}
<1>1. /\ ResolveRunc(p, fails).type \in {"pod", "container", "error"}
      /\ ResolveDocker(p, fails).type \in {"pod", "container", "error"}
      /\ ResolveVM(p, fails).type \in {"host", "error"}
  BY DEF ResolveRunc, ResolveDocker, ResolveVM, PodOrContainer, Context, NotFound
<1>2. ResolveMulti(p, fails).type \in {"pod", "container", "host", "error"}
  BY <1>1 DEF ResolveMulti
<1>3. Resolver(p, fails) \in {NoContext, ResolveMulti(p, fails)} \ {NotFound}
  BY DEF Resolver, ResolveFallback, NoContext, NotFound
<1>4. UntypedNil.type = "nil" /\ NoContext.type = ""
  BY DEF UntypedNil, NoContext
<1> QED
  BY <1>2, <1>3, <1>4

\* The contexts that are kept are contexts.
PanicInv ==
  /\ ~ panicked
  /\ \A k \in DOMAIN contextCache : contextCache[k].value # UntypedNil

Typed(c) == \A k \in DOMAIN c : c[k].value # UntypedNil

LEMMA RememberedTyped ==
  ASSUME NEW c, NEW ip, NEW tid, NEW fails, Typed(c)
  PROVE  Typed(Remembered(c, ip, tid, fails))
<1> DEFINE key == CacheKey(ip, tid)
           answer == Resolver(owner[<<ip, tid>>], fails)
<1>1. answer \notin {NotFound, UntypedNil}
  BY FallbackAnswers
<1>2. CASE ip = NoAddress \/ key \in DOMAIN c
  BY <1>2 DEF Remembered
<1>3. CASE ~ (ip = NoAddress \/ key \in DOMAIN c)
  <2>1. Remembered(c, ip, tid, fails) = Set(c, key, answer, ContextLifetime)
    BY <1>1, <1>3 DEF Remembered
  <2> HIDE DEF key, answer
  <2>2. Typed(Set(c, key, answer, ContextLifetime))
    BY <1>1 DEF Typed, Set
  <2> QED
    BY <2>1, <2>2
<1> QED
  BY <1>2, <1>3

LEMMA TransformTyped ==
  ASSUME PanicInv, NEW f, NEW finish, NEW fails, Transform(f, finish, fails)
  PROVE  PanicInv'
<1>1. ~ panicked /\ Typed(contextCache)
  BY DEF PanicInv, Typed
<1>2. CASE UNCHANGED <<contextCache, panicked>>
  BY <1>1, <1>2 DEF PanicInv, Typed
<1>3. CASE Resolved(f, fails)
  <2> DEFINE tid == TIDOf[f]
             afterA == Remembered(contextCache, AOf[f], tid, fails)
             afterB == Remembered(afterA, BOf[f], tid, fails)
  <2>1. Typed(afterA)
    BY <1>1, RememberedTyped
  <2> HIDE DEF afterA
  <2>2. Typed(afterB)
    BY <2>1, RememberedTyped
  <2>3. ~ AssertionFails(contextCache, AOf[f], tid)
    BY <1>1 DEF AssertionFails, Typed
  <2>4. ~ AssertionFails(afterA, BOf[f], tid)
    BY <2>1 DEF AssertionFails, Typed
  <2>5. contextCache' = afterB /\ panicked' = panicked
    BY <1>3, <2>3, <2>4 DEF Resolved, afterA
  <2> QED
    BY <1>1, <2>2, <2>5 DEF PanicInv, Typed
<1> QED
  BY <1>2, <1>3 DEF Transform, Unresolved

\* resolve_cache.go:62: the type assertion on a cached context never fails,
\* because the fallback below the cache turns every error into an empty context.
THEOREM ExporterNeverPanics == Spec => []NeverPanics
<1>1. Init => PanicInv
  BY DEF Init, TransformInit, PanicInv, EmptyCache
<1>2. ASSUME PanicInv, [Next]_vars PROVE PanicInv'
  <2>1. CASE Discover \/ FailToDiscover \/ Retry \/ Flip
    BY <1>2, <2>1 DEF Discover, FailToDiscover, Retry, Flip, transformVars,
                      topologyVars, PanicInv
  <2>2. CASE \E f \in Flows, finish \in FinishTypes, fails \in FailureModes :
               Receive(f, finish, fails)
    BY <1>2, <2>2, TransformTyped DEF Receive
  <2>3. CASE \E n \in Nodes : Join(n)
    BY <1>2, <2>3 DEF Join, PanicInv
  <2>4. CASE Environment
    <3>1. CASE \E place \in Places, p \in Peers : Move(place, p)
      BY <1>2, <3>1 DEF Move, PanicInv
    <3>2. CASE TransformTick
      BY <1>2, <3>2 DEF TransformTick, PanicInv, Aged
    <3> QED
      BY <2>4, <3>1, <3>2 DEF Environment
  <2>5. CASE Restart
    BY <2>5 DEF Restart, PanicInv, EmptyCache
  <2>6. CASE UNCHANGED vars
    BY <1>2, <2>6 DEF vars, transformVars, topologyVars, PanicInv
  <2> QED
    BY <1>2, <2>1, <2>2, <2>3, <2>4, <2>5, <2>6 DEF Next
<1>3. PanicInv => NeverPanics
  BY DEF PanicInv, NeverPanics
<1> QED
  BY <1>1, <1>2, <1>3, PTL DEF Spec
-----------------------------------------------------------------------------
(* How long an answer can be wrong.  The caches do not know when the       *)
(* topology changed or a query failed; the inductive invariant says of     *)
(* each item that it is right or is older than the calm, that is, that the *)
(* calm and the time left to it fit in its life time.  When the calm       *)
(* exceeds the life time no item can be wrong, whatever filled it.         *)

AnswerTypes ==
  /\ IsCache(contextCache, Places, Contexts, ContextLifetime)
  /\ IsCache(typeCache, TIDs, NodeTypes, ContextLifetime)
  /\ IsCache(gremlinExprCache, Addresses \cup {NoAddress}, Names, ExtendLifetime)
  /\ panicked \in BOOLEAN
  /\ owner \in [Places -> Peers]
  /\ calm \in 0..(LongestLifetime + 1)

ContextsSettle(c, time) ==
  \A k \in DOMAIN c : \/ c[k].value = ResolveFallback(owner[k], {})
                     \/ time + c[k].left <= ContextLifetime

TypesSettle(c, time) ==
  \A k \in DOMAIN c : \/ c[k].value = NodeType
                     \/ time + c[k].left <= ContextLifetime

ExtensionsSettle(c, time) ==
  \A k \in DOMAIN c : \/ c[k].value \in ExtensionAnswers(k, {})
                     \/ time + c[k].left <= ExtendLifetime

AnswersSettle ==
  /\ ContextsSettle(contextCache, calm)
  /\ TypesSettle(typeCache, calm)
  /\ ExtensionsSettle(gremlinExprCache, calm)

RecordRight == PeersRightAfterCalm /\ ExtensionRightAfterCalm

AnswersInv == AnswerTypes /\ AnswersSettle /\ RecordRight

LEMMA LifetimesAreNumbers ==
  /\ ContextLifetime \in Nat /\ ExtendLifetime \in Nat
  /\ LongestLifetime \in Nat
  /\ ContextLifetime <= LongestLifetime /\ ExtendLifetime <= LongestLifetime
BY PeerAssumption DEF LongestLifetime

LEMMA SetItems ==
  ASSUME NEW c, NEW K, NEW V, NEW longest \in Nat, IsCache(c, K, V, longest),
         NEW k \in K, NEW v \in V
  PROVE  LET d == Set(c, k, v, longest)
         IN /\ IsCache(d, K, V, longest)
            /\ DOMAIN d = DOMAIN c \cup {k}
            /\ d[k] = [value |-> v, left |-> longest]
            /\ \A x \in DOMAIN c : x # k => d[x] = c[x]
<1> DEFINE d == Set(c, k, v, longest)
<1>1. DOMAIN d = DOMAIN c \cup {k}
  BY DEF Set
<1>2. \A x \in DOMAIN c : c[x] \in [value : V, left : 0..longest]
  BY DEF IsCache
<1>3. d[k] = [value |-> v, left |-> longest]
  BY DEF Set
<1>4. \A x \in DOMAIN c : x # k => d[x] = c[x]
  BY DEF Set
<1>5. \A x \in DOMAIN d : d[x] \in [value : V, left : 0..longest]
  BY <1>1, <1>2, <1>3, <1>4
<1>6. d = [x \in DOMAIN d |-> d[x]]
  BY DEF Set
<1> HIDE DEF d
<1>7. d \in [DOMAIN d -> [value : V, left : 0..longest]]
  BY <1>5, <1>6
<1>8. DOMAIN d \subseteq K
  BY <1>1 DEF IsCache
<1>9. IsCache(d, K, V, longest)
  BY <1>7, <1>8 DEF IsCache
<1> QED
  BY <1>1, <1>3, <1>4, <1>9 DEF d

LEMMA FallbackIsContext ==
  ASSUME NEW p \in Peers, NEW fails
  PROVE  /\ Resolver(p, fails) = ResolveFallback(p, fails)
         /\ ResolveFallback(p, fails) \in Contexts
<1>1. {p.name, ""} \subseteq Names
  BY DEF Names
<1>2. PodOrContainer(p, fails) \in Contexts
  BY <1>1 DEF PodOrContainer, Context, Contexts
<1>3. Context("host", p.name) \in Contexts /\ NoContext \in Contexts
  BY <1>1 DEF Context, Contexts, NoContext
<1>4. /\ ResolveRunc(p, fails) \in Contexts \cup {NotFound}
      /\ ResolveDocker(p, fails) \in Contexts \cup {NotFound}
      /\ ResolveVM(p, fails) \in Contexts \cup {NotFound}
  BY <1>2, <1>3 DEF ResolveRunc, ResolveDocker, ResolveVM
<1>5. ResolveMulti(p, fails) \in Contexts \cup {NotFound}
  BY <1>4 DEF ResolveMulti
<1>6. ResolveFallback(p, fails) \in Contexts
  BY <1>3, <1>5 DEF ResolveFallback
<1> QED
  BY <1>6 DEF Resolver

\* A lookup leaves a cache that knows the place and is right or young.
LEMMA RememberedSettles ==
  ASSUME NEW c, NEW ip, NEW tid, NEW fails, NEW time \in Nat,
         IsCache(c, Places, Contexts, ContextLifetime),
         owner \in [Places -> Peers],
         ContextsSettle(c, time),
         fails = {} \/ time = 0,
         ip = NoAddress \/ <<ip, tid>> \in Places
  PROVE  LET r == Remembered(c, ip, tid, fails)
         IN /\ IsCache(r, Places, Contexts, ContextLifetime)
            /\ ContextsSettle(r, time)
            /\ DOMAIN c \subseteq DOMAIN r
            /\ ip = NoAddress \/ CacheKey(ip, tid) \in DOMAIN r
<1> DEFINE key == CacheKey(ip, tid)
           answer == ResolveFallback(owner[<<ip, tid>>], fails)
           r == Remembered(c, ip, tid, fails)
<1>1. CASE ip = NoAddress \/ key \in DOMAIN c
  BY <1>1 DEF Remembered
<1>2. CASE ~ (ip = NoAddress \/ key \in DOMAIN c)
  <2>1. key \in Places /\ owner[key] \in Peers
    BY <1>2 DEF CacheKey
  <2>2. /\ Resolver(owner[<<ip, tid>>], fails) = answer
        /\ answer \in Contexts /\ answer # NotFound
    BY <2>1, FallbackIsContext, FallbackAnswers DEF CacheKey
  <2>3. r = Set(c, key, answer, ContextLifetime)
    BY <1>2, <2>2 DEF Remembered
  <2>4. fails = {} => answer = ResolveFallback(owner[key], {})
    BY DEF CacheKey
  <2> HIDE DEF key, answer, r
  <2>5. /\ IsCache(r, Places, Contexts, ContextLifetime)
        /\ DOMAIN r = DOMAIN c \cup {key}
        /\ r[key] = [value |-> answer, left |-> ContextLifetime]
        /\ \A x \in DOMAIN c : x # key => r[x] = c[x]
    BY <2>1, <2>2, <2>3, SetItems, LifetimesAreNumbers
  <2>6. \/ r[key].value = ResolveFallback(owner[key], {})
        \/ time + r[key].left <= ContextLifetime
    BY <2>4, <2>5, LifetimesAreNumbers
  <2>7. ContextsSettle(r, time)
    BY <2>5, <2>6 DEF ContextsSettle
  <2> QED
    BY <2>5, <2>7 DEF r, key
<1> QED
  BY <1>1, <1>2

LEMMA TypesKeptSettle ==
  ASSUME NEW tid \in TIDs, NEW fails, NEW time \in Nat,
         IsCache(typeCache, TIDs, NodeTypes, ContextLifetime),
         TypesSettle(typeCache, time),
         fails = {} \/ time = 0
  PROVE  LET r == TypesKept(tid, fails)
         IN /\ IsCache(r, TIDs, NodeTypes, ContextLifetime)
            /\ TypesSettle(r, time)
            /\ tid \in DOMAIN r
<1> DEFINE answer == IF "type" \in fails THEN "" ELSE NodeType
           r == TypesKept(tid, fails)
<1>1. CASE tid \in DOMAIN typeCache
  BY <1>1 DEF TypesKept
<1>2. CASE tid \notin DOMAIN typeCache
  <2>1. answer \in NodeTypes /\ (fails = {} => answer = NodeType)
    BY DEF NodeTypes
  <2>2. r = Set(typeCache, tid, answer, ContextLifetime)
    BY <1>2 DEF TypesKept
  <2> HIDE DEF answer, r
  <2>3. /\ IsCache(r, TIDs, NodeTypes, ContextLifetime)
        /\ DOMAIN r = DOMAIN typeCache \cup {tid}
        /\ r[tid] = [value |-> answer, left |-> ContextLifetime]
        /\ \A x \in DOMAIN typeCache : x # tid => r[x] = typeCache[x]
    <3>1. /\ ContextLifetime \in Nat
          /\ IsCache(typeCache, TIDs, NodeTypes, ContextLifetime)
      BY LifetimesAreNumbers
    <3> QED
      BY ONLY tid \in TIDs, <2>1, <2>2, <3>1, SetItems
  <2>4. r[tid].value = NodeType \/ time + r[tid].left <= ContextLifetime
    BY <2>1, <2>3, LifetimesAreNumbers
  <2>5. TypesSettle(r, time)
    BY <2>3, <2>4 DEF TypesSettle
  <2> QED
    BY <2>3, <2>5 DEF r
<1> QED
  BY <1>1, <1>2

LEMMA ExtendedSettles ==
  ASSUME NEW ip \in Addresses \cup {NoAddress}, NEW fails, NEW time \in Nat,
         owner \in [Places -> Peers],
         IsCache(gremlinExprCache, Addresses \cup {NoAddress}, Names, ExtendLifetime),
         ExtensionsSettle(gremlinExprCache, time),
         fails = {} \/ time = 0,
         NEW r \in Extended(ip, fails)
  PROVE  /\ IsCache(r, Addresses \cup {NoAddress}, Names, ExtendLifetime)
         /\ ExtensionsSettle(r, time)
         /\ ip \in DOMAIN r
<1> DEFINE K == Addresses \cup {NoAddress}
<1>1. CASE ip \in DOMAIN gremlinExprCache
  BY <1>1 DEF Extended
<1>2. CASE ip \notin DOMAIN gremlinExprCache
  <2>1. PICK x \in ExtensionAnswers(ip, fails) :
          r = Set(gremlinExprCache, ip, x, ExtendLifetime)
    BY <1>2 DEF Extended
  <2>2. x \in Names
    BY DEF ExtensionAnswers, Hosts, Names
  <2>3. fails = {} => x \in ExtensionAnswers(ip, {})
    BY <2>1
  <2>4. ip \in K /\ IsCache(gremlinExprCache, K, Names, ExtendLifetime)
    OBVIOUS
  <2> HIDE DEF K
  <2>5. /\ IsCache(r, K, Names, ExtendLifetime)
        /\ DOMAIN r = DOMAIN gremlinExprCache \cup {ip}
        /\ r[ip] = [value |-> x, left |-> ExtendLifetime]
        /\ \A y \in DOMAIN gremlinExprCache : y # ip => r[y] = gremlinExprCache[y]
    BY <2>1, <2>2, <2>4, SetItems, LifetimesAreNumbers
  <2>6. r[ip].value \in ExtensionAnswers(ip, {}) \/ time + r[ip].left <= ExtendLifetime
    BY <2>3, <2>5, LifetimesAreNumbers
  <2>7. ExtensionsSettle(r, time)
    BY <2>5, <2>6 DEF ExtensionsSettle
  <2> QED
    BY <2>5, <2>7 DEF K
<1> QED
  BY <1>1, <1>2

\* When the calm is shorter, the caches are as settled as before.
LEMMA LessCalm ==
  ASSUME AnswersInv, NEW time \in Nat, time <= calm
  PROVE  /\ ContextsSettle(contextCache, time)
         /\ TypesSettle(typeCache, time)
         /\ ExtensionsSettle(gremlinExprCache, time)
<1>1. /\ \A k \in DOMAIN contextCache : contextCache[k].left \in Nat
      /\ \A k \in DOMAIN typeCache : typeCache[k].left \in Nat
      /\ \A k \in DOMAIN gremlinExprCache : gremlinExprCache[k].left \in Nat
  BY LifetimesAreNumbers DEF AnswersInv, AnswerTypes, IsCache
<1>2. calm \in Nat /\ AnswersSettle
  BY LifetimesAreNumbers DEF AnswersInv, AnswerTypes
<1>3. ContextsSettle(contextCache, time)
  BY <1>1, <1>2, LifetimesAreNumbers DEF AnswersSettle, ContextsSettle
<1>4. TypesSettle(typeCache, time)
  BY <1>1, <1>2, LifetimesAreNumbers DEF AnswersSettle, TypesSettle
<1>5. ExtensionsSettle(gremlinExprCache, time)
  BY <1>1, <1>2, LifetimesAreNumbers DEF AnswersSettle, ExtensionsSettle
<1> QED
  BY <1>3, <1>4, <1>5

\* A record made from settled caches is right once the calm is long enough.
LEMMA RecordOfSettledCaches ==
  ASSUME AnswerTypes', AnswersSettle', owner' = owner,
         NEW f \in Flows, HasNetwork(f),
         NEW extensions, gremlinExprCache' = extensions,
         AOf[f] = NoAddress \/ CacheKey(AOf[f], TIDOf[f]) \in DOMAIN contextCache',
         BOf[f] = NoAddress \/ CacheKey(BOf[f], TIDOf[f]) \in DOMAIN contextCache',
         TIDOf[f] \in DOMAIN typeCache', AOf[f] \in DOMAIN extensions,
         record' = [flow |-> f,
                    a |-> Answered(contextCache', AOf[f], TIDOf[f]),
                    b |-> Answered(contextCache', BOf[f], TIDOf[f]),
                    type |-> typeCache'[TIDOf[f]].value,
                    extend |-> extensions[AOf[f]].value]
  PROVE  RecordRight'
<1> DEFINE tid == TIDOf[f]
<1>1. /\ \A k \in DOMAIN contextCache' : contextCache'[k].left \in Nat
      /\ \A k \in DOMAIN typeCache' : typeCache'[k].left \in Nat
      /\ \A k \in DOMAIN extensions : extensions[k].left \in Nat
      /\ calm' \in Nat
  BY LifetimesAreNumbers DEF AnswerTypes, IsCache
<1>2. ASSUME calm' > ContextLifetime, NEW ip \in {AOf[f], BOf[f]}
      PROVE  Answered(contextCache', ip, tid) = Truth(ip, f)'
  <2>1. CASE ip = NoAddress
    BY <2>1 DEF Answered, Truth
  <2>2. CASE ip # NoAddress
    <3>1. CacheKey(ip, tid) \in DOMAIN contextCache'
      BY <2>2
    <3>2. \/ contextCache'[CacheKey(ip, tid)].value
               = ResolveFallback(owner'[CacheKey(ip, tid)], {})
          \/ calm' + contextCache'[CacheKey(ip, tid)].left <= ContextLifetime
      BY <3>1 DEF AnswersSettle, ContextsSettle
    <3>3. contextCache'[CacheKey(ip, tid)].value
             = ResolveFallback(owner'[CacheKey(ip, tid)], {})
      BY <1>1, <1>2, <3>1, <3>2, LifetimesAreNumbers
    <3> QED
      BY <2>2, <3>3 DEF Answered, Truth, CacheKey
  <2> QED
    BY <2>1, <2>2
<1>3. ASSUME calm' > ContextLifetime
      PROVE  typeCache'[tid].value = NodeType
  <2>1. \/ typeCache'[tid].value = NodeType
        \/ calm' + typeCache'[tid].left <= ContextLifetime
    BY DEF AnswersSettle, TypesSettle
  <2> QED
    BY <1>1, <1>3, <2>1, LifetimesAreNumbers
<1>4. ASSUME calm' > ExtendLifetime
      PROVE  extensions[AOf[f]].value \in ExtensionAnswers(AOf[f], {})'
  <2>1. \/ extensions[AOf[f]].value \in ExtensionAnswers(AOf[f], {})'
        \/ calm' + extensions[AOf[f]].left <= ExtendLifetime
    BY DEF AnswersSettle, ExtensionsSettle, ExtensionAnswers, Hosts
  <2> QED
    BY <1>1, <1>4, <2>1, LifetimesAreNumbers
<1>5. PeersRightAfterCalm'
  BY <1>2, <1>3 DEF PeersRightAfterCalm, Truth
<1>6. ExtensionRightAfterCalm'
  BY <1>4 DEF ExtensionRightAfterCalm, ExtensionAnswers, Hosts
<1> QED
  BY <1>5, <1>6 DEF RecordRight

LEMMA TransformSettles ==
  ASSUME AnswersInv, NEW f \in Flows, NEW finish, NEW fails,
         Transform(f, finish, fails)
  PROVE  AnswersInv'
<1> DEFINE tid == TIDOf[f]
           afterA == Remembered(contextCache, AOf[f], tid, fails)
           afterB == Remembered(afterA, BOf[f], tid, fails)
<1>1. /\ calm' \in Nat /\ calm' <= calm /\ calm' \in 0..(LongestLifetime + 1)
      /\ owner' = owner /\ owner' \in [Places -> Peers]
      /\ calm \in Nat
  BY LifetimesAreNumbers DEF Transform, AnswersInv, AnswerTypes
<1>2. /\ ContextsSettle(contextCache, calm')
      /\ TypesSettle(typeCache, calm')
      /\ ExtensionsSettle(gremlinExprCache, calm')
  BY <1>1, LessCalm
<1>3. CASE UNCHANGED <<contextCache, typeCache, gremlinExprCache, panicked>>
           /\ record' = NoRecord
  <2>1. AnswerTypes'
    BY <1>1, <1>3 DEF AnswersInv, AnswerTypes
  <2>2. ContextsSettle(contextCache, calm)' /\ TypesSettle(typeCache, calm)'
    BY <1>1, <1>2, <1>3 DEF ContextsSettle, TypesSettle
  <2>3. ExtensionsSettle(gremlinExprCache, calm)'
    BY <1>1, <1>2, <1>3 DEF ExtensionsSettle, ExtensionAnswers, Hosts
  <2>4. RecordRight'
    BY <1>3 DEF RecordRight, PeersRightAfterCalm, ExtensionRightAfterCalm
  <2> QED
    BY <2>1, <2>2, <2>3, <2>4 DEF AnswersInv, AnswersSettle
<1>4. CASE ~ Withheld(f, finish)
  <2>1. /\ typeCache' = TypesKept(tid, fails)
        /\ IF HasNetwork(f) THEN Resolved(f, fails) ELSE Unresolved(f)
        /\ fails = {} \/ calm' = 0
    BY <1>4 DEF Transform
  <2>2. tid \in TIDs
    BY PeerAssumption
  <2>3. /\ IsCache(typeCache', TIDs, NodeTypes, ContextLifetime)
        /\ TypesSettle(typeCache', calm')
        /\ tid \in DOMAIN typeCache'
    BY <1>1, <1>2, <2>1, <2>2, TypesKeptSettle DEF AnswersInv, AnswerTypes
  <2>4. TypesSettle(typeCache, calm)'
    BY <2>3 DEF TypesSettle
  <2>7. panicked' \in BOOLEAN
    <3>1. panicked' = panicked \/ panicked' = TRUE
      BY <2>1 DEF Resolved, Unresolved
    <3>2. panicked \in BOOLEAN
      BY DEF AnswersInv, AnswerTypes
    <3> QED
      BY <3>1, <3>2, Zenon
  <2>5. CASE UNCHANGED <<contextCache, gremlinExprCache>>
             /\ (record' = record \/ (~ HasNetwork(f) /\ record'.flow = f))
    <3>1. AnswerTypes'
      BY <1>1, <2>3, <2>5, <2>7 DEF AnswersInv, AnswerTypes
    <3>2. ContextsSettle(contextCache, calm)'
      BY <1>1, <1>2, <2>5 DEF ContextsSettle
    <3>3. ExtensionsSettle(gremlinExprCache, calm)'
      BY <1>1, <1>2, <2>5 DEF ExtensionsSettle, ExtensionAnswers, Hosts
    <3>4. RecordRight'
      <4>1. CASE record' = record
        <5>1. /\ calm' > ContextLifetime => calm > ContextLifetime
              /\ calm' > ExtendLifetime => calm > ExtendLifetime
          BY <1>1, LifetimesAreNumbers
        <5>2. PeersRightAfterCalm'
          BY <1>1, <4>1, <5>1
             DEF AnswersInv, RecordRight, PeersRightAfterCalm, Truth
        <5>3. ExtensionRightAfterCalm'
          BY <1>1, <4>1, <5>1
             DEF AnswersInv, RecordRight, ExtensionRightAfterCalm,
                 ExtensionAnswers, Hosts
        <5> QED
          BY <5>2, <5>3 DEF RecordRight
      <4>2. CASE ~ HasNetwork(f) /\ record'.flow = f
        BY <4>2 DEF RecordRight, PeersRightAfterCalm, ExtensionRightAfterCalm
      <4> QED
        BY <2>5, <4>1, <4>2
    <3> QED
      BY <2>4, <3>1, <3>2, <3>3, <3>4 DEF AnswersInv, AnswersSettle
  <2>6. CASE HasNetwork(f) /\ \E extensions \in Extended(AOf[f], fails) :
             /\ contextCache' = afterB
             /\ gremlinExprCache' = extensions
             /\ record' = [flow |-> f,
                           a |-> Answered(contextCache', AOf[f], tid),
                           b |-> Answered(contextCache', BOf[f], tid),
                           type |-> typeCache'[tid].value,
                           extend |-> extensions[AOf[f]].value]
             /\ UNCHANGED panicked
    <3>1. PICK extensions \in Extended(AOf[f], fails) :
             /\ contextCache' = afterB
             /\ gremlinExprCache' = extensions
             /\ record' = [flow |-> f,
                           a |-> Answered(contextCache', AOf[f], tid),
                           b |-> Answered(contextCache', BOf[f], tid),
                           type |-> typeCache'[tid].value,
                           extend |-> extensions[AOf[f]].value]
             /\ UNCHANGED panicked
      BY <2>6
    <3>2. /\ AOf[f] \in Addresses \cup {NoAddress}
          /\ BOf[f] \in Addresses \cup {NoAddress}
      BY <2>6, PeerAssumption DEF HasNetwork
    <3>3. /\ AOf[f] = NoAddress \/ <<AOf[f], tid>> \in Places
          /\ BOf[f] = NoAddress \/ <<BOf[f], tid>> \in Places
      BY <3>2 DEF Places
    <3>4. /\ IsCache(afterA, Places, Contexts, ContextLifetime)
          /\ ContextsSettle(afterA, calm')
          /\ AOf[f] = NoAddress \/ CacheKey(AOf[f], tid) \in DOMAIN afterA
      BY <1>1, <1>2, <2>1, <3>3, RememberedSettles DEF AnswersInv, AnswerTypes
    <3> HIDE DEF afterA
    <3>5. /\ IsCache(afterB, Places, Contexts, ContextLifetime)
          /\ ContextsSettle(afterB, calm')
          /\ DOMAIN afterA \subseteq DOMAIN afterB
          /\ BOf[f] = NoAddress \/ CacheKey(BOf[f], tid) \in DOMAIN afterB
      BY <1>1, <2>1, <3>3, <3>4, RememberedSettles
    <3> HIDE DEF afterB
    <3>6. /\ IsCache(extensions, Addresses \cup {NoAddress}, Names, ExtendLifetime)
          /\ ExtensionsSettle(extensions, calm')
          /\ AOf[f] \in DOMAIN extensions
      BY <1>1, <1>2, <2>1, <3>2, ExtendedSettles DEF AnswersInv, AnswerTypes
    <3>7. AnswerTypes'
      BY <1>1, <2>3, <3>1, <3>5, <3>6 DEF AnswersInv, AnswerTypes
    <3>8. ContextsSettle(contextCache, calm)'
      BY <1>1, <3>1, <3>5 DEF ContextsSettle
    <3>9. ExtensionsSettle(gremlinExprCache, calm)'
      BY <1>1, <3>1, <3>6 DEF ExtensionsSettle, ExtensionAnswers, Hosts
    <3>10. AnswersSettle'
      BY <2>4, <3>8, <3>9 DEF AnswersSettle
    <3>11. RecordRight'
      BY <1>1, <2>3, <2>6, <3>1, <3>4, <3>5, <3>6, <3>7, <3>10,
         RecordOfSettledCaches
    <3> QED
      BY <3>7, <3>10, <3>11 DEF AnswersInv
  <2>8. CASE ~ HasNetwork(f)
    <3>1. Unresolved(f)
      BY <2>1, <2>8
    <3>2. record'.flow = f
      BY <3>1 DEF Unresolved
    <3> QED
      BY <2>5, <2>8, <3>1, <3>2 DEF Unresolved
  <2>9. CASE HasNetwork(f)
    <3>1. Resolved(f, fails)
      BY <2>1, <2>9
    <3> HIDE DEF afterA, afterB
    <3>2. CASE AssertionFails(contextCache, AOf[f], tid)
               \/ AssertionFails(afterA, BOf[f], tid)
      BY <2>5, <3>1, <3>2 DEF Resolved, afterA
    <3>3. CASE ~ (\/ AssertionFails(contextCache, AOf[f], tid)
                  \/ AssertionFails(afterA, BOf[f], tid))
      <4>1. \E extensions \in Extended(AOf[f], fails) :
               /\ contextCache' = afterB
               /\ gremlinExprCache' = extensions
               /\ record' = [flow |-> f,
                             a |-> Answered(contextCache', AOf[f], tid),
                             b |-> Answered(contextCache', BOf[f], tid),
                             type |-> typeCache'[tid].value,
                             extend |-> extensions[AOf[f]].value]
               /\ UNCHANGED panicked
        BY <3>1, <3>3 DEF Resolved, afterA, afterB
      <4> QED
        BY <2>6, <2>9, <4>1
    <3> QED
      BY <3>2, <3>3
  <2> QED
    BY <2>8, <2>9
<1> QED
  BY <1>3, <1>4 DEF Transform

LEMMA TickSettles ==
  ASSUME AnswersInv, TransformTick
  PROVE  AnswersInv'
<1>1. /\ calm \in Nat /\ calm' \in 0..(LongestLifetime + 1) /\ calm' <= calm + 1
      /\ owner' = owner
  BY LifetimesAreNumbers DEF TransformTick, AnswersInv, AnswerTypes
<1>2. /\ IsCache(contextCache', Places, Contexts, ContextLifetime)
      /\ DOMAIN contextCache' = {x \in DOMAIN contextCache : contextCache[x].left > 0}
      /\ \A x \in DOMAIN contextCache' :
           /\ contextCache'[x].value = contextCache[x].value
           /\ contextCache'[x].left = contextCache[x].left - 1
  BY LifetimesAreNumbers, AgedItems DEF TransformTick, AnswersInv, AnswerTypes
<1>3. /\ IsCache(typeCache', TIDs, NodeTypes, ContextLifetime)
      /\ DOMAIN typeCache' = {x \in DOMAIN typeCache : typeCache[x].left > 0}
      /\ \A x \in DOMAIN typeCache' :
           /\ typeCache'[x].value = typeCache[x].value
           /\ typeCache'[x].left = typeCache[x].left - 1
  BY LifetimesAreNumbers, AgedItems DEF TransformTick, AnswersInv, AnswerTypes
<1>4. /\ IsCache(gremlinExprCache', Addresses \cup {NoAddress}, Names, ExtendLifetime)
      /\ DOMAIN gremlinExprCache'
           = {x \in DOMAIN gremlinExprCache : gremlinExprCache[x].left > 0}
      /\ \A x \in DOMAIN gremlinExprCache' :
           /\ gremlinExprCache'[x].value = gremlinExprCache[x].value
           /\ gremlinExprCache'[x].left = gremlinExprCache[x].left - 1
  BY LifetimesAreNumbers, AgedItems DEF TransformTick, AnswersInv, AnswerTypes
<1>5. /\ \A k \in DOMAIN contextCache : contextCache[k].left \in Nat
      /\ \A k \in DOMAIN typeCache : typeCache[k].left \in Nat
      /\ \A k \in DOMAIN gremlinExprCache : gremlinExprCache[k].left \in Nat
  BY LifetimesAreNumbers DEF AnswersInv, AnswerTypes, IsCache
<1>6. ContextsSettle(contextCache, calm)'
  BY <1>1, <1>2, <1>5, LifetimesAreNumbers
     DEF AnswersInv, AnswersSettle, ContextsSettle
<1>7. TypesSettle(typeCache, calm)'
  BY <1>1, <1>3, <1>5, LifetimesAreNumbers
     DEF AnswersInv, AnswersSettle, TypesSettle
<1>8. ExtensionsSettle(gremlinExprCache, calm)'
  <2>1. \A k : ExtensionAnswers(k, {})' = ExtensionAnswers(k, {})
    BY <1>1 DEF ExtensionAnswers, Hosts
  <2> QED
    BY <1>1, <1>4, <1>5, <2>1, LifetimesAreNumbers
       DEF AnswersInv, AnswersSettle, ExtensionsSettle
<1>9. AnswerTypes'
  BY <1>1, <1>2, <1>3, <1>4 DEF AnswersInv, AnswerTypes, TransformTick
<1>10. RecordRight'
  BY DEF TransformTick, RecordRight, PeersRightAfterCalm, ExtensionRightAfterCalm
<1> QED
  BY <1>6, <1>7, <1>8, <1>9, <1>10 DEF AnswersInv, AnswersSettle

LEMMA MoveSettles ==
  ASSUME AnswersInv, NEW place \in Places, NEW p \in Peers, Move(place, p)
  PROVE  AnswersInv'
<1>1. /\ calm' = 0
      /\ UNCHANGED <<contextCache, typeCache, gremlinExprCache, panicked>>
      /\ owner' \in [Places -> Peers]
  BY DEF Move, AnswersInv, AnswerTypes
<1>2. /\ \A k \in DOMAIN contextCache : contextCache[k].left \in 0..ContextLifetime
      /\ \A k \in DOMAIN typeCache : typeCache[k].left \in 0..ContextLifetime
      /\ \A k \in DOMAIN gremlinExprCache :
           gremlinExprCache[k].left \in 0..ExtendLifetime
  BY DEF AnswersInv, AnswerTypes, IsCache
<1>3. ContextsSettle(contextCache, calm)' /\ TypesSettle(typeCache, calm)'
  BY <1>1, <1>2, LifetimesAreNumbers DEF ContextsSettle, TypesSettle
<1>4. ExtensionsSettle(gremlinExprCache, calm)'
  BY <1>1, <1>2, LifetimesAreNumbers DEF ExtensionsSettle
<1>5. AnswerTypes'
  BY <1>1, LifetimesAreNumbers DEF AnswersInv, AnswerTypes
<1>6. RecordRight'
  BY DEF Move, RecordRight, PeersRightAfterCalm, ExtensionRightAfterCalm
<1> QED
  BY <1>3, <1>4, <1>5, <1>6 DEF AnswersInv, AnswersSettle

LEMMA SameAnswers ==
  ASSUME AnswersInv,
         UNCHANGED <<contextCache, typeCache, gremlinExprCache, panicked, record,
                     owner, calm>>
  PROVE  AnswersInv'
<1>1. AnswerTypes'
  BY DEF AnswersInv, AnswerTypes
<1>2. AnswersSettle'
  BY DEF AnswersInv, AnswersSettle, ContextsSettle, TypesSettle,
         ExtensionsSettle, ExtensionAnswers, Hosts
<1>3. RecordRight'
  BY DEF AnswersInv, RecordRight, PeersRightAfterCalm, Truth,
         ExtensionRightAfterCalm, ExtensionAnswers, Hosts
<1> QED
  BY <1>1, <1>2, <1>3 DEF AnswersInv

LEMMA EmptyCachesSettle ==
  /\ \A K, V, longest : IsCache(EmptyCache, K, V, longest)
  /\ \A time : /\ ContextsSettle(EmptyCache, time)
               /\ TypesSettle(EmptyCache, time)
               /\ ExtensionsSettle(EmptyCache, time)
BY DEF EmptyCache, IsCache, ContextsSettle, TypesSettle, ExtensionsSettle

LEMMA AnswersInvariant == Spec => []AnswersInv
<1>1. Init => AnswersInv
  <2> SUFFICES ASSUME Init PROVE AnswersInv
    OBVIOUS
  <2>1. AnswerTypes
    <3>1. calm \in 0..(LongestLifetime + 1)
      BY LifetimesAreNumbers DEF Init, TransformInit
    <3>5. panicked \in BOOLEAN
      BY Zenon DEF Init, TransformInit
    <3>2. owner \in [Places -> Peers]
      BY OwnerAssumption DEF Init, TransformInit
    <3>3. /\ contextCache = EmptyCache /\ typeCache = EmptyCache
          /\ gremlinExprCache = EmptyCache
      BY DEF Init, TransformInit
    <3>4. /\ IsCache(contextCache, Places, Contexts, ContextLifetime)
          /\ IsCache(typeCache, TIDs, NodeTypes, ContextLifetime)
          /\ IsCache(gremlinExprCache, Addresses \cup {NoAddress}, Names,
                     ExtendLifetime)
      BY <3>3, EmptyCachesSettle
    <3> QED
      BY <3>1, <3>2, <3>4, <3>5 DEF AnswerTypes
  <2>2. AnswersSettle
    BY EmptyCachesSettle DEF Init, TransformInit, AnswersSettle
  <2>3. RecordRight
    BY DEF Init, TransformInit, RecordRight, PeersRightAfterCalm,
           ExtensionRightAfterCalm
  <2> QED
    BY <2>1, <2>2, <2>3 DEF AnswersInv
<1>2. ASSUME AnswersInv, [Next]_vars PROVE AnswersInv'
  <2>1. CASE Discover \/ FailToDiscover \/ Retry \/ Flip
    BY <1>2, <2>1, SameAnswers
       DEF Discover, FailToDiscover, Retry, Flip, transformVars, topologyVars
  <2>2. CASE \E f \in Flows, finish \in FinishTypes, fails \in FailureModes :
               Receive(f, finish, fails)
    BY <1>2, <2>2, TransformSettles DEF Receive
  <2>3. CASE \E n \in Nodes : Join(n)
    BY <1>2, <2>3, SameAnswers DEF Join
  <2>4. CASE Environment
    BY <1>2, <2>4, MoveSettles, TickSettles DEF Environment
  <2>5. CASE Restart
    <3>1. AnswerTypes'
      BY <1>2, <2>5, EmptyCachesSettle DEF Restart, AnswersInv, AnswerTypes
    <3>2. AnswersSettle'
      BY <2>5 DEF Restart, AnswersSettle, ContextsSettle, TypesSettle,
                  ExtensionsSettle, EmptyCache
    <3>3. RecordRight'
      BY <2>5 DEF Restart, RecordRight, PeersRightAfterCalm,
                  ExtensionRightAfterCalm
    <3> QED
      BY <3>1, <3>2, <3>3 DEF AnswersInv
  <2>6. CASE UNCHANGED vars
    BY <1>2, <2>6, SameAnswers DEF vars, transformVars, topologyVars
  <2> QED
    BY <1>2, <2>1, <2>2, <2>3, <2>4, <2>5, <2>6 DEF Next
<1> QED
  BY <1>1, <1>2, PTL DEF Spec

\* resolve_cache.go:57-66: once no query has failed and nothing has moved for the
\* life time of a context, a record names the peers the topology has, whatever
\* the caches were filled with before.
THEOREM ExporterPeersRight == Spec => []PeersRightAfterCalm
<1>1. AnswersInv => PeersRightAfterCalm
  BY DEF AnswersInv, RecordRight
<1> QED
  BY <1>1, AnswersInvariant, PTL

\* extend_gremlin.go: the same for the extensions and their own life time.
THEOREM ExporterExtensionRight == Spec => []ExtensionRightAfterCalm
<1>1. AnswersInv => ExtensionRightAfterCalm
  BY DEF AnswersInv, RecordRight
<1> QED
  BY <1>1, AnswersInvariant, PTL

-----------------------------------------------------------------------------
(* The start: discovery.                                                   *)

\* The first and the last of some positions.
LEMMA EndsOfPositions ==
  ASSUME NEW n \in Nat, NEW S \in SUBSET (1..n), S # {}
  PROVE  Min(S) \in S /\ Max(S) \in S
<1> DEFINE Less == {ss \in Nat \X Nat : ss[1] < ss[2]}
           Mirror == {k \in Nat : n - k \in S}
<1>a. IsWellFoundedOn(Less, Nat)
  BY NatLessThanWellFounded DEF OpToRel
<1>1. PICK x \in S : \A y \in S : ~ (<<y, x>> \in Less)
  <2>1. S \subseteq Nat
    OBVIOUS
  <2> HIDE DEF Less
  <2> QED
    BY <1>a, <2>1, WFMin
<1>2. \A y \in S : x <= y
  <2> SUFFICES ASSUME NEW y \in S PROVE x <= y
    OBVIOUS
  <2>1. x \in Nat /\ y \in Nat
    OBVIOUS
  <2>2. ~ (<<y, x>> \in Less)
    BY <1>1
  <2>3. ~ (y < x)
    BY <2>1, <2>2
  <2> QED
    BY <2>1, <2>3
<1>3. Mirror # {} /\ Mirror \subseteq Nat
  <2>1. PICK s \in S : TRUE
    OBVIOUS
  <2>2. n - s \in Nat /\ n - (n - s) = s
    OBVIOUS
  <2>3. n - s \in Mirror
    BY <2>2
  <2> QED
    BY <2>3
<1>4. PICK k \in Mirror : \A l \in Mirror : ~ (<<l, k>> \in Less)
  <2> HIDE DEF Mirror, Less
  <2> QED
    BY <1>3, <1>a, WFMin
<1>5. \A y \in S : n - k >= y
  <2> SUFFICES ASSUME NEW y \in S PROVE n - k >= y
    OBVIOUS
  <2>1. /\ n - y \in Nat /\ n - (n - y) = y
        /\ k \in Nat /\ y \in Nat
    OBVIOUS
  <2>2. n - y \in Mirror
    BY <2>1
  <2>3. ~ (<<n - y, k>> \in Less)
    BY <1>4, <2>2
  <2>4. ~ (n - y < k)
    BY <2>1, <2>3
  <2> QED
    BY <2>1, <2>4
<1>6. n - k \in S
  OBVIOUS
<1>7. Min(S) \in S
  BY <1>2 DEF Min
<1>8. Max(S) \in S
  BY <1>5, <1>6 DEF Max
<1> QED
  BY <1>7, <1>8

\* extractNodeIP answers with an address of the node, and one of the better kind.
LEMMA NodeIPIsBest ==
  ASSUME NEW n \in Nodes
  PROVE  /\ NodeIP(n) \subseteq Addresses
         /\ BetterIPs(n) # {} => BetterIPs(n) \cap NodeIP(n) # {}
<1> DEFINE external == OfType(n, "ExternalIP")
           internal == OfType(n, "InternalIP")
           ip(i) == AddressesOf[n][i].ip
           length == Len(AddressesOf[n])
<1>1. /\ length \in Nat /\ DOMAIN AddressesOf[n] = 1..length
      /\ \A i \in 1..length : ip(i) \in Addresses
  <2> DEFINE Kinds == {"ExternalIP", "InternalIP", "Hostname"}
             Address == [type : Kinds, ip : Addresses]
  <2>1. AddressesOf[n] \in Seq(Address)
    BY ExporterAssumption
  <2>2. \A a \in Address : a.ip \in Addresses
    OBVIOUS
  <2> HIDE DEF Address
  <2> QED
    BY <2>1, <2>2
<1>2. external \in SUBSET (1..length) /\ internal \in SUBSET (1..length)
  BY <1>1 DEF OfType
<1>3. /\ external # {} => Min(external) \in external
      /\ internal # {} => Max(internal) \in internal
  BY <1>1, <1>2, EndsOfPositions
<1>4. /\ NodeIP(n) = IF external # {} THEN {ip(Min(external))}
                     ELSE IF internal # {} THEN {ip(Max(internal))} ELSE {}
      /\ BetterIPs(n) = IF {ip(i) : i \in external} # {}
                          THEN {ip(i) : i \in external}
                          ELSE {ip(i) : i \in internal}
  BY DEF NodeIP, BetterIPs
<1> HIDE DEF external, internal, length, ip
<1>5. CASE external # {}
  BY <1>1, <1>2, <1>3, <1>4, <1>5
<1>6. CASE external = {} /\ internal # {}
  BY <1>1, <1>2, <1>3, <1>4, <1>6
<1>7. CASE external = {} /\ internal = {}
  BY <1>4, <1>7
<1> QED
  BY <1>5, <1>6, <1>7

LEMMA StartTypes == Spec => []StartTypeOK
<1>1. Init => StartTypeOK
  <2>1. Init => analyzerUp \in BOOLEAN
    BY Zenon DEF Init
  <2> QED
    BY <2>1, ExporterAssumption DEF Init, StartTypeOK
<1>2. ASSUME StartTypeOK, [Next]_vars PROVE StartTypeOK'
  <2>1. CASE Discover
    <3>1. Learnt \subseteq Addresses
      BY <1>2, NodeIPIsBest, ExporterAssumption DEF Learnt, StartTypeOK
    <3> QED
      BY <1>2, <2>1, <3>1 DEF Discover, StartTypeOK
  <2>2. CASE \E f \in Flows, finish \in FinishTypes, fails \in FailureModes :
               Receive(f, finish, fails)
    BY <1>2, <2>2 DEF Receive, startVars, StartTypeOK
  <2>3. CASE \E n \in Nodes : Join(n)
    BY <1>2, <2>3 DEF Join, StartTypeOK
  <2>4. CASE Environment
    BY <1>2, <2>4 DEF Environment, startVars, StartTypeOK
  <2>5. CASE Restart
    <3>1. analyzerUp' \in BOOLEAN
      BY <2>5, Zenon DEF Restart
    <3> QED
      BY <1>2, <2>5, <3>1, ExporterAssumption DEF Restart, StartTypeOK
  <2>6. CASE UNCHANGED vars
    BY <1>2, <2>6 DEF vars, startVars, StartTypeOK
  <2>7. CASE FailToDiscover \/ Retry
    BY <1>2, <2>7 DEF FailToDiscover, Retry, StartTypeOK
  <2>8. CASE Flip
    <3>1. analyzerUp' \in BOOLEAN
      BY <2>8, Zenon DEF Flip
    <3> QED
      BY <1>2, <2>8, <3>1 DEF Flip, StartTypeOK
  <2> QED
    BY <1>2, <2>1, <2>2, <2>3, <2>4, <2>5, <2>6, <2>7, <2>8 DEF Next
<1> QED
  BY <1>1, <1>2, PTL DEF Spec

\* cluster_ips.go:36: of every node the analyzer knows at the start, an address
\* of the better kind counts as the cluster's, in whatever order they come.
THEOREM ExporterNodesLearnt == Spec => NodesLearnt
<1>1. ASSUME StartTypeOK, Discover, NEW n \in clusterNodes, BetterIPs(n) # {}
      PROVE  BetterIPs(n) \cap clusterNetMasks' # {}
  <2>1. NodeIP(n) \subseteq clusterNetMasks'
    BY <1>1 DEF Discover, Learnt
  <2>2. n \in Nodes
    BY <1>1 DEF StartTypeOK
  <2> QED
    BY <1>1, <2>1, <2>2, NodeIPIsBest
<1>2. ASSUME [Next]_vars, phase # "running", phase' = "running"
      PROVE  Discover
  <2>1. CASE \E f \in Flows, finish \in FinishTypes, fails \in FailureModes :
               Receive(f, finish, fails)
    BY <1>2, <2>1 DEF Receive
  <2>2. CASE \E n \in Nodes : Join(n)
    BY <1>2, <2>2 DEF Join
  <2>3. CASE Environment
    BY <1>2, <2>3 DEF Environment, startVars
  <2>4. CASE Restart
    BY <1>2, <2>4 DEF Restart
  <2>5. CASE UNCHANGED vars
    BY <1>2, <2>5 DEF vars, startVars
  <2>6. CASE FailToDiscover \/ Retry \/ Flip
    BY <1>2, <2>6 DEF FailToDiscover, Retry, Flip
  <2> QED
    BY <1>2, <2>1, <2>2, <2>3, <2>4, <2>5, <2>6 DEF Next
<1>3. StartTypeOK /\ [Next]_vars =>
        [phase # "running" /\ phase' = "running" =>
           \A n \in clusterNodes :
             BetterIPs(n) # {} => BetterIPs(n) \cap clusterNetMasks' # {}]_vars
  BY <1>1, <1>2
<1> QED
  BY <1>3, StartTypes, PTL DEF Spec, NodesLearnt

\* Type correctness, which says of the caches that they answer with contexts,
\* types and names and with nothing else (resolve_cache.go:62, 88).
THEOREM ExporterTypeCorrect == Spec => []TypeOK
<1>1. StatusTypeOK /\ AnswersInv /\ StartTypeOK => TypeOK
  BY DEF TypeOK, TransformTypeOK, AnswersInv, AnswerTypes
<1> QED
  BY <1>1, ExporterImplementsStatus, StatusTypeCorrect, AnswersInvariant, StartTypes,
     PTL
=============================================================================
