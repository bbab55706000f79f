-------------------------- MODULE VpcAction_proofs --------------------------
(***************************************************************************)
(* Proofs about VpcAction, for any flows, timeouts, increments, number of  *)
(* rounds and time.  What the mangler knows of a flow is spread over the   *)
(* flows of this round and those of earlier ones: the inductive invariant  *)
(* speaks of the latest it knows, and relates it and the metric reported   *)
(* to what was measured and to the sum of what was accepted.  The types    *)
(* hold always, the rest until a capture point shows a second UUID.        *)
(***************************************************************************)
EXTENDS VpcAction, FiniteSetTheorems, TLAPS

\* No capture point has shown a second UUID, and both have shown one.
OnePerSide(us) == \A u, v \in us : TidOf[u] = TidOf[v] => u = v
Paired(us) == \E u, v \in us : TidOf[u] # TidOf[v]

\* What an entry knows of a flow, and which it knows.
Latest(e, u) == IF e.flows[u] # NoFlow THEN e.flows[u] ELSE e.flowsPrev[u]
Seen(e) == {u \in UUIDs : Latest(e, u) # NoFlow}

\* b is the lesser of the numbers of both sides.
Least(us, m, b) ==
  \A u, v \in us : TidOf[u] # TidOf[v] => b = Lesser(m[u].bytes, m[v].bytes)

\* An entry and its past: the measurements m, and a bytes accepted so far.
\* As long as nothing was reported, what may be reported first is still to be
\* accepted; afterwards no more was accepted than the metric reported says.
Accounted(e, m, a) ==
  /\ e \in Entries
  /\ Seen(e) # {}
  /\ \A u \in Seen(e) : Latest(e, u) = m[u]
  /\ e.reported # NoReport => e.metric # NoMetric
  /\ e.reported = NoReport => \A u \in Seen(e) : a + m[u].delta <= m[u].bytes
  /\ e.metric # NoMetric => a <= e.metric.bytes

\* Between two rounds: both sides together have been reported, and what they
\* were last accepted with is all they have.
Settled(e, m, a) ==
  /\ Accounted(e, m, a)
  /\ Paired(Seen(e)) => e.metric # NoMetric
  /\ e.reported.action = "A" =>
       Paired(Seen(e)) /\ Least(Seen(e), m, e.metric.bytes)

\* In a round, before the handler: so it is if both are of earlier rounds.
Ready(e, m, a) ==
  /\ Accounted(e, m, a)
  /\ Paired(Known(e.flowsPrev)) => e.metric # NoMetric
  /\ e.reported.action = "A" =>
       /\ Paired(Known(e.flowsPrev))
       /\ Known(e.flows) = {} => Least(Known(e.flowsPrev), m, e.metric.bytes)

\* Why a report rejects: of the flows in us, measured by m, one side is silent.
Silence(us, m) ==
  \/ \E u \in UUIDs : us = {u}
  \/ \E u, v \in us :
       TidOf[u] # TidOf[v] /\ Abs(m[u].seen - m[v].seen) > RejectTimeout

\* Measurements with at most one flow on a side, and a bytes accepted.
Measured(m, a) ==
  /\ m \in [UUIDs -> Flows]
  /\ OnePerSide(Known(m))
  /\ a \in Int
  /\ \A u \in Known(m) : a <= m[u].bytes
  /\ Paired(Known(m)) \/ a <= 0

\* Until the first cleanup the entry knows every flow that was measured.
KnowsAll ==
  timeOfLastCleanup = 0 =>
    Known(measured) = IF entry = NoEntry THEN {} ELSE Seen(entry)

Numbers == {clock, rounds, timeOfLastCleanup} \subseteq Nat

Sound ==
  /\ ~ crashed
  /\ Measured(measured, accepted)
  /\ entry # NoEntry => Settled(entry, measured, accepted)
  /\ KnowsAll
  /\ out.action = "R" /\ timeOfLastCleanup = 0 => Silence(Known(measured), measured)

ActionInv ==
  /\ TypeOK
  /\ Numbers
  /\ OnePerSide(Known(measured)) => Sound

\* What a handler returns for an entry, with the measurements m and a bytes
\* accepted before.
AcceptedAfter(o, a) == IF o.out.action = "A" THEN a + o.out.bytes ELSE a

Handled(e, o, m, a) ==
  /\ o.crashed = FALSE
  /\ Settled(o.entry, m, AcceptedAfter(o, a))
  /\ Measured(m, AcceptedAfter(o, a))
  /\ Seen(o.entry) = Seen(e)
  /\ o.out.action = "R" => Silence(Seen(e), m)

USE DEF NoFlow, NoMetric, NoReport, Outcome
-----------------------------------------------------------------------------
(* One flow on each side.                                                  *)

LEMMA PairIsAll ==
  ASSUME NEW us \in SUBSET UUIDs, OnePerSide(us),
         NEW u \in us, NEW v \in us, TidOf[u] # TidOf[v]
  PROVE  us = {u, v} /\ u # v
<1>1. \A w \in us : TidOf[w] = TidOf[u] \/ TidOf[w] = TidOf[v]
  BY ActionAssumption
<1> QED
  BY <1>1 DEF OnePerSide

\* A set of flows is empty, one, or one of each side.
LEMMA SetsOfFlows ==
  ASSUME NEW us \in SUBSET UUIDs, OnePerSide(us)
  PROVE  \/ us = {} /\ Cardinality(us) = 0
         \/ \E u \in UUIDs : us = {u} /\ Cardinality(us) = 1
         \/ \E u, v \in UUIDs :
              us = {u, v} /\ TidOf[u] # TidOf[v] /\ Cardinality(us) = 2
<1>1. CASE us = {}
  BY <1>1, FS_EmptySet
<1>2. CASE us # {} /\ ~ Paired(us)
  <2>1. PICK u \in us : TRUE
    BY <1>2
  <2>2. us = {u}
    BY <1>2, <2>1 DEF Paired, OnePerSide
  <2> QED
    BY <2>2, FS_Singleton
<1>3. CASE Paired(us)
  <2>1. PICK u \in us, v \in us : TidOf[u] # TidOf[v]
    BY <1>3 DEF Paired
  <2>2. us = {u} \cup {v} /\ v \notin {u}
    BY <2>1, PairIsAll
  <2>3. IsFiniteSet({u}) /\ Cardinality({u}) = 1
    BY FS_Singleton
  <2>4. Cardinality({u} \cup {v}) = 2
    BY <2>2, <2>3, FS_AddElement
  <2> QED
    BY <2>1, <2>2, <2>4
<1> QED
  BY <1>1, <1>2, <1>3
-----------------------------------------------------------------------------
(* The sum of the measurements of one side.                                *)

\* The sum over no flow, and over one.  The library's fold is a recursive
\* function: one that satisfies its equation is shown to exist.
LEMMA SumOfNone == MapThenSumSet(LAMBDA u : measured[u].bytes, {}) = 0
<1> DEFINE I(iter) ==
      iter = [s \in SUBSET {} |->
                IF s = {} THEN 0
                ELSE LET x == CHOOSE x \in s : TRUE
                     IN  measured[x].bytes + iter[s \ {x}]]
           g == [s \in SUBSET {} |-> 0]
<1>1. I(g)
  OBVIOUS
<1>2. \A iter : I(iter) => iter[{}] = 0
  OBVIOUS
<1> HIDE DEF g
<1>3. I(CHOOSE iter : I(iter))
  BY <1>1
<1>4. (CHOOSE iter : I(iter))[{}] = 0
  BY <1>2, <1>3
<1> QED
  BY <1>4 DEF MapThenSumSet, MapThenFoldSet

LEMMA SumOfOne ==
  ASSUME NEW w, measured[w].bytes \in Int
  PROVE  MapThenSumSet(LAMBDA u : measured[u].bytes, {w}) = measured[w].bytes
<1> DEFINE b == measured[w].bytes
           I(iter) ==
      iter = [s \in SUBSET {w} |->
                IF s = {} THEN 0
                ELSE LET x == CHOOSE x \in s : TRUE
                     IN  measured[x].bytes + iter[s \ {x}]]
           g == [s \in SUBSET {w} |-> IF s = {} THEN 0 ELSE b]
<1>0. SUBSET {w} = {{}, {w}} /\ {w} # {} /\ {w} \ {w} = {}
  OBVIOUS
<1>1. (CHOOSE x \in {w} : TRUE) = w
  OBVIOUS
<1>2. I(g)
  <2>1. \A s \in SUBSET {w} :
          (IF s = {} THEN 0
           ELSE LET x == CHOOSE x \in s : TRUE
                IN  measured[x].bytes + g[s \ {x}])
          = IF s = {} THEN 0 ELSE b
    BY <1>0, <1>1
  <2> QED
    BY <2>1
<1>3. ASSUME NEW iter, I(iter) PROVE iter[{w}] = b
  <2>1. iter[{}] = 0
    BY <1>0, <1>3
  <2>2. iter[{w}] = measured[w].bytes + iter[{w} \ {w}]
    BY <1>0, <1>1, <1>3
  <2> QED
    BY <1>0, <2>1, <2>2
<1> HIDE DEF g
<1>4. I(CHOOSE iter : I(iter))
  BY <1>2
<1>5. (CHOOSE iter : I(iter))[{w}] = b
  BY <1>3, <1>4
<1> QED
  BY <1>5 DEF MapThenSumSet, MapThenFoldSet

LEMMA BytesOfSide ==
  ASSUME TypeOK, OnePerSide(Known(measured)), NEW tid
  PROVE  \/ /\ BytesAt(tid) = 0
            /\ \A u \in Known(measured) : TidOf[u] # tid
         \/ \E w \in Known(measured) :
              TidOf[w] = tid /\ BytesAt(tid) = measured[w].bytes
<1> DEFINE us == {u \in Known(measured) : TidOf[u] = tid}
<1>1. CASE us = {}
  BY <1>1, SumOfNone DEF BytesAt
<1>2. CASE us # {}
  <2>1. PICK w \in us : TRUE
    BY <1>2
  <2>2. us = {w}
    BY <2>1 DEF OnePerSide
  <2>3. measured[w].bytes \in Int
    BY <2>1 DEF TypeOK, Flows, Known
  <2>4. BytesAt(tid) = measured[w].bytes
    BY <2>2, <2>3, SumOfOne DEF BytesAt
  <2> QED
    BY <2>1, <2>4
<1> QED
  BY <1>1, <1>2

\* With both sides shown, each of the sums is a measurement.
LEMMA BytesOfPair ==
  ASSUME TypeOK, OnePerSide(Known(measured)),
         NEW u \in Known(measured), NEW v \in Known(measured), TidOf[u] # TidOf[v]
  PROVE  Confirmed = Lesser(measured[u].bytes, measured[v].bytes)
<1>1. u \in UUIDs /\ v \in UUIDs /\ Known(measured) \in SUBSET UUIDs
  BY DEF Known
<1>2. Known(measured) = {u, v}
  BY <1>1, PairIsAll
<1>3. ASSUME NEW tid, NEW w \in {u, v}, TidOf[w] = tid
      PROVE  BytesAt(tid) = measured[w].bytes
  BY <1>2, <1>3, BytesOfSide
<1>4. measured[u].bytes \in Nat /\ measured[v].bytes \in Nat
  BY DEF TypeOK, Flows, Known
<1>5. \/ TidOf[u] = 1 /\ TidOf[v] = 2
      \/ TidOf[u] = 2 /\ TidOf[v] = 1
  BY <1>1, ActionAssumption
<1> QED
  BY <1>3, <1>4, <1>5 DEF Confirmed, Lesser
-----------------------------------------------------------------------------
(* The types.                                                              *)

\* What the type says of the parts of an entry.
LEMMA EntryParts ==
  ASSUME NEW e \in Entries
  PROVE  /\ e.flows \in [UUIDs -> Flows]
         /\ e.flowsPrev \in [UUIDs -> Flows]
         /\ e.reported \in Reports
         /\ e.metric \in Metrics
         /\ e.time \in Nat
         /\ \A u \in UUIDs : Latest(e, u) \in Flows
BY DEF Entries, Latest

Outcomes == [entry : Entries, out : Reports, crashed : BOOLEAN]

Measures ==
  [bytes : Nat, delta : Nat, last : Nat, seen : Nat, wasTerminated : BOOLEAN]

LEMMA QuietTypes ==
  ASSUME NEW e \in Entries, clock \in Nat
  PROVE  {Outcome(e, NoReport), Outcome([e EXCEPT !.time = clock], NoReport),
          Crash(e)} \subseteq Outcomes
BY DEF Outcomes, Entries, Reports, Crash

LEMMA RejectTypes ==
  ASSUME NEW e \in Entries, clock \in Nat, NEW u \in UUIDs, NEW flow \in Measures
  PROVE  RejectOneSide(e, flow, u) \in Outcomes
<1>1. Report("R", flow.delta, flow) \in Reports
  BY DEF Report, Reports, Measures
<1>2. MetricOf(flow, u) \in Metrics
  BY ActionAssumption DEF MetricOf, Metrics, Measures
<1> QED
  BY <1>1, <1>2 DEF RejectOneSide, Outcomes, Entries

LEMMA KnownMeasures ==
  ASSUME NEW fs \in [UUIDs -> Flows], NEW u \in Known(fs)
  PROVE  u \in UUIDs /\ fs[u] \in Measures
BY DEF Known, Flows, Measures

LEMMA TimeoutTypes ==
  ASSUME NEW e \in Entries, clock \in Nat, NEW u \in Known(e.flows)
  PROVE  TimeoutResponse(e, u) \in Outcomes
<1>1. e.flows[u] \in Measures
  BY EntryParts, KnownMeasures
<1>2. Report("R", 0, e.flows[u]) \in Reports
  BY <1>1 DEF Report, Reports, Measures
<1>3. CASE e.metric = NoMetric
  BY <1>3, QuietTypes DEF TimeoutResponse
<1>4. CASE e.metric # NoMetric
  BY <1>2, <1>4 DEF TimeoutResponse, Outcomes, Entries
<1> QED
  BY <1>3, <1>4

LEMMA CombinedTypes ==
  ASSUME NEW e \in Entries, NEW u \in Known(e.flows), NEW v \in Known(e.flows)
  PROVE  LET f == e.flows[u]
             g == e.flows[v]
         IN /\ u \in UUIDs /\ v \in UUIDs /\ f \in Measures /\ g \in Measures
            /\ CombinedMetric(e, u, v) =
                 [bytes |-> Lesser(f.bytes, g.bytes),
                  last |-> Lesser(f.last, g.last), start |-> StartOf[u]]
            /\ CombinedMetric(e, u, v) \in [bytes : Nat, last : Nat, start : Nat]
<1>1. /\ u \in UUIDs /\ v \in UUIDs
      /\ e.flows[u] \in Measures /\ e.flows[v] \in Measures
  BY EntryParts, KnownMeasures
<1> QED
  BY <1>1, ActionAssumption DEF CombinedMetric, Lesser, Measures

\* The metric of an accept: that of both sides, but for the time of connections
\* that have ended.
AcceptMetric(e, u, v) ==
  LET combined == CombinedMetric(e, u, v)
  IN IF e.flows[u].wasTerminated /\ e.flows[v].wasTerminated
       THEN [combined EXCEPT !.last = Greater(e.flows[u].last, e.flows[v].last)]
       ELSE combined

LEMMA AcceptParts ==
  ASSUME NEW e \in Entries, clock \in Nat,
         NEW u \in Known(e.flows), NEW v \in Known(e.flows),
         ~ (e.reported # NoReport /\ e.metric = NoMetric)
  PROVE  LET o == Accept(e, u, v)
         IN /\ o = Outcome([e EXCEPT !.reported = o.out,
                                     !.metric = AcceptMetric(e, u, v),
                                     !.time = clock], o.out)
            /\ o.out = [action |-> "A", bytes |-> AddedBytes(e, u, v),
                        wasTerminated |-> e.flows[u].wasTerminated]
            /\ o.out \in Reports
            /\ AcceptMetric(e, u, v) \in Metrics
            /\ AcceptMetric(e, u, v) # NoMetric
            /\ AcceptMetric(e, u, v).bytes = CombinedMetric(e, u, v).bytes
            /\ o \in Outcomes
<1> DEFINE o == Accept(e, u, v)
           metric == AcceptMetric(e, u, v)
           combined == CombinedMetric(e, u, v)
<1>1. /\ e.flows[u] \in Measures /\ e.flows[v] \in Measures
      /\ combined \in [bytes : Nat, last : Nat, start : Nat]
  BY CombinedTypes
<1>2. /\ o = Outcome([e EXCEPT !.reported = o.out, !.metric = metric,
                               !.time = clock], o.out)
      /\ o.out = [action |-> "A", bytes |-> AddedBytes(e, u, v),
                  wasTerminated |-> e.flows[u].wasTerminated]
  BY DEF Accept, AcceptMetric, Report
<1> HIDE DEF o
<1>3. metric \in [bytes : Nat, last : Nat, start : Nat]
      /\ metric.bytes = combined.bytes
  BY <1>1 DEF AcceptMetric, Greater, Measures
<1>4. AddedBytes(e, u, v) \in Int
  <2>1. CASE e.reported = NoReport
    BY <1>1, <2>1 DEF AddedBytes, Lesser, Measures
  <2>2. CASE e.reported # NoReport
    <3>1. e.metric.bytes \in Nat
      BY <2>2, EntryParts DEF Metrics
    <3> QED
      BY <1>1, <2>2, <3>1 DEF AddedBytes
  <2> QED
    BY <2>1, <2>2
<1>5. o.out \in Reports
  BY <1>1, <1>2, <1>4 DEF Reports, Measures
<1> HIDE DEF metric
<1>6. metric \in Metrics /\ metric # NoMetric
  BY <1>3 DEF Metrics
<1>7. o \in Outcomes
  <2>1. ASSUME NEW r \in Reports, NEW k \in Metrics
        PROVE  [e EXCEPT !.reported = r, !.metric = k, !.time = clock] \in Entries
    BY DEF Entries
  <2>2. [e EXCEPT !.reported = o.out, !.metric = metric, !.time = clock] \in Entries
    BY <1>5, <1>6, <2>1
  <2>3. \A x \in Entries, r \in Reports : Outcome(x, r) \in Outcomes
    BY DEF Outcomes
  <2>4. Outcome([e EXCEPT !.reported = o.out, !.metric = metric,
                          !.time = clock], o.out) \in Outcomes
    BY <1>5, <2>2, <2>3
  <2> QED
    BY ONLY <1>2, <2>4
<1> QED
  BY <1>2, <1>3, <1>5, <1>6, <1>7 DEF o, metric

LEMMA CombineTypes ==
  ASSUME NEW e \in Entries, clock \in Nat, NEW o \in CombineFlows(e)
  PROVE  o \in Outcomes
<1>1. PICK u \in Known(e.flows), v \in Known(e.flows) : o = CombineInOrder(e, u, v)
  BY DEF CombineFlows, Orders
<1>2. RejectSameTid(e, u) \in Outcomes
  <2>1. e.flows[u] \in Measures
    BY EntryParts, KnownMeasures
  <2>2. Report("R", e.flows[u].delta, e.flows[u]) \in Reports
    BY <2>1 DEF Report, Reports, Measures
  <2> QED
    BY <2>2 DEF RejectSameTid, Outcomes, Entries
<1>3. Accept(e, u, v) \in Outcomes
  <2>1. CASE e.reported # NoReport /\ e.metric = NoMetric
    <3>1. Accept(e, u, v) = Crash(e)
      BY <2>1 DEF Accept
    <3> QED
      BY <3>1, QuietTypes
  <2>2. CASE ~ (e.reported # NoReport /\ e.metric = NoMetric)
    BY <2>2, AcceptParts
  <2> QED
    BY <2>1, <2>2
<1>4. TimeoutResponse(e, u) \in Outcomes
  BY TimeoutTypes
<1>5. Outcome(e, NoReport) \in Outcomes
  BY QuietTypes
<1> QED
  BY <1>1, <1>2, <1>3, <1>4, <1>5 DEF CombineInOrder

LEMMA WithPrevTypes ==
  ASSUME NEW e \in Entries, NEW us
  PROVE  WithPrev(e, us) \in Entries
BY EntryParts DEF WithPrev, Entries

LEMMA HandleTypes ==
  ASSUME NEW e \in Entries, clock \in Nat, NEW o \in Handle(e)
  PROVE  o \in Outcomes
<1> DEFINE us == Known(e.flows)
           prev == Known(e.flowsPrev)
<1>1. /\ us \in SUBSET UUIDs /\ e.flows \in [UUIDs -> Flows]
      /\ e.flowsPrev \in [UUIDs -> Flows]
  BY EntryParts DEF Known
<1>2. \A u \in us : RejectOneSide(e, e.flows[u], u) \in Outcomes
  BY <1>1, KnownMeasures, RejectTypes
<1>3. \A u \in prev : RejectOneSide(e, e.flowsPrev[u], u) \in Outcomes
  BY <1>1, KnownMeasures, RejectTypes
<1>4. \A vs : \A p \in CombineFlows(WithPrev(e, vs)) : p \in Outcomes
  BY WithPrevTypes, CombineTypes
<1>5. {Outcome(e, NoReport), Outcome([e EXCEPT !.time = clock], NoReport),
       Crash(e)} \subseteq Outcomes
  BY QuietTypes
<1>6. CASE o \in ZeroFlows(e)
  <2> DEFINE again == WithPrev(e, prev)
  <2>1. again \in Entries
    BY WithPrevTypes
  <2>2. \A p \in Orders(again.flows) : TimeoutResponse(again, p[1]) \in Outcomes
    BY <2>1, TimeoutTypes DEF Orders
  <2>3. Outcome(again, NoReport) \in Outcomes
    BY <2>1, QuietTypes
  <2> HIDE DEF again
  <2>4. \/ \E u \in prev : o \in {RejectOneSide(e, e.flowsPrev[u], u),
                                  Outcome(e, NoReport)}
        \/ \E p \in Orders(again.flows) : o \in {TimeoutResponse(again, p[1]),
                                                 Outcome(again, NoReport)}
        \/ o = Crash(e)
    <3>1. CASE Cardinality(prev) = 1
      BY <1>6, <3>1 DEF ZeroFlows
    <3>2. CASE Cardinality(prev) = 2
      BY <1>6, <3>2 DEF ZeroFlows, again
    <3>3. CASE Cardinality(prev) # 1 /\ Cardinality(prev) # 2
      BY <1>6, <3>3 DEF ZeroFlows
    <3> QED
      BY <3>1, <3>2, <3>3
  <2> QED
    BY <1>3, <1>5, <2>2, <2>3, <2>4
<1>7. CASE Cardinality(us) = 1 /\ o \in OneFlow(e)
  <2>1. PICK u \in UUIDs : us = {u}
    <3>1. IsFiniteSet(us)
      BY <1>1, FS_Subset, ActionAssumption
    <3>2. \E x : us = {x}
      BY <1>7, <3>1, FS_Singleton
    <3> QED
      BY <1>1, <3>2
  <2>2. (CHOOSE w \in UUIDs : us = {w}) = u
    BY <2>1
  <2>3. \/ o \in {RejectOneSide(e, e.flows[u], u), Outcome(e, NoReport),
                  Outcome([e EXCEPT !.time = clock], NoReport), Crash(e)}
        \/ \E vs : o \in CombineFlows(WithPrev(e, vs))
    BY <1>7, <2>2 DEF OneFlow
  <2> QED
    BY <1>2, <1>4, <1>5, <2>1, <2>3
<1>8. CASE o \in CombineFlows(e)
  BY <1>8, CombineTypes
<1>9. CASE o \in ThreeFlows(e)
  BY <1>2, <1>9 DEF ThreeFlows
<1> QED
  BY <1>6, <1>7, <1>8, <1>9 DEF Handle
-----------------------------------------------------------------------------
(* The handlers, with at most one flow on each side.                       *)

\* What an entry has seen is what it knows of this round or of an earlier one,
\* and was measured.
LEMMA SeenInRounds ==
  ASSUME NEW e, NEW m, NEW a, Accounted(e, m, a)
  PROVE  /\ Seen(e) = Known(e.flows) \cup Known(e.flowsPrev)
         /\ Seen(e) \in SUBSET UUIDs
         /\ Seen(e) \subseteq Known(m)
BY DEF Accounted, Seen, Latest, Known

LEMMA MeasuredParts ==
  ASSUME NEW m, NEW a, Measured(m, a), NEW us, us \subseteq Known(m)
  PROVE  /\ us \in SUBSET UUIDs /\ OnePerSide(us) /\ a \in Int
         /\ \A u \in us : m[u] \in Measures /\ a <= m[u].bytes
BY DEF Measured, OnePerSide, Known, Flows, Measures

\* A handler that reports nothing and only notes the time, or not even that.
LEMMA QuietHandled ==
  ASSUME clock \in Nat, NEW m, NEW a, Measured(m, a), NEW e, Settled(e, m, a),
         NEW o \in {Outcome(e, NoReport), Outcome([e EXCEPT !.time = clock], NoReport)}
  PROVE  Handled(e, o, m, a)
<1>1. e \in Entries
  BY DEF Settled, Accounted
<1>2. /\ o.entry \in Entries
      /\ o.entry.flows = e.flows
      /\ o.entry.flowsPrev = e.flowsPrev
      /\ o.entry.reported = e.reported
      /\ o.entry.metric = e.metric
      /\ o.out = NoReport
      /\ o.crashed = FALSE
  BY <1>1 DEF Entries
<1>3. Seen(o.entry) = Seen(e) /\ \A u \in UUIDs : Latest(o.entry, u) = Latest(e, u)
  BY <1>2 DEF Seen, Latest
<1>4. Settled(o.entry, m, a)
  BY <1>2, <1>3 DEF Settled, Accounted, Seen
<1>5. AcceptedAfter(o, a) = a /\ o.out.action # "R"
  BY <1>2 DEF AcceptedAfter
<1> QED
  BY <1>2, <1>3, <1>4, <1>5 DEF Handled

LEMMA RejectOneSideHandled ==
  ASSUME clock \in Nat, NEW m, NEW a, Measured(m, a), NEW e, Accounted(e, m, a),
         NEW u \in UUIDs, Seen(e) = {u}, NEW flow, flow = Latest(e, u)
  PROVE  Handled(e, RejectOneSide(e, flow, u), m, a)
<1> DEFINE o == RejectOneSide(e, flow, u)
<1>1. e \in Entries
  BY DEF Accounted
<1>2. flow = m[u] /\ flow \in Measures /\ a \in Int /\ a <= flow.bytes
  BY SeenInRounds, MeasuredParts DEF Accounted
<1>3. /\ o.out = [action |-> "R", bytes |-> flow.delta,
                  wasTerminated |-> flow.wasTerminated]
      /\ o.crashed = FALSE
  BY DEF RejectOneSide, Report
<1>4. o \in Outcomes
  BY <1>1, <1>2, RejectTypes
<1>5. MetricOf(flow, u) # NoMetric /\ MetricOf(flow, u).bytes = flow.bytes
  BY <1>2 DEF MetricOf, Measures
<1>6. /\ o.entry \in Entries
      /\ o.entry.flows = e.flows
      /\ o.entry.flowsPrev = e.flowsPrev
      /\ o.entry.reported = o.out
      /\ o.entry.metric = MetricOf(flow, u)
  BY <1>1, <1>4 DEF RejectOneSide, Entries, Report, Outcomes
<1>7. Seen(o.entry) = Seen(e) /\ \A v \in UUIDs : Latest(o.entry, v) = Latest(e, v)
  BY <1>6 DEF Seen, Latest
<1>8. o.out # NoReport /\ o.out.action # "A" /\ AcceptedAfter(o, a) = a
  BY <1>3 DEF AcceptedAfter
<1> HIDE DEF o
<1>9. Accounted(o.entry, m, a)
  BY <1>2, <1>5, <1>6, <1>7, <1>8 DEF Accounted, Seen
<1>10. Settled(o.entry, m, a)
  BY <1>5, <1>6, <1>8, <1>9 DEF Settled
<1>11. Silence(Seen(e), m)
  BY DEF Silence
<1>12. Handled(e, o, m, a)
  BY <1>3, <1>7, <1>8, <1>10, <1>11 DEF Handled
<1> QED
  BY <1>12 DEF o

LEMMA TimeoutHandled ==
  ASSUME clock \in Nat, NEW m, NEW a, Measured(m, a), NEW e, Settled(e, m, a),
         NEW u \in Known(e.flows), NEW v \in Known(e.flows), TidOf[u] # TidOf[v],
         ExceedTimeoutThreshold(e, u, v)
  PROVE  Handled(e, TimeoutResponse(e, u), m, a)
<1> DEFINE o == TimeoutResponse(e, u)
<1>1. e \in Entries /\ Accounted(e, m, a)
  BY DEF Settled, Accounted
<1>2. /\ u \in Seen(e) /\ v \in Seen(e)
      /\ e.flows[u] = m[u] /\ e.flows[v] = m[v]
  BY <1>1 DEF Accounted, Seen, Latest, Known
<1>3. e.metric # NoMetric
  BY <1>2 DEF Settled, Paired
<1>4. o \in Outcomes
  BY <1>1, TimeoutTypes
<1>5. /\ o.out = [action |-> "R", bytes |-> 0,
                  wasTerminated |-> e.flows[u].wasTerminated]
      /\ o.crashed = FALSE
      /\ o.entry = [e EXCEPT !.reported = o.out, !.time = clock]
  BY <1>3 DEF TimeoutResponse, Report
<1> HIDE DEF o
<1>6. /\ o.entry \in Entries
      /\ o.entry.flows = e.flows
      /\ o.entry.flowsPrev = e.flowsPrev
      /\ o.entry.reported = o.out
      /\ o.entry.metric = e.metric
  BY <1>1, <1>4, <1>5 DEF Entries, Outcomes
<1>7. Seen(o.entry) = Seen(e) /\ \A w \in UUIDs : Latest(o.entry, w) = Latest(e, w)
  BY <1>6 DEF Seen, Latest
<1>8. o.out # NoReport /\ o.out.action # "A" /\ AcceptedAfter(o, a) = a
  BY <1>5 DEF AcceptedAfter
<1>9. Settled(o.entry, m, a)
  BY <1>1, <1>3, <1>6, <1>7, <1>8 DEF Settled, Accounted, Seen
<1>10. Silence(Seen(e), m)
  BY <1>2 DEF Silence, ExceedTimeoutThreshold
<1>11. Handled(e, o, m, a)
  BY <1>5, <1>7, <1>8, <1>9, <1>10 DEF Handled
<1> QED
  BY <1>11 DEF o

\* Two flows of this round, one of each side, are all that was measured.
Combining(e, u, v, m, a) ==
  /\ Seen(e) = {u, v} /\ Known(m) = {u, v}
  /\ e.flows[u] = m[u] /\ e.flows[v] = m[v]
  /\ m[u] \in Measures /\ m[v] \in Measures
  /\ a \in Int /\ a <= m[u].bytes /\ a <= m[v].bytes
  /\ CombinedMetric(e, u, v) # NoMetric
  /\ CombinedMetric(e, u, v).bytes = Lesser(m[u].bytes, m[v].bytes)
  /\ Least({u, v}, m, CombinedMetric(e, u, v).bytes)

LEMMA CombinedParts ==
  ASSUME NEW m, NEW a, Measured(m, a), NEW e, Accounted(e, m, a),
         NEW u \in Known(e.flows), NEW v \in Known(e.flows), TidOf[u] # TidOf[v]
  PROVE  Combining(e, u, v, m, a)
<1>1. /\ u \in Seen(e) /\ v \in Seen(e)
      /\ e.flows[u] = m[u] /\ e.flows[v] = m[v]
  BY DEF Accounted, Seen, Latest, Known
<1>2. Seen(e) \in SUBSET UUIDs /\ Seen(e) \subseteq Known(m)
  BY SeenInRounds
<1>3. /\ OnePerSide(Seen(e)) /\ OnePerSide(Known(m)) /\ Known(m) \in SUBSET UUIDs
      /\ a \in Int /\ \A w \in Seen(e) : m[w] \in Measures /\ a <= m[w].bytes
  BY <1>2, MeasuredParts
<1>4. Seen(e) = {u, v} /\ Known(m) = {u, v}
  BY <1>1, <1>2, <1>3, PairIsAll
<1>5. CombinedMetric(e, u, v) # NoMetric
      /\ CombinedMetric(e, u, v).bytes = Lesser(m[u].bytes, m[v].bytes)
  <2>1. e \in Entries
    BY DEF Accounted
  <2> QED
    BY <1>1, <2>1, CombinedTypes
<1>6. Lesser(m[u].bytes, m[v].bytes) = Lesser(m[v].bytes, m[u].bytes)
  BY <1>1, <1>3 DEF Lesser, Measures
<1>7. Least({u, v}, m, CombinedMetric(e, u, v).bytes)
  BY <1>5, <1>6 DEF Least
<1> QED
  BY <1>1, <1>3, <1>4, <1>5, <1>7 DEF Combining

\* An accept: what it adds is what both sides have measured, less what the
\* metric reported says, and that is no less than what was accepted.
LEMMA AcceptHandled ==
  ASSUME clock \in Nat, NEW m, NEW a, Measured(m, a), NEW e, Accounted(e, m, a),
         NEW u \in Known(e.flows), NEW v \in Known(e.flows), TidOf[u] # TidOf[v]
  PROVE  Handled(e, Accept(e, u, v), m, a)
<1> DEFINE combined == CombinedMetric(e, u, v)
           o == Accept(e, u, v)
           metric == AcceptMetric(e, u, v)
           b == AcceptedAfter(o, a)
<1>1. /\ Seen(e) = {u, v} /\ Known(m) = {u, v}
      /\ e.flows[u] = m[u] /\ e.flows[v] = m[v]
      /\ m[u] \in Measures /\ m[v] \in Measures
      /\ a \in Int /\ a <= m[u].bytes /\ a <= m[v].bytes
      /\ combined.bytes = Lesser(m[u].bytes, m[v].bytes)
      /\ Least({u, v}, m, combined.bytes)
  <2>1. Combining(e, u, v, m, a)
    BY CombinedParts
  <2> QED
    BY <2>1 DEF Combining
<1>2. e \in Entries /\ ~ (e.reported # NoReport /\ e.metric = NoMetric)
  BY DEF Accounted
<1>3. /\ o = Outcome([e EXCEPT !.reported = o.out, !.metric = metric,
                               !.time = clock], o.out)
      /\ o.out = [action |-> "A", bytes |-> AddedBytes(e, u, v),
                  wasTerminated |-> e.flows[u].wasTerminated]
      /\ o.out \in Reports
      /\ metric # NoMetric
      /\ metric.bytes = combined.bytes
      /\ o \in Outcomes
  BY <1>2, AcceptParts
<1>4. AddedBytes(e, u, v) \in Int /\ a + AddedBytes(e, u, v) <= combined.bytes
  <2>1. CASE e.reported = NoReport
    <3>1. a + m[u].delta <= m[u].bytes /\ a + m[v].delta <= m[v].bytes
      BY <1>1, <2>1 DEF Accounted
    <3>2. AddedBytes(e, u, v) = Lesser(m[u].delta, m[v].delta)
      BY <1>1, <2>1 DEF AddedBytes
    <3> QED
      BY <1>1, <3>1, <3>2 DEF Lesser, Measures
  <2>2. CASE e.reported # NoReport
    <3>1. e.metric # NoMetric /\ a <= e.metric.bytes
      BY <2>2 DEF Accounted
    <3>2. e.metric.bytes \in Nat
      BY <1>2, <3>1, EntryParts DEF Metrics
    <3>3. AddedBytes(e, u, v) = combined.bytes - e.metric.bytes
      BY <2>2 DEF AddedBytes
    <3>4. combined.bytes \in Nat
      BY <1>1 DEF Lesser, Measures
    <3> HIDE DEF combined
    <3> QED
      BY <1>1, <3>1, <3>2, <3>3, <3>4
  <2> QED
    BY <2>1, <2>2
<1> HIDE DEF o, metric, combined
<1>5. /\ o.entry \in Entries
      /\ o.entry.flows = e.flows
      /\ o.entry.flowsPrev = e.flowsPrev
      /\ o.entry.reported = o.out
      /\ o.entry.metric = metric
      /\ o.crashed = FALSE
  <2>1. o.entry = [e EXCEPT !.reported = o.out, !.metric = metric, !.time = clock]
        /\ o.crashed = FALSE
    BY <1>3
  <2>2. o.entry \in Entries
    BY <1>3 DEF Outcomes
  <2> QED
    BY <1>2, <2>1, <2>2 DEF Entries
<1>6. Seen(o.entry) = Seen(e) /\ \A w \in UUIDs : Latest(o.entry, w) = Latest(e, w)
  BY <1>5 DEF Seen, Latest
<1>7. /\ o.out # NoReport /\ o.out.action = "A"
      /\ b = a + AddedBytes(e, u, v) /\ b \in Int /\ b <= combined.bytes
  BY <1>1, <1>3, <1>4 DEF AcceptedAfter
<1>8. \A w \in Known(m) : b <= m[w].bytes
  BY <1>1, <1>7 DEF Lesser, Measures
<1>9. Paired({u, v})
  BY DEF Paired
<1> HIDE DEF b
<1>10. Measured(m, b)
  BY <1>1, <1>7, <1>8, <1>9 DEF Measured
<1>11. Accounted(o.entry, m, b)
  <2>1. Seen(e) # {} /\ \A w \in Seen(e) : w \in UUIDs /\ Latest(e, w) = m[w]
    BY DEF Accounted, Seen
  <2>2. b <= o.entry.metric.bytes
    BY <1>3, <1>5, <1>7
  <2> QED
    BY <1>3, <1>5, <1>6, <1>7, <2>1, <2>2 DEF Accounted
<1>12. Settled(o.entry, m, b)
  BY <1>1, <1>3, <1>5, <1>6, <1>9, <1>11 DEF Settled
<1>13. Handled(e, o, m, a)
  BY <1>5, <1>6, <1>7, <1>10, <1>12 DEF Handled, b
<1> QED
  BY <1>13 DEF o

\* Two flows of this round.
LEMMA CombineHandled ==
  ASSUME clock \in Nat, NEW m, NEW a, Measured(m, a), NEW e, Accounted(e, m, a),
         NEW o \in CombineFlows(e)
  PROVE  Handled(e, o, m, a)
<1>1. PICK u \in Known(e.flows), v \in Known(e.flows) :
        u # v /\ o = CombineInOrder(e, u, v)
  BY DEF CombineFlows, Orders
<1>2. TidOf[u] # TidOf[v]
  <2>1. Seen(e) \subseteq Known(m) /\ u \in Seen(e) /\ v \in Seen(e)
    BY SeenInRounds
  <2> QED
    BY <1>1, <2>1 DEF Measured, OnePerSide
<1>3. CASE CombinedMetric(e, u, v) # e.metric
  BY <1>1, <1>2, <1>3, AcceptHandled DEF CombineInOrder
<1>4. CASE CombinedMetric(e, u, v) = e.metric
  <2>1. e.metric # NoMetric /\ Seen(e) = {u, v} /\ Least({u, v}, m, e.metric.bytes)
    <3>1. Combining(e, u, v, m, a)
      BY <1>2, CombinedParts
    <3> QED
      BY <1>4, <3>1 DEF Combining
  <2>2. Paired({u, v})
    BY <1>2 DEF Paired
  <2>3. Settled(e, m, a)
    BY <2>1, <2>2 DEF Settled
  <2>4. CASE ExceedTimeoutThreshold(e, u, v)
    BY <1>1, <1>2, <1>4, <2>3, <2>4, TimeoutHandled DEF CombineInOrder
  <2>5. CASE ~ ExceedTimeoutThreshold(e, u, v)
    BY <1>1, <1>2, <1>4, <2>3, <2>5, QuietHandled DEF CombineInOrder
  <2> QED
    BY <2>4, <2>5
<1> QED
  BY <1>3, <1>4

\* To take flows of earlier rounds for flows of this one changes nothing of
\* what the entry knows.
LEMMA WithPrevSame ==
  ASSUME NEW m, NEW a, NEW e, Accounted(e, m, a),
         NEW us \in SUBSET UUIDs, us \cap Known(e.flows) = {}
  PROVE  LET again == WithPrev(e, us)
         IN /\ Accounted(again, m, a)
            /\ again.metric = e.metric
            /\ again.reported = e.reported
            /\ Seen(again) = Seen(e)
            /\ Known(again.flows) = Known(e.flows) \cup (us \cap Known(e.flowsPrev))
            /\ again.flowsPrev = e.flowsPrev
<1> DEFINE again == WithPrev(e, us)
<1>1. e \in Entries
  BY DEF Accounted
<1>2. /\ again.flows = [u \in UUIDs |-> IF u \in us THEN e.flowsPrev[u]
                                                   ELSE e.flows[u]]
      /\ again.flowsPrev = e.flowsPrev
      /\ again.reported = e.reported
      /\ again.metric = e.metric
      /\ again \in Entries
  BY <1>1, WithPrevTypes DEF WithPrev, Entries
<1>3. \A u \in UUIDs : Latest(again, u) = Latest(e, u)
  BY <1>2 DEF Latest, Known
<1>4. Seen(again) = Seen(e)
  BY <1>2, <1>3 DEF Seen
<1>5. Accounted(again, m, a)
  BY <1>2, <1>3, <1>4 DEF Accounted, Seen
<1>6. Known(again.flows) = Known(e.flows) \cup (us \cap Known(e.flowsPrev))
  BY <1>2 DEF Known
<1> QED
  BY <1>2, <1>4, <1>5, <1>6

LEMMA HandledAgain ==
  ASSUME NEW e, NEW again, NEW o, NEW m, NEW a, Handled(again, o, m, a),
         Seen(again) = Seen(e)
  PROVE  Handled(e, o, m, a)
BY DEF Handled

LEMMA ZeroFlowsHandled ==
  ASSUME clock \in Nat, NEW m, NEW a, Measured(m, a),
         NEW e, Ready(e, m, a), Known(e.flows) = {}, NEW o \in ZeroFlows(e)
  PROVE  Handled(e, o, m, a)
<1> DEFINE prev == Known(e.flowsPrev)
<1>1. /\ Accounted(e, m, a) /\ Seen(e) = prev /\ prev # {}
      /\ prev \in SUBSET UUIDs /\ OnePerSide(prev)
  <2>1. Accounted(e, m, a) /\ Seen(e) # {}
    BY DEF Ready, Accounted
  <2>2. Seen(e) = prev /\ prev \in SUBSET UUIDs /\ prev \subseteq Known(m)
    BY <2>1, SeenInRounds
  <2>3. OnePerSide(prev)
    BY <2>2, MeasuredParts
  <2> QED
    BY <2>1, <2>2, <2>3
<1>2. Settled(e, m, a)
  BY <1>1 DEF Settled, Ready
<1>3. \/ \E u \in UUIDs : prev = {u} /\ Cardinality(prev) = 1
      \/ \E u, v \in UUIDs :
           prev = {u, v} /\ TidOf[u] # TidOf[v] /\ Cardinality(prev) = 2
  BY <1>1, SetsOfFlows
<1>4. CASE \E u \in UUIDs : prev = {u} /\ Cardinality(prev) = 1
  <2>1. PICK u \in prev :
          o = IF clock > e.time + RejectTimeout
                THEN RejectOneSide(e, e.flowsPrev[u], u)
                ELSE Outcome(e, NoReport)
    BY <1>4 DEF ZeroFlows
  <2>2. u \in UUIDs /\ Seen(e) = {u} /\ e.flowsPrev[u] = Latest(e, u)
    BY <1>1, <1>4 DEF Latest, Known
  <2>3. Handled(e, RejectOneSide(e, e.flowsPrev[u], u), m, a)
    BY <1>1, <2>2, RejectOneSideHandled
  <2> QED
    BY <1>2, <2>1, <2>3, QuietHandled
<1>5. CASE \E u, v \in UUIDs :
             prev = {u, v} /\ TidOf[u] # TidOf[v] /\ Cardinality(prev) = 2
  <2> DEFINE again == WithPrev(e, prev)
  <2>1. /\ Accounted(again, m, a) /\ again.metric = e.metric
        /\ again.reported = e.reported
        /\ Seen(again) = prev /\ Known(again.flows) = prev
    BY <1>1, WithPrevSame
  <2>2. Settled(again, m, a)
    BY <1>1, <1>2, <2>1 DEF Settled
  <2>3. PICK p \in Orders(again.flows) :
          o = IF ExceedTimeoutThreshold(again, p[1], p[2])
                THEN TimeoutResponse(again, p[1])
                ELSE Outcome(again, NoReport)
    <3>1. ZeroFlows(e) =
            {IF ExceedTimeoutThreshold(again, p[1], p[2])
               THEN TimeoutResponse(again, p[1])
               ELSE Outcome(again, NoReport) : p \in Orders(again.flows)}
      BY <1>5 DEF ZeroFlows
    <3> QED
      BY <3>1
  <2> HIDE DEF again
  <2>4. /\ p[1] \in Known(again.flows) /\ p[2] \in Known(again.flows)
        /\ p[1] # p[2]
    BY <2>3 DEF Orders
  <2>5. TidOf[p[1]] # TidOf[p[2]]
    BY <1>1, <2>1, <2>4 DEF OnePerSide
  <2>6. Handled(again, o, m, a)
    <3>1. CASE ExceedTimeoutThreshold(again, p[1], p[2])
      BY <2>2, <2>3, <2>4, <2>5, <3>1, TimeoutHandled
    <3>2. CASE ~ ExceedTimeoutThreshold(again, p[1], p[2])
      BY <2>2, <2>3, <3>2, QuietHandled
    <3> QED
      BY <3>1, <3>2
  <2> QED
    BY <1>1, <2>1, <2>6, HandledAgain
<1> QED
  BY <1>3, <1>4, <1>5

LEMMA OneFlowHandled ==
  ASSUME clock \in Nat, NEW m, NEW a, Measured(m, a),
         NEW e, Ready(e, m, a), NEW u \in UUIDs, Known(e.flows) = {u},
         NEW o \in OneFlow(e)
  PROVE  Handled(e, o, m, a)
<1> DEFINE prev == Known(e.flowsPrev)
<1>1. OneFlow(e) =
        CASE prev = {} -> {Outcome([e EXCEPT !.time = clock], NoReport)}
          [] prev = {u} ->
               IF clock > e.time + RejectTimeout
                 THEN {RejectOneSide(e, e.flows[u], u)}
                 ELSE {Outcome(e, NoReport)}
          [] Cardinality(prev) = 1 /\ prev # {u} -> CombineFlows(WithPrev(e, prev))
          [] Cardinality(prev) = 2 ->
               UNION {CombineFlows(WithPrev(e, {v})) : v \in
                 IF u \in prev THEN prev \ {u} ELSE prev}
          [] OTHER -> {Crash(e)}
  <2>1. (CHOOSE w \in UUIDs : Known(e.flows) = {w}) = u
    OBVIOUS
  <2> QED
    BY <2>1 DEF OneFlow
<1>2. /\ Accounted(e, m, a) /\ Seen(e) = {u} \cup prev
      /\ prev \in SUBSET UUIDs /\ OnePerSide({u} \cup prev) /\ OnePerSide(prev)
  <2>1. Accounted(e, m, a) /\ Seen(e) = {u} \cup prev /\ prev \in SUBSET UUIDs
    BY SeenInRounds DEF Ready, Known
  <2>2. Seen(e) \subseteq Known(m)
    BY <2>1, SeenInRounds
  <2> QED
    BY <2>1, <2>2 DEF Measured, OnePerSide
<1>3. \/ prev = {} /\ Cardinality(prev) = 0
      \/ prev = {u} /\ Cardinality(prev) = 1
      \/ \E v \in UUIDs : prev = {v} /\ v # u /\ Cardinality(prev) = 1
      \/ \E v \in UUIDs : prev = {u, v} /\ v # u /\ Cardinality(prev) = 2
  <2>1. CASE \E x, y \in UUIDs :
               prev = {x, y} /\ TidOf[x] # TidOf[y] /\ Cardinality(prev) = 2
    <3>1. PICK x \in UUIDs, y \in UUIDs :
            prev = {x, y} /\ TidOf[x] # TidOf[y] /\ Cardinality(prev) = 2
      BY <2>1
    <3>2. {u} \cup prev = {x, y}
      <4> DEFINE all == {u} \cup prev
      <4>1. all \in SUBSET UUIDs /\ x \in all /\ y \in all
        BY <3>1
      <4>2. OnePerSide(all)
        BY <1>2
      <4> HIDE DEF all
      <4>3. all = {x, y}
        BY <3>1, <4>1, <4>2, PairIsAll
      <4> QED
        BY <4>3 DEF all
    <3> QED
      BY <3>1, <3>2
  <2>2. \/ prev = {} /\ Cardinality(prev) = 0
        \/ \E x \in UUIDs : prev = {x} /\ Cardinality(prev) = 1
        \/ \E x, y \in UUIDs :
             prev = {x, y} /\ TidOf[x] # TidOf[y] /\ Cardinality(prev) = 2
    BY <1>2, SetsOfFlows
  <2> QED
    BY <2>1, <2>2
<1>4. CASE prev = {} \/ prev = {u}
  <2>1. Seen(e) = {u} /\ e.flows[u] = Latest(e, u)
    BY <1>2, <1>4 DEF Latest, Known
  <2>2. ~ Paired({u}) /\ ~ Paired({})
    BY DEF Paired
  <2>3. Settled(e, m, a)
    BY <1>2, <1>4, <2>1, <2>2 DEF Settled, Ready
  <2>4. Handled(e, RejectOneSide(e, e.flows[u], u), m, a)
    BY <1>2, <2>1, RejectOneSideHandled
  <2>5. o \in {RejectOneSide(e, e.flows[u], u), Outcome(e, NoReport),
              Outcome([e EXCEPT !.time = clock], NoReport)}
    <3>1. CASE prev = {}
      <4>1. prev # {u} /\ Cardinality(prev) = 0
        BY <3>1, FS_EmptySet
      <4>2. OneFlow(e) = {Outcome([e EXCEPT !.time = clock], NoReport)}
        BY <1>1, <3>1, <4>1
      <4> QED
        BY <4>2
    <3>2. CASE prev = {u}
      <4>1. prev # {} /\ Cardinality(prev) = 1
        BY <3>2, FS_Singleton
      <4>2. OneFlow(e) = IF clock > e.time + RejectTimeout
                           THEN {RejectOneSide(e, e.flows[u], u)}
                           ELSE {Outcome(e, NoReport)}
        BY <1>1, <3>2, <4>1
      <4> QED
        BY <4>2
    <3> QED
      BY <1>4, <3>1, <3>2
  <2> QED
    BY <2>3, <2>4, <2>5, QuietHandled
<1>5. ASSUME NEW v \in UUIDs, v # u, v \in prev,
             \/ prev = {v} /\ Cardinality(prev) = 1
             \/ prev = {u, v} /\ Cardinality(prev) = 2
      PROVE  Handled(e, o, m, a)
  <2> DEFINE again == WithPrev(e, {v})
  <2>1. o \in CombineFlows(again)
    <3>1. CASE prev = {v} /\ Cardinality(prev) = 1
      <4>1. prev # {} /\ prev # {u}
        BY <1>5, <3>1
      <4> QED
        BY <1>1, <3>1, <4>1
    <3>2. CASE prev = {u, v} /\ Cardinality(prev) = 2
      <4>1. prev # {} /\ prev # {u} /\ u \in prev /\ prev \ {u} = {v}
        BY <1>5, <3>2
      <4>2. OneFlow(e) = UNION {CombineFlows(WithPrev(e, {w})) : w \in prev \ {u}}
        BY <1>1, <3>2, <4>1
      <4> QED
        BY <4>1, <4>2
    <3> QED
      BY <1>5, <3>1, <3>2
  <2>2. Accounted(again, m, a) /\ Seen(again) = Seen(e)
    <3>1. {v} \in SUBSET UUIDs /\ {v} \cap Known(e.flows) = {}
      BY <1>5
    <3>2. ASSUME NEW us \in SUBSET UUIDs, us \cap Known(e.flows) = {}
          PROVE  /\ Accounted(WithPrev(e, us), m, a)
                 /\ Seen(WithPrev(e, us)) = Seen(e)
      BY <1>2, <3>2, WithPrevSame
    <3> QED
      BY <3>1, <3>2
  <2>3. Handled(again, o, m, a)
    BY <2>1, <2>2, CombineHandled
  <2> QED
    BY <2>2, <2>3, HandledAgain
<1> QED
  BY <1>3, <1>4, <1>5

\* Every round, with whatever the mangler knew before.
LEMMA HandleHandled ==
  ASSUME clock \in Nat, NEW m, NEW a, Measured(m, a),
         NEW e, Ready(e, m, a), NEW o \in Handle(e)
  PROVE  Handled(e, o, m, a)
<1> DEFINE us == Known(e.flows)
<1>1. Accounted(e, m, a)
  BY DEF Ready
<1>2. us \in SUBSET UUIDs /\ OnePerSide(us)
  <2>1. us \subseteq Known(m)
    BY <1>1, SeenInRounds
  <2> QED
    BY <2>1, MeasuredParts
<1>3. CASE us = {} /\ Cardinality(us) = 0
  BY <1>3, ZeroFlowsHandled DEF Handle
<1>4. CASE \E u \in UUIDs : us = {u} /\ Cardinality(us) = 1
  <2>1. o \in OneFlow(e)
    BY <1>4 DEF Handle
  <2> QED
    BY <1>4, <2>1, OneFlowHandled
<1>5. CASE Cardinality(us) = 2
  <2>1. o \in CombineFlows(e)
    BY <1>5 DEF Handle
  <2> QED
    BY <1>1, <2>1, CombineHandled
<1> QED
  BY <1>2, <1>3, <1>4, <1>5, SetsOfFlows
-----------------------------------------------------------------------------
(* The calls of Mangle.                                                    *)

BytesOf(m, u) == IF m[u] = NoFlow THEN 0 ELSE m[u].bytes

LEMMA MeasurementGrows ==
  ASSUME TypeOK, Numbers, NEW u \in UUIDs, NEW up \in Updates
  PROVE  LET f == Measurement(u, up)
         IN /\ f \in Measures
            /\ up.delta <= up.more /\ up.delta \in Nat /\ up.more \in Nat
            /\ f.bytes = BytesOf(measured, u) + up.more
            /\ f.delta = up.delta
<1> DEFINE new == [bytes |-> up.more, delta |-> up.delta, last |-> clock,
                   seen |-> clock, wasTerminated |-> up.ends]
           k == measured[u]
<1>1. /\ up.more \in Nat /\ up.delta \in Nat /\ up.ends \in BOOLEAN
      /\ up.delta <= up.more
  BY ActionAssumption DEF Updates
<1>2. clock \in Nat /\ k \in Flows
  BY DEF Numbers, TypeOK
<1>3. CASE k = NoFlow
  <2>1. Measurement(u, up) = new
    BY <1>3 DEF Measurement
  <2> QED
    BY <1>1, <1>2, <1>3, <2>1 DEF Measures, BytesOf
<1>4. CASE k # NoFlow
  <2>1. k \in Measures
    BY <1>2, <1>4 DEF Flows, Measures
  <2>2. Measurement(u, up) =
          [bytes |-> up.more + k.bytes, delta |-> up.delta,
           last |-> IF up.more = 0 THEN k.last ELSE clock, seen |-> clock,
           wasTerminated |-> up.ends \/ k.wasTerminated]
    BY <1>4 DEF Measurement
  <2>3. BytesOf(measured, u) = k.bytes
    BY <1>4 DEF BytesOf
  <2> QED
    BY <1>1, <1>2, <2>1, <2>2, <2>3 DEF Measures
<1> QED
  BY <1>3, <1>4

\* The measurements after a call, the flows it brings, and the entry with
\* which the handler begins.
MeasuredAfter(ups) ==
  [u \in UUIDs |-> IF u \in DOMAIN ups THEN Measurement(u, ups[u]) ELSE measured[u]]

Brought(ups) ==
  [u \in UUIDs |-> IF u \in DOMAIN ups THEN Measurement(u, ups[u]) ELSE NoFlow]

Begun(ups) ==
  [(IF entry = NoEntry THEN NewEntry ELSE ResetEntry(entry))
     EXCEPT !.flows = Brought(ups)]

SeenBefore == IF entry = NoEntry THEN {} ELSE Seen(entry)

LEMMA CallTypes ==
  ASSUME TypeOK, Numbers, NEW us \in SUBSET UUIDs, NEW ups \in [us -> Updates]
  PROVE  LET m == MeasuredAfter(ups)
             fl == Brought(ups)
         IN /\ m \in [UUIDs -> Flows] /\ fl \in [UUIDs -> Flows]
            /\ Known(m) = Known(measured) \cup us
            /\ Known(fl) = us
            /\ \A u \in us :
                 /\ fl[u] = m[u] /\ m[u] = Measurement(u, ups[u])
                 /\ m[u] \in Measures /\ m[u] # NoFlow
            /\ \A u \in UUIDs \ us : fl[u] = NoFlow /\ m[u] = measured[u]
            /\ Begun(ups) \in Entries
<1> DEFINE m == MeasuredAfter(ups)
           fl == Brought(ups)
<1>1. ASSUME NEW u \in us
      PROVE  /\ fl[u] = m[u] /\ m[u] = Measurement(u, ups[u])
             /\ m[u] \in Measures /\ m[u] \in Flows /\ m[u] # NoFlow
  <2>1. fl[u] = m[u] /\ m[u] = Measurement(u, ups[u])
    BY DEF Brought, MeasuredAfter
  <2>2. m[u] \in Measures
    BY <2>1, MeasurementGrows
  <2> QED
    BY <2>1, <2>2 DEF Measures, Flows
<1>2. \A u \in UUIDs \ us : fl[u] = NoFlow /\ m[u] = measured[u]
  BY DEF Brought, MeasuredAfter
<1>3. measured \in [UUIDs -> Flows] /\ NoFlow \in Flows
  BY DEF TypeOK, Flows
<1>4. (\A u \in UUIDs : fl[u] \in Flows) /\ (\A u \in UUIDs : m[u] \in Flows)
  BY <1>1, <1>2, <1>3
<1>5. m \in [UUIDs -> Flows] /\ fl \in [UUIDs -> Flows]
  BY <1>4 DEF MeasuredAfter, Brought
<1> HIDE DEF m, fl
<1>6. Known(m) = Known(measured) \cup us /\ Known(fl) = us
  BY <1>1, <1>2 DEF Known
<1>7. Begun(ups) \in Entries
  <2>1. Begun(ups) = [(IF entry = NoEntry THEN NewEntry ELSE ResetEntry(entry))
                        EXCEPT !.flows = fl]
    BY DEF Begun, fl
  <2>2. CASE entry = NoEntry
    <3>1. Nothing \in [UUIDs -> Flows]
      BY <1>3 DEF Nothing
    <3> QED
      BY <1>5, <2>1, <2>2, <3>1 DEF NewEntry, Entries, Reports, Metrics
  <2>3. CASE entry # NoEntry
    <3>1. entry \in Entries
      BY <2>3 DEF TypeOK
    <3>2. [u \in UUIDs |-> IF entry.flows[u] # NoFlow THEN entry.flows[u]
                            ELSE entry.flowsPrev[u]] \in [UUIDs -> Flows]
      BY <3>1, EntryParts
    <3> QED
      BY <1>5, <2>1, <2>3, <3>1, <3>2 DEF ResetEntry, Entries
  <2> QED
    BY <2>2, <2>3
<1> QED
  BY <1>1, <1>2, <1>5, <1>6, <1>7 DEF m, fl

\* As long as there is one flow on a side, a call leaves as much to accept as
\* its flows have grown: a new flow is the first of its side, and nothing was
\* accepted before.
LEMMA CallMeasured ==
  ASSUME TypeOK, Numbers, NEW us \in SUBSET UUIDs, NEW ups \in [us -> Updates],
         Measured(measured, accepted), OnePerSide(Known(MeasuredAfter(ups)))
  PROVE  LET m == MeasuredAfter(ups)
         IN /\ Measured(m, accepted)
            /\ \A u \in us : accepted + m[u].delta <= m[u].bytes
<1> DEFINE m == MeasuredAfter(ups)
<1>1. /\ m \in [UUIDs -> Flows] /\ Known(m) = Known(measured) \cup us
      /\ \A u \in us : m[u] = Measurement(u, ups[u]) /\ m[u] \in Measures
      /\ \A u \in UUIDs \ us : m[u] = measured[u]
  BY CallTypes
<1>2. /\ accepted \in Int
      /\ \A u \in Known(measured) : accepted <= measured[u].bytes
      /\ Paired(Known(measured)) \/ accepted <= 0
  BY DEF Measured
<1> HIDE DEF m
<1>3. ASSUME NEW u \in us
      PROVE  accepted + m[u].delta <= m[u].bytes /\ accepted <= m[u].bytes
  <2>1. /\ m[u].delta = ups[u].delta
        /\ ups[u].delta \in Nat /\ ups[u].more \in Nat
        /\ ups[u].delta <= ups[u].more
        /\ m[u].bytes = BytesOf(measured, u) + ups[u].more
    BY <1>1, MeasurementGrows
  <2>2. accepted <= BytesOf(measured, u) /\ BytesOf(measured, u) \in Int
    <3>1. CASE measured[u] # NoFlow
      <4>1. measured[u].bytes \in Int
        BY <3>1 DEF TypeOK, Flows
      <4> QED
        BY <1>2, <3>1, <4>1 DEF BytesOf, Known
    <3>2. CASE measured[u] = NoFlow
      <4>1. ~ Paired(Known(measured))
        <5>1. SUFFICES ASSUME NEW x \in Known(measured), NEW y \in Known(measured),
                              TidOf[x] # TidOf[y]
                       PROVE  FALSE
          BY DEF Paired
        <5>2. Known(m) \in SUBSET UUIDs /\ x \in Known(m) /\ y \in Known(m)
              /\ u \in Known(m) /\ u \notin Known(measured)
          BY <1>1, <3>2 DEF Known
        <5>3. Known(m) = {x, y}
          BY <5>1, <5>2, PairIsAll DEF m
        <5> QED
          BY <5>1, <5>2, <5>3
      <4> QED
        BY <1>2, <3>2, <4>1 DEF BytesOf
    <3> QED
      BY <3>1, <3>2
  <2> QED
    BY <1>2, <2>1, <2>2
<1>4. \A u \in Known(m) : accepted <= m[u].bytes
  BY <1>1, <1>2, <1>3 DEF Known
<1>5. Paired(Known(m)) \/ accepted <= 0
  BY <1>1, <1>2 DEF Paired
<1>6. Measured(m, accepted)
  BY <1>1, <1>2, <1>4, <1>5 DEF Measured, m
<1> QED
  BY <1>3, <1>6 DEF m

LEMMA BegunReady ==
  ASSUME TypeOK, Numbers, Sound,
         NEW us \in SUBSET UUIDs, NEW ups \in [us -> Updates],
         entry # NoEntry \/ us # {}, OnePerSide(Known(MeasuredAfter(ups)))
  PROVE  /\ Ready(Begun(ups), MeasuredAfter(ups), accepted)
         /\ Seen(Begun(ups)) = SeenBefore \cup us
<1> DEFINE e == Begun(ups)
           m == MeasuredAfter(ups)
           fl == Brought(ups)
<1>1. /\ Known(fl) = us
      /\ \A u \in us : fl[u] = m[u] /\ m[u] # NoFlow
      /\ \A u \in UUIDs \ us : fl[u] = NoFlow /\ m[u] = measured[u]
      /\ e \in Entries
  BY CallTypes
<1>2. \A u \in us : accepted + m[u].delta <= m[u].bytes
  BY CallMeasured DEF Sound
<1>3. entry # NoEntry => entry \in Entries /\ Settled(entry, measured, accepted)
  BY DEF Sound, Settled, Accounted
<1> HIDE DEF m, fl
<1>4. CASE entry = NoEntry
  <2>1. /\ e.flows = fl
        /\ e.flowsPrev = Nothing
        /\ e.reported = NoReport
        /\ e.metric = NoMetric
    BY <1>4 DEF Begun, NewEntry, fl
  <2> HIDE DEF e
  <2>2. \A u \in UUIDs : Latest(e, u) = fl[u]
    BY <2>1 DEF Latest, Nothing
  <2>3. Seen(e) = us
    BY <1>1, <2>2 DEF Seen
  <2>4. Accounted(e, m, accepted)
    BY <1>1, <1>2, <1>4, <2>1, <2>2, <2>3 DEF Accounted
  <2>5. ~ Paired(Known(e.flowsPrev))
    BY <2>1 DEF Known, Nothing, Paired
  <2>6. Ready(e, m, accepted)
    BY <2>1, <2>4, <2>5 DEF Ready
  <2> QED
    BY <1>4, <2>3, <2>6 DEF SeenBefore, e, m
<1>5. CASE entry # NoEntry
  <2>1. Settled(entry, measured, accepted) /\ entry \in Entries
    BY <1>3, <1>5
  <2>2. /\ e.flows = fl
        /\ e.flowsPrev = [u \in UUIDs |-> Latest(entry, u)]
        /\ e.reported = entry.reported
        /\ e.metric = entry.metric
    BY <1>5, <2>1 DEF Begun, ResetEntry, Entries, Latest, fl
  <2> HIDE DEF e
  <2>3. \A u \in UUIDs : Latest(e, u) = IF u \in us THEN m[u] ELSE Latest(entry, u)
    BY <1>1, <2>2 DEF Latest
  <2>4. Seen(e) = Seen(entry) \cup us
    BY <1>1, <2>3 DEF Seen
  <2>5. Known(e.flowsPrev) = Seen(entry) /\ Known(e.flows) = us
    BY <1>1, <2>2 DEF Known, Seen
  <2>6. /\ Seen(entry) # {}
        /\ entry.reported # NoReport => entry.metric # NoMetric
        /\ entry.metric # NoMetric => accepted <= entry.metric.bytes
        /\ \A u \in Seen(entry) :
             /\ u \in UUIDs /\ Latest(entry, u) = measured[u]
             /\ entry.reported = NoReport =>
                  accepted + measured[u].delta <= measured[u].bytes
    BY <2>1 DEF Settled, Accounted, Seen
  <2>7. Accounted(e, m, accepted)
    BY <1>1, <1>2, <2>2, <2>3, <2>4, <2>6 DEF Accounted
  <2>8. us = {} => \A u \in UUIDs : m[u] = measured[u]
    BY <1>1
  <2>9. ASSUME us = {}, Least(Seen(entry), measured, entry.metric.bytes)
        PROVE  Least(Seen(entry), m, entry.metric.bytes)
    BY <2>6, <2>8, <2>9 DEF Least
  <2>10. Ready(e, m, accepted)
    BY <2>1, <2>2, <2>5, <2>7, <2>9 DEF Ready, Settled
  <2> QED
    BY <1>5, <2>4, <2>10 DEF SeenBefore, e, m
<1> QED
  BY <1>4, <1>5

LEMMA MangleStep ==
  ASSUME ActionInv, NEW us \in SUBSET UUIDs, NEW ups \in [us -> Updates],
         Mangle(ups)
  PROVE  ActionInv'
<1> DEFINE m == MeasuredAfter(ups)
           e == Begun(ups)
           cleanup == clock > timeOfLastCleanup + CleanupPeriod
<1>1. DOMAIN ups = us
  OBVIOUS
<1>2. /\ measured' = m
      /\ rounds > 0 /\ rounds' = rounds - 1
      /\ ~ crashed
      /\ clock' = clock
      /\ timeOfLastCleanup' = IF cleanup THEN clock ELSE timeOfLastCleanup
      /\ accepted' = IF out'.action = "A" THEN accepted + out'.bytes ELSE accepted
  BY DEF Mangle, MeasuredAfter
<1>3. /\ TypeOK /\ Numbers
      /\ clock \in Nat /\ rounds \in Nat /\ timeOfLastCleanup \in Nat
      /\ CleanupPeriod \in Nat
  BY ActionAssumption DEF ActionInv, Numbers
<1>4. Numbers'
  BY <1>2, <1>3 DEF Numbers
<1>5. /\ m \in [UUIDs -> Flows] /\ Known(m) = Known(measured) \cup us
      /\ e \in Entries
  BY <1>3, CallTypes
<1>6. Known(measured)' = Known(m)
  BY <1>2 DEF Known
<1>7. timeOfLastCleanup' = 0 => ~ cleanup /\ timeOfLastCleanup = 0
  BY <1>2, <1>3
<1>8. ASSUME OnePerSide(Known(m))
      PROVE  /\ Sound
             /\ Measured(m, accepted)
  <2>1. OnePerSide(Known(measured))
    BY <1>5, <1>8 DEF OnePerSide
  <2>2. Sound
    BY <2>1 DEF ActionInv
  <2> QED
    BY <1>3, <1>8, <2>2, CallMeasured DEF Sound
<1> HIDE DEF m, e, cleanup
<1>9. CASE entry = NoEntry /\ us = {}
  <2>1. entry' = NoEntry /\ out' = NoReport /\ crashed' = FALSE
    BY <1>1, <1>9 DEF Mangle
  <2>2. accepted' = accepted
    BY <1>2, <2>1
  <2>3. TypeOK'
    BY <1>2, <1>5, <2>1 DEF TypeOK, Reports
  <2>4. ASSUME OnePerSide(Known(m)) PROVE Sound'
    <3>1. Measured(measured, accepted)'
      BY <1>2, <1>8, <2>2, <2>4 DEF Measured, Known
    <3>2. KnowsAll'
      BY <1>5, <1>6, <1>7, <1>8, <1>9, <2>1, <2>4 DEF Sound, KnowsAll
    <3> QED
      BY <2>1, <3>1, <3>2 DEF Sound
  <2> QED
    BY <1>4, <1>6, <2>3, <2>4 DEF ActionInv, OnePerSide
<1>10. CASE ~ (entry = NoEntry /\ us = {})
  <2>1. PICK o \in Handle(e) :
          /\ entry' = IF cleanup /\ Old(o.entry) THEN NoEntry ELSE o.entry
          /\ out' = o.out
          /\ crashed' = o.crashed
    BY <1>1, <1>10 DEF Mangle, Begun, Brought, e, cleanup
  <2>2. o \in Outcomes
    BY <1>3, <1>5, <2>1, HandleTypes
  <2>3. TypeOK'
    BY <1>2, <1>5, <2>1, <2>2 DEF TypeOK, Outcomes
  <2>4. ASSUME OnePerSide(Known(m)) PROVE Sound'
    <3>1. Ready(e, m, accepted) /\ Seen(e) = SeenBefore \cup us
      <4>1. OnePerSide(Known(MeasuredAfter(ups)))
        BY <2>4 DEF m
      <4>2. entry # NoEntry \/ us # {}
        BY <1>10
      <4> QED
        BY <1>3, <1>8, <2>4, <4>1, <4>2, BegunReady DEF e, m
    <3>2. Handled(e, o, m, accepted)
      BY <1>3, <1>8, <2>1, <2>4, <3>1, HandleHandled
    <3>3. accepted' = AcceptedAfter(o, accepted)
      BY <1>2, <2>1 DEF AcceptedAfter
    <3>4. /\ Settled(o.entry, m, accepted') /\ Measured(m, accepted')
          /\ Seen(o.entry) = Seen(e)
          /\ o.crashed = FALSE
          /\ o.out.action = "R" => Silence(Seen(e), m)
      BY <3>2, <3>3 DEF Handled
    <3>5. Measured(measured, accepted)'
      BY <1>2, <3>4 DEF Measured, Known
    <3>6. (entry # NoEntry => Settled(entry, measured, accepted))'
      <4>1. entry' # NoEntry => entry' = o.entry
        BY <2>1
      <4> QED
        BY <1>2, <3>4, <4>1 DEF Settled, Accounted, Seen, Latest, Least, Paired
    <3>7. timeOfLastCleanup' = 0 => /\ entry' = o.entry
                                   /\ Known(m) = Seen(e)
      <4>1. timeOfLastCleanup' = 0 => Known(measured) = SeenBefore
        BY <1>7, <1>8, <2>4 DEF Sound, KnowsAll, SeenBefore
      <4> QED
        BY <1>5, <1>7, <2>1, <3>1, <4>1
    <3>8. KnowsAll'
      <4>1. o.entry # NoEntry
        BY <2>2 DEF Outcomes, Entries, NoEntry
      <4> QED
        BY <1>6, <3>4, <3>7, <4>1 DEF KnowsAll, Seen, Latest
    <3>9. (out.action = "R" /\ timeOfLastCleanup = 0
             => Silence(Known(measured), measured))'
      BY <1>2, <1>6, <2>1, <3>4, <3>7 DEF Silence
    <3> QED
      BY <2>1, <3>4, <3>5, <3>6, <3>8, <3>9 DEF Sound
  <2> QED
    BY <1>4, <1>6, <2>3, <2>4 DEF ActionInv, OnePerSide
<1> QED
  BY <1>9, <1>10

LEMMA TickStep ==
  ASSUME ActionInv, Tick
  PROVE  ActionInv'
<1>1. /\ clock \in Nat /\ clock' = clock + 1
      /\ UNCHANGED <<entry, timeOfLastCleanup, out, crashed, measured, accepted,
                     rounds>>
  BY DEF ActionInv, Numbers, Tick
<1>2. TypeOK' /\ Numbers'
  BY <1>1 DEF ActionInv, TypeOK, Numbers
<1>3. Sound = Sound' /\ OnePerSide(Known(measured)) = OnePerSide(Known(measured))'
  BY <1>1
  DEF Sound, Measured, KnowsAll, Known, OnePerSide, Settled, Accounted, Seen,
      Latest, Least, Paired, Silence
<1> QED
  BY <1>2, <1>3 DEF ActionInv
-----------------------------------------------------------------------------
LEMMA ActionInitially == Init => ActionInv
<1> SUFFICES ASSUME Init PROVE ActionInv
  OBVIOUS
<1>1. Known(measured) = {}
  BY DEF Init, Nothing, Known
<1>2. TypeOK
  BY DEF Init, Nothing, TypeOK, Flows, Reports
<1>3. Numbers
  BY ActionAssumption DEF Init, Numbers
<1>4. KnowsAll
  BY <1>1 DEF Init, KnowsAll
<1>5. Measured(measured, accepted)
  BY <1>1, <1>2 DEF Init, Measured, OnePerSide, TypeOK
<1> QED
  BY <1>2, <1>3, <1>4, <1>5 DEF Init, Sound, ActionInv

LEMMA ActionStep == ActionInv /\ [Next]_vars => ActionInv'
<1> SUFFICES ASSUME ActionInv, [Next]_vars PROVE ActionInv'
  OBVIOUS
<1>1. CASE \E us \in SUBSET UUIDs : \E ups \in [us -> Updates] : Mangle(ups)
  BY <1>1, MangleStep
<1>2. CASE Tick
  BY <1>2, TickStep
<1>3. CASE UNCHANGED vars
  BY <1>3
  DEF vars, ActionInv, TypeOK, Numbers, Sound, Measured, KnowsAll, Known,
      OnePerSide, Settled, Accounted, Seen, Latest, Least, Paired, Silence
<1> QED
  BY <1>1, <1>2, <1>3 DEF Next

LEMMA ActionAlways == Spec => []ActionInv
BY ActionInitially, ActionStep, PTL DEF Spec

LEMMA UntilSecondUUID == ActionInv => SecondUUID \/ Sound
BY DEF ActionInv, SecondUUID, OnePerSide

\* Every call of Mangle leaves an entry, and a report, of the right form, however
\* many UUIDs there are and whether or not it crashes (action.go:55-70).
THEOREM ActionTypes == Spec => []TypeOK
<1>1. ActionInv => TypeOK
  BY DEF ActionInv
<1> QED
  BY <1>1, ActionAlways, PTL

\* The sums of both sides, one of which may have shown nothing.
LEMMA Sums ==
  ASSUME ActionInv, ~ SecondUUID
  PROVE  /\ BytesAt(1) \in Nat /\ BytesAt(2) \in Nat
         /\ \/ BytesAt(1) = 0 \/ BytesAt(2) = 0
            \/ Paired(Known(measured))
<1>1. TypeOK /\ OnePerSide(Known(measured))
  BY DEF ActionInv, SecondUUID, OnePerSide
<1>2. \A u \in Known(measured) : measured[u].bytes \in Nat
  BY <1>1 DEF TypeOK, Flows, Known
<1>3. ASSUME NEW tid
      PROVE  /\ BytesAt(tid) \in Nat
             /\ BytesAt(tid) = 0 \/ \E u \in Known(measured) : TidOf[u] = tid
  BY <1>1, <1>2, BytesOfSide
<1> QED
  BY <1>3 DEF Paired

\* action.go:33: whatever rounds are missed, timeouts pass and entries are
\* cleaned up, the bytes reported as accepted are no more than both capture
\* points have measured, until one of them shows a second UUID.
THEOREM AcceptedAlwaysConfirmed == Spec => []AcceptedIsConfirmed
<1>1. ActionInv => AcceptedIsConfirmed
  <2> SUFFICES ASSUME ActionInv, ~ SecondUUID
               PROVE  accepted <= Confirmed
    BY DEF AcceptedIsConfirmed
  <2>1. TypeOK /\ OnePerSide(Known(measured)) /\ Measured(measured, accepted)
    BY UntilSecondUUID DEF ActionInv, SecondUUID, OnePerSide, Sound
  <2>2. CASE Paired(Known(measured))
    <3>1. PICK u \in Known(measured), v \in Known(measured) : TidOf[u] # TidOf[v]
      BY <2>2 DEF Paired
    <3>2. Confirmed = Lesser(measured[u].bytes, measured[v].bytes)
      BY <2>1, <3>1, BytesOfPair
    <3> QED
      BY <2>1, <3>2 DEF Measured, Lesser
  <2>3. CASE ~ Paired(Known(measured))
    BY <2>1, <2>3, Sums DEF Measured, Confirmed, Lesser
  <2> QED
    BY <2>2, <2>3
<1> QED
  BY <1>1, ActionAlways, PTL

\* action.go:34: what an entry was last accepted with is all that both sides have
\* confirmed, from whatever rounds it is known, until a second UUID.
THEOREM AllConfirmedReported == Spec => []NothingHeldBack
<1>1. ActionInv => NothingHeldBack
  <2> SUFFICES ASSUME ActionInv, ~ SecondUUID,
                      entry # NoEntry, entry.reported.action = "A"
               PROVE  entry.metric.bytes = Confirmed
    BY DEF NothingHeldBack
  <2>1. TypeOK /\ OnePerSide(Known(measured)) /\ Settled(entry, measured, accepted)
    BY UntilSecondUUID DEF ActionInv, SecondUUID, OnePerSide, Sound
  <2>2. /\ Paired(Seen(entry))
        /\ Least(Seen(entry), measured, entry.metric.bytes)
        /\ Seen(entry) \subseteq Known(measured)
    BY <2>1, SeenInRounds DEF Settled
  <2>3. PICK u \in Seen(entry), v \in Seen(entry) : TidOf[u] # TidOf[v]
    BY <2>2 DEF Paired
  <2>4. entry.metric.bytes = Lesser(measured[u].bytes, measured[v].bytes)
    BY <2>2, <2>3 DEF Least
  <2> QED
    BY <2>1, <2>2, <2>3, <2>4, BytesOfPair
<1> QED
  BY <1>1, ActionAlways, PTL

\* No handler follows a nil pointer (action.go:193, 206, 261) before a capture
\* point has shown a second UUID.
THEOREM CrashesOnlyBySecondUUID == Spec => []CrashesBySecondUUID
<1>1. ActionInv => CrashesBySecondUUID
  BY UntilSecondUUID DEF Sound, CrashesBySecondUUID
<1> QED
  BY <1>1, ActionAlways, PTL

\* action.go:22-24: until the first cleanup and a second UUID, a reject means
\* that one side was not seen at all, or not for longer than the timeout.
THEOREM RejectedOnlyWhenSilent == Spec => []RejectedWhenSilent
<1>1. ActionInv => RejectedWhenSilent
  <2> SUFFICES ASSUME ActionInv, ~ SecondUUID,
                      out.action = "R", timeOfLastCleanup = 0
               PROVE  \/ BytesAt(1) = 0
                      \/ BytesAt(2) = 0
                      \/ \E u, v \in Known(measured) :
                           /\ TidOf[u] # TidOf[v]
                           /\ Abs(measured[u].seen - measured[v].seen) > RejectTimeout
    BY DEF RejectedWhenSilent
  <2>1. Silence(Known(measured), measured)
    BY UntilSecondUUID DEF Sound
  <2>2. ASSUME NEW u \in UUIDs, Known(measured) = {u}
        PROVE  BytesAt(1) = 0 \/ BytesAt(2) = 0
    BY <2>2, Sums DEF Paired
  <2> QED
    BY <2>1, <2>2 DEF Silence
<1> QED
  BY <1>1, ActionAlways, PTL
=============================================================================
