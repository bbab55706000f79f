------------------------- MODULE FlowStatus_proofs --------------------------
(***************************************************************************)
(* Proofs about FlowStatus, for any flows and any life times.  The cache   *)
(* knows nothing of the reports it counted; the inductive invariant says   *)
(* that it has an item for each flow that goes on and for no other, and    *)
(* what the item's value and the time left to it say of the last report.   *)
(***************************************************************************)
EXTENDS FlowStatus, TLAPS

ItemMatches(f) ==
  f \in DOMAIN flowUpdateCountCache =>
    /\ flowUpdateCountCache[f].value = last[f].count + 1
    /\ flowUpdateCountCache[f].left = Lifetime(last[f].finish) - last[f].age

CacheMatches ==
  \A f \in Flows : /\ f \in DOMAIN flowUpdateCountCache <=> Continues(f)
                   /\ ItemMatches(f)

StatusInv == StatusTypeOK /\ CacheMatches

USE DEF Lifetime, FinishTypes, Statuses, NoReport, Reports

LEMMA StatusInitially == StatusInit => StatusInv
<1> SUFFICES ASSUME StatusInit PROVE StatusInv
  OBVIOUS
<1>1. DOMAIN flowUpdateCountCache = {} /\ flowUpdateCountCache \in [{} -> {}]
  BY DEF StatusInit, EmptyCache
<1>2. StatusTypeOK
  BY <1>1 DEF StatusInit, StatusTypeOK, IsCache
<1>3. CacheMatches
  BY <1>1 DEF StatusInit, CacheMatches, ItemMatches, Continues
<1> QED
  BY <1>2, <1>3 DEF StatusInv

\* What the cache operations leave, item by item.
LEMMA DeleteItems ==
  ASSUME NEW c, NEW k, NEW K, NEW V, NEW longest \in Nat, IsCache(c, K, V, longest)
  PROVE  LET d == Delete(c, k)
         IN /\ IsCache(d, K, V, longest)
            /\ DOMAIN d = DOMAIN c \ {k}
            /\ \A x \in DOMAIN d : d[x] = c[x]
BY DEF Delete, Restrict, IsCache

LEMMA AgedItems ==
  ASSUME NEW c, NEW K, NEW V, NEW longest \in Nat, IsCache(c, K, V, longest)
  PROVE  LET d == Aged(c)
         IN /\ IsCache(d, K, V, longest)
            /\ DOMAIN d = {x \in DOMAIN c : c[x].left > 0}
            /\ \A x \in DOMAIN d : /\ d[x].value = c[x].value
                                   /\ d[x].left = c[x].left - 1
<1> DEFINE d == Aged(c)
<1>1. DOMAIN d = {x \in DOMAIN c : c[x].left > 0}
  BY DEF Aged
<1>2. \A x \in DOMAIN c : c[x] \in [value : V, left : 0..longest]
  BY DEF IsCache
<1>3. ASSUME NEW x \in DOMAIN d
      PROVE  /\ d[x].value = c[x].value
             /\ d[x].left = c[x].left - 1
             /\ d[x] \in [value : V, left : 0..longest]
  <2>1. d[x] = [c[x] EXCEPT !.left = @ - 1]
    BY <1>1 DEF Aged
  <2>2. x \in DOMAIN c /\ c[x].left > 0
    BY <1>1
  <2> QED
    BY <1>2, <2>1, <2>2
<1>4. d = [x \in DOMAIN d |-> d[x]]
  BY DEF Aged
<1>5. IsCache(d, K, V, longest)
  BY <1>1, <1>3, <1>4 DEF IsCache
<1> QED
  BY <1>1, <1>3, <1>5

\* A report: the count in the cache was the number of the last one plus one.
LEMMA CountReportStep ==
  ASSUME StatusInv, NEW f \in Flows, NEW finish \in FinishTypes,
         CountReport(f, finish)
  PROVE  /\ StatusInv'
         /\ last'[f].count = IF Continues(f) THEN last[f].count + 1 ELSE 0
         /\ last'[f].withheld <=> /\ excludeStartedFlows
                                  /\ ~ Continues(f)
                                  /\ finish = "NOT_FINISHED"
         /\ last'[f].finish = finish
<1> USE StatusAssumption
<1>1. IsCache(flowUpdateCountCache, Flows, Nat, UpdateLifetime)
  BY DEF StatusInv, StatusTypeOK
<1>2. f \in DOMAIN flowUpdateCountCache <=> Continues(f)
  BY DEF StatusInv, CacheMatches
<1>3. Continues(f) => last[f] \in Reports
  BY DEF StatusInv, StatusTypeOK, Continues
<1>4. UpdateCount(f) = IF Continues(f) THEN last[f].count + 1 ELSE 0
  BY <1>2 DEF StatusInv, CacheMatches, ItemMatches, UpdateCount
<1>5. UpdateCount(f) \in Nat
  BY <1>3, <1>4
<1>6. UpdateCount(f) = 0 <=> ~ Continues(f)
  BY <1>3, <1>4
<1> DEFINE r == [finish |-> finish, count |-> UpdateCount(f), age |-> 0,
                 status |-> Status(finish, UpdateCount(f)),
                 withheld |-> Withheld(f, finish)]
<1>7. r \in Reports
  BY <1>5 DEF Status, Withheld, StatusInv, StatusTypeOK
<1>8. last' = [last EXCEPT ![f] = r]
  BY DEF CountReport
<1>9. last \in [Flows -> Reports \cup {NoReport}]
  BY DEF StatusInv, StatusTypeOK
<1>10. last' \in [Flows -> Reports \cup {NoReport}] /\ last'[f] = r
  BY <1>7, <1>8, <1>9
<1>11. \A g \in Flows : g # f => last'[g] = last[g]
  BY <1>8, <1>9
<1>12. excludeStartedFlows' = excludeStartedFlows
  BY DEF CountReport
<1>13. /\ IsCache(flowUpdateCountCache', Flows, Nat, UpdateLifetime)
       /\ finish = "TIMEOUT" =>
            DOMAIN flowUpdateCountCache' = DOMAIN flowUpdateCountCache \ {f}
       /\ finish # "TIMEOUT" =>
            /\ DOMAIN flowUpdateCountCache' = DOMAIN flowUpdateCountCache \cup {f}
            /\ flowUpdateCountCache'[f] =
                 [value |-> UpdateCount(f) + 1, left |-> Lifetime(finish)]
       /\ \A g \in DOMAIN flowUpdateCountCache :
            g # f => flowUpdateCountCache'[g] = flowUpdateCountCache[g]
  <2>1. CASE finish = "TIMEOUT"
    <3>1. flowUpdateCountCache' = Delete(flowUpdateCountCache, f)
      BY <2>1 DEF CountReport, Counted
    <3> QED
      BY <1>1, <2>1, <3>1, DeleteItems
  <2>2. CASE finish # "TIMEOUT"
    <3> DEFINE lifetime == Lifetime(finish)
               next == UpdateCount(f) + 1
               d == Set(flowUpdateCountCache, f, next, lifetime)
    <3>1. flowUpdateCountCache' = d
      BY <2>2 DEF CountReport, Counted
    <3>2. next \in Nat /\ lifetime \in 0..UpdateLifetime
      BY <1>5
    <3>3. UpdateLifetime \in Nat
      OBVIOUS
    <3> HIDE DEF lifetime, next
    <3>4. /\ DOMAIN d = DOMAIN flowUpdateCountCache \cup {f}
          /\ d = [x \in DOMAIN d |-> d[x]]
          /\ d[f] = [value |-> next, left |-> lifetime]
          /\ \A g \in DOMAIN flowUpdateCountCache :
               g # f => d[g] = flowUpdateCountCache[g]
      BY DEF Set
    <3> HIDE DEF d
    <3>5. \A g \in DOMAIN d : d[g] \in [value : Nat, left : 0..UpdateLifetime]
      BY <1>1, <3>2, <3>4 DEF IsCache
    <3>6. IsCache(d, Flows, Nat, UpdateLifetime)
      BY <1>1, <3>4, <3>5 DEF IsCache
    <3>7. next = UpdateCount(f) + 1 /\ lifetime = Lifetime(finish)
      BY DEF lifetime, next
    <3>8. IsCache(flowUpdateCountCache', Flows, Nat, UpdateLifetime)
      BY <3>1, <3>6
    <3>9. DOMAIN flowUpdateCountCache' = DOMAIN flowUpdateCountCache \cup {f}
      BY <3>1, <3>4
    <3>10. flowUpdateCountCache'[f] =
            [value |-> UpdateCount(f) + 1, left |-> Lifetime(finish)]
      BY <3>1, <3>4, <3>7
    <3>11. \A g \in DOMAIN flowUpdateCountCache :
            g # f => flowUpdateCountCache'[g] = flowUpdateCountCache[g]
      BY <3>1, <3>4
    <3> QED
      BY <2>2, <3>8, <3>9, <3>10, <3>11
  <2> QED
    BY <2>1, <2>2
<1>14. StatusTypeOK'
  BY <1>10, <1>12, <1>13 DEF StatusTypeOK, StatusInv
<1>15. ASSUME NEW g \in Flows
       PROVE  /\ g \in DOMAIN flowUpdateCountCache' <=> Continues(g)'
              /\ ItemMatches(g)'
  <2>1. CASE g # f
    BY <1>11, <1>13, <2>1
       DEF StatusInv, CacheMatches, ItemMatches, Continues
  <2>2. CASE g = f
    <3>1. Continues(f)' <=> finish # "TIMEOUT"
      BY <1>10 DEF Continues
    <3> QED
      BY <1>5, <1>10, <1>13, <2>2, <3>1 DEF ItemMatches
  <2> QED
    BY <2>1, <2>2
<1>16. CacheMatches'
  BY <1>15 DEF CacheMatches
<1>17. last'[f].withheld <=> /\ excludeStartedFlows
                             /\ ~ Continues(f)
                             /\ finish = "NOT_FINISHED"
  BY <1>6, <1>10 DEF Withheld, Status
<1> QED
  BY <1>4, <1>10, <1>14, <1>16, <1>17 DEF StatusInv

\* Time passes: an item expires when its flow has been silent for too long.
LEMMA StatusTickStep ==
  ASSUME StatusInv, StatusTick
  PROVE  /\ StatusInv'
         /\ \A f \in Flows : last'[f] = last[f] \/ last'[f].age > 0
<1> USE StatusAssumption
<1>1. IsCache(flowUpdateCountCache, Flows, Nat, UpdateLifetime)
  BY DEF StatusInv, StatusTypeOK
<1>2. /\ IsCache(flowUpdateCountCache', Flows, Nat, UpdateLifetime)
      /\ DOMAIN flowUpdateCountCache' =
           {x \in DOMAIN flowUpdateCountCache : flowUpdateCountCache[x].left > 0}
      /\ \A x \in DOMAIN flowUpdateCountCache' :
           /\ flowUpdateCountCache'[x].value = flowUpdateCountCache[x].value
           /\ flowUpdateCountCache'[x].left = flowUpdateCountCache[x].left - 1
  BY <1>1, AgedItems DEF StatusTick
<1>3. last \in [Flows -> Reports \cup {NoReport}]
  BY DEF StatusInv, StatusTypeOK
<1>4. ASSUME NEW f \in Flows
      PROVE  /\ last'[f] = Older(last[f])
             /\ last'[f] \in Reports \cup {NoReport}
             /\ last'[f] = last[f] \/ last'[f].age > 0
             /\ last'[f].finish = last[f].finish
             /\ last[f] \in Reports =>
                  /\ last'[f].count = last[f].count
                  /\ last'[f].age = IF last[f].age > UpdateLifetime
                                      THEN last[f].age ELSE last[f].age + 1
  <2>1. last'[f] = Older(last[f])
    BY DEF StatusTick
  <2>2. CASE last[f] = NoReport
    BY <2>1, <2>2 DEF Older
  <2>3. CASE last[f] \in Reports
    BY <2>1, <2>3 DEF Older
  <2> QED
    BY <1>3, <2>1, <2>2, <2>3
<1>5. StatusTypeOK'
  BY <1>2, <1>4 DEF StatusTick, StatusTypeOK, StatusInv
<1>6. ASSUME NEW f \in Flows
      PROVE  /\ f \in DOMAIN flowUpdateCountCache' <=> Continues(f)'
             /\ ItemMatches(f)'
  <2>1. f \in DOMAIN flowUpdateCountCache <=> Continues(f)
    BY DEF StatusInv, CacheMatches
  <2>2. CASE last[f] = NoReport
    BY <1>2, <1>4, <2>1, <2>2 DEF Continues, ItemMatches, Older
  <2>3. CASE last[f] \in Reports /\ ~ Continues(f)
    BY <1>2, <1>4, <2>1, <2>3 DEF Continues, ItemMatches
  <2>4. CASE last[f] \in Reports /\ Continues(f)
    <3>1. /\ flowUpdateCountCache[f].value = last[f].count + 1
          /\ flowUpdateCountCache[f].left = Lifetime(last[f].finish) - last[f].age
      BY <2>1, <2>4 DEF StatusInv, CacheMatches, ItemMatches
    <3>2. f \in DOMAIN flowUpdateCountCache' <=>
            last[f].age < Lifetime(last[f].finish)
      BY <1>2, <2>1, <2>4, <3>1
    <3>3. Continues(f)' <=> last[f].age < Lifetime(last[f].finish)
      BY <1>4, <2>4 DEF Continues
    <3>4. ItemMatches(f)'
      BY <1>2, <1>4, <2>4, <3>1, <3>2 DEF ItemMatches
    <3> QED
      BY <3>2, <3>3, <3>4
  <2> QED
    BY <1>3, <2>2, <2>3, <2>4
<1>7. CacheMatches'
  BY <1>6 DEF CacheMatches
<1> QED
  BY <1>4, <1>5, <1>7 DEF StatusInv

LEMMA StatusRestartStep ==
  ASSUME StatusInv, StatusRestart
  PROVE  /\ StatusInv'
         /\ \A f \in Flows : last'[f] = NoReport
<1>1. DOMAIN flowUpdateCountCache' = {} /\ flowUpdateCountCache' \in [{} -> {}]
  BY DEF StatusRestart, EmptyCache
<1>2. StatusTypeOK'
  BY <1>1 DEF StatusRestart, StatusTypeOK, StatusInv, IsCache
<1>3. CacheMatches'
  BY <1>1 DEF StatusRestart, CacheMatches, ItemMatches, Continues
<1>4. \A f \in Flows : last'[f] = NoReport
  BY DEF StatusRestart
<1> QED
  BY <1>2, <1>3, <1>4 DEF StatusInv

LEMMA StatusInvariant == StatusSpec => []StatusInv
<1>1. ASSUME StatusInv, [StatusNext]_statusVars PROVE StatusInv'
  <2>1. CASE \E f \in Flows, finish \in FinishTypes : CountReport(f, finish)
    BY <1>1, <2>1, CountReportStep
  <2>2. CASE StatusTick
    BY <1>1, <2>2, StatusTickStep
  <2>3. CASE StatusRestart
    BY <1>1, <2>3, StatusRestartStep
  <2>4. CASE UNCHANGED statusVars
    BY <1>1, <2>4 DEF statusVars, StatusInv, StatusTypeOK, CacheMatches,
                      ItemMatches, Continues
  <2> QED
    BY <1>1, <2>1, <2>2, <2>3, <2>4 DEF StatusNext
<1> QED
  BY StatusInitially, <1>1, PTL DEF StatusSpec
-----------------------------------------------------------------------------

\* The types of the update counts and of the history of reports.
THEOREM StatusTypeCorrect == StatusSpec => []StatusTypeOK
<1>1. StatusInv => StatusTypeOK
  BY DEF StatusInv
<1> QED
  BY StatusInvariant, <1>1, PTL

\* The cache of update counts (transform.go:133) has an item for each flow that
\* goes on and for no other.
THEOREM CountsAreOfLiveFlows == StatusSpec => []CountsOfLiveFlows
<1>1. StatusInv => CountsOfLiveFlows
  BY DEF StatusInv, StatusTypeOK, CacheMatches, CountsOfLiveFlows, IsCache
<1> QED
  BY StatusInvariant, <1>1, PTL

\* The update counts of a flow (transform.go:138) have no gap and no repetition.
THEOREM CountsAlwaysFollow == StatusSpec => CountsFollow
<1>1. ASSUME StatusInv, [StatusNext]_statusVars, NEW f \in Flows, ReportOf(f)
      PROVE  last'[f].count = IF Continues(f) THEN last[f].count + 1 ELSE 0
  <2>1. CASE \E g \in Flows, finish \in FinishTypes : CountReport(g, finish)
    <3>1. PICK g \in Flows, finish \in FinishTypes : CountReport(g, finish)
      BY <2>1
    <3>2. g = f
      BY <1>1, <3>1 DEF CountReport, ReportOf, StatusInv, StatusTypeOK
    <3> QED
      BY <1>1, <3>1, <3>2, CountReportStep
  <2>2. CASE StatusTick
    BY <1>1, <2>2, StatusTickStep DEF ReportOf
  <2>3. CASE StatusRestart
    BY <1>1, <2>3, StatusRestartStep DEF ReportOf
  <2>4. CASE UNCHANGED statusVars
    BY <1>1, <2>4 DEF statusVars, ReportOf
  <2> QED
    BY <1>1, <2>1, <2>2, <2>3, <2>4 DEF StatusNext
<1>2. StatusInv /\ [StatusNext]_statusVars =>
        [\A f \in Flows : ReportOf(f) =>
           last'[f].count = IF Continues(f) THEN last[f].count + 1 ELSE 0]_statusVars
  BY <1>1
<1> QED
  BY StatusInvariant, <1>2, PTL DEF StatusSpec, CountsFollow

\* With exclude_started_flows (transform.go:263) exactly the reports that begin a
\* flow, or begin it anew, are withheld.
THEOREM WithheldOnlyWhenNew == StatusSpec => WithheldWhenNew
<1>1. ASSUME StatusInv, [StatusNext]_statusVars, NEW f \in Flows, ReportOf(f)
      PROVE  last'[f].withheld <=> /\ excludeStartedFlows
                                   /\ ~ Continues(f)
                                   /\ last'[f].finish = "NOT_FINISHED"
  <2>1. CASE \E g \in Flows, finish \in FinishTypes : CountReport(g, finish)
    <3>1. PICK g \in Flows, finish \in FinishTypes : CountReport(g, finish)
      BY <2>1
    <3>2. g = f
      BY <1>1, <3>1 DEF CountReport, ReportOf, StatusInv, StatusTypeOK
    <3> QED
      BY <1>1, <3>1, <3>2, CountReportStep
  <2>2. CASE StatusTick
    BY <1>1, <2>2, StatusTickStep DEF ReportOf
  <2>3. CASE StatusRestart
    BY <1>1, <2>3, StatusRestartStep DEF ReportOf
  <2>4. CASE UNCHANGED statusVars
    BY <1>1, <2>4 DEF statusVars, ReportOf
  <2> QED
    BY <1>1, <2>1, <2>2, <2>3, <2>4 DEF StatusNext
<1>2. StatusInv /\ [StatusNext]_statusVars =>
        [\A f \in Flows : ReportOf(f) =>
           (last'[f].withheld <=>
                   /\ excludeStartedFlows
                   /\ ~ Continues(f)
                   /\ last'[f].finish = "NOT_FINISHED")]_statusVars
  BY <1>1
<1> QED
  BY StatusInvariant, <1>2, PTL DEF StatusSpec, WithheldWhenNew
=============================================================================
