----------------------------- MODULE FlowStatus -----------------------------
(***************************************************************************)
(* The status and the update count of a flow in the records of the         *)
(* security advisor (secadvisor/pkg/transform.go).  The analyzer says how  *)
(* a flow stands now, not how often it was reported; the transformer       *)
(* counts the reports of a flow in a cache whose items expire, and leaves  *)
(* out the first report of a flow if it is told to.                        *)
(*                                                                         *)
(* The unit of time is a minute, or a part of one.                         *)
(***************************************************************************)
EXTENDS GoCache

CONSTANTS
  Flows,            \* flows, by UUID
  UpdateLifetime,   \* how long a count is kept: 10 minutes
  EndedLifetime,    \* the same for a flow that has finished: 1 minute
  FinishesOf        \* the finish types that reports of a flow come with

FinishTypes == {"NOT_FINISHED", "TCP_FIN", "TCP_RST", "TIMEOUT"}
Statuses == {"STARTED", "UPDATED", "ENDED"}

ASSUME StatusAssumption ==
  /\ FinishesOf \in [Flows -> SUBSET FinishTypes]
  /\ UpdateLifetime \in Nat
  /\ EndedLifetime \in Nat
  /\ EndedLifetime <= UpdateLifetime

VARIABLES
  flowUpdateCountCache,
  excludeStartedFlows,
  last        \* the last report of each flow that this process transformed:
              \* what the record said, whether it was withheld, and its age

statusVars == <<flowUpdateCountCache, excludeStartedFlows, last>>

NoReport == [finish |-> "none"]

StatusInit ==
  /\ flowUpdateCountCache = EmptyCache
  /\ excludeStartedFlows \in BOOLEAN
  /\ last = [f \in Flows |-> NoReport]
-----------------------------------------------------------------------------
\* Faulty variant: a finished flow is kept as long as any other.
LifetimeAlike(finish) == UpdateLifetime

Lifetime(finish) ==
  IF finish = "NOT_FINISHED" THEN UpdateLifetime ELSE EndedLifetime

UpdateCount(f) ==
  IF f \in DOMAIN flowUpdateCountCache THEN flowUpdateCountCache[f].value ELSE 0

\* Faulty variant: the time of a count runs from the first report.
CountedOnce(f, finish) ==
  IF finish = "TIMEOUT" THEN Delete(flowUpdateCountCache, f)
  ELSE IF f \in DOMAIN flowUpdateCountCache
    THEN [flowUpdateCountCache EXCEPT ![f].value = @ + 1]
    ELSE Set(flowUpdateCountCache, f, 1, Lifetime(finish))

\* setUpdateCount, the cache it leaves.
Counted(f, finish) ==
  IF finish = "TIMEOUT" THEN Delete(flowUpdateCountCache, f)
  ELSE Set(flowUpdateCountCache, f, UpdateCount(f) + 1, Lifetime(finish))

\* Faulty variant: a flow that was not counted is new, finished or not.
StatusByCache(finish, count) ==
  IF count = 0 THEN "STARTED"
  ELSE IF finish # "NOT_FINISHED" THEN "ENDED" ELSE "UPDATED"

\* getStatus.
Status(finish, count) ==
  IF finish # "NOT_FINISHED" THEN "ENDED"
  ELSE IF count = 0 THEN "STARTED" ELSE "UPDATED"

\* do not report new flows (i.e. the first time you see them)
Withheld(f, finish) ==
  excludeStartedFlows /\ Status(finish, UpdateCount(f)) = "STARTED"

\* A connection that has finished does not open again; after a timeout the
\* analyzer forgets the flow, and the report of another one may follow.
CanFollow(finish, before) ==
  before \in {"TCP_FIN", "TCP_RST"} => finish \in {before, "TIMEOUT"}

\* The part of Transform that counts.
CountReport(f, finish) ==
  /\ finish \in FinishesOf[f]
  /\ CanFollow(finish, last[f].finish)
  /\ flowUpdateCountCache' = Counted(f, finish)
  /\ last' = [last EXCEPT ![f] =
       [finish |-> finish, count |-> UpdateCount(f), age |-> 0,
        status |-> Status(finish, UpdateCount(f)),
        withheld |-> Withheld(f, finish)]]
  /\ UNCHANGED excludeStartedFlows

\* An age that is past every lifetime stays as it is.
Older(r) ==
  IF r = NoReport \/ r.age > UpdateLifetime THEN r ELSE [r EXCEPT !.age = @ + 1]

StatusTick ==
  /\ flowUpdateCountCache' = Aged(flowUpdateCountCache)
  /\ last' = [f \in Flows |-> Older(last[f])]
  /\ UNCHANGED excludeStartedFlows

\* The exporter starts again and knows no flow.
StatusRestart ==
  /\ flowUpdateCountCache' = EmptyCache
  /\ last' = [f \in Flows |-> NoReport]
  /\ UNCHANGED excludeStartedFlows

StatusNext ==
  \/ \E f \in Flows, finish \in FinishTypes : CountReport(f, finish)
  \/ StatusTick
  \/ StatusRestart

StatusSpec == StatusInit /\ [][StatusNext]_statusVars
-----------------------------------------------------------------------------
(* Properties.                                                             *)

Reports ==
  [finish : FinishTypes, count : Nat, age : 0..(UpdateLifetime + 1),
   status : Statuses, withheld : BOOLEAN]

StatusTypeOK ==
  /\ IsCache(flowUpdateCountCache, Flows, Nat, UpdateLifetime)
  /\ excludeStartedFlows \in BOOLEAN
  /\ last \in [Flows -> Reports \cup {NoReport}]

\* A flow goes on after its last report: that was neither its end nor too long
\* ago, which is sooner for a flow that has finished.
Continues(f) ==
  /\ last[f].finish \in {"NOT_FINISHED", "TCP_FIN", "TCP_RST"}
  /\ last[f].age <= UpdateLifetime
  /\ last[f].finish # "NOT_FINISHED" => last[f].age <= EndedLifetime

\* The step is a report of the flow.
ReportOf(f) == last'[f] # last[f] /\ last'[f] # NoReport /\ last'[f].age = 0

\* The counts of a flow's reports have no gap and no repetition: they begin at
\* zero, and again after a timeout or a silence that was longer than the time a
\* count is kept, which depends on whether the flow had finished.
CountsFollow ==
  [][\A f \in Flows : ReportOf(f) =>
       last'[f].count = IF Continues(f) THEN last[f].count + 1 ELSE 0]_statusVars

\* transform.go:263, "do not report new flows (i.e. the first time you see
\* them)": the exporter withholds the first report of a flow only.  A flow that
\* goes on is not withheld again, a flow that ends is not withheld, and a flow
\* that was silent for too long is taken for a new one.
WithheldWhenNew ==
  [][\A f \in Flows : ReportOf(f) =>
       (last'[f].withheld <=>
          /\ excludeStartedFlows
          /\ ~ Continues(f)
          /\ last'[f].finish = "NOT_FINISHED")]_statusVars

\* The cache has the flows that go on and no other: it does not grow with the
\* flows that came and went.
CountsOfLiveFlows == DOMAIN flowUpdateCountCache = {f \in Flows : Continues(f)}
=============================================================================
