----------------------------- MODULE VpcAction -----------------------------
(***************************************************************************)
(* The accept/reject mangler of the VPC flow logs (vpclogs/pkg/action.go). *)
(* A flow is captured on both sides of a firewall; the mangler pairs the   *)
(* two measurements, reports the lesser of their numbers as accepted, and  *)
(* rejects the flow when one side stays behind.                            *)
(*                                                                         *)
(* The entries of its table are independent of each other but for the time *)
(* of the last cleanup: the model follows the entry of one tracking ID.    *)
(* A message whose flows have several tags calls Mangle once for each of   *)
(* them, and all but one of these calls are rounds without a flow of the   *)
(* entry.  One counter stands for the bytes and packets of both            *)
(* directions.  A nil pointer that is followed stops the exporter.         *)
(***************************************************************************)
EXTENDS Integers, FiniteSets, FiniteSetsExt

CONSTANTS
  UUIDs,            \* the flows with the tracking ID,
  TidOf,            \*   the capture point of each, 1 or 2
  StartOf,          \*   and when it began
  MayEnd,           \*   those of TCP connections that may end,
  Brief,            \*   and those that are reported once only
  RejectTimeout,    \* reject_timeout
  CleanupPeriod,    \* timeoutPeriodCleanup
  MaxDelta,         \* bounds: what one report adds to a counter,
  MaxRounds,        \* calls of Mangle,
  MaxTime           \* the clock

ASSUME ActionAssumption ==
  /\ IsFiniteSet(UUIDs)
  /\ TidOf \in [UUIDs -> {1, 2}]
  /\ StartOf \in [UUIDs -> Nat]
  /\ {RejectTimeout, CleanupPeriod, MaxDelta, MaxRounds, MaxTime} \subseteq Nat

NoFlow == [bytes |-> -1]
NoMetric == [bytes |-> -1]
NoReport == [action |-> "none"]
NoEntry == [time |-> -1]

VARIABLES
  entry,      \* flowInfOState[TrackingID]
  timeOfLastCleanup,
  out,        \* what the last call of Mangle returned for the entry
  crashed,    \* a nil pointer was followed
  measured,   \* the last measurement of each flow that was sent
  accepted,   \* the sum of what was reported as accepted
  clock,
  rounds      \* calls of Mangle left

vars == <<entry, timeOfLastCleanup, out, crashed, measured, accepted, clock,
          rounds>>

Nothing == [u \in UUIDs |-> NoFlow]

NewEntry == [flows |-> Nothing, flowsPrev |-> Nothing, reported |-> NoReport,
             metric |-> NoMetric, time |-> 0]

Init ==
  /\ entry = NoEntry
  /\ timeOfLastCleanup = 0
  /\ out = NoReport
  /\ crashed = FALSE
  /\ measured = Nothing
  /\ accepted = 0
  /\ clock = 0
  /\ rounds = MaxRounds

\* The UUIDs in a map.
Known(fs) == {u \in UUIDs : fs[u] # NoFlow}
-----------------------------------------------------------------------------
(* What a handler makes of an entry: the entry and the report, or a crash. *)

Outcome(e, report) == [entry |-> e, out |-> report, crashed |-> FALSE]
Crash(e) == [entry |-> e, out |-> NoReport, crashed |-> TRUE]

Report(action, bytes, flow) ==
  [action |-> action, bytes |-> bytes, wasTerminated |-> flow.wasTerminated]

MetricOf(flow, u) ==
  [bytes |-> flow.bytes, last |-> flow.last, start |-> StartOf[u]]

\* Faulty variant: the metric reported is left alone.
RejectWithoutMetric(e, flow, u) ==
  LET report == Report("R", flow.delta, flow)
  IN Outcome([e EXCEPT !.reported = report, !.time = clock], report)

\* The flow itself is reported, and taken for the metric reported.
RejectOneSide(e, flow, u) ==
  LET report == Report("R", flow.delta, flow)
  IN Outcome([e EXCEPT !.reported = report, !.metric = MetricOf(flow, u),
                       !.time = clock], report)

Abs(n) == IF n < 0 THEN -n ELSE n
Lesser(a, b) == IF a < b THEN a ELSE b
Greater(a, b) == IF a > b THEN a ELSE b

\* Faulty variant: how long one side was seen after the other.
ElapsedMetric(e, u, v) ==
  LET f == e.flows[u]
      g == e.flows[v]
  IN [bytes |-> Lesser(f.bytes, g.bytes), last |-> f.last - g.last,
      start |-> StartOf[u]]

\* The lesser of the numbers, the start of the first flow.
CombinedMetric(e, u, v) ==
  LET f == e.flows[u]
      g == e.flows[v]
  IN [bytes |-> Lesser(f.bytes, g.bytes), last |-> Lesser(f.last, g.last),
      start |-> StartOf[u]]

\* Faulty variant: the timeout is the time since the last report.
SilentFor(e, u, v) == clock - e.time > RejectTimeout

ExceedTimeoutThreshold(e, u, v) ==
  Abs(e.flows[u].seen - e.flows[v].seen) > RejectTimeout

\* The metric reported last is reported again, with nothing added.
TimeoutResponse(e, u) ==
  LET report == Report("R", 0, e.flows[u]) IN
  IF e.metric = NoMetric
    THEN Crash(e)
    ELSE Outcome([e EXCEPT !.reported = report, !.time = clock], report)

\* Faulty variant: every report adds what the last measurements added.
LastDelta(e, u, v) == Lesser(e.flows[u].delta, e.flows[v].delta)

\* What a combined report adds to the previous one.
AddedBytes(e, u, v) ==
  IF e.reported = NoReport
    THEN Lesser(e.flows[u].delta, e.flows[v].delta)
    ELSE CombinedMetric(e, u, v).bytes - e.metric.bytes

Accept(e, u, v) ==
  LET ended == e.flows[u].wasTerminated /\ e.flows[v].wasTerminated
      combined == CombinedMetric(e, u, v)
      metric == IF ended
                  THEN [combined EXCEPT !.last =
                          Greater(e.flows[u].last, e.flows[v].last)]
                  ELSE combined
      report == Report("A", AddedBytes(e, u, v), e.flows[u])
  IN IF e.reported # NoReport /\ e.metric = NoMetric
       THEN Crash(e)
       ELSE Outcome([e EXCEPT !.reported = report, !.metric = metric,
                              !.time = clock], report)

\* Two flows of the same capture point are rejected and leave no metric.
RejectSameTid(e, u) ==
  LET report == Report("R", e.flows[u].delta, e.flows[u])
  IN Outcome([e EXCEPT !.reported = report], report)

CombineInOrder(e, u, v) ==
  IF TidOf[u] = TidOf[v] THEN RejectSameTid(e, u)
  ELSE IF CombinedMetric(e, u, v) # e.metric THEN Accept(e, u, v)
  ELSE IF ExceedTimeoutThreshold(e, u, v) THEN TimeoutResponse(e, u)
  ELSE Outcome(e, NoReport)

\* A map gives its keys in any order.
Orders(fs) ==
  {p \in UUIDs \X UUIDs : Known(fs) = {p[1], p[2]} /\ p[1] # p[2]}

CombineFlows(e) == {CombineInOrder(e, p[1], p[2]) : p \in Orders(e.flows)}

WithPrev(e, us) ==
  [e EXCEPT !.flows = [u \in UUIDs |->
     IF u \in us THEN e.flowsPrev[u] ELSE e.flows[u]]]
-----------------------------------------------------------------------------
(* The handlers, by the number of flows in this round.                     *)

\* Any of the flows is rejected.
ThreeFlows(e) ==
  {RejectOneSide(e, e.flows[u], u) : u \in Known(e.flows)}

OneFlow(e) ==
  LET u == CHOOSE w \in UUIDs : Known(e.flows) = {w}
      prev == Known(e.flowsPrev)
  IN CASE prev = {} -> {Outcome([e EXCEPT !.time = clock], NoReport)}
       [] prev = {u} ->
            IF clock > e.time + RejectTimeout
              THEN {RejectOneSide(e, e.flows[u], u)}
              ELSE {Outcome(e, NoReport)}
       [] Cardinality(prev) = 1 /\ prev # {u} -> CombineFlows(WithPrev(e, prev))
       [] Cardinality(prev) = 2 ->
            UNION {CombineFlows(WithPrev(e, {v})) : v \in
              IF u \in prev THEN prev \ {u} ELSE prev}
       [] OTHER -> {Crash(e)}

ZeroFlows(e) ==
  LET prev == Known(e.flowsPrev) IN
  CASE Cardinality(prev) = 1 ->
         {IF clock > e.time + RejectTimeout
            THEN RejectOneSide(e, e.flowsPrev[u], u)
            ELSE Outcome(e, NoReport) : u \in prev}
    [] Cardinality(prev) = 2 ->
         LET again == WithPrev(e, prev) IN
         {IF ExceedTimeoutThreshold(again, p[1], p[2])
            THEN TimeoutResponse(again, p[1])
            ELSE Outcome(again, NoReport) : p \in Orders(again.flows)}
    [] OTHER -> {Crash(e)}

Handle(e) ==
  LET n == Cardinality(Known(e.flows)) IN
  CASE n = 0 -> ZeroFlows(e)
    [] n = 1 -> OneFlow(e)
    [] n = 2 -> CombineFlows(e)
    [] OTHER -> ThreeFlows(e)
-----------------------------------------------------------------------------
(* A call of Mangle.                                                       *)

\* What a call says of a flow: by how much it grew, how much of that the
\* latest of its reports in the call adds (the earlier ones are
\* overwritten), and whether the connection has ended, with a last packet.
Updates ==
  {up \in [more : 0..MaxDelta, delta : 0..MaxDelta, ends : BOOLEAN] :
     up.delta <= up.more /\ (up.ends => up.more > 0)}

\* A flow begins with a packet, and what it may send.
MaySend(u, up) ==
  /\ measured[u] = NoFlow => up.more > 0 /\ clock >= StartOf[u]
  /\ up.ends => u \in MayEnd
  /\ u \in Brief => measured[u] = NoFlow /\ up.delta = up.more

\* last is the time of the last packet (Metric.Last), seen that of the report
\* (LastUpdateMetric.Last).
Measurement(u, up) ==
  LET m == measured[u]
      new == [bytes |-> up.more, delta |-> up.delta, last |-> clock,
              seen |-> clock, wasTerminated |-> up.ends]
  IN IF m = NoFlow THEN new
     ELSE [new EXCEPT !.bytes = @ + m.bytes,
                      !.last = IF up.more = 0 THEN m.last ELSE @,
                      !.wasTerminated = @ \/ m.wasTerminated]

\* Faulty variant: the first version of each flow is kept.
ResetKeepingFirst(e) ==
  [e EXCEPT !.flows = Nothing,
            !.flowsPrev = [u \in UUIDs |->
               IF e.flowsPrev[u] # NoFlow THEN e.flowsPrev[u] ELSE e.flows[u]]]

\* resetFlowInfoState: the flows of an entry become those of earlier rounds.
ResetEntry(e) ==
  [e EXCEPT !.flows = Nothing,
            !.flowsPrev = [u \in UUIDs |->
               IF e.flows[u] # NoFlow THEN e.flows[u] ELSE e.flowsPrev[u]]]

\* Entries whose last report is a reject or of an ended connection.
Old(e) ==
  \/ e.reported.action = "R"
  \/ e.reported.action = "A" /\ e.reported.wasTerminated

\* Mangle is called with the flows of one tag.
Mangle(ups) ==
  LET fl == [u \in UUIDs |-> IF u \in DOMAIN ups THEN Measurement(u, ups[u])
                                                 ELSE NoFlow]
      base == IF entry = NoEntry THEN NewEntry ELSE ResetEntry(entry)
      cleanup == clock > timeOfLastCleanup + CleanupPeriod
  IN /\ rounds > 0
     /\ ~ crashed
     /\ \A u \in DOMAIN ups : MaySend(u, ups[u])
     /\ rounds' = rounds - 1
     /\ measured' = [u \in UUIDs |->
          IF u \in DOMAIN ups THEN fl[u] ELSE measured[u]]
     /\ timeOfLastCleanup' = IF cleanup THEN clock ELSE timeOfLastCleanup
     /\ IF entry = NoEntry /\ DOMAIN ups = {}
          THEN entry' = NoEntry /\ out' = NoReport /\ crashed' = FALSE
          ELSE \E o \in Handle([base EXCEPT !.flows = fl]) :
                 /\ entry' = IF cleanup /\ Old(o.entry) THEN NoEntry ELSE o.entry
                 /\ out' = o.out
                 /\ crashed' = o.crashed
     /\ accepted' = IF out'.action = "A" THEN accepted + out'.bytes ELSE accepted
     /\ UNCHANGED clock

\* Time passes; after the last call it tells nothing apart.
Tick ==
  /\ clock < MaxTime
  /\ rounds > 0
  /\ ~ crashed
  /\ clock' = clock + 1
  /\ UNCHANGED <<entry, timeOfLastCleanup, out, crashed, measured, accepted,
                 rounds>>

Next ==
  \/ \E us \in SUBSET UUIDs : \E ups \in [us -> Updates] : Mangle(ups)
  \/ Tick

Spec == Init /\ [][Next]_vars
-----------------------------------------------------------------------------
(* Properties.                                                             *)

Flows ==
  [bytes : Nat, delta : Nat, last : Nat, seen : Nat, wasTerminated : BOOLEAN]
    \cup {NoFlow}
Reports ==
  [action : {"A", "R"}, bytes : Int, wasTerminated : BOOLEAN] \cup {NoReport}
Metrics == [bytes : Nat, last : Nat, start : Nat] \cup {NoMetric}
Entries == [flows : [UUIDs -> Flows], flowsPrev : [UUIDs -> Flows],
            reported : Reports, metric : Metrics, time : Nat]

TypeOK ==
  /\ entry \in Entries \cup {NoEntry}
  /\ out \in Reports
  /\ crashed \in BOOLEAN
  /\ measured \in [UUIDs -> Flows]

\* The bytes that the flows of a capture point were measured with.
BytesAt(tid) ==
  MapThenSumSet(LAMBDA u : measured[u].bytes,
                {u \in Known(measured) : TidOf[u] = tid})

Confirmed == Lesser(BytesAt(1), BytesAt(2))

\* A capture point has shown a second UUID.  The handlers do not expect it, and
\* what is promised below ends there.
SecondUUID == \E u, v \in Known(measured) : u # v /\ TidOf[u] = TidOf[v]

\* action.go:33, "we should be careful to report as Accepted only those bytes
\* and packets that have already been confirmed at both capture points": the
\* sum of all increments reported, cleanups and timeouts included.
AcceptedIsConfirmed == accepted <= Confirmed \/ SecondUUID

\* action.go:34, "we therefore report the lesser of the numbers": as long as an
\* entry counts as accepted, the total it has reported is all of what both sides
\* have confirmed, though the two were seen in different rounds, one of them
\* only in the copies of earlier rounds (action.go:107), and their starts differ.
NothingHeldBack ==
  entry # NoEntry /\ entry.reported.action = "A" =>
    entry.metric.bytes = Confirmed \/ SecondUUID

\* action.go:25, "we need to accurately report the number of bytes and packets
\* that were Accepted": none is taken back.
NothingTakenBack == out.action = "A" => out.bytes >= 0

\* action.go:22-24: a flow is rejected when one side has not been seen, or has
\* not been seen for longer than the timeout.  After a cleanup this does not
\* hold: the entry of a live connection may be gone, and with it what was seen.
RejectedWhenSilent ==
  out.action = "R" /\ timeOfLastCleanup = 0 =>
    \/ BytesAt(1) = 0
    \/ BytesAt(2) = 0
    \/ \E u, v \in Known(measured) :
         /\ TidOf[u] # TidOf[v]
         /\ Abs(measured[u].seen - measured[v].seen) > RejectTimeout
    \/ SecondUUID

\* A handler follows a nil pointer (action.go:193, 206, 261) only if a capture
\* point has shown a second UUID: three UUIDs in the earlier flows, or a reject
\* without a metric.  Both happen.  Until then the metric is there whenever
\* numbers are taken from it, over timeouts, ends and cleanups.
CrashesBySecondUUID == crashed => SecondUUID
=============================================================================
