------------------------ MODULE StoreBufferedTimed -------------------------
(***************************************************************************)
(* The buffered storer on a machine that is not late: time passes only     *)
(* when no call is running, no callback waits and no armed timer is due.   *)
(* It answers how long a flow can wait when nothing slows the exporter.    *)
(***************************************************************************)
EXTENDS StoreBuffered

Prompt ==
  /\ endTime = Never
  /\ waiting = 0
  /\ \A t \in Tags : flushTimers[t] = Never \/ flushTimers[t] > clock

TimedTick == Prompt /\ Tick

TimedNext ==
  \/ \E batch \in Messages : StoreMessage(batch)
  \/ StoreNothing
  \/ Call
  \/ \E t \in Tags : FireTimer(t)
  \/ TimedTick

TimedSpec == Init /\ [][TimedNext]_vars

\* A call that has begun goes on and a due timer fires.  Nothing makes a
\* message arrive; but messages without flows can follow each other for ever,
\* so the callback and the clock need strong fairness: sync.Mutex starves
\* nobody, and the clock waits only while the storer has something to do.
TimedFairness ==
  /\ WF_vars(Call)
  /\ SF_vars(StoreNothing)
  /\ \A t \in Tags : WF_vars(FireTimer(t))
  /\ SF_vars(TimedTick)

FairTimedSpec == TimedSpec /\ TimedFairness
-----------------------------------------------------------------------------
(* Properties.                                                             *)

\* No tag's flows wait for twice the time of an object.  They may wait longer
\* than once that time, although "a single timer will cover all of the flushed
\* tags" (store_buffered.go:132): when the tag that owns the shared timer fills
\* an object, the timer is stopped and set again, a whole duration later.
FlushedWithinTwoDurations ==
  Prompt => \A t \in Tags :
    flows[t] # <<>> => clock < lastFlushTime[t] + 2 * MaxObjectDuration

\* Every flow taken into memory while there is time left for two flushes leaves
\* it again although no message ever has to arrive: the timers alone see to it.
\* It leaves it into an object, or with the rest of a buffer that was flushed.
EventuallyFlushed ==
  \A t \in Tags, n \in 1..MaxFlows :
    n \in FlowsIn(flows[t]) /\ clock + 2 * MaxObjectDuration <= MaxTime
      ~> n \notin FlowsIn(flows[t])
=============================================================================
