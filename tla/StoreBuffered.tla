--------------------------- MODULE StoreBuffered ---------------------------
(***************************************************************************)
(* The buffered storer (core/store_buffered.go): flows are kept in memory  *)
(* per tag and written to the object store in objects of bounded size,     *)
(* when enough of them have gathered or when they have waited long enough. *)
(*                                                                         *)
(* StoreFlows runs under flowsMutex.  It is called by the pipeline with a  *)
(* message's flows, and with nothing by the callback of a flush timer,     *)
(* which runs on a goroutine of its own.  The model splits a call at each  *)
(* write to the object store: time passes and timers fire between two      *)
(* writes, but no other call can interleave.                               *)
(*                                                                         *)
(* A flow is the number of its arrival among the flows of its tag.  Time   *)
(* is counted in ticks; an object's key shows its stream's creation time   *)
(* in whole seconds of TicksPerSecond ticks.                               *)
(***************************************************************************)
EXTENDS Integers, Sequences, FiniteSets

CONSTANTS
  Tags,               \* flow tags the classifier can return
  NoTag,              \* stands for "no tag is being visited"
  MaxFlowsPerObject,  \* store.buffered.max_flows_per_object
  MaxFlowArraySize,   \* store.buffered.max_flow_array_size
  MaxObjectDuration,  \* store.buffered.max_seconds_per_object, in ticks
  MaxStreamDuration,  \* store.buffered.max_seconds_per_stream, in ticks
  TicksPerSecond,
  WriteFaults         \* the ways a write to the object store goes wrong

CONSTANTS             \* bounds of the model
  MaxTime,            \* last instant of the clock
  MaxBatch,           \* flows of one tag in one message
  MaxFlows,           \* flows of one tag in all
  MaxFaults,          \* failed writes
  MaxRestarts         \* restarts of the exporter

\* A write is rejected (nothing is stored) or it is stored although the
\* client got an error back.
Faults == {"rejected", "unacknowledged"}

ASSUME ConfigAssumption ==
  /\ NoTag \notin Tags
  /\ MaxFlowsPerObject \in Nat \ {0}
  /\ MaxFlowArraySize \in Nat
  /\ MaxObjectDuration \in Nat
  /\ MaxStreamDuration \in Nat
  /\ TicksPerSecond \in Nat \ {0}
  /\ WriteFaults \subseteq Faults

ASSUME BoundAssumption ==
  /\ MaxTime \in Nat
  /\ MaxBatch \in Nat
  /\ MaxFlows \in Nat
  /\ MaxFaults \in Nat
  /\ MaxRestarts \in Nat

VARIABLES
  clock,          \* the current instant
  flows,          \* the buffer of each tag, oldest flow first
  lastFlushTime,  \* when a tag was last flushed or first seen; Never if unknown
  currentStream,  \* the stream a tag's objects belong to
  flushTimers,    \* the instant a tag's armed flush timer is due, or Never
  waiting,        \* timer callbacks that wait for flowsMutex
  endTime,        \* start of the call that holds flowsMutex, or Never
  todo,           \* tags that call has yet to visit
  current,        \* the tag it is visiting, or NoTag
  flushed,        \* its flushedTags: tags it wrote an object of
  reset,          \* its tagsToTimerReset
  arrived,        \* number of flows that ever arrived, for each tag
  bucket,         \* the object store: a function from keys to objects
  faults,         \* number of failed writes so far
  restarts        \* number of restarts so far

memory == <<flows, lastFlushTime, currentStream>>
callState == <<endTime, todo, current, flushed, reset>>
vars == <<clock, memory, flushTimers, waiting, callState, arrived, bucket,
          faults, restarts>>

Never == -1

NoStream == [ID |-> Never, SeqNumber |-> 0]

Init ==
  /\ clock = 0
  /\ flows = [t \in Tags |-> <<>>]
  /\ lastFlushTime = [t \in Tags |-> Never]
  /\ currentStream = [t \in Tags |-> NoStream]
  /\ flushTimers = [t \in Tags |-> Never]
  /\ waiting = 0
  /\ endTime = Never
  /\ todo = {}
  /\ current = NoTag
  /\ flushed = {}
  /\ reset = {}
  /\ arrived = [t \in Tags |-> 0]
  /\ bucket = <<>>
  /\ faults = 0
  /\ restarts = 0
-----------------------------------------------------------------------------
(* A call of StoreFlows takes the mutex.                                   *)

Known == {t \in Tags : lastFlushTime[t] # Never}

\* The n flows of tag t that arrive next.
NextFlows(t, n) == [i \in 1..n |-> arrived[t] + i]

Enter(tags) ==
  /\ endTime = Never
  /\ endTime' = clock
  /\ todo' = tags
  /\ UNCHANGED <<clock, lastFlushTime, currentStream, flushTimers, current,
                 flushed, reset, bucket, faults, restarts>>

\* The pipeline stores a message: batch says how many flows each of its tags
\* has.  A tag may come with no flows, when the mangler kept none.
StoreMessage(batch) ==
  /\ \A t \in DOMAIN batch : arrived[t] + batch[t] <= MaxFlows
  /\ Enter(Known \cup DOMAIN batch)
  /\ flows' = [t \in Tags |->
                 IF t \in DOMAIN batch
                 THEN flows[t] \o NextFlows(t, batch[t])
                 ELSE flows[t]]
  /\ arrived' = [t \in Tags |->
                   IF t \in DOMAIN batch THEN arrived[t] + batch[t]
                                         ELSE arrived[t]]
  /\ UNCHANGED waiting

\* The filter may leave no flow at all: then the message has no tag.
Messages == UNION {[S -> 0..MaxBatch] : S \in SUBSET Tags}

\* Faulty variant: a call nobody made.
StoreNothingUnasked ==
  /\ waiting' = waiting - 1
  /\ Enter(Known)
  /\ UNCHANGED <<flows, arrived>>

\* The callback of a timer that fired calls StoreFlows(nil).
StoreNothing ==
  /\ waiting > 0
  /\ waiting' = waiting - 1
  /\ Enter(Known)
  /\ UNCHANGED <<flows, arrived>>
-----------------------------------------------------------------------------
(* The call visits the tags in an arbitrary order (range over a map).      *)

VisitTag(t) ==
  /\ current = NoTag
  /\ t \in todo
  /\ current' = t
  /\ todo' = todo \ {t}
  /\ IF lastFlushTime[t] = Never
     THEN /\ lastFlushTime' = [lastFlushTime EXCEPT ![t] = endTime]
          /\ reset' = reset \cup {t}
     ELSE UNCHANGED <<lastFlushTime, reset>>
  /\ UNCHANGED <<clock, flows, currentStream, flushTimers, waiting, endTime,
                 flushed, arrived, bucket, faults, restarts>>

\* Faulty variant: at its exact age a buffer is not yet due.
DueLater(t) ==
  /\ flows[t] # <<>>
  /\ \/ Len(flows[t]) >= MaxFlowsPerObject
     \/ clock - lastFlushTime[t] > MaxObjectDuration

\* The loop goes on: there is enough to fill an object, or the flows have
\* waited long enough.  The age is taken at the time of the test.
Due(t) ==
  /\ flows[t] # <<>>
  /\ \/ Len(flows[t]) >= MaxFlowsPerObject
     \/ clock - lastFlushTime[t] >= MaxObjectDuration

\* Faulty variant: no limit to an object.
WholeBuffer(t) == Len(flows[t])

\* Number of flows in the next object of t.
ObjectSize(t) == IF Len(flows[t]) > MaxFlowsPerObject THEN MaxFlowsPerObject
                                                      ELSE Len(flows[t])

\* Faulty variants: the newest flows go first; a flow falls between two objects.
NewestFlows(t) ==
  SubSeq(flows[t], Len(flows[t]) - ObjectSize(t) + 1, Len(flows[t]))
RestButOne(t) == SubSeq(flows[t], ObjectSize(t) + 2, Len(flows[t]))

\* The flows of the next object of t, and those it leaves in the buffer.
ObjectFlows(t) == SubSeq(flows[t], 1, ObjectSize(t))
Rest(t) == SubSeq(flows[t], ObjectSize(t) + 1, Len(flows[t]))

\* Faulty variants: a new stream goes on with the old number; a new stream
\* keeps the old name.
StreamNotReset(t) ==
  IF \/ currentStream[t].ID = Never
     \/ endTime - currentStream[t].ID >= MaxStreamDuration
  THEN [currentStream[t] EXCEPT !.ID = endTime]
  ELSE currentStream[t]
StreamNotRenamed(t) ==
  IF currentStream[t].ID = Never
  THEN [ID |-> endTime, SeqNumber |-> 0]
  ELSE IF endTime - currentStream[t].ID >= MaxStreamDuration
       THEN [currentStream[t] EXCEPT !.SeqNumber = 0]
       ELSE currentStream[t]

\* The stream the next object of t belongs to.
StreamOf(t) ==
  IF \/ currentStream[t].ID = Never
     \/ endTime - currentStream[t].ID >= MaxStreamDuration
  THEN [ID |-> endTime, SeqNumber |-> 0]
  ELSE currentStream[t]

Second(time) == time \div TicksPerSecond

ObjectKey(t) == <<t, Second(StreamOf(t).ID), StreamOf(t).SeqNumber>>

NewObject(t) ==
  [flows |-> ObjectFlows(t), first |-> lastFlushTime[t], last |-> endTime]

\* The object store keeps the last object written under a key.
Put(key, object) ==
  bucket' = [k \in DOMAIN bucket \cup {key} |->
               IF k = key THEN object ELSE bucket[k]]

\* flushFlowsToObject succeeds, and the loop goes on.
FlushObject(t) ==
  /\ current = t
  /\ Due(t)
  /\ Put(ObjectKey(t), NewObject(t))
  /\ lastFlushTime' = [lastFlushTime EXCEPT ![t] = endTime]
  /\ currentStream' = [currentStream EXCEPT
                         ![t] = [StreamOf(t) EXCEPT !.SeqNumber = @ + 1]]
  /\ flows' = [flows EXCEPT ![t] = Rest(t)]
  /\ flushed' = flushed \cup {t}
  /\ reset' = reset \cup {t}
  /\ UNCHANGED <<clock, flushTimers, waiting, endTime, todo, current, arrived,
                 faults, restarts>>

\* Faulty variants: the newest flows are discarded; one flow too many is kept.
TrimmedAtNewEnd(t) ==
  IF Len(flows[t]) > MaxFlowArraySize
  THEN SubSeq(flows[t], 1, MaxFlowArraySize)
  ELSE flows[t]
TrimmedShort(t) ==
  IF Len(flows[t]) > MaxFlowArraySize
  THEN SubSeq(flows[t], Len(flows[t]) - MaxFlowArraySize, Len(flows[t]))
  ELSE flows[t]

\* What is left of a buffer once its overflow is discarded.
Trimmed(t) ==
  IF Len(flows[t]) > MaxFlowArraySize
  THEN SubSeq(flows[t], Len(flows[t]) - MaxFlowArraySize + 1, Len(flows[t]))
  ELSE flows[t]

\* The visit of a tag ends with the trimming of its buffer.
LeaveTag(t) ==
  /\ current = t
  /\ current' = NoTag
  /\ flows' = [flows EXCEPT ![t] = Trimmed(t)]
  /\ UNCHANGED <<clock, lastFlushTime, currentStream, flushTimers, waiting,
                 endTime, todo, flushed, reset, arrived, restarts>>

\* flushFlowsToObject fails: the loop is left, the state stays as it was.
FailToFlush(t, fault) ==
  /\ faults < MaxFaults
  /\ Due(t)
  /\ LeaveTag(t)
  /\ faults' = faults + 1
  /\ IF fault = "unacknowledged" THEN Put(ObjectKey(t), NewObject(t))
                                 ELSE UNCHANGED bucket

\* Nothing more to flush for this tag.
FinishTag(t) ==
  /\ ~ Due(t)
  /\ LeaveTag(t)
  /\ UNCHANGED <<bucket, faults>>
-----------------------------------------------------------------------------
(* The end of the call: the buffers it flushed are copied, the timers of   *)
(* the tags it flushed or saw first are stopped, and one timer is armed    *)
(* for all of them, due MaxObjectDuration after the start of the call.     *)
(* Stop does nothing to a callback that already runs.                      *)

\* Go's copy fills the destination's length; newArray is made with length 0
\* (and some capacity), so the copy of a flushed buffer is empty.
Copied(t) == IF t \in flushed THEN <<>> ELSE flows[t]

\* Faulty variant: every timer is stopped, flushed or not.
RearmedAlone(owner) ==
  [t \in Tags |-> IF t = owner THEN endTime + MaxObjectDuration ELSE Never]

Rearmed(owner) ==
  [t \in Tags |-> IF t \in reset
                  THEN IF t = owner THEN endTime + MaxObjectDuration ELSE Never
                  ELSE flushTimers[t]]

Return ==
  /\ endTime # Never
  /\ todo = {}
  /\ current = NoTag
  /\ flows' = [t \in Tags |-> Copied(t)]
  /\ IF reset # {} /\ MaxObjectDuration > 0
     THEN \E owner \in reset : flushTimers' = Rearmed(owner)
     ELSE flushTimers' = Rearmed(NoTag)
  /\ endTime' = Never
  /\ flushed' = {}
  /\ reset' = {}
  /\ UNCHANGED <<clock, lastFlushTime, currentStream, waiting, todo, current,
                 arrived, bucket, faults, restarts>>
-----------------------------------------------------------------------------
(* The environment.                                                        *)

FireTimer(t) ==
  /\ flushTimers[t] # Never
  /\ flushTimers[t] <= clock
  /\ flushTimers' = [flushTimers EXCEPT ![t] = Never]
  /\ waiting' = waiting + 1
  /\ UNCHANGED <<clock, memory, callState, arrived, bucket, faults, restarts>>

Tick ==
  /\ clock < MaxTime
  /\ clock' = clock + 1
  /\ UNCHANGED <<memory, flushTimers, waiting, callState, arrived, bucket,
                 faults, restarts>>

\* The exporter dies at any point and comes back at least a second later with
\* an empty store, as NewStoreBuffered makes it.
Restart ==
  /\ restarts < MaxRestarts
  /\ clock + TicksPerSecond <= MaxTime
  /\ clock' = clock + TicksPerSecond
  /\ flows' = [t \in Tags |-> <<>>]
  /\ lastFlushTime' = [t \in Tags |-> Never]
  /\ currentStream' = [t \in Tags |-> NoStream]
  /\ flushTimers' = [t \in Tags |-> Never]
  /\ waiting' = 0
  /\ endTime' = Never
  /\ todo' = {}
  /\ current' = NoTag
  /\ flushed' = {}
  /\ reset' = {}
  /\ restarts' = restarts + 1
  /\ UNCHANGED <<arrived, bucket, faults>>
-----------------------------------------------------------------------------
Call ==
  \/ \E t \in Tags : VisitTag(t) \/ FlushObject(t) \/ FinishTag(t)
  \/ \E t \in Tags, fault \in WriteFaults : FailToFlush(t, fault)
  \/ Return

Next ==
  \/ \E batch \in Messages : StoreMessage(batch)
  \/ StoreNothing
  \/ Call
  \/ \E t \in Tags : FireTimer(t)
  \/ Tick
  \/ Restart

Spec == Init /\ [][Next]_vars
-----------------------------------------------------------------------------
(* Properties.                                                             *)

Streams == [ID : Nat \cup {Never}, SeqNumber : Nat]

Objects == [flows : Seq(Nat), first : Nat, last : Nat]

\* The type of every variable.
TypeOK ==
  /\ clock \in Nat
  /\ flows \in [Tags -> Seq(Nat)]
  /\ lastFlushTime \in [Tags -> Nat \cup {Never}]
  /\ currentStream \in [Tags -> Streams]
  /\ flushTimers \in [Tags -> Nat \cup {Never}]
  /\ waiting \in Nat
  /\ endTime \in Nat \cup {Never}
  /\ todo \in SUBSET Tags
  /\ current \in Tags \cup {NoTag}
  /\ flushed \in SUBSET Tags
  /\ reset \in SUBSET Tags
  /\ arrived \in [Tags -> Nat]
  /\ DOMAIN bucket \subseteq Tags \X Nat \X Nat
  /\ \A k \in DOMAIN bucket : bucket[k] \in Objects
  /\ faults \in Nat
  /\ restarts \in Nat

\* Key k1 was taken before key k2: an older stream, or the same stream and a
\* smaller sequence number.
Precedes(k1, k2) ==
  /\ k1[1] = k2[1]
  /\ \/ k1[2] < k2[2]
     \/ /\ k1[2] = k2[2]
        /\ k1[3] < k2[3]

FlowsIn(s) == {s[i] : i \in DOMAIN s}

\* A buffer holds exactly the flows of its tag that arrived last, in the order
\* in which they arrived: append, flush and trimming never skip, repeat or
\* reorder a flow.
BufferIsLatest ==
  \A t \in Tags :
    /\ Len(flows[t]) <= arrived[t]
    /\ \A i \in 1..Len(flows[t]) :
         flows[t][i] = arrived[t] - Len(flows[t]) + i

\* Flow n of tag t is in an object of t.
Stored(t, n) ==
  \E k \in DOMAIN bucket : k[1] = t /\ n \in FlowsIn(bucket[k].flows)

\* store_buffered.go:109, "copy slice to free up memory of already flushed
\* flows": the copy frees no other.  Without a failed write or a restart each
\* flow that arrived is in the buffer of its tag or in an object of its tag.
NoSilentLoss ==
  faults = 0 /\ restarts = 0 =>
    \A t \in Tags : \A n \in 1..arrived[t] : n \in FlowsIn(flows[t]) \/ Stored(t, n)

\* As long as a call lasts no flow leaves its buffer but into an object, or when
\* a write has failed and the buffer is over its limit.
TakenOnlyToStore ==
  [][ endTime # Never /\ endTime' # Never =>
        \A t \in Tags : \A n \in FlowsIn(flows[t]) \ FlowsIn(flows'[t]) :
          \/ Stored(t, n)'
          \/ faults' > 0 /\ Len(flows[t]) > MaxFlowArraySize ]_vars

\* The keys of a tag tell the order of its flows and of the time windows its
\* objects cover, over rolled streams, failed writes and restarts; so no flow
\* is in two objects, nor in an object and in the buffer.
ObjectsInOrder ==
  /\ \A k1, k2 \in DOMAIN bucket :
       Precedes(k1, k2) =>
         /\ bucket[k1].last <= bucket[k2].first
         /\ \A m \in FlowsIn(bucket[k1].flows), n \in FlowsIn(bucket[k2].flows) :
              m < n
  /\ \A k \in DOMAIN bucket :
       \A m \in FlowsIn(bucket[k].flows), n \in FlowsIn(flows[k[1]]) : m < n

\* A stream is a series of consecutive objects: its sequence numbers have no
\* gap, and each object's time window starts where the previous one ends.
StreamConsecutive ==
  \A k \in DOMAIN bucket :
    k[3] > 0 =>
      LET previous == <<k[1], k[2], k[3] - 1>> IN
      /\ previous \in DOMAIN bucket
      /\ bucket[previous].last = bucket[k].first

\* Nothing is written over an object of the store: the next available sequence
\* number is really available.
NothingOverwritten ==
  [][\A k \in DOMAIN bucket :
       k \in DOMAIN bucket' /\ bucket'[k] = bucket[k]]_vars

\* Whatever fails, between two calls no buffer is longer than the limit and
\* no object is empty or larger than an object may be.
SizesBounded ==
  /\ endTime = Never => \A t \in Tags : Len(flows[t]) <= MaxFlowArraySize
  /\ \A k \in DOMAIN bucket : Len(bucket[k].flows) \in 1..MaxFlowsPerObject

\* Flows left in memory have a flush to wait for: an armed timer, no matter of
\* which tag, that is due when they are, or a callback about to run.
FlushIsPending ==
  endTime = Never =>
    \A t \in Tags : flows[t] # <<>> =>
      \/ \E u \in Tags : flushTimers[u] >= lastFlushTime[t] + MaxObjectDuration
      \/ waiting > 0 /\ clock - lastFlushTime[t] >= MaxObjectDuration

-----------------------------------------------------------------------------
(* What the invariants above rest on: the parts of the inductive invariant *)
(* of module StoreBuffered_proofs.                                         *)

\* The instant the storer's times are not later than.
Now == IF endTime = Never THEN clock ELSE endTime

\* Only the call that holds the mutex has tags to visit, and the tag it visits
\* has a flush time.
CallOK ==
  /\ endTime = Never => todo = {} /\ current = NoTag /\ flushed = {} /\ reset = {}
  /\ current # NoTag => lastFlushTime[current] # Never

\* No time lies in the future.
TimesOK ==
  /\ Now <= clock
  /\ \A t \in Tags : lastFlushTime[t] <= Now /\ currentStream[t].ID <= Now

\* Key k lies before the next key of stream s.
UsedIn(s, k) ==
  \/ k[2] < Second(s.ID)
  \/ /\ k[2] = Second(s.ID)
     /\ k[3] < s.SeqNumber

\* The keys of a tag lie before the next key of its stream; without a stream,
\* before any key that a new stream can take.
KeysTaken ==
  \A k \in DOMAIN bucket :
    LET s == currentStream[k[1]] IN
    IF s.ID = Never
    THEN k[2] < Second(Now)
    ELSE UsedIn(s, k)
-----------------------------------------------------------------------------
(* Refinement: the storer implements FlowLog.                              *)

StoredObjects ==
  [t \in Tags |-> {bucket[k].flows : k \in {key \in DOMAIN bucket : key[1] = t}}]

Log == INSTANCE FlowLog WITH
         MaxObject <- MaxFlowsPerObject,
         accepted <- arrived,
         pending <- flows,
         stored <- StoredObjects

\* Calls, timers, streams and keys are invisible from outside: what the storer
\* does to a tag's flows is what a FlowLog does.
ImplementsFlowLog == Log!Spec
=============================================================================
