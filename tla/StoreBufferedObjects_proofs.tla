-------------------- MODULE StoreBufferedObjects_proofs ---------------------
(***************************************************************************)
(* Proofs about the objects of the buffered storer: their sizes, their     *)
(* order and their streams, and that the storer implements FlowLog.        *)
(***************************************************************************)
EXTENDS StoreBuffered_proofs

\* The flows of a new object are those it takes.
LEMMA NewObjectFlows ==
  ASSUME TypeInv, NEW t \in Tags, Due(t)
  PROVE  /\ NewObject(t).flows = ObjectFlows(t)
         /\ Len(ObjectFlows(t)) = ObjectSize(t)
         /\ ObjectSize(t) \in 1..MaxFlowsPerObject
         /\ ObjectSize(t) <= Len(flows[t])
         /\ \A i \in 1..ObjectSize(t) : ObjectFlows(t)[i] = flows[t][i]
<1>1. flows[t] \in Seq(Nat) /\ Len(flows[t]) \in Nat /\ flows[t] # <<>>
  BY DEF TypeInv, TypeOK, Due
<1>2. Len(flows[t]) > 0
  BY <1>1, EmptySeq
<1>3. ObjectSize(t) \in 1..MaxFlowsPerObject /\ ObjectSize(t) <= Len(flows[t])
  BY <1>1, <1>2, ConfigAssumption DEF ObjectSize
<1>4. ObjectSize(t) \in 0..Len(flows[t])
  BY <1>1, <1>3, ConfigAssumption
<1>5. /\ Len(ObjectFlows(t)) = ObjectSize(t)
      /\ \A i \in 1..ObjectSize(t) : ObjectFlows(t)[i] = flows[t][i]
  BY <1>1, <1>4, Prefix DEF ObjectFlows
<1> QED
  BY <1>3, <1>5 DEF NewObject

(***************************************************************************)
(* Sizes.                                                                  *)
(***************************************************************************)

\* Only a buffer that the call has yet to leave can be over the limit.
LimitKept ==
  \A t \in Tags :
    t \in todo \/ t = current \/ Len(flows[t]) <= MaxFlowArraySize

ObjectSizes ==
  \A k \in DOMAIN bucket : Len(bucket[k].flows) \in 1..MaxFlowsPerObject

SizesInv == TypeInv /\ LimitKept /\ ObjectSizes

LEMMA PutSize ==
  ASSUME TypeInv, ObjectSizes, NEW t \in Tags, Due(t),
         Put(ObjectKey(t), NewObject(t))
  PROVE  ObjectSizes'
BY NewObjectFlows DEF Put, ObjectSizes

LEMMA TrimmedSize ==
  ASSUME TypeInv, NEW t \in Tags
  PROVE  Len(Trimmed(t)) <= MaxFlowArraySize
<1>1. flows[t] \in Seq(Nat) /\ Len(flows[t]) \in Nat /\ MaxFlowArraySize \in Nat
  BY ConfigAssumption DEF TypeInv, TypeOK
<1>2. CASE Len(flows[t]) <= MaxFlowArraySize
  BY <1>1, <1>2 DEF Trimmed
<1>3. CASE Len(flows[t]) > MaxFlowArraySize
  <2> DEFINE k == Len(flows[t]) - MaxFlowArraySize
  <2>1. k \in 0..Len(flows[t]) /\ Len(flows[t]) - k = MaxFlowArraySize
    BY <1>1, <1>3
  <2>2. Trimmed(t) = SubSeq(flows[t], k + 1, Len(flows[t]))
    BY <1>3 DEF Trimmed
  <2> HIDE DEF k
  <2>3. Len(Trimmed(t)) = Len(flows[t]) - k
    BY <1>1, <2>1, <2>2, Suffix
  <2> QED
    BY <1>1, <2>1, <2>3
<1> QED
  BY <1>1, <1>2, <1>3

LEMMA SizesStep == SizesInv /\ [Next]_vars => SizesInv'
<1> SUFFICES ASSUME SizesInv, [Next]_vars PROVE LimitKept' /\ ObjectSizes'
  BY TypeStep DEF SizesInv
<1>1. TypeInv /\ TypeOK /\ CallOK /\ LimitKept /\ ObjectSizes
  BY DEF SizesInv, TypeInv
<1>2. ASSUME NEW batch \in Messages, StoreMessage(batch)
      PROVE  LimitKept' /\ ObjectSizes'
  <2>1. todo = {} /\ current = NoTag /\ current' = NoTag
    BY <1>1, <1>2 DEF StoreMessage, Enter, CallOK
  <2>2. \A t \in Tags : t \notin todo' => flows'[t] = flows[t]
    BY <1>2 DEF StoreMessage, Enter
  <2> QED
    BY <1>1, <1>2, <2>1, <2>2, ConfigAssumption
       DEF StoreMessage, Enter, LimitKept, ObjectSizes
<1>3. CASE StoreNothing
  BY <1>1, <1>3, ConfigAssumption
     DEF StoreNothing, Enter, CallOK, LimitKept, ObjectSizes
<1>4. ASSUME NEW t \in Tags, VisitTag(t) PROVE LimitKept' /\ ObjectSizes'
  BY <1>1, <1>4, ConfigAssumption DEF VisitTag, LimitKept, ObjectSizes
<1>5. ASSUME NEW t \in Tags, FlushObject(t) PROVE LimitKept' /\ ObjectSizes'
  <2>1. ObjectSizes'
    BY <1>1, <1>5, PutSize DEF FlushObject
  <2>2. LimitKept'
    BY <1>1, <1>5 DEF FlushObject, LimitKept, TypeOK
  <2> QED
    BY <2>1, <2>2
<1>6. ASSUME NEW t \in Tags, LeaveTag(t) PROVE LimitKept'
  <2>1. /\ current = t
        /\ todo' = todo
        /\ flows' = [flows EXCEPT ![t] = Trimmed(t)]
    BY <1>6 DEF LeaveTag
  <2>2. \A u \in Tags : u # t => flows'[u] = flows[u]
    BY <1>1, <2>1 DEF TypeOK
  <2>3. Len(flows'[t]) <= MaxFlowArraySize
    BY <1>1, <2>1, TrimmedSize DEF TypeOK
  <2> QED
    BY <1>1, <2>1, <2>2, <2>3 DEF LimitKept
<1>7. ASSUME NEW t \in Tags, NEW fault \in WriteFaults, FailToFlush(t, fault)
      PROVE  LimitKept' /\ ObjectSizes'
  <2>1. CASE fault = "unacknowledged"
    BY <1>1, <1>6, <1>7, <2>1, PutSize DEF FailToFlush
  <2>2. CASE fault # "unacknowledged"
    BY <1>1, <1>6, <1>7, <2>2 DEF FailToFlush, ObjectSizes
  <2> QED
    BY <2>1, <2>2
<1>8. ASSUME NEW t \in Tags, FinishTag(t) PROVE LimitKept' /\ ObjectSizes'
  BY <1>1, <1>6, <1>8 DEF FinishTag, ObjectSizes
<1>9. CASE Return
  <2>1. \A t \in Tags : flows'[t] = <<>> \/ flows'[t] = flows[t]
    BY <1>9 DEF Return, Copied
  <2>2. todo = {} /\ current = NoTag /\ UNCHANGED bucket
    BY <1>9 DEF Return
  <2>3. \A t \in Tags : Len(flows[t]) <= MaxFlowArraySize
    BY <1>1, <2>2, ConfigAssumption DEF LimitKept
  <2>4. \A t \in Tags : Len(flows'[t]) <= MaxFlowArraySize
    BY <2>1, <2>3, ConfigAssumption, EmptySeq
  <2> QED
    BY <1>1, <2>2, <2>4 DEF LimitKept, ObjectSizes
<1>10. ASSUME NEW t \in Tags, FireTimer(t) PROVE LimitKept' /\ ObjectSizes'
  BY <1>1, <1>10 DEF FireTimer, memory, callState, LimitKept, ObjectSizes
<1>11. CASE Tick
  BY <1>1, <1>11 DEF Tick, memory, callState, LimitKept, ObjectSizes
<1>12. CASE Restart
  BY <1>1, <1>12, ConfigAssumption, EmptySeq DEF Restart, LimitKept, ObjectSizes
<1>13. CASE UNCHANGED vars
  BY <1>1, <1>13 DEF vars, memory, callState, LimitKept, ObjectSizes
<1> QED
  BY <1>2, <1>3, <1>4, <1>5, <1>7, <1>8, <1>9, <1>10, <1>11, <1>12, <1>13
  DEF Next, Call

\* store_buffered.go:100: whatever fails, the buffers are within
\* max_flow_array_size between two calls, and the objects within
\* max_flows_per_object and never empty.
THEOREM SizesCorrect == Spec => []SizesBounded
<1>1. Init => SizesInv
  BY TypeInit, ConfigAssumption, EmptySeq
     DEF Init, SizesInv, LimitKept, ObjectSizes
<1>2. SizesInv => SizesBounded
  BY ConfigAssumption
     DEF SizesInv, TypeInv, CallOK, LimitKept, ObjectSizes, SizesBounded
<1> QED
  BY <1>1, <1>2, SizesStep, PTL DEF Spec

(***************************************************************************)
(* Order.                                                                  *)
(***************************************************************************)

\* The number of flows of t that are not in its buffer any more: those that
\* arrived before it.
Taken(t) == arrived[t] - Len(flows[t])

\* What objects hold was taken, and their windows have ended.
ObjectsPast ==
  \A k \in DOMAIN bucket :
    /\ \A m \in FlowsIn(bucket[k].flows) : m <= Taken(k[1])
    /\ bucket[k].last <= Now
    /\ lastFlushTime[k[1]] # Never => bucket[k].last <= lastFlushTime[k[1]]

KeysInOrder ==
  \A k1, k2 \in DOMAIN bucket :
    Precedes(k1, k2) =>
      /\ bucket[k1].last <= bucket[k2].first
      /\ \A m \in FlowsIn(bucket[k1].flows), n \in FlowsIn(bucket[k2].flows) :
           m < n

OrderInv == KeysInv /\ BufferIsLatest /\ ObjectsPast /\ KeysInOrder

LEMMA OrderTypes ==
  ASSUME OrderInv
  PROVE  /\ TypeInv /\ TypeOK /\ CallOK /\ TimesOK /\ BufferInv
         /\ \A k \in DOMAIN bucket : /\ k \in Tags \X Nat \X Nat
                                     /\ bucket[k] \in Objects
         /\ \A t \in Tags : Taken(t) \in Nat
         /\ Now \in Nat /\ clock \in Nat /\ Now <= clock
<1>1. TypeInv /\ TypeOK /\ CallOK /\ TimesOK /\ BufferInv
  BY DEF OrderInv, KeysInv, TypeInv, BufferInv
<1>2. ASSUME NEW t \in Tags PROVE Taken(t) \in Nat
  <2>1. arrived[t] \in Nat /\ flows[t] \in Seq(Nat) /\ Len(flows[t]) \in Nat
    BY <1>1 DEF TypeOK
  <2>2. Len(flows[t]) <= arrived[t]
    BY DEF OrderInv, BufferIsLatest
  <2> QED
    BY <2>1, <2>2 DEF Taken
<1> QED
  BY <1>1, <1>2 DEF TypeOK, TimesOK, Now, Never

\* No flow goes back into a buffer.
LEMMA TakenGrows ==
  ASSUME BufferInv, [Next]_vars, NEW u \in Tags
  PROVE  Taken(u) <= Taken(u)'
<1>1. TypeInv /\ TypeOK /\ TypeOK'
  BY TypeStep DEF BufferInv, TypeInv
<1>2. /\ flows[u] \in Seq(Nat) /\ Len(flows[u]) \in Nat /\ arrived[u] \in Nat
      /\ flows'[u] \in Seq(Nat) /\ Len(flows'[u]) \in Nat /\ arrived'[u] \in Nat
  BY <1>1 DEF TypeOK
<1> USE DEF Taken
<1>3. CASE arrived'[u] = arrived[u] /\ Len(flows'[u]) <= Len(flows[u])
  BY <1>2, <1>3
<1>4. ASSUME NEW batch \in Messages, StoreMessage(batch)
      PROVE  Taken(u) <= Taken(u)'
  <2>1. CASE u \in DOMAIN batch
    <3>1. batch[u] \in Nat
      BY <2>1, BoundAssumption DEF Messages
    <3> DEFINE f == flows[u]
               g == NextFlows(u, batch[u])
    <3>2. g \in Seq(Nat) /\ Len(g) = batch[u]
      BY <1>1, <3>1, NextFlowsPieces
    <3>3. flows'[u] = f \o g /\ arrived'[u] = arrived[u] + Len(g)
      BY <1>4, <2>1, <3>2 DEF StoreMessage
    <3>4. f \in Seq(Nat) /\ Len(f) = Len(flows[u])
      BY <1>2
    <3> HIDE DEF f, g
    <3>5. Len(f \o g) = Len(f) + Len(g)
      BY <3>2, <3>4, ConcatProperties
    <3> QED
      BY <1>2, <3>1, <3>2, <3>3, <3>4, <3>5
  <2>2. CASE u \notin DOMAIN batch
    BY <1>2, <1>4, <2>2 DEF StoreMessage
  <2> QED
    BY <2>1, <2>2
<1>5. ASSUME NEW t \in Tags, FlushObject(t) PROVE Taken(u) <= Taken(u)'
  <2>1. arrived' = arrived /\ flows' = [flows EXCEPT ![t] = Rest(t)]
    BY <1>5 DEF FlushObject
  <2>2. Len(Rest(u)) <= Len(flows[u])
    BY <1>1, <1>2, ObjectPieces
  <2> QED
    BY <1>1, <1>2, <2>1, <2>2 DEF TypeOK
<1>6. ASSUME NEW t \in Tags, LeaveTag(t), arrived' = arrived
      PROVE Taken(u) <= Taken(u)'
  <2>1. flows' = [flows EXCEPT ![t] = Trimmed(t)]
    BY <1>6 DEF LeaveTag
  <2>2. Len(Trimmed(u)) <= Len(flows[u])
    BY <1>1, TrimmedPieces
  <2> QED
    BY <1>1, <1>2, <1>6, <2>1, <2>2 DEF TypeOK
<1>7. CASE Return
  BY <1>2, <1>3, <1>7, EmptySeq DEF Return, Copied
<1>8. CASE Restart
  BY <1>2, <1>3, <1>8, EmptySeq DEF Restart
<1>9. CASE UNCHANGED <<flows, arrived>>
  BY <1>2, <1>3, <1>9
<1> QED
  BY <1>4, <1>5, <1>6, <1>7, <1>8, <1>9
  DEF Next, Call, FailToFlush, FinishTag, LeaveTag, StoreNothing, VisitTag,
      FireTimer, Tick, vars, memory

\* A step that stores nothing keeps the order: flows leave the buffers only in
\* one direction and times do not run backwards.
LEMMA OrderKept ==
  ASSUME OrderInv, [Next]_vars, UNCHANGED bucket, Now <= Now', Now' \in Nat,
         \A t \in Tags : lastFlushTime'[t] \in {lastFlushTime[t], Never, Now'}
  PROVE  ObjectsPast' /\ KeysInOrder'
<1>1. BufferInv /\ TypeOK /\ TypeOK' /\ Now \in Nat
  BY OrderTypes, TypeStep DEF TypeInv
<1>2. KeysInOrder'
  BY DEF OrderInv, KeysInOrder, Precedes
<1>3. ASSUME NEW k \in DOMAIN bucket
      PROVE  /\ \A m \in FlowsIn(bucket[k].flows) : m <= Taken(k[1])'
             /\ bucket[k].last <= Now'
             /\ lastFlushTime'[k[1]] # Never =>
                  bucket[k].last <= lastFlushTime'[k[1]]
  <2> DEFINE t == k[1]
  <2>1. t \in Tags /\ bucket[k] \in Objects
    BY OrderTypes
  <2>2. bucket[k].last \in Nat /\ bucket[k].flows \in Seq(Nat)
    BY <2>1 DEF Objects
  <2>3. bucket[k].last <= Now'
    BY <1>1, <2>2 DEF OrderInv, ObjectsPast
  <2>4. lastFlushTime'[t] # Never => bucket[k].last <= lastFlushTime'[t]
    BY <2>1, <2>3 DEF OrderInv, ObjectsPast
  <2>5. Taken(t) \in Nat /\ Taken(t) <= Taken(t)' /\ Taken(t)' \in Int
    <3>1. arrived'[t] \in Nat /\ flows'[t] \in Seq(Nat) /\ Len(flows'[t]) \in Nat
      BY <1>1, <2>1 DEF TypeOK
    <3> QED
      BY <1>1, <2>1, <3>1, OrderTypes, TakenGrows DEF Taken
  <2>6. ASSUME NEW m \in FlowsIn(bucket[k].flows) PROVE m <= Taken(t)'
    <3>1. m \in Nat
      BY <2>2, <2>6 DEF FlowsIn
    <3>2. m <= Taken(t)
      BY DEF OrderInv, ObjectsPast
    <3> QED
      BY <2>5, <3>1, <3>2
  <2> QED
    BY <2>3, <2>4, <2>6
<1> QED
  BY <1>2, <1>3 DEF ObjectsPast, FlowsIn

\* A new object comes after all of its tag.
LEMMA OrderFlush ==
  ASSUME KeyAssumptions, OrderInv, NEW t \in Tags, FlushObject(t)
  PROVE  ObjectsPast' /\ KeysInOrder'
<1> DEFINE key == ObjectKey(t)
           s == StreamOf(t)
           object == NewObject(t)
           old == DOMAIN bucket
           size == ObjectSize(t)
<1>1. /\ TypeInv /\ TypeOK /\ BufferIsLatest
      /\ Now \in Nat /\ current = t
      /\ \A k \in old : k \in Tags \X Nat \X Nat /\ bucket[k] \in Objects
  BY OrderTypes DEF FlushObject, OrderInv
<1>2. /\ endTime \in Nat
      /\ lastFlushTime[t] \in Nat
      /\ s \in [ID : Nat, SeqNumber : Nat]
      /\ object \in Objects
  BY <1>1, NextObjectType
<1>3. Now = endTime /\ Now' = endTime /\ lastFlushTime'[t] = endTime
  BY <1>1, <1>2 DEF FlushObject, Now, Never, TypeOK
<1>4. Second(s.ID) \in Nat
  BY <1>2, SecondMonotonic
<1>5. key[1] = t /\ key[2] = Second(s.ID) /\ key[3] = s.SeqNumber
  BY DEF ObjectKey
<1>6. \A k \in old : k[1] = t => UsedIn(s, k)
  BY <1>1, KeyIsFree DEF OrderInv
<1>7. key \notin old /\ \A k \in old : ~ Precedes(key, k)
  <2>1. \A k \in old : k[2] \in Nat /\ k[3] \in Nat
    BY <1>1
  <2>2. s.SeqNumber \in Nat
    BY <1>2
  <2> HIDE DEF key, s
  <2> QED
    BY <1>4, <1>5, <1>6, <2>1, <2>2 DEF UsedIn, Precedes
<1>8. /\ object.flows = ObjectFlows(t)
      /\ Len(ObjectFlows(t)) = size
      /\ size \in Nat /\ size <= Len(flows[t])
      /\ \A i \in 1..size : ObjectFlows(t)[i] = flows[t][i]
      /\ object.first = lastFlushTime[t] /\ object.last = endTime
  BY <1>1, NewObjectFlows, ConfigAssumption DEF FlushObject, NewObject
<1>9. arrived[t] \in Nat /\ flows[t] \in Seq(Nat) /\ Len(flows[t]) \in Nat
  BY <1>1 DEF TypeOK
<1>10. \A n \in FlowsIn(object.flows) :
         n \in Nat /\ Taken(t) < n /\ n <= Taken(t) + size
  <2>1. ObjectFlows(t) \in Seq(Nat) /\ DOMAIN ObjectFlows(t) = 1..size
    BY <1>1, <1>8, ObjectPieces
  <2>2. ASSUME NEW i \in 1..size PROVE ObjectFlows(t)[i] = Taken(t) + i
    <3>1. i \in 1..Len(flows[t])
      BY <1>8, <1>9
    <3>2. flows[t][i] = arrived[t] - Len(flows[t]) + i
      BY <1>1, <3>1 DEF BufferIsLatest
    <3> QED
      BY <1>8, <3>2 DEF Taken
  <2>3. Taken(t) \in Nat
    BY OrderTypes
  <2> HIDE DEF size
  <2> QED
    BY <1>8, <2>1, <2>2, <2>3 DEF FlowsIn
<1>11. Taken(t)' = Taken(t) + size
  <2>1. flows'[t] = Rest(t) /\ arrived' = arrived
    BY <1>1 DEF FlushObject, TypeOK
  <2>2. Len(Rest(t)) = Len(flows[t]) - size
    BY <1>1, ObjectPieces
  <2> QED
    BY <1>8, <1>9, <2>1, <2>2 DEF Taken
<1>12. \A u \in Tags : u # t => /\ Taken(u)' = Taken(u)
                                /\ lastFlushTime'[u] = lastFlushTime[u]
  BY <1>1 DEF FlushObject, Taken, TypeOK
<1>13. /\ DOMAIN bucket' = old \cup {key}
       /\ bucket'[key] = object
       /\ \A k \in old : bucket'[k] = bucket[k]
  BY <1>7 DEF FlushObject, Put
<1>14. Taken(t) \in Nat
  BY OrderTypes
<1>15. \A k \in old : /\ \A m \in FlowsIn(bucket[k].flows) : m \in Nat
                      /\ bucket[k].last \in Nat
  <2>1. \A k \in old : bucket[k].flows \in Seq(Nat) /\ bucket[k].last \in Nat
    BY <1>1 DEF Objects
  <2> QED
    BY <2>1 DEF FlowsIn
<1> HIDE DEF key, s, object, size
<1>16. ASSUME NEW k \in DOMAIN bucket'
       PROVE  /\ \A m \in FlowsIn(bucket'[k].flows) : m <= Taken(k[1])'
              /\ bucket'[k].last <= Now'
              /\ lastFlushTime'[k[1]] # Never =>
                   bucket'[k].last <= lastFlushTime'[k[1]]
  <2>1. CASE k = key
    BY <1>2, <1>3, <1>5, <1>8, <1>10, <1>11, <1>13, <1>14, <2>1
  <2>2. CASE k \in old /\ k[1] = t
    <3>1. \A m \in FlowsIn(bucket[k].flows) : m \in Nat /\ m <= Taken(t)
      BY <1>15, <2>2 DEF OrderInv, ObjectsPast
    <3>2. bucket[k].last <= endTime
      BY <1>3, <2>2 DEF OrderInv, ObjectsPast
    <3>3. \A m \in FlowsIn(bucket[k].flows) : m <= Taken(t)'
      BY <1>8, <1>11, <1>14, <3>1
    <3> QED
      BY <1>3, <1>13, <2>2, <3>2, <3>3
  <2>3. CASE k \in old /\ k[1] # t
    <3>1. k[1] \in Tags
      BY <1>1, <2>3
    <3> QED
      BY <1>3, <1>12, <1>13, <2>3, <3>1 DEF OrderInv, ObjectsPast
  <2> QED
    BY <1>13, <2>1, <2>2, <2>3
<1>17. ObjectsPast'
  BY <1>16 DEF ObjectsPast, FlowsIn
<1>18. ASSUME NEW k1 \in DOMAIN bucket', NEW k2 \in DOMAIN bucket',
              Precedes(k1, k2)
       PROVE  /\ bucket'[k1].last <= bucket'[k2].first
              /\ \A m \in FlowsIn(bucket'[k1].flows),
                    n \in FlowsIn(bucket'[k2].flows) : m < n
  <2>1. CASE k1 \in old /\ k2 \in old
    BY <1>13, <1>18, <2>1 DEF OrderInv, KeysInOrder
  <2>2. CASE k1 \in old /\ k2 = key
    <3>1. k1[1] = t
      BY <1>5, <1>18, <2>2 DEF Precedes
    <3>2. bucket[k1].last <= lastFlushTime[t]
      BY <1>2, <2>2, <3>1 DEF OrderInv, ObjectsPast, Never
    <3>3. \A m \in FlowsIn(bucket[k1].flows) : m \in Nat /\ m <= Taken(t)
      BY <1>15, <2>2, <3>1 DEF OrderInv, ObjectsPast
    <3> QED
      BY <1>8, <1>10, <1>13, <1>14, <2>2, <3>2, <3>3
  <2>3. CASE k1 = key /\ k2 \in old
    BY <1>7, <1>18, <2>3
  <2>4. CASE k1 = key /\ k2 = key
    <3>1. key[2] \in Nat /\ key[3] \in Nat
      BY <1>2, <1>4, <1>5
    <3> QED
      BY <1>18, <2>4, <3>1 DEF Precedes
  <2> QED
    BY <1>13, <2>1, <2>2, <2>3, <2>4
<1>19. KeysInOrder'
  BY <1>18 DEF KeysInOrder, Precedes, FlowsIn
<1> QED
  BY <1>17, <1>19

LEMMA OrderStep ==
  ASSUME KeyAssumptions
  PROVE  OrderInv /\ [Next]_vars => OrderInv'
<1> SUFFICES ASSUME OrderInv, [Next]_vars PROVE ObjectsPast' /\ KeysInOrder'
  BY KeysStep, BufferStep DEF OrderInv, BufferInv, KeysInv
<1>1. /\ TypeInv /\ TypeOK /\ CallOK /\ TypeOK'
      /\ Now \in Nat /\ clock \in Nat /\ Now <= clock
  BY OrderTypes, TypeStep DEF TypeInv
<1>2. endTime \in Nat \cup {Never}
  BY <1>1 DEF TypeOK
<1>3. \A batch \in Messages : StoreMessage(batch) => ObjectsPast' /\ KeysInOrder'
  BY <1>1, OrderKept DEF StoreMessage, Enter, Now, Never
<1>4. StoreNothing => ObjectsPast' /\ KeysInOrder'
  BY <1>1, OrderKept DEF StoreNothing, Enter, Now, Never
<1>5. ASSUME NEW t \in Tags, VisitTag(t) PROVE ObjectsPast' /\ KeysInOrder'
  <2>1. endTime \in Nat /\ Now = endTime /\ Now' = Now
    BY <1>1, <1>5 DEF VisitTag, TypeOK, CallOK, Now
  <2>2. \A u \in Tags : lastFlushTime'[u] \in {lastFlushTime[u], Never, Now'}
    BY <1>1, <1>5, <2>1 DEF VisitTag, TypeOK
  <2> QED
    BY <1>1, <1>5, <2>1, <2>2, OrderKept DEF VisitTag
<1>6. \A t \in Tags : FlushObject(t) => ObjectsPast' /\ KeysInOrder'
  BY OrderFlush
<1>7. ASSUME NEW t \in Tags, LeaveTag(t), UNCHANGED bucket
      PROVE  ObjectsPast' /\ KeysInOrder'
  <2>1. UNCHANGED <<clock, endTime, lastFlushTime>>
    BY <1>7 DEF LeaveTag
  <2> QED
    BY <1>1, <1>7, <2>1, OrderKept DEF Now
<1>8. CASE Return
  <2>1. UNCHANGED <<clock, lastFlushTime, bucket>> /\ endTime' = Never
    BY <1>8 DEF Return
  <2> QED
    BY <1>1, <2>1, OrderKept DEF Now
<1>9. \A t \in Tags : FireTimer(t) => ObjectsPast' /\ KeysInOrder'
  BY <1>1, OrderKept DEF FireTimer, memory, callState, Now
<1>10. CASE Tick
  BY <1>1, <1>2, <1>10, OrderKept DEF Tick, memory, callState, Now
<1>11. CASE Restart
  <2>1. /\ clock' = clock + TicksPerSecond /\ endTime' = Never
        /\ UNCHANGED bucket
        /\ \A t \in Tags : lastFlushTime'[t] = Never
    BY <1>11 DEF Restart
  <2>2. Now' = clock + TicksPerSecond
    BY <2>1 DEF Now
  <2>3. Now <= Now' /\ Now' \in Nat
    BY <1>1, <2>2, ConfigAssumption
  <2> QED
    BY <2>1, <2>3, OrderKept
<1>12. CASE UNCHANGED vars
  BY <1>1, <1>12, OrderKept DEF vars, memory, callState, Now
<1> QED
  BY <1>3, <1>4, <1>5, <1>6, <1>7, <1>8, <1>9, <1>10, <1>11, <1>12
  DEF Next, Call, FailToFlush, FinishTag, KeyAssumptions

\* store_buffered.go:179-198: when an error means that nothing was stored and
\* streams last a second or more, the keys of a tag tell the order of its flows
\* and of the windows of its objects, and no flow is in two objects.
THEOREM ObjectsOrdered ==
  ASSUME KeyAssumptions
  PROVE  Spec => []ObjectsInOrder
<1>1. Init => OrderInv
  BY KeysInit, TypeInit, EmptySeq
     DEF Init, OrderInv, BufferIsLatest, ObjectsPast, KeysInOrder
<1>2. ASSUME OrderInv PROVE ObjectsInOrder
  <2>1. ASSUME NEW k \in DOMAIN bucket, NEW m \in FlowsIn(bucket[k].flows),
               NEW n \in FlowsIn(flows[k[1]])
        PROVE  m < n
    <3> DEFINE t == k[1]
    <3>1. t \in Tags /\ bucket[k] \in Objects /\ TypeOK /\ Taken(t) \in Nat
      BY <1>2, OrderTypes
    <3>2. bucket[k].flows \in Seq(Nat) /\ flows[t] \in Seq(Nat) /\ arrived[t] \in Nat
      BY <3>1 DEF Objects, TypeOK
    <3>3. m \in Nat
      BY <3>2 DEF FlowsIn
    <3>4. m <= Taken(t)
      BY <1>2 DEF OrderInv, ObjectsPast
    <3>5. PICK i \in 1..Len(flows[t]) : n = flows[t][i]
      BY <3>2 DEF FlowsIn
    <3>6. n = Taken(t) + i /\ i \in Nat /\ i > 0
      BY <1>2, <3>1, <3>2, <3>5 DEF OrderInv, BufferIsLatest, Taken
    <3> QED
      BY <3>1, <3>3, <3>4, <3>6
  <2> QED
    BY <1>2, <2>1 DEF OrderInv, KeysInOrder, ObjectsInOrder
<1> QED
  BY <1>1, <1>2, OrderStep, PTL DEF Spec

(***************************************************************************)
(* Streams.                                                                *)
(***************************************************************************)

\* The last object of the stream that t's next object may go on with.
LastKey(t) ==
  <<t, Second(currentStream[t].ID), currentStream[t].SeqNumber - 1>>

\* A stream with a number to go on from has its last object in the store, and
\* that object's window ends where the next one's starts.
StreamsGoOn ==
  \A t \in Tags :
    currentStream[t].SeqNumber > 0 =>
      /\ LastKey(t) \in DOMAIN bucket
      /\ bucket[LastKey(t)].last = lastFlushTime[t]

StreamInv == KeysInv /\ StreamsGoOn /\ StreamConsecutive

\* Under the key assumptions a flush adds a key and leaves the others alone.
LEMMA FlushAddsObject ==
  ASSUME KeyAssumptions, KeysInv, NEW t \in Tags, FlushObject(t)
  PROVE  /\ ObjectKey(t) \notin DOMAIN bucket
         /\ DOMAIN bucket' = DOMAIN bucket \cup {ObjectKey(t)}
         /\ bucket'[ObjectKey(t)] = NewObject(t)
         /\ \A k \in DOMAIN bucket : bucket'[k] = bucket[k]
<1>1. current = t /\ TypeInv
  BY DEF FlushObject, KeysInv
<1>2. StreamOf(t) \in [ID : Nat, SeqNumber : Nat]
  BY <1>1, NextObjectType
<1>3. Second(StreamOf(t).ID) \in Nat
  BY <1>2, SecondMonotonic
<1>4. ObjectKey(t) \notin DOMAIN bucket
  BY <1>1, <1>2, <1>3, KeyIsFree DEF ObjectKey, UsedIn
<1> QED
  BY <1>4 DEF FlushObject, Put

LEMMA StreamFlush ==
  ASSUME KeyAssumptions, StreamInv, NEW t \in Tags, FlushObject(t)
  PROVE  StreamsGoOn' /\ StreamConsecutive'
<1> DEFINE key == ObjectKey(t)
           s == StreamOf(t)
           old == DOMAIN bucket
<1>1. /\ KeysInv /\ TypeInv /\ TypeOK /\ current = t
      /\ \A k \in old : k \in Tags \X Nat \X Nat
  BY DEF StreamInv, KeysInv, TypeInv, TypeOK, FlushObject
<1>2. /\ endTime \in Nat
      /\ s \in [ID : Nat, SeqNumber : Nat]
      /\ key = <<t, Second(s.ID), s.SeqNumber>>
  BY <1>1, NextObjectType DEF ObjectKey
<1>3. /\ key \notin old
      /\ DOMAIN bucket' = old \cup {key}
      /\ bucket'[key] = NewObject(t)
      /\ \A k \in old : bucket'[k] = bucket[k]
  BY <1>1, FlushAddsObject
<1>4. NewObject(t).first = lastFlushTime[t] /\ NewObject(t).last = endTime
  BY DEF NewObject
<1>5. /\ currentStream'[t] = [ID |-> s.ID, SeqNumber |-> s.SeqNumber + 1]
      /\ lastFlushTime'[t] = endTime
  BY <1>1, <1>2 DEF FlushObject, TypeOK
<1>6. \A u \in Tags : u # t => /\ currentStream'[u] = currentStream[u]
                               /\ lastFlushTime'[u] = lastFlushTime[u]
  BY <1>1 DEF FlushObject, TypeOK
<1>7. s.SeqNumber > 0 => s = currentStream[t]
  BY DEF StreamOf
<1>8. StreamsGoOn'
  <2>1. ASSUME NEW u \in Tags, currentStream'[u].SeqNumber > 0
        PROVE  /\ LastKey(u)' \in DOMAIN bucket'
               /\ bucket'[LastKey(u)'].last = lastFlushTime'[u]
    <3>1. CASE u = t
      <4>1. LastKey(t)' = key
        <5>1. s.SeqNumber + 1 - 1 = s.SeqNumber
          BY <1>2
        <5> QED
          BY <1>2, <1>5, <5>1 DEF LastKey, Second
      <4> HIDE DEF key
      <4> QED
        BY <1>3, <1>4, <1>5, <3>1, <4>1
    <3>2. CASE u # t
      <4>1. LastKey(u)' = LastKey(u)
        BY <1>6, <3>2 DEF LastKey, Second
      <4>2. /\ LastKey(u) \in old
            /\ bucket[LastKey(u)].last = lastFlushTime[u]
        BY <1>6, <2>1, <3>2 DEF StreamInv, StreamsGoOn
      <4> QED
        BY <1>3, <1>6, <3>2, <4>1, <4>2
    <3> QED
      BY <3>1, <3>2
  <2> QED
    BY <2>1 DEF StreamsGoOn
<1>9. ASSUME NEW k \in DOMAIN bucket', k[3] > 0
      PROVE  /\ <<k[1], k[2], k[3] - 1>> \in DOMAIN bucket'
             /\ bucket'[<<k[1], k[2], k[3] - 1>>].last = bucket'[k].first
  <2>1. CASE k \in old
    BY <1>3, <1>9, <2>1 DEF StreamInv, StreamConsecutive
  <2>2. CASE k = key
    <3>1. k[1] = t /\ k[2] = Second(s.ID) /\ k[3] = s.SeqNumber
      BY <1>2, <2>2
    <3>2. s = currentStream[t] /\ currentStream[t].SeqNumber > 0
      BY <1>7, <1>9, <3>1
    <3>3. <<k[1], k[2], k[3] - 1>> = LastKey(t)
      BY <3>1, <3>2 DEF LastKey
    <3>4. LastKey(t) \in old /\ bucket[LastKey(t)].last = lastFlushTime[t]
      BY <3>2 DEF StreamInv, StreamsGoOn
    <3> QED
      BY <1>3, <1>4, <2>2, <3>3, <3>4
  <2> QED
    BY <1>3, <2>1, <2>2
<1> QED
  BY <1>8, <1>9 DEF StreamConsecutive

\* A step that stores nothing leaves the streams as they were: the flush time
\* of a tag that has a stream changes only with an object.
LEMMA StreamKept ==
  ASSUME StreamInv, UNCHANGED <<bucket, currentStream>>,
         \A t \in Tags :
           lastFlushTime[t] # Never => lastFlushTime'[t] = lastFlushTime[t]
  PROVE  StreamsGoOn' /\ StreamConsecutive'
<1>1. ASSUME NEW t \in Tags, currentStream[t].SeqNumber > 0
      PROVE  /\ LastKey(t) \in DOMAIN bucket
             /\ bucket[LastKey(t)].last = lastFlushTime'[t]
  <2>1. /\ LastKey(t) \in DOMAIN bucket
        /\ bucket[LastKey(t)].last = lastFlushTime[t]
    BY <1>1 DEF StreamInv, StreamsGoOn
  <2>2. bucket[LastKey(t)].last \in Nat
    BY <2>1 DEF StreamInv, KeysInv, TypeInv, TypeOK, Objects
  <2> QED
    BY <2>1, <2>2 DEF Never
<1>2. StreamsGoOn'
  BY <1>1 DEF StreamsGoOn, LastKey, Second
<1> QED
  BY <1>2 DEF StreamInv, StreamConsecutive

LEMMA StreamStep ==
  ASSUME KeyAssumptions
  PROVE  StreamInv /\ [Next]_vars => StreamInv'
<1> SUFFICES ASSUME StreamInv, [Next]_vars PROVE StreamsGoOn' /\ StreamConsecutive'
  BY KeysStep DEF StreamInv
<1>1. TypeOK
  BY DEF StreamInv, KeysInv, TypeInv
<1>2. \A t \in Tags : FlushObject(t) => StreamsGoOn' /\ StreamConsecutive'
  BY StreamFlush
<1>3. CASE Restart
  BY <1>3 DEF Restart, NoStream, StreamInv, StreamsGoOn, StreamConsecutive
<1>4. CASE UNCHANGED <<bucket, currentStream, lastFlushTime>>
  BY <1>4, StreamKept
<1>5. ASSUME NEW t \in Tags, VisitTag(t) PROVE StreamsGoOn' /\ StreamConsecutive'
  BY <1>1, <1>5, StreamKept DEF VisitTag, TypeOK
<1> QED
  BY <1>2, <1>3, <1>4, <1>5
  DEF Next, Call, StoreMessage, StoreNothing, Enter, FailToFlush, FinishTag,
      LeaveTag, Return, FireTimer, Tick, vars, memory, KeyAssumptions

\* store_buffered.go:150-198: under the key assumptions a stream's objects have
\* consecutive numbers and windows that follow one another without a gap.
THEOREM StreamsConsecutive ==
  ASSUME KeyAssumptions
  PROVE  Spec => []StreamConsecutive
<1>1. Init => StreamInv
  BY KeysInit DEF Init, NoStream, StreamInv, StreamsGoOn, StreamConsecutive
<1>2. StreamInv => StreamConsecutive
  BY DEF StreamInv
<1> QED
  BY <1>1, <1>2, StreamStep, PTL DEF Spec

(***************************************************************************)
(* Refinement: the storer implements FlowLog.                              *)
(***************************************************************************)

\* The whole of a sequence, and nothing of it.
LEMMA WholeOrNothing ==
  ASSUME NEW s \in Seq(Nat)
  PROVE  /\ Len(s) \in Nat
         /\ s = SubSeq(s, 0 + 1, Len(s))
         /\ <<>> = SubSeq(s, Len(s) + 1, Len(s))
<1>1. Len(s) \in Nat
  OBVIOUS
<1>2. /\ SubSeq(s, Len(s) + 1, Len(s)) \in Seq(Nat)
      /\ Len(SubSeq(s, Len(s) + 1, Len(s))) = 0
  BY <1>1, Suffix
<1>3. /\ SubSeq(s, 0 + 1, Len(s)) \in Seq(Nat)
      /\ Len(SubSeq(s, 0 + 1, Len(s))) = Len(s)
      /\ \A i \in 1..Len(s) : SubSeq(s, 0 + 1, Len(s))[i] = s[i]
  <2>1. Len(s) - 0 = Len(s) /\ \A i \in 1..Len(s) : 0 + i = i
    BY <1>1
  <2> QED
    BY <1>1, <2>1, Suffix
<1> QED
  BY <1>1, <1>2, <1>3, EmptySeq, SeqEqual

\* Trimming gives up the oldest flows.
LEMMA TrimmedIsCut ==
  ASSUME TypeOK, NEW t \in Tags
  PROVE  \E n \in 0..Len(flows[t]) :
           Trimmed(t) = SubSeq(flows[t], n + 1, Len(flows[t]))
<1>1. flows[t] \in Seq(Nat) /\ Len(flows[t]) \in Nat /\ MaxFlowArraySize \in Nat
  BY ConfigAssumption DEF TypeOK
<1>2. CASE Len(flows[t]) > MaxFlowArraySize
  <2>1. Len(flows[t]) - MaxFlowArraySize \in 0..Len(flows[t])
    BY <1>1, <1>2
  <2> QED
    BY <1>2, <2>1 DEF Trimmed
<1>3. CASE ~ (Len(flows[t]) > MaxFlowArraySize)
  <2>1. 0 \in 0..Len(flows[t])
    BY <1>1
  <2> QED
    BY <1>1, <1>3, <2>1, WholeOrNothing DEF Trimmed
<1> QED
  BY <1>2, <1>3

\* Whatever leaves the buffers alone, empties them or trims them is a GiveUp.
LEMMA CutIsGiveUp ==
  ASSUME TypeOK, TypeOK', UNCHANGED <<arrived, bucket>>,
         \A u \in Tags : flows'[u] \in {flows[u], <<>>, Trimmed(u)}
  PROVE  Log!GiveUp
<1>1. flows' = [u \in Tags |-> flows'[u]]
  BY DEF TypeOK
<1>2. ASSUME NEW u \in Tags
      PROVE  \E n \in 0..Len(flows[u]) :
               flows'[u] = SubSeq(flows[u], n + 1, Len(flows[u]))
  <2>1. flows[u] \in Seq(Nat) /\ Len(flows[u]) \in Nat
    BY DEF TypeOK
  <2>2. 0 \in 0..Len(flows[u]) /\ Len(flows[u]) \in 0..Len(flows[u])
    BY <2>1
  <2> QED
    BY <2>1, <2>2, WholeOrNothing, TrimmedIsCut
<1>3. StoredObjects' = StoredObjects
  BY DEF StoredObjects
<1> QED
  BY <1>1, <1>2, <1>3 DEF Log!GiveUp

\* A message's flows are accepted.
LEMMA MessageIsAccept ==
  ASSUME TypeOK, TypeOK', NEW batch \in Messages, StoreMessage(batch)
  PROVE  Log!Accept
<1>1. arrived' \in [Tags -> Nat] /\ StoredObjects' = StoredObjects
  BY DEF TypeOK, StoreMessage, Enter, StoredObjects
<1>2. ASSUME NEW u \in Tags
      PROVE  /\ arrived'[u] >= arrived[u]
             /\ flows'[u] = flows[u] \o [i \in 1..(arrived'[u] - arrived[u]) |->
                                          arrived[u] + i]
  <2>1. flows[u] \in Seq(Nat) /\ arrived[u] \in Nat
    BY DEF TypeOK
  <2>2. CASE u \in DOMAIN batch
    <3>1. batch[u] \in Nat
      BY <2>2, BoundAssumption DEF Messages
    <3>2. arrived'[u] = arrived[u] + batch[u]
      BY <2>2 DEF StoreMessage
    <3>3. flows'[u] = flows[u] \o NextFlows(u, batch[u])
      BY <2>2 DEF StoreMessage
    <3>4. arrived'[u] - arrived[u] = batch[u] /\ arrived'[u] >= arrived[u]
      BY <2>1, <3>1, <3>2
    <3> QED
      BY <3>3, <3>4 DEF NextFlows
  <2>3. CASE u \notin DOMAIN batch
    <3>1. arrived'[u] = arrived[u] /\ flows'[u] = flows[u]
      BY <2>3 DEF StoreMessage
    <3>2. arrived'[u] - arrived[u] = 0 /\ arrived'[u] >= arrived[u]
      BY <2>1, <3>1
    <3>3. [i \in 1..0 |-> arrived[u] + i] = <<>>
      OBVIOUS
    <3>4. flows[u] \o <<>> = flows[u]
      BY <2>1, ConcatEmptySeq
    <3> QED
      BY <3>1, <3>2, <3>3, <3>4
  <2> QED
    BY <2>2, <2>3
<1>3. flows' = [u \in Tags |->
                  flows[u] \o [i \in 1..(arrived'[u] - arrived[u]) |->
                                 arrived[u] + i]]
  BY <1>2 DEF TypeOK
<1> QED
  BY <1>1, <1>2, <1>3 DEF Log!Accept

\* A flush stores the oldest flows and changes no object.
LEMMA FlushIsStore ==
  ASSUME KeyAssumptions, KeysInv, NEW t \in Tags, FlushObject(t)
  PROVE  \E n \in 1..MaxFlowsPerObject :
           n <= Len(flows[t]) /\ Log!Store(t, n)
<1> DEFINE n == ObjectSize(t)
           key == ObjectKey(t)
<1>1. TypeInv /\ TypeOK /\ Due(t) /\ current = t
  BY DEF KeysInv, TypeInv, FlushObject
<1>2. /\ n \in 1..MaxFlowsPerObject /\ n <= Len(flows[t])
      /\ NewObject(t).flows = SubSeq(flows[t], 1, n)
  BY <1>1, NewObjectFlows DEF ObjectFlows
<1>3. /\ key \notin DOMAIN bucket /\ key[1] = t
      /\ DOMAIN bucket' = DOMAIN bucket \cup {key}
      /\ bucket'[key] = NewObject(t)
      /\ \A k \in DOMAIN bucket : bucket'[k] = bucket[k]
  BY FlushAddsObject DEF ObjectKey
<1>4. flows' = [flows EXCEPT ![t] = SubSeq(flows[t], n + 1, Len(flows[t]))]
      /\ UNCHANGED arrived
  BY DEF FlushObject, Rest
<1> HIDE DEF n, key
<1>5. ASSUME NEW u \in Tags
      PROVE  StoredObjects'[u] = IF u = t
                                 THEN StoredObjects[t] \cup {NewObject(t).flows}
                                 ELSE StoredObjects[u]
  <2>1. StoredObjects[u] = {bucket[k].flows : k \in {j \in DOMAIN bucket : j[1] = u}}
    BY DEF StoredObjects
  <2>2. StoredObjects'[u] =
          {bucket'[k].flows : k \in {j \in DOMAIN bucket' : j[1] = u}}
    BY DEF StoredObjects
  <2>3. CASE u = t
    <3>1. {j \in DOMAIN bucket' : j[1] = u} =
            {j \in DOMAIN bucket : j[1] = u} \cup {key}
      BY <1>3, <2>3
    <3> QED
      BY <1>3, <2>1, <2>2, <2>3, <3>1
  <2>4. CASE u # t
    <3>1. {j \in DOMAIN bucket' : j[1] = u} = {j \in DOMAIN bucket : j[1] = u}
      BY <1>3, <2>4
    <3> QED
      BY <1>3, <2>1, <2>2, <2>4, <3>1
  <2> QED
    BY <2>3, <2>4
<1>6. StoredObjects' =
        [StoredObjects EXCEPT ![t] = @ \cup {SubSeq(flows[t], 1, n)}]
  <2>1. /\ StoredObjects' = [u \in Tags |-> StoredObjects'[u]]
        /\ StoredObjects = [u \in Tags |-> StoredObjects[u]]
    BY DEF StoredObjects
  <2> QED
    BY <1>2, <1>5, <2>1
<1>7. Log!Store(t, n)
  BY <1>4, <1>6 DEF Log!Store
<1> QED
  BY <1>2, <1>7

\* Under the key assumptions the buffered storer is a FlowLog: whatever calls,
\* timers, streams, rejected writes and restarts do, a tag's flows only arrive at
\* the new end and leave at the old one, and a stored object stays as it is.
THEOREM StorerImplementsFlowLog ==
  ASSUME KeyAssumptions
  PROVE  Spec => ImplementsFlowLog
<1>1. Init => Log!Init
  BY DEF Init, Log!Init, StoredObjects
<1>2. KeysInv /\ [Next]_vars => [Log!Next]_Log!vars
  <2> SUFFICES ASSUME KeysInv, [Next]_vars PROVE [Log!Next]_Log!vars
    OBVIOUS
  <2>1. TypeOK /\ TypeOK'
    BY TypeStep DEF KeysInv, TypeInv
  <2>2. \A batch \in Messages : StoreMessage(batch) => Log!Next
    BY <2>1, MessageIsAccept DEF Log!Next
  <2>3. \A t \in Tags : FlushObject(t) => Log!Next
    BY FlushIsStore DEF Log!Next
  <2>4. ASSUME NEW t \in Tags, LeaveTag(t), UNCHANGED bucket PROVE Log!GiveUp
    <3>1. /\ UNCHANGED <<arrived, bucket>>
          /\ \A u \in Tags : flows'[u] \in {flows[u], <<>>, Trimmed(u)}
      BY <2>1, <2>4 DEF LeaveTag, TypeOK
    <3> QED
      BY <2>1, <3>1, CutIsGiveUp
  <2>5. CASE Return
    BY <2>1, <2>5, CutIsGiveUp DEF Return, Copied, Log!Next
  <2>6. CASE Restart
    BY <2>1, <2>6, CutIsGiveUp DEF Restart, Log!Next
  <2>7. CASE UNCHANGED <<flows, arrived, bucket>>
    BY <2>7 DEF Log!vars, StoredObjects
  <2> QED
    BY <2>2, <2>3, <2>4, <2>5, <2>6, <2>7
    DEF Next, Call, StoreNothing, Enter, VisitTag, FailToFlush, FinishTag,
        FireTimer, Tick, vars, memory, KeyAssumptions, Log!Next
<1> QED
  BY <1>1, <1>2, KeysInit, KeysStep, PTL DEF Spec, ImplementsFlowLog, Log!Spec

(***************************************************************************)
(* No flow leaves the memory during a call but into the store.             *)
(***************************************************************************)

LEMMA FlowsInSeq ==
  ASSUME NEW s \in Seq(Nat)
  PROVE  FlowsIn(s) = {s[i] : i \in 1..Len(s)}
BY DEF FlowsIn

\* A flow that a flush takes out of the buffer is in the object it writes.
LEMMA FlushedIsStored ==
  ASSUME TypeInv, NEW t \in Tags, FlushObject(t),
         NEW n \in FlowsIn(flows[t]) \ FlowsIn(Rest(t))
  PROVE  Stored(t, n)'
<1> USE DEF TypeInv
<1>1. /\ TypeOK /\ Due(t) /\ flows[t] \in Seq(Nat) /\ Len(flows[t]) \in Nat
  BY DEF TypeOK, FlushObject
<1>2. /\ Rest(t) \in Seq(Nat) /\ ObjectFlows(t) \in Seq(Nat)
      /\ ObjectSize(t) \in 0..Len(flows[t])
      /\ Len(Rest(t)) = Len(flows[t]) - ObjectSize(t)
      /\ \A i \in 1..Len(Rest(t)) : Rest(t)[i] = flows[t][ObjectSize(t) + i]
  BY <1>1, ObjectPieces
<1>3. /\ Len(ObjectFlows(t)) = ObjectSize(t)
      /\ \A i \in 1..ObjectSize(t) : ObjectFlows(t)[i] = flows[t][i]
  BY <1>1, NewObjectFlows
<1>4. PICK i \in 1..Len(flows[t]) : n = flows[t][i]
  <2>1. FlowsIn(flows[t]) = {flows[t][i] : i \in 1..Len(flows[t])}
    BY <1>1, FlowsInSeq
  <2> QED
    BY <2>1
<1>5. ASSUME i > ObjectSize(t) PROVE FALSE
  <2> DEFINE j == i - ObjectSize(t)
  <2>1. j \in 1..Len(Rest(t)) /\ ObjectSize(t) + j = i
    BY <1>1, <1>2, <1>5
  <2>2. n = Rest(t)[j]
    BY <1>1, <1>2, <1>4, <2>1
  <2> QED
    BY <1>2, <2>1, <2>2, FlowsInSeq
<1>6. i \in 1..Len(ObjectFlows(t)) /\ n = ObjectFlows(t)[i]
  BY <1>1, <1>2, <1>3, <1>4, <1>5
<1>7. n \in FlowsIn(ObjectFlows(t))
  BY <1>2, <1>6, FlowsInSeq
<1>8. /\ ObjectKey(t) \in DOMAIN bucket'
      /\ bucket'[ObjectKey(t)].flows = ObjectFlows(t)
  BY DEF FlushObject, Put, NewObject
<1>9. ObjectKey(t)[1] = t
  BY DEF ObjectKey
<1> QED
  BY <1>7, <1>8, <1>9 DEF Stored

\* store_buffered.go:101-107: as long as a call lasts a flow leaves its buffer
\* into an object, or after a failed write when the buffer is over its limit; so
\* the limit, as long as an object's flows fit in it, costs nothing by itself.
THEOREM FlowsTakenOnlyToStore ==
  ASSUME MaxFlowsPerObject <= MaxFlowArraySize + 1
  PROVE  Spec => TakenOnlyToStore
<1>1. TypeInv /\ [Next]_vars =>
        [endTime # Never /\ endTime' # Never =>
           \A t \in Tags : \A n \in FlowsIn(flows[t]) \ FlowsIn(flows'[t]) :
             \/ Stored(t, n)'
             \/ faults' > 0 /\ Len(flows[t]) > MaxFlowArraySize]_vars
  <2> SUFFICES ASSUME TypeInv, Next, endTime # Never, endTime' # Never,
                      NEW t \in Tags, NEW n \in FlowsIn(flows[t]) \ FlowsIn(flows'[t])
               PROVE  Stored(t, n)' \/ (faults' > 0 /\ Len(flows[t]) > MaxFlowArraySize)
    OBVIOUS
  <2>1. TypeOK /\ flows[t] \in Seq(Nat) /\ Len(flows[t]) \in Nat /\ faults \in Nat
    BY DEF TypeInv, TypeOK
  <2>2. flows'[t] # flows[t]
    OBVIOUS
  <2>3. ASSUME NEW u \in Tags, FlushObject(u) PROVE Stored(t, n)'
    <3>1. flows' = [flows EXCEPT ![u] = Rest(u)]
      BY <2>3 DEF FlushObject
    <3>2. u = t /\ flows'[t] = Rest(t)
      BY <2>1, <2>2, <3>1 DEF TypeOK
    <3> QED
      BY <2>3, <3>2, FlushedIsStored
  <2>4. ASSUME NEW u \in Tags, LeaveTag(u)
        PROVE  u = t /\ Len(flows[t]) > MaxFlowArraySize
    <3>1. flows' = [flows EXCEPT ![u] = Trimmed(u)]
      BY <2>4 DEF LeaveTag
    <3>2. u = t /\ flows'[t] = Trimmed(t)
      BY <2>1, <2>2, <3>1 DEF TypeOK
    <3> QED
      BY <2>2, <3>2 DEF Trimmed
  <2>5. ASSUME NEW u \in Tags, NEW fault \in WriteFaults, FailToFlush(u, fault)
        PROVE  faults' > 0 /\ Len(flows[t]) > MaxFlowArraySize
    BY <2>1, <2>4, <2>5 DEF FailToFlush
  <2>6. ~ \E u \in Tags : FinishTag(u)
    <3> SUFFICES ASSUME NEW u \in Tags, FinishTag(u) PROVE FALSE
      OBVIOUS
    <3>1. ~ Due(t) /\ Len(flows[t]) > MaxFlowArraySize
      BY <2>4 DEF FinishTag
    <3>2. Len(flows[t]) > 0 /\ Len(flows[t]) >= MaxFlowsPerObject
      BY <2>1, <3>1, ConfigAssumption
    <3> QED
      BY <2>1, <3>1, <3>2, EmptySeq DEF Due
  <2>7. ~ StoreNothing /\ ~ \E batch \in Messages : StoreMessage(batch)
    BY DEF StoreNothing, StoreMessage, Enter
  <2>8. ~ Return /\ ~ Restart
    BY DEF Return, Restart
  <2>9. ~ Tick /\ (~ \E u \in Tags : FireTimer(u)) /\ (~ \E u \in Tags : VisitTag(u))
    BY <2>2 DEF Tick, FireTimer, VisitTag, memory
  <2> QED
    BY <2>3, <2>5, <2>6, <2>7, <2>8, <2>9 DEF Next, Call
<1> QED
  BY <1>1, TypeInit, TypeStep, PTL DEF Spec, TakenOnlyToStore
=============================================================================
