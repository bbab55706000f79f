----------------------- MODULE StoreBuffered_proofs ------------------------
(***************************************************************************)
(* Proofs about the buffered storer, for every value of its constants: its *)
(* types, its buffers, the keys of its objects and its timers.             *)
(***************************************************************************)
EXTENDS StoreBufferedTimed, SequenceTheorems, TLAPS

(***************************************************************************)
(* The two ends of a sequence.                                             *)
(***************************************************************************)

\* The first k elements.
LEMMA Prefix ==
  ASSUME NEW S, NEW s \in Seq(S), NEW k \in 0..Len(s)
  PROVE  /\ SubSeq(s, 1, k) \in Seq(S)
         /\ Len(SubSeq(s, 1, k)) = k
         /\ \A i \in 1..k : SubSeq(s, 1, k)[i] = s[i]
<1>1. Len(s) \in Nat /\ \A i \in 1..Len(s) : s[i] \in S
  BY LenProperties, ElementOfSeq
<1>2. \A i \in 1..k : s[i] \in S
  BY <1>1
<1>3. k \in Int /\ 1 \in Int
  BY <1>1
<1>4. /\ SubSeq(s, 1, k) \in Seq(S)
      /\ Len(SubSeq(s, 1, k)) = IF 1 <= k THEN k - 1 + 1 ELSE 0
      /\ \A i \in 1..(k - 1 + 1) : SubSeq(s, 1, k)[i] = s[1 + i - 1]
  BY ONLY <1>2, <1>3, SubSeqProperties
<1>5. \A i \in 1..k : i \in 1..(k - 1 + 1) /\ 1 + i - 1 = i
  BY <1>3
<1>6. QED
  BY <1>1, <1>4, <1>5

\* What follows the first k elements.
LEMMA Suffix ==
  ASSUME NEW S, NEW s \in Seq(S), NEW k \in 0..Len(s)
  PROVE  /\ SubSeq(s, k + 1, Len(s)) \in Seq(S)
         /\ Len(SubSeq(s, k + 1, Len(s))) = Len(s) - k
         /\ \A i \in 1..(Len(s) - k) : SubSeq(s, k + 1, Len(s))[i] = s[k + i]
<1> DEFINE m == k + 1
           n == Len(s)
<1>1. n \in Nat /\ \A i \in 1..n : s[i] \in S
  BY LenProperties, ElementOfSeq
<1>2. m \in Int /\ n \in Int /\ m \in 1..(n + 1)
  BY <1>1
<1>3. \A i \in m..n : s[i] \in S
  BY <1>1, <1>2
<1>4. (IF m <= n THEN n - m + 1 ELSE 0) = n - k
  BY <1>1
<1>5. \A i \in 1..(n - k) : i \in 1..(n - m + 1) /\ m + i - 1 = k + i
  BY <1>1
<1> HIDE DEF m, n
<1>6. /\ SubSeq(s, m, n) \in Seq(S)
      /\ Len(SubSeq(s, m, n)) = IF m <= n THEN n - m + 1 ELSE 0
      /\ \A i \in 1..(n - m + 1) : SubSeq(s, m, n)[i] = s[m + i - 1]
  BY ONLY <1>2, <1>3, SubSeqProperties
<1>7. \A i \in 1..(n - k) : SubSeq(s, m, n)[i] = s[k + i]
  BY <1>5, <1>6
<1>8. QED
  BY <1>4, <1>6, <1>7 DEF m, n

(***************************************************************************)
(* The pieces of a buffer.                                                 *)
(***************************************************************************)

\* What an object takes and what it leaves.
LEMMA ObjectPieces ==
  ASSUME TypeOK, NEW t \in Tags
  PROVE  /\ ObjectSize(t) \in 0..Len(flows[t])
         /\ ObjectFlows(t) \in Seq(Nat)
         /\ Rest(t) \in Seq(Nat)
         /\ Len(Rest(t)) = Len(flows[t]) - ObjectSize(t)
         /\ \A i \in 1..Len(Rest(t)) : Rest(t)[i] = flows[t][ObjectSize(t) + i]
<1>1. flows[t] \in Seq(Nat) /\ Len(flows[t]) \in Nat
  BY DEF TypeOK
<1>2. ObjectSize(t) \in 0..Len(flows[t])
  BY <1>1, ConfigAssumption DEF ObjectSize
<1>3. ObjectFlows(t) \in Seq(Nat)
  BY <1>1, <1>2, Prefix DEF ObjectFlows
<1>4. /\ Rest(t) \in Seq(Nat)
      /\ Len(Rest(t)) = Len(flows[t]) - ObjectSize(t)
      /\ \A i \in 1..(Len(flows[t]) - ObjectSize(t)) :
           Rest(t)[i] = flows[t][ObjectSize(t) + i]
  BY <1>1, <1>2, Suffix DEF Rest
<1>5. QED
  BY <1>2, <1>3, <1>4

\* What trimming leaves.
LEMMA TrimmedPieces ==
  ASSUME TypeOK, NEW t \in Tags
  PROVE  /\ Trimmed(t) \in Seq(Nat)
         /\ Len(Trimmed(t)) <= Len(flows[t])
         /\ \A i \in 1..Len(Trimmed(t)) :
              Trimmed(t)[i] = flows[t][Len(flows[t]) - Len(Trimmed(t)) + i]
<1>1. flows[t] \in Seq(Nat) /\ Len(flows[t]) \in Nat
  BY DEF TypeOK
<1>2. CASE Len(flows[t]) <= MaxFlowArraySize
  <2>1. Trimmed(t) = flows[t]
    BY <1>1, <1>2, ConfigAssumption DEF Trimmed
  <2>2. \A i \in 1..Len(flows[t]) : Len(flows[t]) - Len(flows[t]) + i = i
    BY <1>1
  <2>3. QED
    BY <1>1, <2>1, <2>2
<1>3. CASE Len(flows[t]) > MaxFlowArraySize
  <2> DEFINE k == Len(flows[t]) - MaxFlowArraySize
  <2>1. k \in 0..Len(flows[t]) /\ Len(flows[t]) - k = MaxFlowArraySize
    BY <1>1, <1>3, ConfigAssumption
  <2>2. Trimmed(t) = SubSeq(flows[t], k + 1, Len(flows[t]))
    BY <1>3 DEF Trimmed
  <2> HIDE DEF k
  <2>3. /\ Trimmed(t) \in Seq(Nat)
        /\ Len(Trimmed(t)) = Len(flows[t]) - k
        /\ \A i \in 1..(Len(flows[t]) - k) : Trimmed(t)[i] = flows[t][k + i]
    BY <1>1, <2>1, <2>2, Suffix
  <2>4. k = Len(flows[t]) - Len(Trimmed(t))
    BY <1>1, <2>1, <2>3
  <2>5. QED
    BY <1>1, <2>1, <2>3, <2>4
<1>4. QED
  BY <1>1, <1>2, <1>3, ConfigAssumption

\* The flows of a message, numbered.
LEMMA NextFlowsPieces ==
  ASSUME TypeOK, NEW t \in Tags, NEW n \in Nat
  PROVE  /\ NextFlows(t, n) \in Seq(Nat)
         /\ Len(NextFlows(t, n)) = n
         /\ \A i \in 1..n : NextFlows(t, n)[i] = arrived[t] + i
<1>1. arrived[t] \in Nat
  BY DEF TypeOK
<1>2. NextFlows(t, n) \in [1..n -> Nat]
  BY <1>1 DEF NextFlows
<1>3. NextFlows(t, n) \in Seq(Nat)
  BY <1>2, SeqDef
<1>4. QED
  BY <1>2, <1>3, LenProperties DEF NextFlows

(***************************************************************************)
(* Seconds.                                                                *)
(***************************************************************************)

\* Seconds are counted from zero and do not run backwards.
LEMMA SecondMonotonic ==
  ASSUME NEW m \in Nat, NEW n \in Nat, m <= n
  PROVE  /\ Second(m) \in Nat
         /\ Second(m) <= Second(n)
PROOF BY ConfigAssumption DEF Second

\* Instants a second apart show different seconds.
LEMMA SecondStep ==
  ASSUME NEW m \in Nat, NEW n \in Nat, m + TicksPerSecond <= n
  PROVE  Second(m) < Second(n)
PROOF BY ConfigAssumption DEF Second

(***************************************************************************)
(* Type correctness.                                                       *)
(***************************************************************************)

TypeInv == TypeOK /\ CallOK

\* The initial state has the right types.
LEMMA TypeInit == Init => TypeInv
PROOF BY ConfigAssumption, EmptySeq
      DEF Init, TypeInv, TypeOK, CallOK, Never, NoStream, Streams

\* The object t is about to get, its key and its stream have the right types.
LEMMA NextObjectType ==
  ASSUME TypeInv, NEW t \in Tags, current = t
  PROVE  /\ endTime \in Nat
         /\ lastFlushTime[t] \in Nat
         /\ StreamOf(t) \in [ID : Nat, SeqNumber : Nat]
         /\ ObjectKey(t) \in Tags \X Nat \X Nat
         /\ NewObject(t) \in Objects
<1>1. endTime \in Nat /\ lastFlushTime[t] \in Nat
  BY ConfigAssumption DEF TypeInv, TypeOK, CallOK
<1>2. StreamOf(t) \in [ID : Nat, SeqNumber : Nat]
  BY <1>1 DEF TypeInv, TypeOK, StreamOf, Streams
<1>3. Second(StreamOf(t).ID) \in Nat
  BY <1>2, SecondMonotonic
<1>4. ObjectFlows(t) \in Seq(Nat)
  BY ObjectPieces DEF TypeInv
<1>5. QED
  BY <1>1, <1>2, <1>3, <1>4 DEF ObjectKey, NewObject, Objects

\* Storing an object keeps the type of the object store.
LEMMA PutType ==
  ASSUME TypeInv, NEW t \in Tags, current = t,
         Put(ObjectKey(t), NewObject(t))
  PROVE  /\ DOMAIN bucket' \subseteq Tags \X Nat \X Nat
         /\ \A k \in DOMAIN bucket' : bucket'[k] \in Objects
PROOF BY NextObjectType DEF TypeInv, TypeOK, Put

\* Every step keeps the types.
LEMMA TypeStep == TypeInv /\ [Next]_vars => TypeInv'
<1> SUFFICES ASSUME TypeInv, [Next]_vars PROVE TypeInv'
  OBVIOUS
<1> USE DEF TypeInv
<1>1. ASSUME NEW batch \in Messages, StoreMessage(batch) PROVE TypeInv'
  <2>1. \A t \in DOMAIN batch : t \in Tags /\ batch[t] \in Nat
    BY <1>1, BoundAssumption DEF Messages
  <2>2. flows' \in [Tags -> Seq(Nat)]
    <3>1. \A t \in DOMAIN batch :
            flows[t] \o NextFlows(t, batch[t]) \in Seq(Nat)
      BY <2>1, NextFlowsPieces, ConcatProperties DEF TypeOK
    <3>2. QED
      BY <1>1, <3>1 DEF StoreMessage, TypeOK
  <2>3. arrived' \in [Tags -> Nat]
    BY <1>1, <2>1 DEF StoreMessage, TypeOK
  <2>4. endTime' \in Nat /\ todo' \in SUBSET Tags
    BY <1>1, <2>1 DEF StoreMessage, Enter, Known, TypeOK
  <2>5. QED
    BY <1>1, <2>2, <2>3, <2>4 DEF StoreMessage, Enter, TypeOK, CallOK, Never
<1>2. CASE StoreNothing
  BY <1>2 DEF StoreNothing, Enter, Known, TypeOK, CallOK, Never
<1>3. ASSUME NEW t \in Tags, VisitTag(t) PROVE TypeInv'
  <2>1. endTime \in Nat
    BY <1>3 DEF VisitTag, TypeOK, CallOK
  <2>2. QED
    BY <1>3, <2>1 DEF VisitTag, TypeOK, CallOK, Never
<1>4. ASSUME NEW t \in Tags, FlushObject(t) PROVE TypeInv'
  <2>1. current = t /\ endTime \in Nat
    BY <1>4, NextObjectType DEF FlushObject
  <2>2. /\ DOMAIN bucket' \subseteq Tags \X Nat \X Nat
        /\ \A k \in DOMAIN bucket' : bucket'[k] \in Objects
    BY <1>4, PutType DEF FlushObject
  <2>3. flows' \in [Tags -> Seq(Nat)]
    BY <1>4, ObjectPieces DEF FlushObject, TypeOK
  <2>4. currentStream' \in [Tags -> Streams]
    <3>1. StreamOf(t) \in [ID : Nat, SeqNumber : Nat]
      BY <2>1, NextObjectType
    <3>2. [StreamOf(t) EXCEPT !.SeqNumber = @ + 1] \in Streams
      BY <3>1 DEF Streams
    <3>3. QED
      BY <1>4, <3>2 DEF FlushObject, TypeOK
  <2>5. lastFlushTime' \in [Tags -> Nat \cup {Never}]
    BY <1>4, <2>1 DEF FlushObject, TypeOK
  <2>6. CallOK'
    BY <1>4, <2>1, <2>5 DEF FlushObject, TypeOK, CallOK, Never
  <2>7. QED
    BY <1>4, <2>2, <2>3, <2>4, <2>5, <2>6 DEF FlushObject, TypeOK
<1>5. ASSUME NEW t \in Tags, NEW fault \in WriteFaults, FailToFlush(t, fault)
      PROVE  TypeInv'
  <2>1. /\ DOMAIN bucket' \subseteq Tags \X Nat \X Nat
        /\ \A k \in DOMAIN bucket' : bucket'[k] \in Objects
    BY <1>5, PutType DEF FailToFlush, LeaveTag, TypeOK
  <2>2. flows' \in [Tags -> Seq(Nat)]
    BY <1>5, TrimmedPieces DEF FailToFlush, LeaveTag, TypeOK
  <2>3. QED
    BY <1>5, <2>1, <2>2 DEF FailToFlush, LeaveTag, TypeOK, CallOK
<1>6. ASSUME NEW t \in Tags, FinishTag(t) PROVE TypeInv'
  <2>1. flows' \in [Tags -> Seq(Nat)]
    BY <1>6, TrimmedPieces DEF FinishTag, LeaveTag, TypeOK
  <2>2. QED
    BY <1>6, <2>1 DEF FinishTag, LeaveTag, TypeOK, CallOK
<1>7. CASE Return
  <2>1. endTime \in Nat
    BY <1>7 DEF Return, TypeOK
  <2>2. \A owner : Rearmed(owner) \in [Tags -> Nat \cup {Never}]
    BY <2>1, ConfigAssumption DEF Rearmed, TypeOK
  <2>3. flushTimers' \in [Tags -> Nat \cup {Never}]
    BY <1>7, <2>2 DEF Return
  <2>4. flows' \in [Tags -> Seq(Nat)]
    BY <1>7, EmptySeq DEF Return, Copied, TypeOK
  <2>5. QED
    BY <1>7, <2>3, <2>4 DEF Return, TypeOK, CallOK
<1>8. ASSUME NEW t \in Tags, FireTimer(t) PROVE TypeInv'
  BY <1>8 DEF FireTimer, memory, callState, TypeOK, CallOK
<1>9. CASE Tick
  BY <1>9 DEF Tick, memory, callState, TypeOK, CallOK
<1>10. CASE Restart
  BY <1>10, ConfigAssumption, EmptySeq
  DEF Restart, TypeOK, CallOK, NoStream, Streams, Never
<1>11. CASE UNCHANGED vars
  BY <1>11 DEF vars, memory, callState, TypeOK, CallOK
<1>12. QED
  BY <1>1, <1>2, <1>3, <1>4, <1>5, <1>6, <1>7, <1>8, <1>9, <1>10, <1>11
  DEF Next, Call

\* Every variable keeps its type and the call its discipline, whatever the
\* configuration, the messages and the faults.
THEOREM TypeCorrect == Spec => []TypeOK
<1>1. TypeInv => TypeOK
  BY DEF TypeInv
<1>2. QED
  BY <1>1, TypeInit, TypeStep, PTL DEF Spec

(***************************************************************************)
(* The buffer holds the latest flows.                                      *)
(***************************************************************************)

BufferInv == TypeInv /\ BufferIsLatest

\* The buffer f holds the last of n flows.
Latest(f, n) ==
  /\ Len(f) <= n
  /\ \A i \in 1..Len(f) : f[i] = n - Len(f) + i

\* A buffer cut at its old end, as flushing and trimming do, still holds the
\* latest flows.
LEMMA CutIsLatest ==
  ASSUME NEW f \in Seq(Nat), NEW g \in Seq(Nat), NEW n \in Nat,
         Latest(f, n), Len(g) <= Len(f),
         \A i \in 1..Len(g) : g[i] = f[Len(f) - Len(g) + i]
  PROVE  Latest(g, n)
<1>1. Len(f) \in Nat /\ Len(g) \in Nat
  OBVIOUS
<1>2. ASSUME NEW i \in 1..Len(g) PROVE g[i] = n - Len(g) + i
  <2>1. Len(f) - Len(g) + i \in 1..Len(f)
    BY <1>1
  <2>2. f[Len(f) - Len(g) + i] = n - Len(f) + (Len(f) - Len(g) + i)
    BY <2>1 DEF Latest
  <2>3. QED
    BY <1>1, <2>2
<1>3. QED
  BY <1>1, <1>2 DEF Latest

\* New flows at the end of a buffer are the latest.
LEMMA GrownIsLatest ==
  ASSUME NEW f \in Seq(Nat), NEW g \in Seq(Nat), NEW n \in Nat,
         Latest(f, n), \A i \in 1..Len(g) : g[i] = n + i
  PROVE  Latest(f \o g, n + Len(g))
<1>1. Len(f) \in Nat /\ Len(g) \in Nat
  OBVIOUS
<1>2. /\ Len(f \o g) = Len(f) + Len(g)
      /\ \A i \in 1..(Len(f) + Len(g)) :
           (f \o g)[i] = IF i <= Len(f) THEN f[i] ELSE g[i - Len(f)]
  BY ConcatProperties
<1>3. ASSUME NEW i \in 1..(Len(f) + Len(g)) PROVE (f \o g)[i] = n - Len(f) + i
  <2>1. CASE i <= Len(f)
    BY <1>1, <1>2, <2>1 DEF Latest
  <2>2. CASE i > Len(f)
    <3>1. i - Len(f) \in 1..Len(g)
      BY <1>1, <2>2
    <3>2. QED
      BY <1>1, <1>2, <2>2, <3>1
  <2>3. QED
    BY <1>1, <2>1, <2>2
<1>4. QED
  BY <1>1, <1>2, <1>3 DEF Latest

\* Every step keeps the buffers contiguous.
LEMMA BufferStep == BufferInv /\ [Next]_vars => BufferInv'
<1> SUFFICES ASSUME BufferInv, [Next]_vars PROVE BufferIsLatest'
  BY TypeStep DEF BufferInv
<1>1. TypeOK /\ TypeInv /\ TypeOK'
  BY TypeStep DEF BufferInv, TypeInv
<1>2. \A t \in Tags : Latest(flows[t], arrived[t])
  BY DEF BufferInv, BufferIsLatest, Latest
<1>3. SUFFICES ASSUME NEW u \in Tags PROVE Latest(flows'[u], arrived'[u])
  BY DEF BufferIsLatest, Latest
<1>4. flows[u] \in Seq(Nat) /\ arrived[u] \in Nat /\ flows'[u] \in Seq(Nat)
  BY <1>1 DEF TypeOK
<1>5. CASE flows'[u] = flows[u] /\ arrived'[u] = arrived[u]
  BY <1>2, <1>5
<1>6. ASSUME NEW batch \in Messages, StoreMessage(batch)
      PROVE  Latest(flows'[u], arrived'[u])
  <2>1. CASE u \in DOMAIN batch
    <3>1. batch[u] \in Nat
      BY <2>1, BoundAssumption DEF Messages
    <3>2. /\ NextFlows(u, batch[u]) \in Seq(Nat)
          /\ Len(NextFlows(u, batch[u])) = batch[u]
          /\ \A i \in 1..batch[u] : NextFlows(u, batch[u])[i] = arrived[u] + i
      BY <1>1, <3>1, NextFlowsPieces
    <3>3. Latest(flows[u] \o NextFlows(u, batch[u]), arrived[u] + batch[u])
      BY <1>2, <1>4, <3>2, GrownIsLatest
    <3>4. QED
      BY <1>6, <2>1, <3>3 DEF StoreMessage
  <2>2. CASE u \notin DOMAIN batch
    BY <1>2, <1>6, <2>2 DEF StoreMessage
  <2>3. QED
    BY <2>1, <2>2
<1>7. ASSUME NEW t \in Tags, FlushObject(t)
      PROVE  Latest(flows'[u], arrived'[u])
  <2>1. CASE u = t
    <3>1. flows'[u] = Rest(u) /\ arrived'[u] = arrived[u]
      BY <1>1, <1>7, <2>1 DEF FlushObject, TypeOK
    <3>2. /\ Rest(u) \in Seq(Nat)
          /\ Len(Rest(u)) <= Len(flows[u])
          /\ \A i \in 1..Len(Rest(u)) :
               Rest(u)[i] = flows[u][Len(flows[u]) - Len(Rest(u)) + i]
      <4>1. /\ ObjectSize(u) \in 0..Len(flows[u])
            /\ Rest(u) \in Seq(Nat)
            /\ Len(Rest(u)) = Len(flows[u]) - ObjectSize(u)
            /\ \A i \in 1..Len(Rest(u)) :
                 Rest(u)[i] = flows[u][ObjectSize(u) + i]
        BY <1>1, ObjectPieces
      <4>2. Len(flows[u]) - Len(Rest(u)) = ObjectSize(u)
        BY <1>4, <4>1
      <4>3. QED
        BY <1>4, <4>1, <4>2
    <3>3. QED
      BY <1>2, <1>4, <3>1, <3>2, CutIsLatest
  <2>2. CASE u # t
    BY <1>1, <1>5, <1>7, <2>2 DEF FlushObject, TypeOK
  <2>3. QED
    BY <2>1, <2>2
<1>8. ASSUME NEW t \in Tags, LeaveTag(t) PROVE Latest(flows'[u], arrived'[u])
  <2>1. CASE u = t
    <3>1. flows'[u] = Trimmed(u) /\ arrived'[u] = arrived[u]
      BY <1>1, <1>8, <2>1 DEF LeaveTag, TypeOK
    <3>2. /\ Trimmed(u) \in Seq(Nat)
          /\ Len(Trimmed(u)) <= Len(flows[u])
          /\ \A i \in 1..Len(Trimmed(u)) :
               Trimmed(u)[i] = flows[u][Len(flows[u]) - Len(Trimmed(u)) + i]
      BY <1>1, TrimmedPieces
    <3>3. QED
      BY <1>2, <1>4, <3>1, <3>2, CutIsLatest
  <2>2. CASE u # t
    BY <1>1, <1>5, <1>8, <2>2 DEF LeaveTag, TypeOK
  <2>3. QED
    BY <2>1, <2>2
<1>9. CASE Restart
  BY <1>4, <1>9, EmptySeq DEF Restart, Latest
<1>10. CASE StoreNothing
  BY <1>5, <1>10 DEF StoreNothing
<1>11. ASSUME NEW t \in Tags, VisitTag(t) PROVE Latest(flows'[u], arrived'[u])
  BY <1>5, <1>11 DEF VisitTag
<1>12. CASE Return
  <2>1. arrived' = arrived /\ flows'[u] = Copied(u)
    BY <1>12 DEF Return
  <2>2. CASE u \in flushed
    BY <1>4, <2>1, <2>2, EmptySeq DEF Copied, Latest
  <2>3. CASE u \notin flushed
    BY <1>5, <2>1, <2>3 DEF Copied
  <2>4. QED
    BY <2>2, <2>3
<1>13. ASSUME NEW t \in Tags, FireTimer(t) PROVE Latest(flows'[u], arrived'[u])
  BY <1>5, <1>13 DEF FireTimer, memory
<1>14. CASE Tick
  BY <1>5, <1>14 DEF Tick, memory
<1>15. CASE UNCHANGED vars
  BY <1>5, <1>15 DEF vars, memory
<1>16. QED
  BY <1>6, <1>7, <1>8, <1>9, <1>10, <1>11, <1>12, <1>13, <1>14, <1>15
  DEF Next, Call, FailToFlush, FinishTag

\* Whatever the configuration, the messages and the faults (trimming, restarts
\* and lost acknowledgements among them), a buffer never skips, repeats or
\* reorders a flow.
THEOREM BufferCorrect == Spec => []BufferIsLatest
<1>1. Init => BufferInv
  BY TypeInit, EmptySeq DEF Init, BufferInv, BufferIsLatest
<1>2. BufferInv => BufferIsLatest
  BY DEF BufferInv
<1>3. QED
  BY <1>1, <1>2, BufferStep, PTL DEF Spec

(***************************************************************************)
(* Keys are never taken twice.                                             *)
(***************************************************************************)

KeysInv == TypeInv /\ TimesOK /\ KeysTaken

\* Writes that return an error store nothing, and a stream lasts a second or
\* more, so that two streams of a tag never show the same second.
KeyAssumptions ==
  /\ WriteFaults \subseteq {"rejected"}
  /\ MaxStreamDuration >= TicksPerSecond

\* Under these assumptions the next key is free.
LEMMA KeyIsFree ==
  ASSUME KeyAssumptions, KeysInv, NEW t \in Tags, current = t
  PROVE  \A k \in DOMAIN bucket : k[1] = t => UsedIn(StreamOf(t), k)
<1> DEFINE s == currentStream[t]
<1>1. endTime \in Nat /\ Now = endTime /\ s \in Streams
  BY NextObjectType DEF KeysInv, TypeInv, TypeOK, Now, Never
<1>2. ASSUME NEW k \in DOMAIN bucket, k[1] = t
      PROVE  UsedIn(StreamOf(t), k)
  <2>1. k \in Tags \X Nat \X Nat
    BY DEF KeysInv, TypeInv, TypeOK
  <2>2. CASE s.ID = Never
    <3>1. StreamOf(t).ID = endTime
      BY <2>2 DEF StreamOf
    <3>2. k[2] < Second(endTime)
      BY <1>1, <1>2, <2>2 DEF KeysInv, KeysTaken
    <3>3. QED
      BY <3>1, <3>2 DEF UsedIn
  <2>3. CASE s.ID # Never /\ endTime - s.ID >= MaxStreamDuration
    <3>1. StreamOf(t).ID = endTime /\ s.ID \in Nat
      BY <1>1, <2>3 DEF StreamOf, Streams
    <3>2. s.ID + TicksPerSecond <= endTime
      BY <1>1, <2>3, <3>1, ConfigAssumption DEF KeyAssumptions
    <3>3. Second(s.ID) < Second(endTime)
      BY <1>1, <3>1, <3>2, SecondStep
    <3>4. k[2] <= Second(s.ID)
      BY <1>2, <2>1, <2>3, <3>1, SecondMonotonic DEF KeysInv, KeysTaken, UsedIn
    <3>5. Second(s.ID) \in Nat /\ Second(endTime) \in Nat
      BY <1>1, <3>1, SecondMonotonic
    <3>6. QED
      BY <2>1, <3>1, <3>3, <3>4, <3>5 DEF UsedIn
  <2>4. CASE s.ID # Never /\ ~ (endTime - s.ID >= MaxStreamDuration)
    <3>1. StreamOf(t) = s
      BY <2>4 DEF StreamOf
    <3>2. QED
      BY <1>2, <2>4, <3>1 DEF KeysInv, KeysTaken
  <2>5. QED
    BY <2>2, <2>3, <2>4
<1>3. QED
  BY <1>2

\* The initial state has no keys.
LEMMA KeysInit == Init => KeysInv
PROOF BY TypeInit
      DEF Init, KeysInv, TimesOK, KeysTaken, Now, Never, NoStream

\* No time of the storer is late.
LEMMA TimesStep == TypeInv /\ TimesOK /\ [Next]_vars => TimesOK'
<1> SUFFICES ASSUME TypeInv, TimesOK, [Next]_vars PROVE TimesOK'
  OBVIOUS
<1> USE DEF TimesOK, Now, Never
<1>1. TypeOK /\ CallOK
  BY DEF TypeInv
<1>2. /\ clock \in Nat
      /\ \A t \in Tags : /\ lastFlushTime[t] \in Nat \cup {Never}
                         /\ currentStream[t].ID \in Nat \cup {Never}
  BY <1>1 DEF TypeOK, Streams
<1>3. \A batch \in Messages : StoreMessage(batch) => TimesOK'
  BY <1>2 DEF StoreMessage, Enter
<1>4. StoreNothing => TimesOK'
  BY <1>2 DEF StoreNothing, Enter
<1>5. ASSUME NEW t \in Tags, VisitTag(t) PROVE TimesOK'
  <2>1. endTime \in Nat
    BY <1>1, <1>5 DEF VisitTag, TypeOK, CallOK
  <2>2. /\ UNCHANGED <<clock, endTime, currentStream>>
        /\ \A u \in Tags : lastFlushTime'[u] \in {lastFlushTime[u], endTime}
    BY <1>1, <1>5 DEF VisitTag, TypeOK
  <2>3. QED
    BY <1>2, <2>1, <2>2
<1>6. ASSUME NEW t \in Tags, FlushObject(t) PROVE TimesOK'
  <2>1. endTime \in Nat /\ StreamOf(t).ID \in {endTime, currentStream[t].ID}
    BY <1>6, NextObjectType DEF FlushObject, StreamOf
  <2>2. currentStream'[t].ID = StreamOf(t).ID
    BY <1>1, <1>6, NextObjectType DEF FlushObject, TypeOK
  <2>3. QED
    BY <1>1, <1>2, <1>6, <2>1, <2>2 DEF FlushObject, TypeOK, Never
<1>7. \A t \in Tags : LeaveTag(t) => TimesOK'
  BY DEF LeaveTag
<1>8. CASE Return
  <2>1. endTime \in Nat /\ UNCHANGED <<clock, lastFlushTime, currentStream>>
    BY <1>1, <1>8 DEF Return, memory, TypeOK
  <2>2. endTime' = Never
    BY <1>8 DEF Return
  <2>3. QED
    BY <1>2, <2>1, <2>2
<1>9. \A t \in Tags : FireTimer(t) => TimesOK'
  BY DEF FireTimer, memory, callState
<1>10. CASE Tick
  <2>1. /\ endTime \in Nat \cup {Never}
        /\ clock' = clock + 1
        /\ UNCHANGED <<endTime, lastFlushTime, currentStream>>
    BY <1>1, <1>10 DEF Tick, memory, callState, TypeOK
  <2>2. QED
    BY <1>2, <2>1
<1>11. Restart => TimesOK'
  BY <1>1, <1>2, ConfigAssumption DEF Restart, Never, NoStream
<1>12. UNCHANGED vars => TimesOK'
  BY DEF vars, memory, callState
<1>13. QED
  BY <1>3, <1>4, <1>5, <1>6, <1>7, <1>8, <1>9, <1>10, <1>11, <1>12
  DEF Next, Call, FailToFlush, FinishTag

\* A step that leaves the object store and the streams alone keeps KeysTaken.
LEMMA KeysKept ==
  ASSUME KeysInv, TimesOK', TypeOK', UNCHANGED <<bucket, currentStream>>,
         Now <= Now'
  PROVE  KeysTaken'
<1>1. Now \in Nat /\ Now' \in Nat
  BY DEF KeysInv, TypeInv, TypeOK, Now, Never
<1>2. Second(Now) \in Nat /\ Second(Now') \in Nat /\ Second(Now) <= Second(Now')
  BY <1>1, SecondMonotonic
<1>3. \A k \in DOMAIN bucket : k[2] \in Nat
  BY DEF KeysInv, TypeInv, TypeOK
<1>4. ASSUME NEW k \in DOMAIN bucket, currentStream[k[1]].ID = Never
      PROVE  k[2] < Second(Now')
  <2>1. k[2] < Second(Now)
    BY <1>4 DEF KeysInv, KeysTaken
  <2>2. QED
    BY <1>2, <1>3, <2>1
<1>5. QED
  BY <1>4 DEF KeysInv, KeysTaken

\* Every step keeps the keys in order.
LEMMA KeysStep ==
  ASSUME KeyAssumptions
  PROVE  KeysInv /\ [Next]_vars => KeysInv'
<1> SUFFICES ASSUME KeysInv, [Next]_vars PROVE KeysTaken'
  BY TypeStep, TimesStep DEF KeysInv
<1>1. TypeInv /\ TypeOK /\ CallOK /\ TimesOK /\ TypeOK' /\ TimesOK'
  BY TypeStep, TimesStep DEF KeysInv, TypeInv
<1>2. \A k \in DOMAIN bucket : k \in Tags \X Nat \X Nat
  BY <1>1 DEF TypeOK
<1>3. clock \in Nat /\ endTime \in Nat \cup {Never} /\ Now <= clock
  BY <1>1 DEF TypeOK, TimesOK
<1>4. \A batch \in Messages : StoreMessage(batch) => KeysTaken'
  BY <1>1, <1>3, KeysKept DEF StoreMessage, Enter, Now, Never
<1>5. StoreNothing => KeysTaken'
  BY <1>1, <1>3, KeysKept DEF StoreNothing, Enter, Now, Never
<1>6. ASSUME NEW t \in Tags, VisitTag(t) PROVE KeysTaken'
  BY <1>1, <1>3, <1>6, KeysKept DEF VisitTag, Now, Never
<1>7. ASSUME NEW t \in Tags, FlushObject(t) PROVE KeysTaken'
  <2> DEFINE s == StreamOf(t)
             key == ObjectKey(t)
  <2>1. /\ current = t
        /\ endTime \in Nat
        /\ s \in [ID : Nat, SeqNumber : Nat]
    BY <1>1, <1>7, NextObjectType DEF FlushObject
  <2>2. \A k \in DOMAIN bucket : k[1] = t => UsedIn(s, k)
    BY <2>1, KeyIsFree
  <2>3. currentStream'[t] = [s EXCEPT !.SeqNumber = @ + 1]
    BY <1>1, <1>7 DEF FlushObject, TypeOK
  <2>4. currentStream'[t].ID = s.ID /\ currentStream'[t].SeqNumber = s.SeqNumber + 1
    BY <2>1, <2>3
  <2>5. DOMAIN bucket' = DOMAIN bucket \cup {key}
    BY <1>7 DEF FlushObject, Put
  <2>6. key[1] = t /\ key[2] = Second(s.ID) /\ key[3] = s.SeqNumber
    BY DEF ObjectKey
  <2>7. Now' = Now
    BY <1>7 DEF FlushObject, Now
  <2>8. ASSUME NEW k \in DOMAIN bucket'
        PROVE  LET r == currentStream'[k[1]] IN
               IF r.ID = Never
               THEN k[2] < Second(Now')
               ELSE UsedIn(r, k)
    <3>1. CASE k[1] = t
      <4>1. s.ID # Never
        BY <2>1 DEF Never
      <4>2. CASE k = key
        BY <2>1, <2>4, <2>6, <3>1, <4>1, <4>2 DEF UsedIn
      <4>3. CASE k \in DOMAIN bucket
        BY <1>2, <2>1, <2>2, <2>4, <3>1, <4>1, <4>3 DEF UsedIn
      <4>4. QED
        BY <2>5, <4>2, <4>3
    <3>2. CASE k[1] # t
      <4>1. k \in DOMAIN bucket
        BY <2>5, <2>6, <3>2
      <4>2. currentStream'[k[1]] = currentStream[k[1]]
        BY <1>1, <1>2, <1>7, <3>2, <4>1 DEF FlushObject, TypeOK
      <4>3. QED
        BY <2>7, <4>1, <4>2 DEF KeysInv, KeysTaken
    <3>3. QED
      BY <3>1, <3>2
  <2>9. QED
    BY <2>8 DEF KeysTaken, UsedIn, Second
<1>8. ASSUME NEW t \in Tags, NEW fault \in WriteFaults, FailToFlush(t, fault)
      PROVE  KeysTaken'
  <2>1. UNCHANGED bucket
    BY <1>8 DEF FailToFlush, KeyAssumptions
  <2>2. QED
    BY <1>1, <1>3, <1>8, <2>1, KeysKept DEF FailToFlush, LeaveTag, Now, Never
<1>9. ASSUME NEW t \in Tags, FinishTag(t) PROVE KeysTaken'
  BY <1>1, <1>3, <1>9, KeysKept DEF FinishTag, LeaveTag, Now, Never
<1>10. CASE Return
  BY <1>1, <1>3, <1>10, KeysKept DEF Return, memory, Now, Never
<1>11. ASSUME NEW t \in Tags, FireTimer(t) PROVE KeysTaken'
  BY <1>1, <1>3, <1>11, KeysKept DEF FireTimer, memory, callState, Now, Never
<1>12. CASE Tick
  BY <1>1, <1>3, <1>12, KeysKept DEF Tick, memory, callState, Now, Never
<1>13. CASE Restart
  <2>1. clock' \in Nat /\ clock + TicksPerSecond <= clock' /\ Now' = clock'
    BY <1>3, <1>13, ConfigAssumption DEF Restart, Now
  <2>2. Second(clock) < Second(clock') /\ Second(clock) \in Nat /\ Second(clock') \in Nat
    BY <1>3, <2>1, SecondStep, SecondMonotonic
  <2>3. ASSUME NEW k \in DOMAIN bucket PROVE k[2] < Second(clock')
    <3> DEFINE s == currentStream[k[1]]
    <3>1. s.ID \in Nat \cup {Never} /\ s.ID <= Now /\ Now \in Nat
      BY <1>1, <1>2, <1>3 DEF TypeOK, TimesOK, Streams, Now
    <3>2. CASE s.ID = Never
      <4>1. k[2] < Second(Now) /\ Second(Now) <= Second(clock) /\ Second(Now) \in Nat
        BY <1>3, <3>1, <3>2, SecondMonotonic DEF KeysInv, KeysTaken
      <4>2. QED
        BY <1>2, <2>2, <4>1
    <3>3. CASE s.ID # Never
      <4>1. k[2] <= Second(s.ID)
        BY <1>2, <3>1, <3>3, SecondMonotonic DEF KeysInv, KeysTaken, UsedIn
      <4>2. Second(s.ID) <= Second(clock) /\ Second(s.ID) \in Nat
        BY <1>3, <3>1, <3>3, SecondMonotonic
      <4>3. QED
        BY <1>2, <2>2, <4>1, <4>2
    <3>4. QED
      BY <3>2, <3>3
  <2>4. \A k \in DOMAIN bucket : currentStream'[k[1]].ID = Never
    BY <1>2, <1>13 DEF Restart, NoStream
  <2>5. bucket' = bucket
    BY <1>13 DEF Restart
  <2>6. QED
    BY <2>1, <2>3, <2>4, <2>5 DEF KeysTaken, Second
<1>14. CASE UNCHANGED vars
  BY <1>1, <1>3, <1>14, KeysKept DEF vars, memory, callState, Now, Never
<1>15. QED
  BY <1>4, <1>5, <1>6, <1>7, <1>8, <1>9, <1>10, <1>11, <1>12, <1>13, <1>14
  DEF Next, Call

\* No object of the store is ever written over, over any sequence of messages,
\* late timers, rejected writes, rolled streams and restarts, provided that an
\* error means that nothing was stored and streams last a second or more.
THEOREM KeysNeverReused ==
  ASSUME KeyAssumptions
  PROVE  Spec => NothingOverwritten
<1>1. KeysInv /\ [Next]_vars =>
        [\A k \in DOMAIN bucket : k \in DOMAIN bucket' /\ bucket'[k] = bucket[k]]_vars
  <2> SUFFICES ASSUME KeysInv, Next, NEW k \in DOMAIN bucket
               PROVE  k \in DOMAIN bucket' /\ bucket'[k] = bucket[k]
    OBVIOUS
  <2>1. CASE UNCHANGED bucket
    BY <2>1
  <2>2. ASSUME NEW t \in Tags, FlushObject(t)
        PROVE  k \in DOMAIN bucket' /\ bucket'[k] = bucket[k]
    <3>1. current = t /\ TypeInv
      BY <2>2 DEF FlushObject, KeysInv
    <3>2. StreamOf(t) \in [ID : Nat, SeqNumber : Nat]
      BY <3>1, NextObjectType
    <3>3. Second(StreamOf(t).ID) \in Nat
      BY <3>2, SecondMonotonic
    <3>4. k # ObjectKey(t)
      BY <3>1, <3>2, <3>3, KeyIsFree DEF ObjectKey, UsedIn
    <3>5. QED
      BY <2>2, <3>4 DEF FlushObject, Put
  <2>3. QED
    BY <2>1, <2>2
    DEF Next, Call, StoreMessage, StoreNothing, Enter, VisitTag, FailToFlush,
        FinishTag, Return, FireTimer, Tick, Restart, KeyAssumptions
<1>2. QED
  BY <1>1, KeysInit, KeysStep, PTL DEF Spec, NothingOverwritten

(***************************************************************************)
(* The timers: as long as no write fails, the flows the storer keeps in    *)
(* memory always have a flush to wait for.                                 *)
(***************************************************************************)

\* An armed timer is due when the flows of t are, or later.
TimerFor(t) ==
  \E u \in Tags : flushTimers[u] >= lastFlushTime[t] + MaxObjectDuration

\* The flows of t, if it has any, have waited long enough.
OldEnough(t) == clock - lastFlushTime[t] >= MaxObjectDuration

\* A tag whose timer the call will arm got its flush time from the call.
ResetIsNew == \A t \in reset : lastFlushTime[t] = endTime /\ endTime # Never

\* A tag the storer knows has a timer, will get one, or is due at once.
KnownCovered == \A t \in Known : t \in reset \/ TimerFor(t) \/ OldEnough(t)

\* The flows of t stay in memory after the call and will not be forgotten.
Settled(t) ==
  /\ MaxObjectDuration > 0
  /\ t \in Known
  /\ t \in reset \/ TimerFor(t) \/ (waiting > 0 /\ OldEnough(t))

\* Flows in memory are the call's to look at, or they are settled.
FlowsSettled ==
  \A t \in Tags : flows[t] # <<>> => t \in todo \/ t = current \/ Settled(t)

TimersInv == TypeInv /\ TimesOK /\ ResetIsNew /\ KnownCovered /\ FlowsSettled

LEMMA TimerTypes ==
  ASSUME TimersInv
  PROVE  /\ TypeOK /\ CallOK
         /\ clock \in Nat /\ endTime \in Nat \cup {Never} /\ waiting \in Nat
         /\ MaxObjectDuration \in Nat
         /\ \A t \in Tags : /\ lastFlushTime[t] \in Nat \cup {Never}
                            /\ lastFlushTime[t] <= clock
                            /\ flushTimers[t] \in Nat \cup {Never}
         /\ \A t \in Tags : endTime # Never => lastFlushTime[t] <= endTime
         /\ Known \subseteq Tags /\ \A t \in Known : lastFlushTime[t] \in Nat
BY ConfigAssumption
DEF TimersInv, TypeInv, TypeOK, TimesOK, Now, Known, Never

\* Time and the timers' firing take no cover away.
LEMMA CoverKept ==
  ASSUME TimersInv, NEW t \in Known, lastFlushTime'[t] = lastFlushTime[t],
         clock' \in Nat, clock <= clock',
         \/ UNCHANGED <<flushTimers, waiting>>
         \/ \E u \in Tags : FireTimer(u)
  PROVE  /\ TimerFor(t) \/ OldEnough(t) => TimerFor(t)' \/ OldEnough(t)'
         /\ TimerFor(t) \/ (waiting > 0 /\ OldEnough(t)) =>
              TimerFor(t)' \/ (waiting' > 0 /\ OldEnough(t)')
<1>1. /\ clock \in Nat /\ waiting \in Nat /\ MaxObjectDuration \in Nat
      /\ lastFlushTime[t] \in Nat /\ TypeOK
      /\ \A u \in Tags : flushTimers[u] \in Nat \cup {Never}
  BY TimerTypes
<1>2. OldEnough(t) => OldEnough(t)'
  BY <1>1 DEF OldEnough
<1>3. CASE UNCHANGED <<flushTimers, waiting>>
  BY <1>2, <1>3 DEF TimerFor
<1>4. ASSUME NEW u \in Tags, FireTimer(u)
      PROVE  /\ waiting' > 0
             /\ TimerFor(t) => TimerFor(t)' \/ OldEnough(t)
  <2>1. /\ waiting' = waiting + 1 /\ flushTimers[u] <= clock
        /\ flushTimers' = [flushTimers EXCEPT ![u] = Never]
    BY <1>4 DEF FireTimer
  <2>2. ASSUME NEW v \in Tags,
               flushTimers[v] >= lastFlushTime[t] + MaxObjectDuration
        PROVE  TimerFor(t)' \/ OldEnough(t)
    <3>1. CASE v = u
      BY <1>1, <2>1, <2>2, <3>1 DEF OldEnough, Never
    <3>2. CASE v # u
      <4>1. flushTimers'[v] = flushTimers[v]
        BY <1>1, <2>1, <3>2 DEF TypeOK
      <4> QED
        BY <2>2, <4>1 DEF TimerFor
    <3> QED
      BY <3>1, <3>2
  <2> QED
    BY <1>1, <2>1, <2>2 DEF TimerFor
<1> QED
  BY <1>2, <1>3, <1>4

\* A step that touches neither the call nor the buffers.
LEMMA TimersKept ==
  ASSUME TimersInv, UNCHANGED <<flows, lastFlushTime, todo, current, reset, endTime>>,
         clock' \in Nat, clock <= clock',
         \/ UNCHANGED <<flushTimers, waiting>>
         \/ \E u \in Tags : FireTimer(u)
  PROVE  ResetIsNew' /\ KnownCovered' /\ FlowsSettled'
<1>1. Known' = Known
  BY DEF Known
<1>2. ResetIsNew'
  BY DEF TimersInv, ResetIsNew
<1>3. KnownCovered'
  BY <1>1, CoverKept DEF TimersInv, KnownCovered
<1>4. \A t \in Tags : Settled(t) => Settled(t)'
  BY <1>1, CoverKept DEF Settled
<1> QED
  BY <1>2, <1>3, <1>4 DEF TimersInv, FlowsSettled

\* A call starts: it will visit every tag that has flows.
LEMMA TimersEnter ==
  ASSUME TimersInv, NEW tags, Enter(Known \cup tags),
         \A t \in Tags : flows'[t] # <<>> => t \in tags \/ flows[t] # <<>>
  PROVE  ResetIsNew' /\ KnownCovered' /\ FlowsSettled'
<1>1. /\ endTime = Never /\ todo' = Known \cup tags
      /\ UNCHANGED <<clock, lastFlushTime, flushTimers, reset>>
      /\ todo = {} /\ current = NoTag /\ reset = {}
  BY TimerTypes DEF Enter, CallOK
<1>2. KnownCovered'
  BY <1>1 DEF TimersInv, KnownCovered, Known, TimerFor, OldEnough
<1>3. \A t \in Tags : flows[t] # <<>> => t \in Known
  BY <1>1, ConfigAssumption DEF TimersInv, FlowsSettled, Settled
<1> QED
  BY <1>1, <1>2, <1>3 DEF ResetIsNew, FlowsSettled

\* The visit of a tag that was not known gives it a flush time.
LEMMA TimersVisit ==
  ASSUME TimersInv, NEW t \in Tags, VisitTag(t)
  PROVE  ResetIsNew' /\ KnownCovered' /\ FlowsSettled'
<1>1. /\ TypeOK /\ endTime \in Nat
      /\ current' = t /\ todo' = todo \ {t} /\ current = NoTag
      /\ UNCHANGED <<clock, flows, flushTimers, waiting, endTime>>
  BY TimerTypes DEF VisitTag, CallOK
<1>2. CASE lastFlushTime[t] = Never
  <2>1. /\ lastFlushTime' = [lastFlushTime EXCEPT ![t] = endTime]
        /\ reset' = reset \cup {t}
    BY <1>2 DEF VisitTag
  <2>2. \A u \in Tags : u # t => lastFlushTime'[u] = lastFlushTime[u]
    BY <1>1, <2>1 DEF TypeOK
  <2>3. lastFlushTime'[t] = endTime /\ endTime # Never
    BY <1>1, <2>1 DEF TypeOK, Never
  <2>4. ResetIsNew'
    BY <1>1, <2>1, <2>2, <2>3 DEF TimersInv, ResetIsNew, TypeOK
  <2>5. ASSUME NEW u \in Tags, u # t
        PROVE  /\ u \in Known' <=> u \in Known
               /\ TimerFor(u)' <=> TimerFor(u)
               /\ OldEnough(u)' <=> OldEnough(u)
    BY <1>1, <2>2, <2>5 DEF Known, TimerFor, OldEnough
  <2>6. KnownCovered'
    BY <2>1, <2>5 DEF TimersInv, KnownCovered, Known
  <2>7. FlowsSettled'
    BY <1>1, <2>1, <2>5, ConfigAssumption DEF TimersInv, FlowsSettled, Settled
  <2> QED
    BY <2>4, <2>6, <2>7
<1>3. CASE lastFlushTime[t] # Never
  <2>1. UNCHANGED <<lastFlushTime, reset>>
    BY <1>3 DEF VisitTag
  <2>2. ResetIsNew' /\ KnownCovered'
    BY <1>1, <2>1
    DEF TimersInv, ResetIsNew, KnownCovered, Known, TimerFor, OldEnough
  <2>3. \A u \in Tags : Settled(u) => Settled(u)'
    BY <1>1, <2>1 DEF Settled, Known, TimerFor, OldEnough
  <2>4. \A u \in Tags : u \in todo \/ u = current => u \in todo' \/ u = current'
    BY <1>1, ConfigAssumption
  <2>5. FlowsSettled'
    BY <1>1, <2>3, <2>4 DEF TimersInv, FlowsSettled
  <2> QED
    BY <2>2, <2>5
<1> QED
  BY <1>2, <1>3

\* A flush gives the tag a new flush time.
LEMMA TimersFlush ==
  ASSUME TimersInv, NEW t \in Tags, FlushObject(t)
  PROVE  ResetIsNew' /\ KnownCovered' /\ FlowsSettled'
<1>1. /\ TypeOK /\ endTime \in Nat /\ current = t
      /\ flows' = [flows EXCEPT ![t] = Rest(t)]
      /\ lastFlushTime' = [lastFlushTime EXCEPT ![t] = endTime]
      /\ reset' = reset \cup {t}
      /\ UNCHANGED <<clock, flushTimers, waiting, endTime, todo, current>>
  BY TimerTypes, NextObjectType DEF FlushObject, TimersInv
<1>2. \A u \in Tags : u # t => lastFlushTime'[u] = lastFlushTime[u]
                              /\ flows'[u] = flows[u]
  BY <1>1 DEF TypeOK
<1>3. lastFlushTime'[t] = endTime /\ endTime # Never
  BY <1>1 DEF TypeOK, Never
<1>4. ResetIsNew'
  BY <1>1, <1>2, <1>3 DEF TimersInv, ResetIsNew, TypeOK
<1>5. ASSUME NEW u \in Tags, u # t
      PROVE  /\ u \in Known' <=> u \in Known
             /\ TimerFor(u)' <=> TimerFor(u)
             /\ OldEnough(u)' <=> OldEnough(u)
  BY <1>1, <1>2, <1>5 DEF Known, TimerFor, OldEnough
<1>6. KnownCovered'
  BY <1>1, <1>5 DEF TimersInv, KnownCovered, Known
<1>7. FlowsSettled'
  BY <1>1, <1>2, <1>5 DEF TimersInv, FlowsSettled, Settled
<1> QED
  BY <1>4, <1>6, <1>7

\* A tag is left when its flows, if any, have yet to wait; a timer covers them.
LEMMA TimersFinish ==
  ASSUME TimersInv, NEW t \in Tags, FinishTag(t)
  PROVE  ResetIsNew' /\ KnownCovered' /\ FlowsSettled'
<1>1. /\ TypeOK /\ current = t /\ ~ Due(t)
      /\ flows' = [flows EXCEPT ![t] = Trimmed(t)]
      /\ UNCHANGED <<clock, lastFlushTime, flushTimers, waiting, endTime, todo, reset>>
  BY TimerTypes DEF FinishTag, LeaveTag
<1>2. ResetIsNew' /\ KnownCovered'
  BY <1>1 DEF TimersInv, ResetIsNew, KnownCovered, Known, TimerFor, OldEnough
<1>3. \A u \in Tags : Settled(u) => Settled(u)'
  BY <1>1 DEF Settled, Known, TimerFor, OldEnough
<1>4. ASSUME flows'[t] # <<>> PROVE Settled(t)
  <2>1. flows[t] # <<>>
    <3>1. /\ flows'[t] = Trimmed(t) /\ flows[t] \in Seq(Nat)
          /\ Trimmed(t) \in Seq(Nat) /\ Len(Trimmed(t)) <= Len(flows[t])
      BY <1>1, TrimmedPieces DEF TypeOK
    <3> QED
      BY <1>4, <3>1, EmptySeq
  <2>2. ~ OldEnough(t)
    BY <1>1, <2>1 DEF Due, OldEnough
  <2>3. t \in Known
    BY <1>1, TimerTypes, ConfigAssumption DEF CallOK, Known
  <2>4. MaxObjectDuration > 0
    BY <2>2, <2>3, TimerTypes DEF OldEnough
  <2> QED
    BY <2>2, <2>3, <2>4 DEF TimersInv, KnownCovered, Settled
<1>5. \A u \in Tags : u # t => flows'[u] = flows[u]
  BY <1>1 DEF TypeOK
<1> QED
  BY <1>1, <1>2, <1>3, <1>4, <1>5 DEF TimersInv, FlowsSettled

\* At the end of a call one timer serves all the tags whose timers it stops, and
\* every tag that was flushed before.
LEMMA TimersReturn ==
  ASSUME TimersInv, Return
  PROVE  ResetIsNew' /\ KnownCovered' /\ FlowsSettled'
<1>1. /\ TypeOK /\ endTime \in Nat /\ todo = {} /\ current = NoTag
      /\ reset' = {}
      /\ UNCHANGED <<clock, lastFlushTime, waiting>>
      /\ \A t \in Tags : flows'[t] # <<>> => flows[t] # <<>>
      /\ Known' = Known
  BY TimerTypes DEF Return, Copied, Known
<1>2. ResetIsNew'
  BY <1>1 DEF ResetIsNew
<1>3. \A t \in Tags : flows[t] # <<>> => Settled(t)
  BY <1>1, ConfigAssumption DEF TimersInv, FlowsSettled
<1>4. CASE reset = {}
  <2>1. flushTimers' = flushTimers
    BY <1>1, <1>4 DEF Return, Rearmed, TypeOK
  <2> QED
    BY <1>1, <1>2, <1>3, <1>4, <2>1
    DEF TimersInv, KnownCovered, FlowsSettled, Settled, TimerFor, OldEnough
<1>5. CASE reset # {} /\ MaxObjectDuration > 0
  <2>1. PICK owner \in reset : flushTimers' = Rearmed(owner)
    BY <1>5 DEF Return
  <2>2. owner \in Tags /\ flushTimers'[owner] = endTime + MaxObjectDuration
    BY <1>1, <2>1 DEF Rearmed, TypeOK
  <2>3. \A t \in Known : TimerFor(t)'
    <3>1. \A t \in Known : lastFlushTime[t] \in Nat /\ lastFlushTime[t] <= endTime
      BY <1>1, TimerTypes DEF Never
    <3> QED
      BY <1>1, <2>2, <3>1, ConfigAssumption DEF TimerFor
  <2> QED
    BY <1>1, <1>2, <1>3, <1>5, <2>3 DEF KnownCovered, FlowsSettled, Settled
<1>6. CASE ~ (MaxObjectDuration > 0)
  <2>1. \A t \in Known : OldEnough(t)'
    BY <1>1, <1>6, TimerTypes DEF OldEnough
  <2> QED
    BY <1>1, <1>2, <1>3, <1>6, <2>1 DEF KnownCovered, FlowsSettled, Settled
<1> QED
  BY <1>4, <1>5, <1>6

LEMMA TimersStep ==
  ASSUME WriteFaults = {}
  PROVE  TimersInv /\ [Next]_vars => TimersInv'
<1> SUFFICES ASSUME TimersInv, [Next]_vars
             PROVE  ResetIsNew' /\ KnownCovered' /\ FlowsSettled'
  BY TypeStep, TimesStep DEF TimersInv
<1>1. TypeOK /\ clock \in Nat
  BY TimerTypes
<1>2. ASSUME NEW batch \in Messages, StoreMessage(batch)
      PROVE  ResetIsNew' /\ KnownCovered' /\ FlowsSettled'
  <2>1. \A t \in Tags : flows'[t] # <<>> => t \in DOMAIN batch \/ flows[t] # <<>>
    BY <1>2 DEF StoreMessage
  <2> QED
    BY <1>2, <2>1, TimersEnter DEF StoreMessage
<1>3. CASE StoreNothing
  <2>1. Enter(Known \cup {}) /\ flows' = flows
    BY <1>3 DEF StoreNothing
  <2> QED
    BY <2>1, TimersEnter
<1>4. CASE Tick
  <2>1. clock' \in Nat /\ clock <= clock'
    BY <1>1, <1>4 DEF Tick
  <2> QED
    BY <1>4, <2>1, TimersKept DEF Tick, memory, callState
<1>5. ASSUME NEW t \in Tags, FireTimer(t)
      PROVE  ResetIsNew' /\ KnownCovered' /\ FlowsSettled'
  <2>1. UNCHANGED <<clock, flows, lastFlushTime, todo, current, reset, endTime>>
    BY <1>5 DEF FireTimer, memory, callState
  <2> QED
    BY <1>1, <1>5, <2>1, TimersKept
<1>6. CASE Restart
  <2>1. Known' = {} /\ reset' = {} /\ \A t \in Tags : flows'[t] = <<>>
    BY <1>6 DEF Restart, Known
  <2> QED
    BY <2>1 DEF ResetIsNew, KnownCovered, FlowsSettled
<1>7. CASE UNCHANGED vars
  BY <1>1, <1>7, TimersKept DEF vars, memory, callState
<1>8. Call => ResetIsNew' /\ KnownCovered' /\ FlowsSettled'
  BY TimersVisit, TimersFlush, TimersFinish, TimersReturn DEF Call
<1> QED
  BY <1>2, <1>3, <1>4, <1>5, <1>6, <1>7, <1>8 DEF Next

\* store_buffered.go:114-135: as long as no write fails, flows that stay in
\* memory after a call have an armed timer or a callback that is about to run,
\* over any order of messages, late callbacks, shared timers and restarts.
THEOREM FlushAlwaysPending ==
  ASSUME WriteFaults = {}
  PROVE  Spec => []FlushIsPending
<1>1. Init => TimersInv
  BY TypeInit, KeysInit
     DEF Init, KeysInv, TimersInv, ResetIsNew, KnownCovered, Known, FlowsSettled
<1>2. TimersInv => FlushIsPending
  <2> SUFFICES ASSUME TimersInv, endTime = Never, NEW t \in Tags, flows[t] # <<>>
               PROVE  TimerFor(t) \/ (waiting > 0 /\ OldEnough(t))
    BY DEF FlushIsPending, TimerFor, OldEnough
  <2>1. todo = {} /\ current = NoTag /\ reset = {}
    BY TimerTypes DEF CallOK
  <2> QED
    BY <2>1, ConfigAssumption DEF TimersInv, FlowsSettled, Settled
<1> QED
  BY <1>1, <1>2, TimersStep, PTL DEF Spec

\* A machine that is never late is one of the machines of Spec, so that every
\* theorem above, and FlushAlwaysPending among them, is about it as well.
THEOREM TimedStorerIsStorer == TimedSpec => Spec
<1>1. TimedNext => Next
  BY DEF TimedNext, Next, TimedTick
<1> QED
  BY <1>1, PTL DEF TimedSpec, Spec

(***************************************************************************)
(* On a machine that is never late no flow waits twice the time of an      *)
(* object.  A timer that covers t is due less than two durations after the *)
(* flush of t: the call that armed it found t younger than one duration.   *)
(***************************************************************************)

\* An armed timer covers t, and soon enough.
TimerSoon(t) ==
  \E u \in Tags :
    /\ flushTimers[u] >= lastFlushTime[t] + MaxObjectDuration
    /\ flushTimers[u] < lastFlushTime[t] + 2 * MaxObjectDuration

\* A call takes no time, and a timer that is due fires before time passes.
OnTime ==
  /\ endTime # Never => endTime = clock
  /\ \A u \in Tags : flushTimers[u] = Never \/ flushTimers[u] >= clock

KnownTimely == \A t \in Known : t \in reset \/ TimerSoon(t) \/ OldEnough(t)

\* A callback is about to run, in time for t.
CallbackSoon(t) ==
  waiting > 0 /\ clock < lastFlushTime[t] + 2 * MaxObjectDuration

\* What a call leaves in memory is young and covered by the timer it will arm
\* or by one it leaves alone.
Covered(t) ==
  IF endTime = Never
  THEN TimerSoon(t) \/ CallbackSoon(t)
  ELSE ~ OldEnough(t) /\ (t \in reset \/ TimerSoon(t))

FlowsTimely ==
  \A t \in Tags :
    flows[t] # <<>> => t \in todo \/ t = current \/ (t \in Known /\ Covered(t))

Timely == OnTime /\ KnownTimely /\ FlowsTimely

TimelyInv == TypeInv /\ TimesOK /\ ResetIsNew /\ Timely

LEMMA TimelyTypes ==
  ASSUME TimelyInv
  PROVE  /\ TypeOK /\ CallOK
         /\ clock \in Nat /\ endTime \in Nat \cup {Never} /\ waiting \in Nat
         /\ MaxObjectDuration \in Nat
         /\ \A t \in Tags : /\ lastFlushTime[t] \in Nat \cup {Never}
                            /\ lastFlushTime[t] <= clock
                            /\ flushTimers[t] \in Nat \cup {Never}
         /\ Known \subseteq Tags /\ \A t \in Known : lastFlushTime[t] \in Nat
BY ConfigAssumption
DEF TimelyInv, TypeInv, TypeOK, TimesOK, Now, Known, Never

\* A step that touches neither the call nor the buffers: time passes for an idle
\* storer, or a timer fires in time.
LEMMA TimelyKept ==
  ASSUME TimelyInv, UNCHANGED <<flows, lastFlushTime, todo, current, reset, endTime>>,
         \/ TimedTick
         \/ \E u \in Tags : FireTimer(u)
         \/ UNCHANGED <<clock, flushTimers, waiting>>
  PROVE  ResetIsNew' /\ Timely'
<1>1. /\ TypeOK /\ clock \in Nat /\ waiting \in Nat /\ MaxObjectDuration \in Nat
      /\ \A u \in Tags : flushTimers[u] \in Nat \cup {Never}
      /\ Known' = Known /\ Known \subseteq Tags
      /\ \A t \in Known : lastFlushTime[t] \in Nat
  BY TimelyTypes DEF Known
<1>2. ResetIsNew'
  BY DEF TimelyInv, ResetIsNew
<1> SUFFICES Timely'
  BY <1>2
<1>3. CASE UNCHANGED <<clock, flushTimers, waiting>>
  BY <1>1, <1>3
  DEF TimelyInv, Timely, OnTime, KnownTimely, FlowsTimely, TimerSoon, OldEnough,
      Covered, CallbackSoon
<1>4. CASE TimedTick
  <2>1. /\ endTime = Never /\ waiting = 0 /\ clock' = clock + 1
        /\ UNCHANGED <<flushTimers, waiting>>
        /\ \A u \in Tags : flushTimers[u] = Never \/ flushTimers[u] > clock
    BY <1>4 DEF TimedTick, Tick, Prompt
  <2>2. OnTime'
    BY <1>1, <2>1 DEF OnTime
  <2>3. \A t \in Tags : TimerSoon(t)' <=> TimerSoon(t)
    BY <2>1 DEF TimerSoon
  <2>4. KnownTimely'
    BY <1>1, <2>1, <2>3 DEF TimelyInv, Timely, KnownTimely, OldEnough
  <2>5. FlowsTimely'
    BY <1>1, <2>1, <2>3 DEF TimelyInv, Timely, FlowsTimely, Covered, CallbackSoon
  <2> QED
    BY <2>2, <2>4, <2>5 DEF Timely
<1>5. ASSUME NEW u \in Tags, FireTimer(u) PROVE Timely'
  <2>1. /\ clock' = clock /\ waiting' = waiting + 1
        /\ flushTimers[u] <= clock /\ flushTimers[u] # Never
        /\ flushTimers' = [flushTimers EXCEPT ![u] = Never]
    BY <1>5 DEF FireTimer
  <2>2. /\ flushTimers'[u] = Never
        /\ \A v \in Tags : v # u => flushTimers'[v] = flushTimers[v]
    BY <1>1, <2>1 DEF TypeOK
  <2>3. OnTime'
    BY <2>1, <2>2 DEF TimelyInv, Timely, OnTime
  <2>4. ASSUME NEW t \in Known, TimerSoon(t)
        PROVE  TimerSoon(t)' \/ (OldEnough(t) /\ CallbackSoon(t)')
    <3>1. PICK v \in Tags :
             /\ flushTimers[v] >= lastFlushTime[t] + MaxObjectDuration
             /\ flushTimers[v] < lastFlushTime[t] + 2 * MaxObjectDuration
      BY <2>4 DEF TimerSoon
    <3>2. CASE v = u
      <4>1. flushTimers[u] = clock
        BY <1>1, <2>1 DEF TimelyInv, Timely, OnTime, Never
      <4>2. OldEnough(t)
        BY <1>1, <3>1, <3>2, <4>1 DEF OldEnough
      <4>3. CallbackSoon(t)'
        BY <1>1, <2>1, <3>1, <3>2, <4>1 DEF CallbackSoon
      <4> QED
        BY <4>2, <4>3
    <3>3. CASE v # u
      BY <2>2, <3>1, <3>3 DEF TimerSoon
    <3> QED
      BY <3>2, <3>3
  <2>5. \A t \in Known : OldEnough(t)' <=> OldEnough(t)
    BY <2>1 DEF OldEnough
  <2>6. KnownTimely'
    BY <1>1, <2>4, <2>5 DEF TimelyInv, Timely, KnownTimely
  <2>7. \A t \in Known : CallbackSoon(t) => CallbackSoon(t)'
    BY <1>1, <2>1 DEF CallbackSoon
  <2>8. \A t \in Known : Covered(t) => Covered(t)'
    BY <2>4, <2>5, <2>7 DEF Covered
  <2>9. FlowsTimely'
    BY <1>1, <2>8 DEF TimelyInv, Timely, FlowsTimely
  <2> QED
    BY <2>3, <2>6, <2>9 DEF Timely
<1> QED
  BY <1>3, <1>4, <1>5

\* A call starts: it will visit every tag that has flows.
LEMMA TimelyEnter ==
  ASSUME TimelyInv, NEW tags, Enter(Known \cup tags),
         \A t \in Tags : flows'[t] # <<>> => t \in tags \/ flows[t] # <<>>
  PROVE  ResetIsNew' /\ Timely'
<1>1. /\ endTime = Never /\ endTime' = clock /\ todo' = Known \cup tags
      /\ UNCHANGED <<clock, lastFlushTime, flushTimers, reset>>
      /\ todo = {} /\ current = NoTag /\ reset = {}
  BY TimelyTypes DEF Enter, CallOK
<1>2. KnownTimely'
  BY <1>1 DEF TimelyInv, Timely, KnownTimely, Known, TimerSoon, OldEnough
<1>3. \A t \in Tags : flows[t] # <<>> => t \in Known
  BY <1>1, ConfigAssumption DEF TimelyInv, Timely, FlowsTimely
<1>4. OnTime'
  BY <1>1 DEF TimelyInv, Timely, OnTime
<1> QED
  BY <1>1, <1>2, <1>3, <1>4 DEF Timely, ResetIsNew, FlowsTimely

\* The visit of a tag that was not known gives it a flush time.
LEMMA TimelyVisit ==
  ASSUME TimelyInv, NEW t \in Tags, VisitTag(t)
  PROVE  ResetIsNew' /\ Timely'
<1>1. /\ TypeOK /\ endTime \in Nat /\ endTime # Never
      /\ current' = t /\ todo' = todo \ {t} /\ current = NoTag
      /\ UNCHANGED <<clock, flows, flushTimers, waiting, endTime>>
  BY TimelyTypes DEF VisitTag, CallOK, Never
<1>2. OnTime'
  BY <1>1 DEF TimelyInv, Timely, OnTime
<1>3. CASE lastFlushTime[t] = Never
  <2>1. /\ lastFlushTime' = [lastFlushTime EXCEPT ![t] = endTime]
        /\ reset' = reset \cup {t}
    BY <1>3 DEF VisitTag
  <2>2. \A u \in Tags : u # t => lastFlushTime'[u] = lastFlushTime[u]
    BY <1>1, <2>1 DEF TypeOK
  <2>3. lastFlushTime'[t] = endTime
    BY <1>1, <2>1 DEF TypeOK
  <2>4. ResetIsNew'
    BY <1>1, <2>1, <2>2, <2>3 DEF TimelyInv, ResetIsNew, TypeOK
  <2>5. ASSUME NEW u \in Tags, u # t
        PROVE  /\ u \in Known' <=> u \in Known
               /\ TimerSoon(u)' <=> TimerSoon(u)
               /\ OldEnough(u)' <=> OldEnough(u)
    BY <1>1, <2>2, <2>5 DEF Known, TimerSoon, OldEnough
  <2>6. KnownTimely'
    BY <2>1, <2>5 DEF TimelyInv, Timely, KnownTimely, Known
  <2>7. FlowsTimely'
    BY <1>1, <2>1, <2>5, ConfigAssumption
    DEF TimelyInv, Timely, FlowsTimely, Covered
  <2> QED
    BY <1>2, <2>4, <2>6, <2>7 DEF Timely
<1>4. CASE lastFlushTime[t] # Never
  <2>1. UNCHANGED <<lastFlushTime, reset>>
    BY <1>4 DEF VisitTag
  <2>2. ResetIsNew' /\ KnownTimely'
    BY <1>1, <2>1
    DEF TimelyInv, Timely, ResetIsNew, KnownTimely, Known, TimerSoon, OldEnough
  <2>3. \A u \in Tags : u \in Known /\ Covered(u) => u \in Known' /\ Covered(u)'
    BY <1>1, <2>1 DEF Covered, Known, TimerSoon, OldEnough
  <2>4. FlowsTimely'
    BY <1>1, <2>3, ConfigAssumption DEF TimelyInv, Timely, FlowsTimely
  <2> QED
    BY <1>2, <2>2, <2>4 DEF Timely
<1> QED
  BY <1>3, <1>4

\* A flush gives the tag a new flush time.
LEMMA TimelyFlush ==
  ASSUME TimelyInv, NEW t \in Tags, FlushObject(t)
  PROVE  ResetIsNew' /\ Timely'
<1>1. /\ TypeOK /\ endTime \in Nat /\ current = t
      /\ flows' = [flows EXCEPT ![t] = Rest(t)]
      /\ lastFlushTime' = [lastFlushTime EXCEPT ![t] = endTime]
      /\ reset' = reset \cup {t}
      /\ UNCHANGED <<clock, flushTimers, waiting, endTime, todo, current>>
  BY TimelyTypes, NextObjectType DEF FlushObject, TimelyInv
<1>2. \A u \in Tags : u # t => lastFlushTime'[u] = lastFlushTime[u]
                              /\ flows'[u] = flows[u]
  BY <1>1 DEF TypeOK
<1>3. lastFlushTime'[t] = endTime /\ endTime # Never
  BY <1>1 DEF TypeOK, Never
<1>4. ResetIsNew'
  BY <1>1, <1>2, <1>3 DEF TimelyInv, ResetIsNew, TypeOK
<1>5. ASSUME NEW u \in Tags, u # t
      PROVE  /\ u \in Known' <=> u \in Known
             /\ TimerSoon(u)' <=> TimerSoon(u)
             /\ OldEnough(u)' <=> OldEnough(u)
  BY <1>1, <1>2, <1>5 DEF Known, TimerSoon, OldEnough
<1>6. OnTime'
  BY <1>1 DEF TimelyInv, Timely, OnTime
<1>7. KnownTimely'
  BY <1>1, <1>5 DEF TimelyInv, Timely, KnownTimely, Known
<1>8. FlowsTimely'
  BY <1>1, <1>2, <1>3, <1>5 DEF TimelyInv, Timely, FlowsTimely, Covered
<1> QED
  BY <1>4, <1>6, <1>7, <1>8 DEF Timely

\* A tag is left with flows only when they are young; a timer covers them.
LEMMA TimelyFinish ==
  ASSUME TimelyInv, NEW t \in Tags, FinishTag(t)
  PROVE  ResetIsNew' /\ Timely'
<1>1. /\ TypeOK /\ current = t /\ ~ Due(t) /\ current' = NoTag
      /\ flows' = [flows EXCEPT ![t] = Trimmed(t)]
      /\ UNCHANGED <<clock, lastFlushTime, flushTimers, waiting, endTime, todo, reset>>
  BY TimelyTypes DEF FinishTag, LeaveTag
<1>2. endTime # Never /\ t \in Known
  BY <1>1, TimelyTypes, ConfigAssumption DEF CallOK, Known
<1>3. ResetIsNew' /\ KnownTimely' /\ OnTime'
  BY <1>1
  DEF TimelyInv, Timely, ResetIsNew, KnownTimely, OnTime, Known, TimerSoon, OldEnough
<1>4. \A u \in Tags : u \in Known /\ Covered(u) => u \in Known' /\ Covered(u)'
  BY <1>1 DEF Covered, Known, TimerSoon, OldEnough, CallbackSoon
<1>5. ASSUME flows'[t] # <<>> PROVE Covered(t)
  <2>1. flows[t] # <<>>
    <3>1. /\ flows'[t] = Trimmed(t) /\ flows[t] \in Seq(Nat)
          /\ Trimmed(t) \in Seq(Nat) /\ Len(Trimmed(t)) <= Len(flows[t])
      BY <1>1, TrimmedPieces DEF TypeOK
    <3> QED
      BY <1>5, <3>1, EmptySeq
  <2>2. ~ OldEnough(t)
    BY <1>1, <2>1 DEF Due, OldEnough
  <2> QED
    BY <1>2, <2>2 DEF TimelyInv, Timely, KnownTimely, Covered
<1>6. \A u \in Tags : u # t => flows'[u] = flows[u]
  BY <1>1 DEF TypeOK
<1>7. FlowsTimely'
  BY <1>1, <1>2, <1>4, <1>5, <1>6 DEF TimelyInv, Timely, FlowsTimely
<1> QED
  BY <1>3, <1>7 DEF Timely

\* The timer of a call that ends is due one duration later: soon enough for every
\* tag that is younger than a duration.
LEMMA TimelyReturn ==
  ASSUME TimelyInv, Return
  PROVE  ResetIsNew' /\ Timely'
<1>1. /\ TypeOK /\ clock \in Nat /\ endTime = clock /\ endTime # Never
      /\ todo = {} /\ current = NoTag
      /\ endTime' = Never /\ reset' = {}
      /\ UNCHANGED <<clock, lastFlushTime, waiting>>
      /\ \A t \in Tags : flows'[t] # <<>> => flows[t] # <<>>
      /\ Known' = Known /\ Known \subseteq Tags /\ MaxObjectDuration \in Nat
      /\ \A t \in Known : lastFlushTime[t] \in Nat /\ lastFlushTime[t] <= clock
      /\ \A u \in Tags : flushTimers[u] \in Nat \cup {Never}
  BY TimelyTypes DEF Return, Copied, Known, TimelyInv, Timely, OnTime
<1>2. ResetIsNew'
  BY <1>1 DEF ResetIsNew
<1>3. \A t \in Tags : flows[t] # <<>> =>
        t \in Known /\ ~ OldEnough(t) /\ (t \in reset \/ TimerSoon(t))
  BY <1>1, ConfigAssumption DEF TimelyInv, Timely, FlowsTimely, Covered
<1>4. \A t \in reset : t \in Known /\ lastFlushTime[t] = clock
  BY <1>1 DEF TimelyInv, ResetIsNew, Known, TypeOK
<1>5. OnTime' /\ \A t \in Known : ~ OldEnough(t) => TimerSoon(t)'
  <2>1. CASE reset = {} \/ ~ (MaxObjectDuration > 0)
    <3>1. \A t \in Tags : flushTimers'[t] = IF t \in reset THEN Never ELSE flushTimers[t]
      BY <1>1, <2>1, ConfigAssumption DEF Return, Rearmed, TypeOK
    <3>2. OnTime'
      BY <1>1, <3>1 DEF TimelyInv, Timely, OnTime
    <3>3. ASSUME NEW t \in Known, ~ OldEnough(t) PROVE TimerSoon(t)'
      <4>1. reset = {}
        BY <1>1, <2>1, <3>3 DEF OldEnough
      <4>2. TimerSoon(t)
        BY <3>3, <4>1 DEF TimelyInv, Timely, KnownTimely
      <4> QED
        BY <1>1, <3>1, <4>1, <4>2 DEF TimerSoon
    <3> QED
      BY <3>2, <3>3
  <2>2. CASE reset # {} /\ MaxObjectDuration > 0
    <3>1. PICK owner \in reset : flushTimers' = Rearmed(owner)
      BY <2>2 DEF Return
    <3>2. /\ owner \in Tags /\ flushTimers'[owner] = clock + MaxObjectDuration
          /\ \A u \in Tags : \/ flushTimers'[u] = clock + MaxObjectDuration
                             \/ flushTimers'[u] = Never
                             \/ flushTimers'[u] = flushTimers[u]
      BY <1>1, <3>1 DEF Rearmed, TypeOK
    <3>3. OnTime'
      BY <1>1, <3>2 DEF TimelyInv, Timely, OnTime
    <3>4. ASSUME NEW t \in Known, ~ OldEnough(t) PROVE TimerSoon(t)'
      <4>1. /\ flushTimers'[owner] >= lastFlushTime[t] + MaxObjectDuration
            /\ flushTimers'[owner] < lastFlushTime[t] + 2 * MaxObjectDuration
        BY <1>1, <3>2, <3>4 DEF OldEnough
      <4> QED
        BY <1>1, <3>2, <4>1 DEF TimerSoon
    <3> QED
      BY <3>3, <3>4
  <2> QED
    BY <2>1, <2>2
<1>6. KnownTimely'
  BY <1>1, <1>5 DEF KnownTimely, OldEnough
<1>7. FlowsTimely'
  BY <1>1, <1>3, <1>5 DEF FlowsTimely, Covered
<1> QED
  BY <1>2, <1>5, <1>6, <1>7 DEF Timely

LEMMA TimelyStep ==
  ASSUME WriteFaults = {}
  PROVE  TimelyInv /\ [TimedNext]_vars => TimelyInv'
<1> SUFFICES ASSUME TimelyInv, [TimedNext]_vars
             PROVE  ResetIsNew' /\ Timely'
  <2>1. [TimedNext]_vars => [Next]_vars
    BY DEF TimedNext, TimedTick, Next
  <2> QED
    BY <2>1, TypeStep, TimesStep DEF TimelyInv
<1>1. ASSUME NEW batch \in Messages, StoreMessage(batch)
      PROVE  ResetIsNew' /\ Timely'
  <2>1. \A t \in Tags : flows'[t] # <<>> => t \in DOMAIN batch \/ flows[t] # <<>>
    BY <1>1 DEF StoreMessage
  <2> QED
    BY <1>1, <2>1, TimelyEnter DEF StoreMessage
<1>2. CASE StoreNothing
  <2>1. Enter(Known \cup {}) /\ flows' = flows
    BY <1>2 DEF StoreNothing
  <2> QED
    BY <2>1, TimelyEnter
<1>3. CASE TimedTick
  BY <1>3, TimelyKept DEF TimedTick, Tick, memory, callState
<1>4. ASSUME NEW t \in Tags, FireTimer(t)
      PROVE  ResetIsNew' /\ Timely'
  <2>1. UNCHANGED <<flows, lastFlushTime, todo, current, reset, endTime>>
    BY <1>4 DEF FireTimer, memory, callState
  <2> QED
    BY <1>4, <2>1, TimelyKept
<1>5. CASE UNCHANGED vars
  BY <1>5, TimelyKept DEF vars, memory, callState
<1>6. Call => ResetIsNew' /\ Timely'
  BY TimelyVisit, TimelyFlush, TimelyFinish, TimelyReturn DEF Call
<1> QED
  BY <1>1, <1>2, <1>3, <1>4, <1>5, <1>6 DEF TimedNext

\* store_buffered.go:132, "a single timer will cover all of the flushed tags":
\* on a machine that is never late, with no failed write, no flow waits twice
\* the time of an object, over any sharing and resetting of the timers.
THEOREM FlushedInTime ==
  ASSUME WriteFaults = {}
  PROVE  TimedSpec => []FlushedWithinTwoDurations
<1>1. Init => TimelyInv
  <2>1. Init => TypeInv /\ TimesOK
    BY TypeInit, KeysInit DEF KeysInv
  <2> QED
    BY <2>1
    DEF Init, TimelyInv, Timely, OnTime, KnownTimely, FlowsTimely, ResetIsNew, Known
<1>2. TimelyInv => FlushedWithinTwoDurations
  <2> SUFFICES ASSUME TimelyInv, Prompt, NEW t \in Tags, flows[t] # <<>>
               PROVE  clock < lastFlushTime[t] + 2 * MaxObjectDuration
    BY DEF FlushedWithinTwoDurations
  <2>1. /\ endTime = Never /\ waiting = 0 /\ todo = {} /\ current = NoTag
        /\ clock \in Nat /\ MaxObjectDuration \in Nat
        /\ \A u \in Tags : flushTimers[u] \in Nat \cup {Never}
        /\ \A u \in Tags : flushTimers[u] = Never \/ flushTimers[u] > clock
    BY TimelyTypes DEF Prompt, CallOK
  <2>2. t \in Known /\ TimerSoon(t)
    BY <2>1, ConfigAssumption DEF TimelyInv, Timely, FlowsTimely, Covered, CallbackSoon
  <2>3. lastFlushTime[t] \in Nat
    BY <2>2, TimelyTypes
  <2> QED
    BY <2>1, <2>2, <2>3 DEF TimerSoon, Never
<1> QED
  BY <1>1, <1>2, TimelyStep, PTL DEF TimedSpec
=============================================================================
