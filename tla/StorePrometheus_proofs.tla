----------------------- MODULE StorePrometheus_proofs -----------------------
(***************************************************************************)
(* Proofs about the Prometheus storer, for any items, any timeout and any  *)
(* interleaving of the two writers and the cleaner: its maps and its lists *)
(* hold the same keys, oldest first, and what is cached is exported.       *)
(***************************************************************************)
EXTENDS StorePrometheus, SequenceTheorems, TLAPS

(***************************************************************************)
(* The lists.                                                              *)
(***************************************************************************)

\* Key a stands before key b in a list.
Before(keys, a, b) ==
  \E i, j \in DOMAIN keys : i < j /\ keys[i] = a /\ keys[j] = b

\* A list with one key taken out.
LEMMA RemoveAtPieces ==
  ASSUME NEW S, NEW s \in Seq(S), NEW p \in 1..Len(s)
  PROVE  /\ RemoveAt(s, p) \in Seq(S)
         /\ Len(RemoveAt(s, p)) = Len(s) - 1
         /\ \A i \in 1..(Len(s) - 1) :
              RemoveAt(s, p)[i] = IF i < p THEN s[i] ELSE s[i + 1]
<1> DEFINE n == Len(s)
           f == SubSeq(s, 1, p - 1)
           g == SubSeq(s, p + 1, n)
<1>1. n \in Nat /\ p \in 1..n /\ \A i \in 1..n : s[i] \in S
  BY LenProperties, ElementOfSeq
<1>2. /\ f \in Seq(S) /\ Len(f) = p - 1
      /\ \A i \in 1..(p - 1) : f[i] = s[i]
  <2>1. \A i \in 1..(p - 1) : s[i] \in S
    BY <1>1
  <2>2. p - 1 \in Int /\ 1 \in Int
    BY <1>1
  <2>3. /\ f \in Seq(S)
        /\ Len(f) = IF 1 <= p - 1 THEN (p - 1) - 1 + 1 ELSE 0
        /\ \A i \in 1..((p - 1) - 1 + 1) : f[i] = s[1 + i - 1]
    BY ONLY <2>1, <2>2, SubSeqProperties
  <2>4. \A i \in 1..(p - 1) : i \in 1..((p - 1) - 1 + 1) /\ 1 + i - 1 = i
    BY <1>1
  <2> QED
    BY <1>1, <2>3, <2>4
<1>3. /\ g \in Seq(S) /\ Len(g) = n - p
      /\ \A i \in 1..(n - p) : g[i] = s[p + i]
  <2>1. \A i \in (p + 1)..n : s[i] \in S
    BY <1>1
  <2>2. p + 1 \in Int /\ n \in Int
    BY <1>1
  <2>3. /\ g \in Seq(S)
        /\ Len(g) = IF p + 1 <= n THEN n - (p + 1) + 1 ELSE 0
        /\ \A i \in 1..(n - (p + 1) + 1) : g[i] = s[(p + 1) + i - 1]
    BY ONLY <2>1, <2>2, SubSeqProperties
  <2>4. \A i \in 1..(n - p) : i \in 1..(n - (p + 1) + 1) /\ (p + 1) + i - 1 = p + i
    BY <1>1
  <2> QED
    BY <1>1, <2>3, <2>4
<1>4. RemoveAt(s, p) = f \o g
  BY DEF RemoveAt
<1> HIDE DEF n, f, g
<1>5. /\ f \o g \in Seq(S)
      /\ Len(f \o g) = Len(f) + Len(g)
      /\ \A i \in 1..(Len(f) + Len(g)) :
           (f \o g)[i] = IF i <= Len(f) THEN f[i] ELSE g[i - Len(f)]
  BY <1>2, <1>3, ConcatProperties
<1>6. ASSUME NEW i \in 1..(n - 1)
      PROVE  (f \o g)[i] = IF i < p THEN s[i] ELSE s[i + 1]
  <2>1. i \in 1..(Len(f) + Len(g))
    BY <1>1, <1>2, <1>3
  <2>2. CASE i < p
    BY <1>1, <1>2, <1>5, <2>1, <2>2
  <2>3. CASE ~ (i < p)
    <3>1. i - Len(f) \in 1..(n - p) /\ p + (i - Len(f)) = i + 1 /\ ~ (i <= Len(f))
      BY <1>1, <1>2, <2>3
    <3>2. (f \o g)[i] = g[i - Len(f)]
      BY <1>5, <2>1, <3>1
    <3>3. g[i - Len(f)] = s[p + (i - Len(f))]
      BY <1>3, <3>1
    <3> QED
      BY <2>3, <3>1, <3>2, <3>3
  <2> QED
    BY <2>2, <2>3
<1> QED
  BY <1>1, <1>2, <1>3, <1>4, <1>5, <1>6 DEF n

LEMMA MovedType ==
  ASSUME NEW S, NEW s \in Seq(S), NEW e
  PROVE  /\ Without(s, e) \in Seq(S)
         /\ e \in S => MovedToBack(s, e) \in Seq(S)
<1>1. Without(s, e) \in Seq(S)
  <2>1. CASE e \notin ToSet(s)
    BY <2>1 DEF Without
  <2>2. CASE e \in ToSet(s)
    <3> DEFINE p == CHOOSE i \in DOMAIN s : s[i] = e
    <3>1. p \in 1..Len(s) /\ Without(s, e) = RemoveAt(s, p)
      BY <2>2 DEF ToSet, Without
    <3> HIDE DEF p
    <3> QED
      BY <3>1, RemoveAtPieces
  <2> QED
    BY <2>1, <2>2
<1> QED
  BY <1>1, AppendProperties DEF MovedToBack

LEMMA WithoutPieces ==
  ASSUME NEW S, NEW s \in Seq(S), IsInjective(s), NEW e
  PROVE  /\ Without(s, e) \in Seq(S) /\ IsInjective(Without(s, e))
         /\ ToSet(Without(s, e)) = ToSet(s) \ {e}
         /\ \A a, b : Before(Without(s, e), a, b) =>
                        Before(s, a, b) /\ a # e /\ b # e
<1>1. Len(s) \in Nat /\ DOMAIN s = 1..Len(s)
  OBVIOUS
<1>2. CASE e \notin ToSet(s)
  <2>1. Without(s, e) = s
    BY <1>2 DEF Without
  <2> QED
    BY <1>2, <2>1 DEF ToSet, Before
<1>3. CASE e \in ToSet(s)
  <2> DEFINE p == CHOOSE i \in DOMAIN s : s[i] = e
             r == RemoveAt(s, p)
             n == Len(s)
  <2>1. p \in 1..n /\ s[p] = e /\ Without(s, e) = r
    BY <1>1, <1>3 DEF ToSet, Without
  <2> HIDE DEF p
  <2>2. /\ r \in Seq(S) /\ Len(r) = n - 1 /\ DOMAIN r = 1..(n - 1)
        /\ \A i \in 1..(n - 1) : r[i] = IF i < p THEN s[i] ELSE s[i + 1]
    <3>1. /\ r \in Seq(S) /\ Len(r) = n - 1
          /\ \A i \in 1..(n - 1) : r[i] = IF i < p THEN s[i] ELSE s[i + 1]
      BY <2>1, RemoveAtPieces
    <3>2. DOMAIN r = 1..Len(r)
      BY <3>1
    <3> QED
      BY <3>1, <3>2
  <2> HIDE DEF r, n
  <2>3. n \in Nat /\ DOMAIN s = 1..n /\ \A i, j \in 1..n : s[i] = s[j] => i = j
    BY <1>1 DEF IsInjective, n
  <2> DEFINE from(i) == IF i < p THEN i ELSE i + 1
  <2>4. ASSUME NEW i \in 1..(n - 1)
        PROVE  from(i) \in 1..n /\ from(i) # p /\ r[i] = s[from(i)]
    BY <2>1, <2>2, <2>3
  <2>5. ASSUME NEW i \in 1..(n - 1), NEW j \in 1..(n - 1), i < j
        PROVE  from(i) < from(j)
    BY <2>1, <2>3, <2>5
  <2>6. ASSUME NEW i \in 1..n, i # p
        PROVE  \E j \in 1..(n - 1) : from(j) = i
    <3>1. CASE i < p
      BY <2>1, <2>3, <3>1
    <3>2. CASE i > p
      <4>1. i - 1 \in 1..(n - 1) /\ from(i - 1) = i
        BY <2>1, <2>3, <3>2
      <4> QED
        BY <4>1
    <3> QED
      BY <2>1, <2>3, <2>6, <3>1, <3>2
  <2> HIDE DEF from
  <2>7. IsInjective(r)
    <3> SUFFICES ASSUME NEW i \in 1..(n - 1), NEW j \in 1..(n - 1), r[i] = r[j], i < j
                 PROVE  FALSE
      BY <2>2, <2>3 DEF IsInjective
    <3> QED
      BY <2>3, <2>4, <2>5
  <2>8. ToSet(r) = ToSet(s) \ {e}
    <3>1. ASSUME NEW x \in ToSet(r) PROVE x \in ToSet(s) /\ x # e
      BY <2>1, <2>2, <2>3, <2>4, <3>1 DEF ToSet
    <3>2. ASSUME NEW x \in ToSet(s), x # e PROVE x \in ToSet(r)
      <4>1. PICK i \in 1..n : s[i] = x
        BY <2>3, <3>2 DEF ToSet
      <4>2. PICK j \in 1..(n - 1) : from(j) = i
        BY <2>1, <2>6, <3>2, <4>1
      <4> QED
        BY <2>2, <2>4, <4>1, <4>2 DEF ToSet
    <3> QED
      BY <3>1, <3>2
  <2>9. ASSUME NEW a, NEW b, Before(r, a, b)
        PROVE  Before(s, a, b) /\ a # e /\ b # e
    <3>1. PICK i \in 1..(n - 1), j \in 1..(n - 1) : i < j /\ r[i] = a /\ r[j] = b
      BY <2>2, <2>9 DEF Before
    <3>2. from(i) < from(j) /\ s[from(i)] = a /\ s[from(j)] = b
      BY <2>4, <2>5, <3>1
    <3> QED
      BY <2>1, <2>3, <2>4, <3>2 DEF Before
  <2> QED
    BY <2>1, <2>2, <2>7, <2>8, <2>9
<1> QED
  BY <1>2, <1>3

LEMMA AppendPieces ==
  ASSUME NEW S, NEW s \in Seq(S), IsInjective(s), NEW e \in S, e \notin ToSet(s)
  PROVE  /\ Append(s, e) \in Seq(S) /\ IsInjective(Append(s, e))
         /\ ToSet(Append(s, e)) = ToSet(s) \cup {e}
         /\ \A a, b : Before(Append(s, e), a, b) =>
                        Before(s, a, b) \/ (b = e /\ a \in ToSet(s))
<1> DEFINE r == Append(s, e)
           n == Len(s)
<1>1. /\ n \in Nat /\ DOMAIN s = 1..n
      /\ r \in Seq(S) /\ DOMAIN r = 1..(n + 1) /\ r[n + 1] = e
      /\ \A i \in 1..n : r[i] = s[i]
  BY AppendProperties
<1>2. \A i \in 1..n : s[i] # e
  BY <1>1 DEF ToSet
<1> HIDE DEF r, n
<1>3. IsInjective(r)
  BY <1>1, <1>2 DEF IsInjective
<1>4. ToSet(r) = ToSet(s) \cup {e}
  <2>1. ToSet(s) = {s[i] : i \in 1..n} /\ ToSet(r) = {r[i] : i \in 1..(n + 1)}
    BY <1>1 DEF ToSet
  <2>2. \A i \in 1..(n + 1) : i \in 1..n \/ i = n + 1
    BY <1>1
  <2>3. n + 1 \in 1..(n + 1) /\ \A i \in 1..n : i \in 1..(n + 1)
    BY <1>1
  <2> QED
    BY <1>1, <2>1, <2>2, <2>3
<1>5. ASSUME NEW a, NEW b, Before(r, a, b)
      PROVE  Before(s, a, b) \/ (b = e /\ a \in ToSet(s))
  <2>1. PICK i \in 1..(n + 1), j \in 1..(n + 1) : i < j /\ r[i] = a /\ r[j] = b
    BY <1>1, <1>5 DEF Before
  <2>2. i \in 1..n /\ (j \in 1..n \/ j = n + 1)
    BY <1>1, <2>1
  <2> QED
    BY <1>1, <2>1, <2>2 DEF Before, ToSet
<1> QED
  BY <1>1, <1>3, <1>4, <1>5 DEF r

LEMMA MovedPieces ==
  ASSUME NEW S, NEW s \in Seq(S), IsInjective(s), NEW e \in S
  PROVE  /\ MovedToBack(s, e) \in Seq(S) /\ IsInjective(MovedToBack(s, e))
         /\ ToSet(MovedToBack(s, e)) = ToSet(s)
         /\ \A a, b : Before(MovedToBack(s, e), a, b) =>
                        \/ Before(s, a, b) /\ (e \in ToSet(s) => a # e /\ b # e)
                        \/ b = e /\ a # e /\ a \in ToSet(s) /\ e \in ToSet(s)
<1>1. CASE e \notin ToSet(s)
  <2>1. MovedToBack(s, e) = s
    BY <1>1 DEF MovedToBack
  <2> QED
    BY <1>1, <2>1
<1>2. CASE e \in ToSet(s)
  <2> DEFINE r == Without(s, e)
  <2>1. /\ r \in Seq(S) /\ IsInjective(r) /\ ToSet(r) = ToSet(s) \ {e}
        /\ \A a, b : Before(r, a, b) => Before(s, a, b) /\ a # e /\ b # e
    BY WithoutPieces
  <2>2. MovedToBack(s, e) = Append(r, e)
    BY <1>2 DEF MovedToBack
  <2> HIDE DEF r
  <2>3. /\ Append(r, e) \in Seq(S) /\ IsInjective(Append(r, e))
        /\ ToSet(Append(r, e)) = ToSet(r) \cup {e}
        /\ \A a, b : Before(Append(r, e), a, b) =>
                       Before(r, a, b) \/ (b = e /\ a \in ToSet(r))
    BY <2>1, AppendPieces
  <2> QED
    BY <1>2, <2>1, <2>2, <2>3
<1> QED
  BY <1>1, <1>2

(***************************************************************************)
(* Types.                                                                  *)
(***************************************************************************)

Entries == [label : Labels, time : 1..MaxTime]

Steps == {"idle", "lookup", "insert", "touch", "move", "set"}

Writers == [pc : Steps, todo : SUBSET Items, secs : Nat,
            item : Items \cup {NoItem}, label : Labels \cup {0}]

Cleaners == [pc : {"idle", "front", "delete", "forget"}, kind : Kinds,
             expire : Int, victim : Keys \cup {0}]

\* A writer's items are of its kind, and its time is not in the future.
WriterOK(kind) ==
  /\ writer[kind].todo \subseteq ItemsOf(kind)
  /\ writer[kind].pc # "idle" => writer[kind].secs \in 1..clock
  /\ writer[kind].pc \notin {"idle", "lookup"} => writer[kind].item \in ItemsOf(kind)

TypeInv ==
  /\ cache \in [Kinds -> [Keys -> Entries \cup {NoEntry}]]
  /\ list \in [Kinds -> Seq(Keys)]
  /\ series \in [Kinds -> [Labels -> Items \cup {NoItem}]]
  /\ \A kind \in Kinds : series[kind] \in [Labels -> ItemsOf(kind) \cup {NoItem}]
  /\ writer \in [Kinds -> Writers]
  /\ \A kind \in Kinds : WriterOK(kind)
  /\ cleaner \in Cleaners
  /\ clock \in 1..MaxTime
  /\ calls \in [Kinds -> Nat]

LEMMA ItemTypes ==
  /\ NoEntry \notin Entries
  /\ \A kind \in Kinds : ItemsOf(kind) \subseteq Items /\ NoItem \notin ItemsOf(kind)
  /\ \A item \in Items : item.key \in Keys /\ item.label \in Labels
<1>1. NoEntry \notin Entries
  BY DEF NoEntry, Entries
<1>2. \A item \in Items : item.kind \in Kinds
  BY PrometheusAssumption
<1>3. NoItem.kind \notin Kinds
  BY DEF NoItem, Kinds
<1> QED
  BY <1>1, <1>2, <1>3 DEF ItemsOf, Keys, Labels

\* The state of a storer that has just started.
LEMMA IdleTypes ==
  /\ NoEntries \in [Kinds -> [Keys -> Entries \cup {NoEntry}]]
  /\ NoKeys \in [Kinds -> Seq(Keys)]
  /\ NoSeries \in [Kinds -> [Labels -> Items \cup {NoItem}]]
  /\ \A kind \in Kinds : NoSeries[kind] \in [Labels -> ItemsOf(kind) \cup {NoItem}]
  /\ IdleWriter \in Writers /\ IdleWriter.todo = {} /\ IdleWriter.pc = "idle"
  /\ IdleWriters = [kind \in Kinds |-> IdleWriter]
  /\ IdleCleaner \in Cleaners /\ IdleCleaner.pc = "idle"
BY EmptySeq DEF NoEntries, NoKeys, NoSeries, IdleWriter, IdleWriters, IdleCleaner,
   Writers, Cleaners, Steps, Kinds

LEMMA TypeInit == Init => TypeInv
BY IdleTypes, PrometheusAssumption DEF Init, TypeInv, WriterOK

LEMMA WriterTypes ==
  ASSUME TypeInv, NEW kind \in Kinds, NEW w \in Writers, clock' = clock,
         w.todo \subseteq ItemsOf(kind),
         w.pc # "idle" => w.secs \in 1..clock,
         w.pc \notin {"idle", "lookup"} => w.item \in ItemsOf(kind),
         writer' = [writer EXCEPT ![kind] = w]
  PROVE  writer' \in [Kinds -> Writers] /\ \A k \in Kinds : WriterOK(k)'
<1>1. writer' \in [Kinds -> Writers]
  BY DEF TypeInv
<1>2. writer'[kind] = w /\ \A k \in Kinds : k # kind => writer'[k] = writer[k]
  BY DEF TypeInv
<1> QED
  BY <1>1, <1>2 DEF TypeInv, WriterOK

LEMMA TypeStep == TypeInv /\ [Next]_vars => TypeInv'
<1> SUFFICES ASSUME TypeInv, [Next]_vars PROVE TypeInv'
  OBVIOUS
<1>1. /\ cache \in [Kinds -> [Keys -> Entries \cup {NoEntry}]]
      /\ list \in [Kinds -> Seq(Keys)]
      /\ series \in [Kinds -> [Labels -> Items \cup {NoItem}]]
      /\ \A kind \in Kinds : series[kind] \in [Labels -> ItemsOf(kind) \cup {NoItem}]
      /\ writer \in [Kinds -> Writers] /\ cleaner \in Cleaners
      /\ clock \in 1..MaxTime /\ calls \in [Kinds -> Nat]
      /\ MaxTime \in Nat /\ clock \in Nat /\ Timeout \in Nat
  BY PrometheusAssumption DEF TypeInv
<1>2. \A kind \in Kinds :
        /\ writer[kind] \in Writers /\ writer[kind].todo \subseteq ItemsOf(kind)
        /\ writer[kind].pc # "idle" =>
             writer[kind].secs \in 1..clock /\ writer[kind].secs \in 1..MaxTime
        /\ writer[kind].pc \notin {"idle", "lookup"} =>
             writer[kind].item \in ItemsOf(kind)
  BY <1>1 DEF TypeInv, WriterOK
<1>3. ASSUME NEW kind \in Kinds, NEW batch \in SUBSET ItemsOf(kind) \ {{}},
             BeginReport(kind, batch)
      PROVE  TypeInv'
  <2> DEFINE w == [IdleWriter EXCEPT !.pc = "lookup", !.todo = batch, !.secs = clock]
  <2>1. /\ batch \in SUBSET Items /\ NoItem \in Items \cup {NoItem}
        /\ 0 \in Labels \cup {0} /\ "lookup" \in Steps
    BY ItemTypes DEF Steps
  <2>2. w \in Writers /\ w.todo = batch /\ w.pc = "lookup" /\ w.secs = clock
    BY <1>1, <2>1 DEF IdleWriter, Writers
  <2>3. writer' = [writer EXCEPT ![kind] = w]
    BY <1>3 DEF BeginReport
  <2> HIDE DEF w
  <2>4. /\ writer' \in [Kinds -> Writers]
        /\ \A k \in Kinds : WriterOK(k)'
    <3>1. /\ clock' = clock /\ w.todo \subseteq ItemsOf(kind)
          /\ w.secs \in 1..clock /\ w.pc \in {"idle", "lookup"}
      BY <1>1, <1>3, <2>2 DEF BeginReport
    <3> QED
      BY <2>2, <2>3, <3>1, WriterTypes
  <2>5. calls' \in [Kinds -> Nat]
    BY <1>1, <1>3 DEF BeginReport
  <2> QED
    BY <1>1, <1>3, <2>4, <2>5 DEF TypeInv, BeginReport
<1>4. ASSUME NEW kind \in Kinds, NEW item \in writer[kind].todo,
             writer[kind].pc = "lookup", Hit(kind, item) \/ Miss(kind, item)
      PROVE  TypeInv'
  <2>1. item \in ItemsOf(kind) /\ item \in Items /\ item.key \in Keys /\ item.label \in Labels
    BY <1>2, ItemTypes
  <2>2. PICK label \in Labels, pc \in {"touch", "insert"} : Goto(kind, item, label, pc)
    <3>1. CASE Hit(kind, item)
      <4>1. cache[kind][item.key] \in Entries
        BY <1>1, <2>1, <3>1 DEF Hit, Cached
      <4> QED
        BY <3>1, <4>1 DEF Hit, Entries
    <3>2. CASE Miss(kind, item)
      BY <2>1, <3>2 DEF Miss
    <3> QED
      BY <1>4, <3>1, <3>2
  <2> DEFINE w == [writer[kind] EXCEPT !.item = item, !.label = label, !.pc = pc]
  <2>3. /\ w \in Writers /\ w.item = item /\ w.todo = writer[kind].todo
        /\ w.secs = writer[kind].secs
    BY <1>2, <2>1 DEF Writers, Steps
  <2>4. writer' = [writer EXCEPT ![kind] = w]
    BY <1>1, <2>2 DEF Goto
  <2> HIDE DEF w
  <2>5. /\ writer' \in [Kinds -> Writers]
        /\ \A k \in Kinds : WriterOK(k)'
    BY <1>2, <1>4, <2>1, <2>3, <2>4, WriterTypes DEF Hit, Miss
  <2>6. list' \in [Kinds -> Seq(Keys)]
    <3>1. Append(list[kind], item.key) \in Seq(Keys)
      BY <1>1, <2>1, AppendProperties
    <3> QED
      BY <1>1, <1>4, <3>1 DEF Hit, Miss
  <2> QED
    BY <1>1, <1>4, <2>5, <2>6 DEF TypeInv, Hit, Miss
<1>5. ASSUME NEW kind \in Kinds, NEW pc \in Steps \ {"idle"}, clock' = clock,
             writer[kind].pc \notin {"idle", "lookup"},
             writer' = [writer EXCEPT ![kind].pc = pc]
      PROVE  /\ writer' \in [Kinds -> Writers]
             /\ \A k \in Kinds : WriterOK(k)'
  <2> DEFINE w == [writer[kind] EXCEPT !.pc = pc]
  <2>1. /\ w \in Writers /\ w.item = writer[kind].item
        /\ w.todo = writer[kind].todo /\ w.secs = writer[kind].secs
    BY <1>2 DEF Writers
  <2>2. writer' = [writer EXCEPT ![kind] = w]
    BY <1>1, <1>5
  <2> HIDE DEF w
  <2> QED
    BY <1>2, <1>5, <2>1, <2>2, WriterTypes
<1>6. \A kind \in Kinds : writer[kind].pc \notin {"idle", "lookup"} =>
        writer[kind].item.key \in Keys /\ writer[kind].item.label \in Labels
  BY <1>2, ItemTypes
<1>7. ASSUME NEW kind \in Kinds, Insert(kind)
      PROVE  TypeInv'
  <2>1. writer' \in [Kinds -> Writers] /\ \A k \in Kinds : WriterOK(k)'
    BY <1>5, <1>7 DEF Insert, Steps
  <2>2. cache' \in [Kinds -> [Keys -> Entries \cup {NoEntry}]]
    <3>1. NewEntry(kind) \in Entries
      BY <1>1, <1>2, <1>6, <1>7 DEF Insert, NewEntry, Entries
    <3> QED
      BY <1>1, <1>7, <3>1 DEF Insert
  <2> QED
    BY <1>1, <1>7, <2>1, <2>2 DEF TypeInv, Insert
<1>8. ASSUME NEW kind \in Kinds, Touch(kind)
      PROVE  TypeInv'
  <2>1. writer' \in [Kinds -> Writers] /\ \A k \in Kinds : WriterOK(k)'
    BY <1>5, <1>8 DEF Touch, Steps
  <2>2. cache' \in [Kinds -> [Keys -> Entries \cup {NoEntry}]]
    <3> DEFINE key == writer[kind].item.key
               e == [cache[kind][key] EXCEPT !.time = writer[kind].secs]
    <3>1. CASE key \in Cached(kind)
      <4>1. key \in Keys /\ cache[kind][key] \in Entries /\ writer[kind].secs \in 1..MaxTime
        BY <1>1, <1>2, <1>8, <3>1 DEF Cached, Touch
      <4>2. e \in Entries
        BY <4>1 DEF Entries
      <4>3. cache' = [cache EXCEPT ![kind] = [cache[kind] EXCEPT ![key] = e]]
        BY <1>1, <1>8, <3>1 DEF Touch
      <4> HIDE DEF e, key
      <4> QED
        BY <1>1, <4>1, <4>2, <4>3
    <3>2. CASE key \notin Cached(kind)
      BY <1>1, <1>8, <3>2 DEF Touch
    <3> QED
      BY <3>1, <3>2
  <2> QED
    BY <1>1, <1>8, <2>1, <2>2 DEF TypeInv, Touch
<1>9. ASSUME NEW kind \in Kinds, Move(kind)
      PROVE  TypeInv'
  <2>1. writer' \in [Kinds -> Writers] /\ \A k \in Kinds : WriterOK(k)'
    BY <1>5, <1>9 DEF Move, Steps
  <2>2. MovedToBack(list[kind], writer[kind].item.key) \in Seq(Keys)
    BY <1>1, <1>6, <1>9, MovedType DEF Move
  <2>3. list' \in [Kinds -> Seq(Keys)]
    BY <1>1, <1>9, <2>2 DEF Move
  <2> QED
    BY <1>1, <1>9, <2>1, <2>3 DEF TypeInv, Move
<1>10. ASSUME NEW kind \in Kinds, SetSeries(kind)
       PROVE  TypeInv'
  <2> DEFINE rest == writer[kind].todo \ {writer[kind].item}
             w == IF rest = {} THEN IdleWriter
                               ELSE [writer[kind] EXCEPT !.pc = "lookup", !.todo = rest]
  <2>1. /\ w \in Writers /\ w.todo \subseteq ItemsOf(kind)
        /\ w.pc # "idle" => w.secs = writer[kind].secs
        /\ w.pc \in {"idle", "lookup"}
    BY <1>2 DEF IdleWriter, Writers, Steps
  <2>2. writer' = [writer EXCEPT ![kind] = w]
    BY <1>10 DEF SetSeries
  <2> HIDE DEF w
  <2>3. writer' \in [Kinds -> Writers] /\ \A k \in Kinds : WriterOK(k)'
    BY <1>2, <1>10, <2>1, <2>2, WriterTypes DEF SetSeries
  <2>4. writer[kind].item \in ItemsOf(kind) /\ writer[kind].item \in Items
    BY <1>2, <1>10, ItemTypes DEF SetSeries
  <2>5. /\ series' \in [Kinds -> [Labels -> Items \cup {NoItem}]]
        /\ \A k \in Kinds : series'[k] \in [Labels -> ItemsOf(k) \cup {NoItem}]
    BY <1>1, <1>10, <2>4 DEF SetSeries
  <2> QED
    BY <1>1, <1>10, <2>3, <2>5 DEF TypeInv, SetSeries
<1>11. CASE BeginCleanup
  <2>1. cleaner' \in Cleaners
    <3>1. clock - Timeout \in Int
      BY <1>1
    <3> QED
      BY <1>1, <1>11, <3>1 DEF BeginCleanup, Cleaners
  <2> QED
    BY <1>11, <2>1 DEF TypeInv, BeginCleanup, WriterOK
<1>12. CASE LookAtFront
  <2>1. cleaner.kind \in Kinds /\ list[cleaner.kind] \in Seq(Keys)
    BY <1>1 DEF Cleaners
  <2>2. list[cleaner.kind] # <<>> => Head(list[cleaner.kind]) \in Keys
    BY <2>1
  <2>3. AfterKind(cleaner.kind) \in Cleaners
    <3>1. "interface" \in Kinds
      BY DEF Kinds
    <3>2. [cleaner EXCEPT !.kind = "interface"] \in Cleaners
      BY <1>1, <3>1 DEF Cleaners
    <3> QED
      BY <3>2, IdleTypes DEF AfterKind
  <2>4. cleaner' \in Cleaners
    BY <1>1, <1>12, <2>2, <2>3 DEF LookAtFront, Cleaners
  <2> QED
    BY <1>12, <2>4 DEF TypeInv, LookAtFront, WriterOK
<1>13. CASE DeleteSeries
  <2>1. cleaner' \in Cleaners
    BY <1>1, <1>13 DEF DeleteSeries, Cleaners
  <2>2. /\ series' \in [Kinds -> [Labels -> Items \cup {NoItem}]]
        /\ \A k \in Kinds : series'[k] \in [Labels -> ItemsOf(k) \cup {NoItem}]
    BY <1>1, <1>13 DEF DeleteSeries
  <2> QED
    BY <1>13, <2>1, <2>2 DEF TypeInv, DeleteSeries, WriterOK
<1>14. CASE Forget
  <2>1. cleaner' \in Cleaners /\ cleaner.kind \in Kinds
    BY <1>1, <1>14 DEF Forget, Cleaners
  <2>2. cache' \in [Kinds -> [Keys -> Entries \cup {NoEntry}]]
    BY <1>1, <1>14, <2>1 DEF Forget
  <2>3. Without(list[cleaner.kind], cleaner.victim) \in Seq(Keys)
    BY <1>1, <2>1, MovedType
  <2>4. list' \in [Kinds -> Seq(Keys)]
    BY <1>1, <1>14, <2>1, <2>3 DEF Forget
  <2> QED
    BY <1>14, <2>1, <2>2, <2>4 DEF TypeInv, Forget, WriterOK
<1>15. ASSUME NEW kind \in Kinds, MapFault(kind)
       PROVE  TypeInv'
  <2>1. /\ cache' = NoEntries /\ list' = NoKeys /\ series' = NoSeries
        /\ writer' = IdleWriters /\ cleaner' = IdleCleaner
        /\ clock' \in 1..MaxTime /\ calls' \in [Kinds -> Nat]
    BY <1>1, <1>15 DEF MapFault
  <2> QED
    BY <2>1, IdleTypes DEF TypeInv, WriterOK
<1>16. CASE Tick
  BY <1>1, <1>2, <1>16, PrometheusAssumption DEF TypeInv, Tick, WriterOK
<1>17. CASE UNCHANGED vars
  BY <1>17 DEF TypeInv, vars, WriterOK
<1> QED
  BY <1>3, <1>4, <1>7, <1>8, <1>9, <1>10, <1>11, <1>12, <1>13, <1>14, <1>15, <1>16,
     <1>17 DEF Next, Write, Lookup, CleanUp

\* The types of the variables, for any items, clock and number of reports.
THEOREM PrometheusTypeCorrect == Spec => []TypeOK
<1>1. TypeInv => TypeOK
  BY DEF TypeInv, TypeOK, Writers, Cleaners, WriterOK, Steps, Entries
<1> QED
  BY <1>1, TypeInit, TypeStep, PTL DEF Spec

(***************************************************************************)
(* The maps and the lists.  They hold the same keys because no key leaves  *)
(* a list before its writer has put it into the map: an entry does not     *)
(* expire during the call that creates it.                                 *)
(***************************************************************************)

\* A call of a writer takes less than the timeout.
WriterYoung(kind) ==
  writer[kind].pc # "idle" => clock - writer[kind].secs < Timeout

\* No entry is younger than the clock or the writer's call.
EntryTimes(kind) ==
  \A key \in Cached(kind) :
    /\ cache[kind][key].time <= clock
    /\ writer[kind].pc # "idle" => cache[kind][key].time <= writer[kind].secs

\* A key to be inserted is not in the map; one to be moved has the writer's time.
ItemOK(kind) ==
  LET key == writer[kind].item.key IN
  /\ writer[kind].pc = "insert" => key \notin Cached(kind)
  /\ writer[kind].pc = "move" /\ key \in Cached(kind) =>
       cache[kind][key].time = writer[kind].secs

KeysAgree(kind) ==
  /\ Cached(kind) \cup InListOnly(kind) = ToSet(list[kind])
  /\ IsInjective(list[kind])

InOrder(kind) ==
  \A a, b \in Keys :
    Before(list[kind], a, b) /\ Settled(kind, a) /\ Settled(kind, b) =>
      EntryOf(kind, a).time <= EntryOf(kind, b).time

KindOK(kind) ==
  /\ WriterYoung(kind) /\ EntryTimes(kind) /\ ItemOK(kind)
  /\ KeysAgree(kind) /\ InOrder(kind)

\* The cleaner's victim is in the map, so it is not a key a writer inserts.
VictimCached ==
  cleaner.pc \in {"delete", "forget"} => cleaner.victim \in Cached(cleaner.kind)

ExpireOK == cleaner.pc # "idle" => cleaner.expire <= clock - Timeout

CleanerOK == VictimCached /\ ExpireOK

ListsInv == TypeInv /\ CleanerOK /\ \A kind \in Kinds : KindOK(kind)

LEMMA KindTypes ==
  ASSUME ListsInv, NEW kind \in Kinds
  PROVE  /\ KindOK(kind)
         /\ cache[kind] \in [Keys -> Entries \cup {NoEntry}]
         /\ cache \in [Kinds -> [Keys -> Entries \cup {NoEntry}]]
         /\ list \in [Kinds -> Seq(Keys)] /\ writer \in [Kinds -> Writers]
         /\ list[kind] \in Seq(Keys) /\ writer[kind] \in Writers
         /\ clock \in Nat /\ Timeout \in Nat \ {0}
         /\ writer[kind].pc # "idle" => writer[kind].secs \in 1..clock
         /\ writer[kind].pc \notin {"idle", "lookup"} =>
              /\ writer[kind].item.key \in Keys
              /\ writer[kind].item.label \in Labels
         /\ \A item \in writer[kind].todo : item.key \in Keys
         /\ Cached(kind) \subseteq Keys
         /\ \A key \in Cached(kind) : cache[kind][key] \in Entries /\ cache[kind][key].time \in Nat
<1>1. TypeInv /\ KindOK(kind)
  BY DEF ListsInv
<1>2. /\ cache \in [Kinds -> [Keys -> Entries \cup {NoEntry}]]
      /\ list \in [Kinds -> Seq(Keys)] /\ writer \in [Kinds -> Writers]
      /\ clock \in Nat /\ Timeout \in Nat \ {0}
      /\ WriterOK(kind)
  BY <1>1, PrometheusAssumption DEF TypeInv
<1>3. \A key \in Cached(kind) : key \in Keys /\ cache[kind][key] \in Entries
  BY <1>2 DEF Cached
<1>4. \A e \in Entries : e.time \in Nat
  BY DEF Entries
<1> QED
  BY <1>1, <1>2, <1>3, <1>4, ItemTypes DEF WriterOK

\* What happens to the other kind does not matter to a kind.
LEMMA KindKept ==
  ASSUME NEW kind, KindOK(kind), cache'[kind] = cache[kind], clock' = clock,
         list'[kind] = list[kind], writer'[kind] = writer[kind]
  PROVE  KindOK(kind)'
BY DEF KindOK, WriterYoung, EntryTimes, ItemOK, KeysAgree, InOrder, Settled, EntryOf,
       NewEntry, InListOnly, Cached

\* A writer's step takes no key out of the map: the cleaner's victim stays.
LEMMA CleanerKept ==
  ASSUME ListsInv, NEW kind \in Kinds, UNCHANGED <<cleaner, clock>>,
         Cached(kind) \subseteq Cached(kind)',
         \A k \in Kinds : k # kind => cache'[k] = cache[k]
  PROVE  CleanerOK'
<1>1. cleaner.kind \in Kinds
  BY DEF ListsInv, TypeInv, Cleaners
<1>2. Cached(cleaner.kind) \subseteq Cached(cleaner.kind)'
  BY <1>1 DEF Cached
<1> QED
  BY <1>2 DEF ListsInv, CleanerOK, VictimCached, ExpireOK

\* A step of a writer is about its own kind.
LEMMA WriterStep ==
  ASSUME ListsInv, NEW kind \in Kinds, UNCHANGED <<cleaner, clock>>,
         Cached(kind) \subseteq Cached(kind)',
         \A k \in Kinds : k # kind => /\ cache'[k] = cache[k]
                                      /\ list'[k] = list[k]
                                      /\ writer'[k] = writer[k],
         KindOK(kind)'
  PROVE  CleanerOK' /\ \A k \in Kinds : KindOK(k)'
<1>1. ASSUME NEW k \in Kinds, k # kind PROVE KindOK(k)'
  BY <1>1, KindKept DEF ListsInv
<1> QED
  BY <1>1, CleanerKept

\* Steps that change neither the maps nor the lists, nor what a writer inserts or
\* moves.
LEMMA ListsQuiet ==
  ASSUME ListsInv, NEW kind \in Kinds, NEW w,
         writer' = [writer EXCEPT ![kind] = w],
         UNCHANGED <<cleaner, clock, cache, list>>,
         writer[kind].pc \notin {"insert", "move"}, w.pc \notin {"insert", "move"},
         \/ w.pc = "idle"
         \/ w.secs = clock
         \/ w.secs = writer[kind].secs /\ writer[kind].pc # "idle"
  PROVE  CleanerOK' /\ \A k \in Kinds : KindOK(k)'
<1>1. /\ KindOK(kind) /\ clock \in Nat /\ Timeout \in Nat \ {0}
      /\ writer'[kind] = w /\ \A k \in Kinds : k # kind => writer'[k] = writer[k]
  BY KindTypes
<1>2. Cached(kind)' = Cached(kind)
  BY DEF Cached
<1>3. InListOnly(kind) = {} /\ InListOnly(kind)' = {}
  BY <1>1 DEF InListOnly
<1>4. \A x \in Keys : EntryOf(kind, x)' = EntryOf(kind, x) /\ Settled(kind, x)
  BY <1>3 DEF EntryOf, Settled
<1>5. InOrder(kind)'
  BY <1>1, <1>4 DEF KindOK, InOrder
<1>6. KeysAgree(kind)'
  BY <1>1, <1>2, <1>3 DEF KindOK, KeysAgree
<1>7. EntryTimes(kind)'
  BY <1>1, <1>2 DEF KindOK, EntryTimes
<1>8. WriterYoung(kind)' /\ ItemOK(kind)'
  BY <1>1 DEF KindOK, WriterYoung, ItemOK
<1>9. KindOK(kind)'
  BY <1>5, <1>6, <1>7, <1>8 DEF KindOK
<1> QED
  BY <1>1, <1>2, <1>9, WriterStep

\* A new key goes to the end of the list, with the latest of all times.
LEMMA ListsMiss ==
  ASSUME ListsInv, NEW kind \in Kinds, NEW item \in writer[kind].todo,
         writer[kind].pc = "lookup", Miss(kind, item)
  PROVE  CleanerOK' /\ \A k \in Kinds : KindOK(k)'
<1> DEFINE key == item.key
           secs == writer[kind].secs
<1>1. /\ KindOK(kind) /\ key \in Keys /\ list[kind] \in Seq(Keys)
      /\ secs \in 1..clock /\ clock \in Nat
      /\ \A x \in Cached(kind) : cache[kind][x].time \in Nat
      /\ Cached(kind) \subseteq Keys
  BY KindTypes
<1>2. /\ key \notin Cached(kind) /\ UNCHANGED <<cache, cleaner, clock>>
      /\ list' = [list EXCEPT ![kind] = Append(list[kind], key)]
      /\ writer' = [writer EXCEPT ![kind].item = item, ![kind].label = item.label,
                                  ![kind].pc = "insert"]
  BY DEF Miss, Goto
<1>3. /\ list'[kind] = Append(list[kind], key)
      /\ writer'[kind].pc = "insert" /\ writer'[kind].item = item
      /\ writer'[kind].secs = secs
      /\ \A k \in Kinds : k # kind => list'[k] = list[k] /\ writer'[k] = writer[k]
  BY <1>2, KindTypes DEF Writers
<1>4. Cached(kind)' = Cached(kind)
  BY <1>2 DEF Cached
<1>5. /\ InListOnly(kind) = {} /\ InListOnly(kind)' = {key}
      /\ ToSet(list[kind]) = Cached(kind) /\ IsInjective(list[kind])
  BY <1>1, <1>3 DEF InListOnly, KindOK, KeysAgree
<1>6. /\ ToSet(list'[kind]) = ToSet(list[kind]) \cup {key} /\ IsInjective(list'[kind])
      /\ \A a, b : Before(list'[kind], a, b) =>
                     Before(list[kind], a, b) \/ (b = key /\ a \in ToSet(list[kind]))
  BY <1>1, <1>2, <1>3, <1>5, AppendPieces
<1>7. KeysAgree(kind)'
  BY <1>4, <1>5, <1>6 DEF KeysAgree
<1>8. /\ EntryOf(kind, key)'.time = secs
      /\ \A x \in Cached(kind) : /\ EntryOf(kind, x)' = cache[kind][x]
                                 /\ EntryOf(kind, x) = cache[kind][x]
                                 /\ cache[kind][x].time <= secs
  <2>1. \A x \in Cached(kind) : cache[kind][x].time <= secs
    BY <1>1 DEF KindOK, EntryTimes
  <2> QED
    BY <1>2, <1>3, <1>5, <2>1 DEF EntryOf, NewEntry
<1>9. InOrder(kind)'
  <2> SUFFICES ASSUME NEW a \in Keys, NEW b \in Keys, Before(list'[kind], a, b)
               PROVE  EntryOf(kind, a)'.time <= EntryOf(kind, b)'.time
    BY DEF InOrder
  <2>1. CASE Before(list[kind], a, b)
    <3>1. a \in Cached(kind) /\ b \in Cached(kind)
      BY <1>5, <2>1 DEF Before, ToSet
    <3>2. EntryOf(kind, a).time <= EntryOf(kind, b).time
      BY <1>1, <2>1 DEF KindOK, InOrder, Settled
    <3> QED
      BY <1>8, <3>1, <3>2
  <2>2. CASE b = key /\ a \in ToSet(list[kind])
    BY <1>5, <1>8, <2>2
  <2> QED
    BY <1>6, <2>1, <2>2
<1>10. KindOK(kind)'
  BY <1>1, <1>2, <1>3, <1>4, <1>7, <1>9
  DEF KindOK, WriterYoung, EntryTimes, ItemOK
<1> QED
  BY <1>2, <1>3, <1>4, <1>10, WriterStep

\* The new key's entry is put into the map.
LEMMA ListsInsert ==
  ASSUME ListsInv, NEW kind \in Kinds, Insert(kind)
  PROVE  CleanerOK' /\ \A k \in Kinds : KindOK(k)'
<1> DEFINE key == writer[kind].item.key
           secs == writer[kind].secs
<1>1. /\ KindOK(kind) /\ key \in Keys /\ writer[kind].pc = "insert"
      /\ secs \in 1..clock /\ clock \in Nat /\ Cached(kind) \subseteq Keys
      /\ \A x \in Cached(kind) : cache[kind][x].time \in Nat
  BY KindTypes DEF Insert
<1>2. /\ UNCHANGED <<list, cleaner, clock>>
      /\ cache' = [cache EXCEPT ![kind][key] = NewEntry(kind)]
      /\ writer' = [writer EXCEPT ![kind].pc = "set"]
  BY DEF Insert
<1>3. /\ cache'[kind][key] = NewEntry(kind)
      /\ \A x \in Keys : x # key => cache'[kind][x] = cache[kind][x]
      /\ \A k \in Kinds : k # kind => cache'[k] = cache[k] /\ writer'[k] = writer[k]
      /\ writer'[kind].pc = "set" /\ writer'[kind].item = writer[kind].item
      /\ writer'[kind].secs = secs
  BY <1>1, <1>2, KindTypes DEF Writers
<1>4. NewEntry(kind) # NoEntry /\ NewEntry(kind).time = secs
  BY <1>1 DEF NewEntry, NoEntry
<1>5. Cached(kind)' = Cached(kind) \cup {key}
  BY <1>1, <1>3, <1>4 DEF Cached
<1>6. InListOnly(kind) = {key} /\ InListOnly(kind)' = {}
  BY <1>1, <1>3 DEF InListOnly
<1>7. KeysAgree(kind)'
  BY <1>1, <1>2, <1>5, <1>6 DEF KindOK, KeysAgree
<1>8. \A x \in Keys : /\ EntryOf(kind, x)' = EntryOf(kind, x)
                      /\ Settled(kind, x)
  BY <1>1, <1>3, <1>6 DEF EntryOf, Settled
<1>9. InOrder(kind)'
  BY <1>1, <1>2, <1>8 DEF KindOK, InOrder
<1>10. EntryTimes(kind)'
  BY <1>1, <1>2, <1>3, <1>4, <1>5 DEF KindOK, EntryTimes
<1>11. KindOK(kind)'
  BY <1>1, <1>2, <1>3, <1>7, <1>9, <1>10 DEF KindOK, WriterYoung, ItemOK
<1> QED
  BY <1>2, <1>3, <1>5, <1>11, WriterStep

\* An entry gets the writer's time, if it is still in the map.
LEMMA ListsTouch ==
  ASSUME ListsInv, NEW kind \in Kinds, Touch(kind)
  PROVE  CleanerOK' /\ \A k \in Kinds : KindOK(k)'
<1> DEFINE key == writer[kind].item.key
           secs == writer[kind].secs
<1>1. /\ KindOK(kind) /\ key \in Keys /\ writer[kind].pc = "touch"
      /\ secs \in 1..clock /\ clock \in Nat /\ Cached(kind) \subseteq Keys
      /\ \A x \in Cached(kind) : cache[kind][x] \in Entries
  BY KindTypes DEF Touch
<1>2. /\ UNCHANGED <<list, cleaner, clock>>
      /\ cache' = IF key \in Cached(kind)
                  THEN [cache EXCEPT ![kind][key].time = secs] ELSE cache
      /\ writer' = [writer EXCEPT ![kind].pc = "move"]
  BY DEF Touch
<1>3. /\ writer'[kind].pc = "move" /\ writer'[kind].item = writer[kind].item
      /\ writer'[kind].secs = secs
      /\ \A k \in Kinds : k # kind => writer'[k] = writer[k]
  BY <1>2, KindTypes DEF Writers
<1>4. /\ key \in Cached(kind) =>
           cache'[kind][key] = [cache[kind][key] EXCEPT !.time = secs]
      /\ \A x \in Keys : x # key => cache'[kind][x] = cache[kind][x]
      /\ key \notin Cached(kind) => cache'[kind][key] = cache[kind][key]
      /\ \A k \in Kinds : k # kind => cache'[k] = cache[k]
  BY <1>1, <1>2, KindTypes
<1>5. key \in Cached(kind) => /\ cache'[kind][key].time = secs
                              /\ cache'[kind][key] # NoEntry
  <2> SUFFICES ASSUME key \in Cached(kind)
               PROVE  cache'[kind][key].time = secs /\ cache'[kind][key] # NoEntry
    OBVIOUS
  <2>1. cache'[kind][key].time = secs
    BY <1>1, <1>4 DEF Entries
  <2> QED
    BY <1>1, <2>1 DEF NoEntry
<1>6. Cached(kind)' = Cached(kind)
  BY <1>1, <1>4, <1>5 DEF Cached
<1>7. InListOnly(kind) = {} /\ InListOnly(kind)' = {}
  BY <1>1, <1>3 DEF InListOnly
<1>8. KeysAgree(kind)'
  BY <1>1, <1>2, <1>6, <1>7 DEF KindOK, KeysAgree
<1>9. \A x \in Keys : /\ Settled(kind, x)
                      /\ Settled(kind, x)' => x # key
                      /\ x # key => EntryOf(kind, x)' = EntryOf(kind, x)
  BY <1>1, <1>3, <1>4, <1>7 DEF EntryOf, Settled
<1>10. InOrder(kind)'
  BY <1>1, <1>2, <1>9 DEF KindOK, InOrder
<1>11. EntryTimes(kind)'
  BY <1>1, <1>2, <1>3, <1>4, <1>5, <1>6 DEF KindOK, EntryTimes
<1>12. KindOK(kind)'
  BY <1>1, <1>2, <1>3, <1>5, <1>6, <1>8, <1>10, <1>11 DEF KindOK, WriterYoung, ItemOK
<1> QED
  BY <1>2, <1>3, <1>4, <1>6, <1>12, WriterStep

\* The entry is moved to the end, where its time belongs.
LEMMA ListsMove ==
  ASSUME ListsInv, NEW kind \in Kinds, Move(kind)
  PROVE  CleanerOK' /\ \A k \in Kinds : KindOK(k)'
<1> DEFINE key == writer[kind].item.key
           secs == writer[kind].secs
<1>1. /\ KindOK(kind) /\ key \in Keys /\ writer[kind].pc = "move"
      /\ secs \in 1..clock /\ clock \in Nat /\ Cached(kind) \subseteq Keys
      /\ \A x \in Cached(kind) : cache[kind][x].time \in Nat
      /\ list[kind] \in Seq(Keys)
  BY KindTypes DEF Move
<1>2. /\ UNCHANGED <<cache, cleaner, clock>>
      /\ list' = [list EXCEPT ![kind] = MovedToBack(list[kind], key)]
      /\ writer' = [writer EXCEPT ![kind].pc = "set"]
  BY DEF Move
<1>3. /\ writer'[kind].pc = "set" /\ writer'[kind].item = writer[kind].item
      /\ writer'[kind].secs = secs
      /\ list'[kind] = MovedToBack(list[kind], key)
      /\ \A k \in Kinds : k # kind => writer'[k] = writer[k] /\ list'[k] = list[k]
  BY <1>2, KindTypes DEF Writers
<1>4. Cached(kind)' = Cached(kind)
  BY <1>2 DEF Cached
<1>5. /\ InListOnly(kind) = {} /\ InListOnly(kind)' = {}
      /\ ToSet(list[kind]) = Cached(kind) /\ IsInjective(list[kind])
  BY <1>1, <1>3 DEF InListOnly, KindOK, KeysAgree
<1>6. /\ ToSet(list'[kind]) = ToSet(list[kind]) /\ IsInjective(list'[kind])
      /\ \A a, b : Before(list'[kind], a, b) =>
           \/ Before(list[kind], a, b) /\ (key \in ToSet(list[kind]) => a # key /\ b # key)
           \/ b = key /\ a # key /\ a \in ToSet(list[kind]) /\ key \in ToSet(list[kind])
  BY <1>1, <1>3, <1>5, MovedPieces
<1>7. KeysAgree(kind)'
  BY <1>4, <1>5, <1>6 DEF KeysAgree
<1>8. \A x \in Keys : /\ EntryOf(kind, x)' = cache[kind][x]
                      /\ EntryOf(kind, x) = cache[kind][x]
                      /\ x # key => Settled(kind, x)
  BY <1>2, <1>5 DEF EntryOf, Settled
<1>9. InOrder(kind)'
  <2> SUFFICES ASSUME NEW a \in Keys, NEW b \in Keys, Before(list'[kind], a, b)
               PROVE  cache[kind][a].time <= cache[kind][b].time
    BY <1>8 DEF InOrder
  <2>1. CASE Before(list[kind], a, b) /\ (key \in ToSet(list[kind]) => a # key /\ b # key)
    <3>1. a # key /\ b # key
      BY <2>1 DEF Before, ToSet
    <3> QED
      BY <1>1, <1>8, <2>1, <3>1 DEF KindOK, InOrder
  <2>2. CASE b = key /\ a # key /\ a \in ToSet(list[kind]) /\ key \in ToSet(list[kind])
    <3>1. cache[kind][b].time = secs
      BY <1>1, <1>5, <2>2 DEF KindOK, ItemOK
    <3>2. cache[kind][a].time <= secs
      BY <1>1, <1>5, <2>2 DEF KindOK, EntryTimes
    <3> QED
      BY <3>1, <3>2
  <2> QED
    BY <1>6, <2>1, <2>2
<1>10. KindOK(kind)'
  BY <1>1, <1>2, <1>3, <1>4, <1>7, <1>9 DEF KindOK, WriterYoung, EntryTimes, ItemOK
<1> QED
  BY <1>2, <1>3, <1>4, <1>10, WriterStep

\* The cleaner picks an entry that has expired.  The one a writer is about to put
\* into the map has not.
LEMMA ListsLook ==
  ASSUME ListsInv, LookAtFront
  PROVE  CleanerOK'
<1>0. PICK kind : kind = cleaner.kind
  OBVIOUS
<1> DEFINE keys == list[kind]
<1>1. /\ kind \in Kinds /\ cleaner \in Cleaners /\ cleaner.expire \in Int
      /\ cleaner.pc = "front" /\ UNCHANGED <<cache, clock>>
      /\ cleaner' = IF keys # <<>> /\ Expired(EntryOf(kind, Head(keys)))
                    THEN [cleaner EXCEPT !.pc = "delete", !.victim = Head(keys)]
                    ELSE AfterKind(kind)
  BY <1>0 DEF ListsInv, TypeInv, Cleaners, LookAtFront
<1>2. /\ KindOK(kind) /\ keys \in Seq(Keys) /\ clock \in Nat /\ Timeout \in Nat
      /\ writer[kind].pc # "idle" => writer[kind].secs \in 1..clock
      /\ cleaner.expire <= clock - Timeout
  BY <1>1, KindTypes DEF ListsInv, CleanerOK, ExpireOK
<1>3. CASE keys # <<>> /\ Expired(EntryOf(kind, Head(keys)))
  <2> DEFINE victim == Head(keys)
  <2>1. /\ cleaner'.pc = "delete" /\ cleaner'.victim = victim
        /\ cleaner'.kind = kind /\ cleaner'.expire = cleaner.expire
    BY <1>0, <1>1, <1>3 DEF Cleaners
  <2>2. victim \in ToSet(keys)
    BY <1>2, <1>3 DEF ToSet
  <2>3. victim \notin InListOnly(kind)
    <3> SUFFICES ASSUME victim \in InListOnly(kind) PROVE FALSE
      OBVIOUS
    <3>1. writer[kind].pc = "insert"
      BY DEF InListOnly
    <3>2. EntryOf(kind, victim).time = writer[kind].secs
      BY DEF EntryOf, NewEntry
    <3>3. writer[kind].secs <= cleaner.expire
      BY <1>3, <3>2 DEF Expired
    <3>4. clock - writer[kind].secs < Timeout
      BY <1>2, <3>1 DEF KindOK, WriterYoung
    <3> QED
      BY <1>1, <1>2, <3>1, <3>3, <3>4
  <2>4. victim \in Cached(kind)
    BY <1>2, <2>2, <2>3 DEF KindOK, KeysAgree
  <2>5. victim \in Cached(kind)'
    BY <1>1, <2>4 DEF Cached
  <2> QED
    BY <1>1, <1>2, <2>1, <2>5 DEF CleanerOK, VictimCached, ExpireOK
<1>4. CASE ~ (keys # <<>> /\ Expired(EntryOf(kind, Head(keys))))
  <2>1. cleaner' = AfterKind(kind)
    BY <1>1, <1>4
  <2>2. \/ cleaner'.pc = "idle"
        \/ cleaner'.pc = "front" /\ cleaner'.expire = cleaner.expire
    BY <1>1, <2>1, IdleTypes DEF AfterKind, Cleaners
  <2> QED
    BY <1>1, <1>2, <2>2 DEF CleanerOK, VictimCached, ExpireOK
<1> QED
  BY <1>3, <1>4

\* The victim leaves the map and the list.
LEMMA ListsForget ==
  ASSUME ListsInv, Forget
  PROVE  CleanerOK' /\ \A k \in Kinds : KindOK(k)'
<1>0. PICK kind, victim : kind = cleaner.kind /\ victim = cleaner.victim
  OBVIOUS
<1>1. /\ kind \in Kinds /\ cleaner \in Cleaners /\ cleaner.expire \in Int
      /\ victim \in Cached(kind)
      /\ cleaner.pc = "forget" /\ UNCHANGED <<writer, clock>>
      /\ cache' = [cache EXCEPT ![kind][victim] = NoEntry]
      /\ list' = [list EXCEPT ![kind] = Without(list[kind], victim)]
      /\ cleaner' = [cleaner EXCEPT !.pc = "front"]
  BY <1>0 DEF ListsInv, TypeInv, Cleaners, Forget, CleanerOK, VictimCached
<1>2. /\ KindOK(kind) /\ list[kind] \in Seq(Keys) /\ Cached(kind) \subseteq Keys
      /\ victim \in Keys
      /\ cache \in [Kinds -> [Keys -> Entries \cup {NoEntry}]]
      /\ list \in [Kinds -> Seq(Keys)]
  BY <1>1, KindTypes
<1>3. /\ cache'[kind][victim] = NoEntry
      /\ \A x \in Keys : x # victim => cache'[kind][x] = cache[kind][x]
      /\ list'[kind] = Without(list[kind], victim)
      /\ \A k \in Kinds : k # kind => cache'[k] = cache[k] /\ list'[k] = list[k]
  BY <1>1, <1>2
<1>4. Cached(kind)' = Cached(kind) \ {victim}
  BY <1>2, <1>3 DEF Cached
<1>5. InListOnly(kind)' = InListOnly(kind) /\ victim \notin InListOnly(kind)
  BY <1>1, <1>2 DEF InListOnly, KindOK, ItemOK
<1>6. /\ ToSet(list'[kind]) = ToSet(list[kind]) \ {victim} /\ IsInjective(list'[kind])
      /\ \A a, b : Before(list'[kind], a, b) =>
                     Before(list[kind], a, b) /\ a # victim /\ b # victim
  BY <1>2, <1>3, WithoutPieces DEF KindOK, KeysAgree
<1>7. KeysAgree(kind)'
  BY <1>2, <1>4, <1>5, <1>6 DEF KindOK, KeysAgree
<1>8. \A x \in Keys : /\ x # victim => EntryOf(kind, x)' = EntryOf(kind, x)
                      /\ Settled(kind, x)' <=> Settled(kind, x)
  BY <1>1, <1>3, <1>5 DEF EntryOf, Settled, NewEntry
<1>9. InOrder(kind)'
  BY <1>2, <1>6, <1>8 DEF KindOK, InOrder
<1>10. EntryTimes(kind)' /\ ItemOK(kind)' /\ WriterYoung(kind)'
  BY <1>1, <1>2, <1>3, <1>4 DEF KindOK, EntryTimes, ItemOK, WriterYoung
<1>11. KindOK(kind)'
  BY <1>7, <1>9, <1>10 DEF KindOK
<1>12. ASSUME NEW k \in Kinds, k # kind PROVE KindOK(k)'
  BY <1>1, <1>3, <1>12, KindKept DEF ListsInv
<1>13. CleanerOK'
  BY <1>1 DEF ListsInv, CleanerOK, VictimCached, ExpireOK, Cleaners
<1> QED
  BY <1>11, <1>12, <1>13

\* A storer that has just started has nothing in its maps and lists.
LEMMA IdleLists ==
  ASSUME NEW kind \in Kinds
  PROVE  /\ \A key \in Keys : NoEntries[kind][key] = NoEntry
         /\ ToSet(NoKeys[kind]) = {} /\ IsInjective(NoKeys[kind])
         /\ \A a, b : ~ Before(NoKeys[kind], a, b)
         /\ IdleWriters[kind].pc = "idle"
<1>1. NoKeys[kind] = <<>>
  BY DEF NoKeys
<1> QED
  BY <1>1, IdleTypes DEF NoEntries, ToSet, IsInjective, Before

LEMMA ListsInit == Init => ListsInv
<1> SUFFICES ASSUME Init PROVE CleanerOK /\ \A kind \in Kinds : KindOK(kind)
  BY TypeInit DEF ListsInv
<1>1. /\ cache = NoEntries /\ list = NoKeys
      /\ writer = IdleWriters /\ cleaner = IdleCleaner
  BY DEF Init
<1> QED
  BY <1>1, IdleLists, IdleTypes
  DEF CleanerOK, VictimCached, ExpireOK, KindOK, WriterYoung, EntryTimes, ItemOK,
      KeysAgree, InOrder, InListOnly, Cached

LEMMA ListsFault ==
  ASSUME NEW kind \in Kinds, MapFault(kind)
  PROVE  CleanerOK' /\ \A k \in Kinds : KindOK(k)'
<1>1. /\ cache' = NoEntries /\ list' = NoKeys
      /\ writer' = IdleWriters /\ cleaner' = IdleCleaner
  BY DEF MapFault
<1> QED
  BY <1>1, IdleLists, IdleTypes
  DEF CleanerOK, VictimCached, ExpireOK, KindOK, WriterYoung, EntryTimes, ItemOK,
      KeysAgree, InOrder, InListOnly, Cached

\* Time passes while the calls of the writers are young.
LEMMA ListsTick ==
  ASSUME ListsInv, Tick
  PROVE  CleanerOK' /\ \A k \in Kinds : KindOK(k)'
<1>1. /\ clock' = clock + 1 /\ UNCHANGED <<cache, list, writer, cleaner>>
      /\ \A kind \in Kinds : writer[kind].pc # "idle" =>
                               clock + 1 - writer[kind].secs < Timeout
  BY DEF Tick
<1>2. clock \in Nat /\ Timeout \in Nat
  BY PrometheusAssumption DEF ListsInv, TypeInv
<1>3. cleaner.expire \in Int
  BY DEF ListsInv, TypeInv, Cleaners
<1>4. CleanerOK'
  BY <1>1, <1>2, <1>3 DEF ListsInv, CleanerOK, VictimCached, ExpireOK, Cached
<1>5. ASSUME NEW kind \in Kinds PROVE KindOK(kind)'
  <2>1. /\ KindOK(kind)
        /\ \A x \in Cached(kind) : cache[kind][x].time \in Nat
    BY KindTypes
  <2>2. WriterYoung(kind)'
    BY <1>1, <1>2, KindTypes DEF WriterYoung
  <2>3. EntryTimes(kind)'
    BY <1>1, <1>2, <2>1 DEF KindOK, EntryTimes, Cached
  <2> QED
    BY <1>1, <2>1, <2>2, <2>3
    DEF KindOK, ItemOK, KeysAgree, InOrder, Cached, InListOnly, EntryOf, NewEntry, Settled
<1> QED
  BY <1>4, <1>5

LEMMA ListsStep == ListsInv /\ [Next]_vars => ListsInv'
<1> SUFFICES ASSUME ListsInv, [Next]_vars
             PROVE  CleanerOK' /\ \A k \in Kinds : KindOK(k)'
  BY TypeStep DEF ListsInv
<1>1. ASSUME NEW kind \in Kinds, NEW batch \in SUBSET ItemsOf(kind) \ {{}},
             BeginReport(kind, batch)
      PROVE  CleanerOK' /\ \A k \in Kinds : KindOK(k)'
  <2> DEFINE w == [IdleWriter EXCEPT !.pc = "lookup", !.todo = batch, !.secs = clock]
  <2>1. writer' = [writer EXCEPT ![kind] = w] /\ writer[kind].pc = "idle"
        /\ UNCHANGED <<cleaner, clock, cache, list>>
    BY <1>1 DEF BeginReport
  <2>2. w.pc = "lookup" /\ w.secs = clock
    BY DEF IdleWriter
  <2> HIDE DEF w
  <2> QED
    BY <2>1, <2>2, ListsQuiet
<1>2. ASSUME NEW kind \in Kinds, NEW item, writer[kind].pc = "lookup", Hit(kind, item)
      PROVE  CleanerOK' /\ \A k \in Kinds : KindOK(k)'
  <2> DEFINE w == [writer[kind] EXCEPT !.item = item, !.pc = "touch",
                                       !.label = cache[kind][item.key].label]
  <2>1. writer' = [writer EXCEPT ![kind] = w]
        /\ UNCHANGED <<cleaner, clock, cache, list>>
    BY <1>2, KindTypes DEF Hit, Goto
  <2>2. w.pc = "touch" /\ w.secs = writer[kind].secs
    BY KindTypes DEF Writers
  <2> HIDE DEF w
  <2> QED
    BY <1>2, <2>1, <2>2, ListsQuiet
<1>3. ASSUME NEW kind \in Kinds, SetSeries(kind)
      PROVE  CleanerOK' /\ \A k \in Kinds : KindOK(k)'
  <2> DEFINE rest == writer[kind].todo \ {writer[kind].item}
             w == IF rest = {} THEN IdleWriter
                               ELSE [writer[kind] EXCEPT !.pc = "lookup", !.todo = rest]
  <2>1. writer' = [writer EXCEPT ![kind] = w] /\ writer[kind].pc = "set"
        /\ UNCHANGED <<cleaner, clock, cache, list>>
    BY <1>3 DEF SetSeries
  <2>2. w.pc = "idle" \/ (w.pc = "lookup" /\ w.secs = writer[kind].secs)
    BY KindTypes DEF Writers, IdleWriter
  <2> HIDE DEF w
  <2> QED
    BY <2>1, <2>2, ListsQuiet
<1>4. CASE BeginCleanup \/ DeleteSeries \/ LookAtFront
  <2>1. \A k \in Kinds : KindOK(k)'
    BY <1>4, KindKept DEF BeginCleanup, DeleteSeries, LookAtFront, ListsInv
  <2>2. CASE BeginCleanup
    <3>1. /\ cleaner' = [cleaner EXCEPT !.pc = "front", !.expire = clock - Timeout]
          /\ UNCHANGED clock /\ cleaner \in Cleaners
          /\ clock \in Nat /\ Timeout \in Nat
      BY <2>2, PrometheusAssumption DEF BeginCleanup, ListsInv, TypeInv
    <3>2. cleaner'.pc = "front" /\ cleaner'.expire = clock - Timeout
      BY <3>1 DEF Cleaners
    <3> QED
      BY <2>1, <3>1, <3>2 DEF CleanerOK, VictimCached, ExpireOK
  <2>3. CASE DeleteSeries
    <3>1. /\ cleaner' = [cleaner EXCEPT !.pc = "forget"] /\ cleaner.pc = "delete"
          /\ UNCHANGED <<clock, cache>> /\ cleaner \in Cleaners
      BY <2>3 DEF DeleteSeries, ListsInv, TypeInv
    <3>2. /\ cleaner'.pc = "forget" /\ cleaner'.expire = cleaner.expire
          /\ cleaner'.kind = cleaner.kind /\ cleaner'.victim = cleaner.victim
      BY <3>1 DEF Cleaners
    <3> QED
      BY <2>1, <3>1, <3>2 DEF ListsInv, CleanerOK, VictimCached, ExpireOK, Cached
  <2> QED
    BY <1>4, <2>1, <2>2, <2>3, ListsLook
<1>5. CASE UNCHANGED vars
  <2>1. \A k \in Kinds : KindOK(k)'
    BY <1>5, KindKept DEF vars, ListsInv
  <2>2. CleanerOK'
    BY <1>5 DEF vars, ListsInv, CleanerOK, VictimCached, ExpireOK, Cached
  <2> QED
    BY <2>1, <2>2
<1> QED
  BY <1>1, <1>2, <1>3, <1>4, <1>5, ListsMiss, ListsInsert, ListsTouch, ListsMove,
     ListsForget, ListsTick, ListsFault
  DEF Next, Write, Lookup, CleanUp

\* store_prom.go:426-428 and 463-464: the maps and the lists of the storer hold
\* the same keys, and each key once, whatever the order of the unlocked steps, as
\* long as a writer's call takes less than the timeout.
THEOREM MapsAndListsAgree == Spec => []SameKeys
<1>1. ListsInv => SameKeys
  BY DEF ListsInv, KindOK, KeysAgree, SameKeys
<1> QED
  BY <1>1, ListsInit, ListsStep, PTL DEF Spec

\* store_prom.go:451-454 and 478-481: the cleanup stops at the first entry that
\* has not expired; no later one has, but for one a writer is about to move.
THEOREM ListsOldestFirst == Spec => []OldestFirst
<1>1. ListsInv => OldestFirst
  <2> SUFFICES ASSUME ListsInv, NEW kind \in Kinds,
                      NEW i \in DOMAIN list[kind], NEW j \in DOMAIN list[kind], i < j,
                      Settled(kind, list[kind][i]), Settled(kind, list[kind][j])
               PROVE  EntryOf(kind, list[kind][i]).time <= EntryOf(kind, list[kind][j]).time
    BY DEF OldestFirst
  <2>1. InOrder(kind) /\ list[kind] \in Seq(Keys)
    BY KindTypes DEF KindOK
  <2>2. list[kind][i] \in Keys /\ list[kind][j] \in Keys
    BY <2>1
  <2>3. Before(list[kind], list[kind][i], list[kind][j])
    BY DEF Before
  <2> QED
    BY <2>1, <2>2, <2>3 DEF InOrder
<1> QED
  BY <1>1, ListsInit, ListsStep, PTL DEF Spec

(***************************************************************************)
(* What is cached is exported.  The series of an entry has the label of    *)
(* the entry, and entries of different keys have different labels.         *)
(***************************************************************************)

\* A label belongs to one key: an interface's label has its node_tid, and a
\* connection's has the addresses and ports that its L3TrackingID stands for.
LabelsTellKeys ==
  \A i, j \in Items : i.kind = j.kind /\ i.label = j.label => i.key = j.key

\* A writer sets the series of the label its key's entry has.
LabelRight(kind) ==
  LET w == writer[kind] IN
  /\ w.pc = "insert" => w.label = w.item.label
  /\ w.pc \in {"touch", "move", "set"} /\ w.item.key \in Cached(kind) =>
       w.label = cache[kind][w.item.key].label

\* An entry has the label of an item with its key.
EntryLabels(kind) ==
  \A key \in Cached(kind) :
    \E item \in ItemsOf(kind) :
      item.key = key /\ item.label = cache[kind][key].label

Exported(kind) ==
  \A key \in Cached(kind) :
    \/ series[kind][cache[kind][key].label] # NoItem
    \/ writer[kind].pc = "set" /\ writer[kind].item.key = key
    \/ cleaner.pc = "forget" /\ cleaner.kind = kind /\ cleaner.victim = key

ExportOK(kind) == LabelRight(kind) /\ EntryLabels(kind) /\ Exported(kind)

ExportInv == ListsInv /\ \A kind \in Kinds : ExportOK(kind)

LEMMA ExportTypes ==
  ASSUME ExportInv, NEW kind \in Kinds
  PROVE  /\ ListsInv /\ ExportOK(kind)
         /\ series \in [Kinds -> [Labels -> Items \cup {NoItem}]]
         /\ writer[kind].pc \notin {"idle", "lookup"} =>
              writer[kind].item \in ItemsOf(kind)
         /\ writer[kind].todo \subseteq ItemsOf(kind)
         /\ \A key \in Cached(kind) : cache[kind][key].label \in Labels
<1>1. \A e \in Entries : e.label \in Labels
  BY DEF Entries
<1> QED
  BY <1>1, KindTypes DEF ExportInv, ListsInv, TypeInv, WriterOK

\* The other kind.
LEMMA ExportKept ==
  ASSUME NEW kind, ExportOK(kind), cache'[kind] = cache[kind],
         writer'[kind] = writer[kind], series'[kind] = series[kind],
         \/ UNCHANGED cleaner
         \/ ~ (cleaner.pc = "forget" /\ cleaner.kind = kind)
  PROVE  ExportOK(kind)'
BY DEF ExportOK, LabelRight, EntryLabels, Exported, Cached

\* A step of a writer is about its own kind.
LEMMA ExportWriter ==
  ASSUME ExportInv, NEW kind \in Kinds, UNCHANGED cleaner,
         \A k \in Kinds : k # kind => /\ cache'[k] = cache[k]
                                      /\ series'[k] = series[k]
                                      /\ writer'[k] = writer[k],
         ExportOK(kind)'
  PROVE  \A k \in Kinds : ExportOK(k)'
BY ExportKept DEF ExportInv

\* A writer that finds or creates an entry takes over, or gives, its label.
LEMMA ExportLookup ==
  ASSUME ExportInv, NEW kind \in Kinds, NEW item \in writer[kind].todo,
         writer[kind].pc = "lookup", Hit(kind, item) \/ Miss(kind, item)
  PROVE  \A k \in Kinds : ExportOK(k)'
<1>1. /\ ExportOK(kind) /\ writer[kind] \in Writers /\ writer \in [Kinds -> Writers]
      /\ UNCHANGED <<cache, series, cleaner>>
  BY ExportTypes, KindTypes DEF Hit, Miss
<1>2. /\ writer'[kind].item = item
      /\ \A k \in Kinds : k # kind => writer'[k] = writer[k]
      /\ \/ /\ writer'[kind].pc = "touch"
            /\ writer'[kind].label = cache[kind][item.key].label
         \/ /\ writer'[kind].pc = "insert"
            /\ writer'[kind].label = item.label
  <2>1. CASE Hit(kind, item)
    BY <1>1, <2>1 DEF Hit, Goto, Writers
  <2>2. CASE Miss(kind, item)
    BY <1>1, <2>2 DEF Miss, Goto, Writers
  <2> QED
    BY <2>1, <2>2
<1>3. Cached(kind)' = Cached(kind)
  BY <1>1 DEF Cached
<1>4. LabelRight(kind)' /\ EntryLabels(kind)' /\ Exported(kind)'
  BY <1>1, <1>2, <1>3 DEF ExportOK, LabelRight, EntryLabels, Exported
<1> QED
  BY <1>1, <1>2, <1>4, ExportWriter DEF ExportOK

\* Steps that only take a writer on, and change the map at most at its key.
LEMMA ExportOn ==
  ASSUME ExportInv, NEW kind \in Kinds, NEW pc \in {"move", "set"},
         writer' = [writer EXCEPT ![kind].pc = pc],
         writer[kind].pc \in {"touch", "move"},
         UNCHANGED <<series, cleaner>>,
         Cached(kind)' = Cached(kind),
         \A x \in Cached(kind) : cache'[kind][x].label = cache[kind][x].label,
         \A k \in Kinds : k # kind => cache'[k] = cache[k]
  PROVE  \A k \in Kinds : ExportOK(k)'
<1>1. /\ ExportOK(kind) /\ writer[kind] \in Writers /\ writer \in [Kinds -> Writers]
  BY ExportTypes, KindTypes
<1>2. /\ writer'[kind].pc = pc /\ writer'[kind].item = writer[kind].item
      /\ writer'[kind].label = writer[kind].label
      /\ \A k \in Kinds : k # kind => writer'[k] = writer[k]
  BY <1>1 DEF Writers
<1>3. LabelRight(kind)' /\ EntryLabels(kind)' /\ Exported(kind)'
  BY <1>1, <1>2 DEF ExportOK, LabelRight, EntryLabels, Exported
<1> QED
  BY <1>2, <1>3, ExportWriter DEF ExportOK

LEMMA ExportInsert ==
  ASSUME ExportInv, NEW kind \in Kinds, Insert(kind)
  PROVE  \A k \in Kinds : ExportOK(k)'
<1> DEFINE key == writer[kind].item.key
<1>1. /\ ExportOK(kind) /\ writer[kind] \in Writers /\ writer \in [Kinds -> Writers]
      /\ cache \in [Kinds -> [Keys -> Entries \cup {NoEntry}]]
      /\ key \in Keys /\ writer[kind].pc = "insert" /\ Cached(kind) \subseteq Keys
      /\ writer[kind].item \in ItemsOf(kind)
      /\ UNCHANGED <<series, cleaner>>
      /\ cache' = [cache EXCEPT ![kind][key] = NewEntry(kind)]
      /\ writer' = [writer EXCEPT ![kind].pc = "set"]
  BY ExportTypes, KindTypes DEF Insert
<1>2. /\ cache'[kind][key].label = writer[kind].item.label
      /\ \A x \in Keys : x # key => cache'[kind][x] = cache[kind][x]
      /\ \A k \in Kinds : k # kind => cache'[k] = cache[k]
  BY <1>1 DEF NewEntry
<1>3. /\ writer'[kind].pc = "set" /\ writer'[kind].item = writer[kind].item
      /\ writer'[kind].label = writer[kind].label
      /\ \A k \in Kinds : k # kind => writer'[k] = writer[k]
  BY <1>1 DEF Writers
<1>4. Cached(kind)' \subseteq Cached(kind) \cup {key}
  BY <1>1, <1>2 DEF Cached
<1>5. LabelRight(kind)' /\ EntryLabels(kind)' /\ Exported(kind)'
  BY <1>1, <1>2, <1>3, <1>4 DEF ExportOK, LabelRight, EntryLabels, Exported
<1> QED
  BY <1>1, <1>2, <1>3, <1>5, ExportWriter DEF ExportOK

\* The series of the writer's label is there, whatever the cleaner deleted.
LEMMA ExportSet ==
  ASSUME ExportInv, NEW kind \in Kinds, SetSeries(kind)
  PROVE  \A k \in Kinds : ExportOK(k)'
<1> DEFINE w == writer[kind]
           rest == w.todo \ {w.item}
           v == IF rest = {} THEN IdleWriter
                             ELSE [w EXCEPT !.pc = "lookup", !.todo = rest]
<1>1. /\ ExportOK(kind) /\ w \in Writers /\ writer \in [Kinds -> Writers]
      /\ w.pc = "set" /\ w.item \in ItemsOf(kind) /\ w.item # NoItem
      /\ series \in [Kinds -> [Labels -> Items \cup {NoItem}]]
      /\ \A x \in Cached(kind) : cache[kind][x].label \in Labels
      /\ UNCHANGED <<cache, cleaner>>
      /\ series' = [series EXCEPT ![kind][w.label] = w.item]
      /\ writer' = [writer EXCEPT ![kind] = v]
  BY ExportTypes, KindTypes, ItemTypes DEF SetSeries
<1>2. v.pc \in {"idle", "lookup"}
  BY <1>1, IdleTypes DEF Writers
<1> HIDE DEF v
<1>3. /\ writer'[kind].pc \in {"idle", "lookup"}
      /\ \A k \in Kinds : k # kind => writer'[k] = writer[k] /\ series'[k] = series[k]
      /\ \A l \in Labels : series[kind][l] # NoItem \/ l = w.label =>
                             series'[kind][l] # NoItem
  BY <1>1, <1>2
<1>4. Cached(kind)' = Cached(kind)
  BY <1>1 DEF Cached
<1>5. LabelRight(kind)' /\ EntryLabels(kind)'
  BY <1>1, <1>3, <1>4 DEF ExportOK, LabelRight, EntryLabels
<1>6. Exported(kind)'
  <2> SUFFICES ASSUME NEW key \in Cached(kind)
               PROVE  \/ series'[kind][cache[kind][key].label] # NoItem
                      \/ cleaner.pc = "forget" /\ cleaner.kind = kind /\ cleaner.victim = key
    BY <1>1, <1>4 DEF Exported
  <2>1. CASE w.item.key = key
    BY <1>1, <1>3, <2>1 DEF ExportOK, LabelRight
  <2>2. CASE w.item.key # key
    BY <1>1, <1>3, <2>2 DEF ExportOK, Exported
  <2> QED
    BY <2>1, <2>2
<1> QED
  BY <1>1, <1>3, <1>5, <1>6, ExportWriter DEF ExportOK

\* The cleaner deletes the series of its victim and of no other entry.
LEMMA ExportDelete ==
  ASSUME LabelsTellKeys, ExportInv, DeleteSeries
  PROVE  \A k \in Kinds : ExportOK(k)'
<1>0. PICK kind, victim : kind = cleaner.kind /\ victim = cleaner.victim
  OBVIOUS
<1> DEFINE label == cache[kind][victim].label
<1>1. /\ kind \in Kinds /\ cleaner \in Cleaners /\ cleaner.pc = "delete"
      /\ victim \in Cached(kind)
      /\ UNCHANGED <<cache, writer>>
      /\ series' = [series EXCEPT ![kind][label] = NoItem]
      /\ cleaner' = [cleaner EXCEPT !.pc = "forget"]
  BY <1>0 DEF ExportInv, ListsInv, TypeInv, CleanerOK, VictimCached, Cleaners, DeleteSeries
<1>2. /\ ExportOK(kind)
      /\ series \in [Kinds -> [Labels -> Items \cup {NoItem}]]
      /\ \A x \in Cached(kind) : cache[kind][x].label \in Labels
  BY <1>1, ExportTypes
<1>3. /\ cleaner'.pc = "forget" /\ cleaner'.kind = kind /\ cleaner'.victim = victim
      /\ \A k \in Kinds : k # kind => series'[k] = series[k]
      /\ \A l \in Labels : l # label => series'[kind][l] = series[kind][l]
  BY <1>0, <1>1, <1>2 DEF Cleaners
<1>4. Cached(kind)' = Cached(kind)
  BY <1>1 DEF Cached
<1>5. ASSUME NEW key \in Cached(kind), key # victim
      PROVE  cache[kind][key].label # label
  <2>1. PICK i \in ItemsOf(kind) : i.key = key /\ i.label = cache[kind][key].label
    BY <1>2 DEF ExportOK, EntryLabels
  <2>2. PICK j \in ItemsOf(kind) : j.key = victim /\ j.label = label
    BY <1>1, <1>2 DEF ExportOK, EntryLabels
  <2> QED
    BY <1>5, <2>1, <2>2 DEF LabelsTellKeys, ItemsOf
<1>6. Exported(kind)'
  BY <1>1, <1>2, <1>3, <1>4, <1>5 DEF ExportOK, Exported
<1>7. ExportOK(kind)'
  BY <1>1, <1>2, <1>4, <1>6 DEF ExportOK, LabelRight, EntryLabels
<1> QED
  BY <1>1, <1>3, <1>7, ExportKept DEF ExportInv

LEMMA ExportForget ==
  ASSUME ExportInv, Forget
  PROVE  \A k \in Kinds : ExportOK(k)'
<1>0. PICK kind, victim : kind = cleaner.kind /\ victim = cleaner.victim
  OBVIOUS
<1>1. /\ kind \in Kinds /\ cleaner \in Cleaners
      /\ victim \in Cached(kind)
      /\ cleaner.pc = "forget" /\ UNCHANGED <<writer, series>>
      /\ cache' = [cache EXCEPT ![kind][victim] = NoEntry]
      /\ cleaner' = [cleaner EXCEPT !.pc = "front"]
  BY <1>0 DEF ExportInv, ListsInv, TypeInv, CleanerOK, VictimCached, Cleaners, Forget
<1>2. /\ ExportOK(kind) /\ Cached(kind) \subseteq Keys
      /\ cache \in [Kinds -> [Keys -> Entries \cup {NoEntry}]]
  BY <1>1, ExportTypes, KindTypes
<1>3. /\ cache'[kind][victim] = NoEntry
      /\ \A x \in Keys : x # victim => cache'[kind][x] = cache[kind][x]
      /\ \A k \in Kinds : k # kind => cache'[k] = cache[k]
  BY <1>1, <1>2
<1>4. Cached(kind)' = Cached(kind) \ {victim}
  BY <1>2, <1>3 DEF Cached
<1>5. ExportOK(kind)'
  BY <1>0, <1>1, <1>2, <1>3, <1>4 DEF ExportOK, LabelRight, EntryLabels, Exported
<1> QED
  BY <1>0, <1>1, <1>3, <1>5, ExportKept DEF ExportInv

LEMMA ExportStep ==
  ASSUME LabelsTellKeys
  PROVE  ExportInv /\ [Next]_vars => ExportInv'
<1> SUFFICES ASSUME ExportInv, [Next]_vars PROVE \A k \in Kinds : ExportOK(k)'
  BY ListsStep DEF ExportInv
<1>1. ASSUME NEW kind \in Kinds, NEW batch \in SUBSET ItemsOf(kind) \ {{}},
             BeginReport(kind, batch)
      PROVE  \A k \in Kinds : ExportOK(k)'
  <2> DEFINE w == [IdleWriter EXCEPT !.pc = "lookup", !.todo = batch, !.secs = clock]
  <2>1. /\ writer' = [writer EXCEPT ![kind] = w] /\ writer[kind].pc = "idle"
        /\ UNCHANGED <<cleaner, cache, series>>
    BY <1>1 DEF BeginReport
  <2>2. w.pc = "lookup"
    BY DEF IdleWriter
  <2> HIDE DEF w
  <2>3. writer'[kind].pc = "lookup" /\ \A k \in Kinds : k # kind => writer'[k] = writer[k]
    BY <2>1, <2>2, KindTypes DEF ExportInv
  <2>4. ExportOK(kind)'
    BY <2>1, <2>3 DEF ExportInv, ExportOK, LabelRight, EntryLabels, Exported, Cached
  <2> QED
    BY <2>1, <2>3, <2>4, ExportWriter
<1>2. ASSUME NEW kind \in Kinds, Touch(kind)
      PROVE  \A k \in Kinds : ExportOK(k)'
  <2> DEFINE key == writer[kind].item.key
             secs == writer[kind].secs
  <2>1. /\ key \in Keys /\ writer[kind].pc = "touch" /\ secs \in Nat
        /\ cache \in [Kinds -> [Keys -> Entries \cup {NoEntry}]]
        /\ Cached(kind) \subseteq Keys
        /\ \A x \in Cached(kind) : cache[kind][x] \in Entries
        /\ UNCHANGED <<series, cleaner>>
        /\ cache' = IF key \in Cached(kind)
                    THEN [cache EXCEPT ![kind][key].time = secs] ELSE cache
        /\ writer' = [writer EXCEPT ![kind].pc = "move"]
    BY <1>2, ExportTypes, KindTypes DEF Touch
  <2>2. /\ key \in Cached(kind) =>
             cache'[kind][key] = [cache[kind][key] EXCEPT !.time = secs]
        /\ \A x \in Keys : x # key => cache'[kind][x] = cache[kind][x]
        /\ key \notin Cached(kind) => cache'[kind][key] = cache[kind][key]
        /\ \A k \in Kinds : k # kind => cache'[k] = cache[k]
    BY <2>1
  <2>3. key \in Cached(kind) => /\ cache'[kind][key].time = secs
                                /\ cache'[kind][key].label = cache[kind][key].label
                                /\ cache'[kind][key] # NoEntry
    <3> SUFFICES ASSUME key \in Cached(kind)
                 PROVE  /\ cache'[kind][key].time = secs
                        /\ cache'[kind][key].label = cache[kind][key].label
                        /\ cache'[kind][key] # NoEntry
      OBVIOUS
    <3>1. /\ cache'[kind][key].time = secs
          /\ cache'[kind][key].label = cache[kind][key].label
      BY <2>1, <2>2 DEF Entries
    <3> QED
      BY <2>1, <3>1 DEF NoEntry
  <2>4. Cached(kind)' = Cached(kind)
    BY <2>1, <2>2, <2>3 DEF Cached
  <2>5. \A x \in Cached(kind) : cache'[kind][x].label = cache[kind][x].label
    BY <2>1, <2>2, <2>3
  <2> QED
    BY <2>1, <2>2, <2>4, <2>5, ExportOn
<1>3. ASSUME NEW kind \in Kinds, Move(kind)
      PROVE  \A k \in Kinds : ExportOK(k)'
  BY <1>3, ExportOn DEF Move, Cached
<1>4. CASE BeginCleanup \/ LookAtFront
  BY <1>4, ExportKept DEF BeginCleanup, LookAtFront, ExportInv
<1>5. ASSUME NEW kind \in Kinds, MapFault(kind)
      PROVE  \A k \in Kinds : ExportOK(k)'
  <2>1. cache' = NoEntries /\ writer' = IdleWriters
    BY <1>5 DEF MapFault
  <2> QED
    BY <2>1, IdleLists DEF ExportOK, LabelRight, EntryLabels, Exported, Cached
<1>6. CASE Tick \/ UNCHANGED vars
  BY <1>6, ExportKept DEF Tick, vars, ExportInv
<1> QED
  BY <1>1, <1>2, <1>3, <1>4, <1>5, <1>6, ExportLookup, ExportInsert, ExportSet,
     ExportDelete, ExportForget
  DEF Next, Write, Lookup, CleanUp

\* store_prom.go:431-438 and 457-463: what is in the cache is exported, whatever
\* the order of the unlocked steps of the writers and the cleaner, unless the
\* writer is about to export it or the cleaner about to forget it.
THEOREM CachedIsExported ==
  ASSUME LabelsTellKeys
  PROVE  Spec => []EntriesExported
<1>1. Init => ExportInv
  <2> SUFFICES ASSUME Init PROVE \A kind \in Kinds : ExportOK(kind)
    BY ListsInit DEF ExportInv
  <2>1. cache = NoEntries /\ writer = IdleWriters
    BY DEF Init
  <2> QED
    BY <2>1, IdleLists DEF ExportOK, LabelRight, EntryLabels, Exported, Cached
<1>2. ExportInv => EntriesExported
  BY DEF ExportInv, ExportOK, Exported, EntriesExported
<1> QED
  BY <1>1, <1>2, ExportStep, PTL DEF Spec
=============================================================================
