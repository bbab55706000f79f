------------------------ MODULE AccountFile_proofs ------------------------
(***************************************************************************)
(* The file accounter never counts a byte twice, whatever crashes, however *)
(* many of its system calls fail and however the clock moves; and what a   *)
(* crash can take from it.                                                 *)
(***************************************************************************)
EXTENDS AccountFile, TLAPS

\* A record has at most the bytes of the calls of Add that began.
Within(file) == file.kind = "record" => file.bytes <= upper

\* Reset forgets upper last, and only when no file is left; a record in memory is
\* that of a call in progress, which Reset does not overlap.
BytesInv ==
  /\ TypeOK
  /\ Within(main)
  /\ Within(bak)
  /\ Within(record)
  /\ pc \in {"idle", "read", "resetMain", "resetBak"} => record = Absent

\* A record is told from what is not one by its kind.
LEMMA ContentsKinds ==
  /\ \A s, e, b \in Nat : Record(s, e, b) \in Contents
  /\ Absent \in Contents
  /\ Garbage \in Contents
  /\ \A f \in Contents : f.kind = "record" =>
       /\ f \in [kind : {"record"}, start : Nat, end : Nat, bytes : Nat]
       /\ f.bytes \in Nat
  /\ Absent.kind # "record"
  /\ Garbage.kind # "record"
  BY DEF Contents, Absent, Garbage, Record

LEMMA BytesInit == Init => BytesInv
  BY AccountAssumption, ContentsKinds
  DEF Init, BytesInv, TypeOK, Within, AccountAssumption

\* Add starts from a record that no more bytes than began have gone into,
\* whatever it manages to read.
LEMMA ReadWithin ==
  ASSUME BytesInv, NEW file \in {ReadRecord, ReadBak, NewRecord}
  PROVE  /\ file \in [kind : {"record"}, start : Nat, end : Nat, bytes : Nat]
         /\ file.bytes <= upper
<1>1. NewRecord \in [kind : {"record"}, start : Nat, end : Nat, bytes : Nat]
      /\ NewRecord.bytes = 0
  BY DEF NewRecord, Record, BytesInv, TypeOK
<1>2. upper \in Nat
  BY DEF BytesInv, TypeOK
<1> QED
  BY <1>1, <1>2, ContentsKinds
  DEF ReadRecord, ReadBak, Valid, BytesInv, TypeOK, Within

\* What Add is about to write has the bytes it adds on top of those it read.
LEMMA ReadStep ==
  ASSUME BytesInv, Read \/ FailToRead
  PROVE  BytesInv'
<1>1. PICK file \in {ReadRecord, ReadBak, NewRecord} : ReadAs(file)
  BY DEF Read, FailToRead
<1>2. /\ upper \in Nat /\ adding \in Nat /\ upper' = upper + adding /\ now \in Nat
      /\ adding' \in {0, adding} /\ now' = 0 /\ pc' = "open"
      /\ UNCHANGED <<main, bak, clock, lower>>
  BY <1>1 DEF BytesInv, TypeOK, Read, FailToRead, ReadAs, files
<1>3. /\ file \in [kind : {"record"}, start : Nat, end : Nat, bytes : Nat]
      /\ file.bytes <= upper
  BY <1>1, ReadWithin
<1>4. /\ record' \in [kind : {"record"}, start : Nat, end : Nat, bytes : Nat]
      /\ record'.bytes = file.bytes + adding
  <2>1. record' = [kind |-> file.kind, start |-> file.start,
                   end |-> now, bytes |-> file.bytes + adding]
    BY <1>1, <1>3 DEF ReadAs, Added
  <2> QED
    BY <1>2, <1>3, <2>1
<1>5. Within(record)'
  BY <1>2, <1>3, <1>4 DEF Within
<1>6. Within(main)' /\ Within(bak)'
  BY <1>2, ContentsKinds DEF BytesInv, TypeOK, Within
<1>7. left' \in [{"adds", "resets", "crashes", "faults", "back"} -> Nat]
  BY DEF Read, FailToRead, Spend, BytesInv, TypeOK
<1>8. TypeOK'
  <2>1. record' \in Contents
    BY <1>4 DEF Contents
  <2> QED
    BY <1>2, <1>7, <2>1 DEF BytesInv, TypeOK
<1> QED
  BY <1>2, <1>5, <1>6, <1>8 DEF BytesInv

LEMMA BytesStep == BytesInv /\ [Next]_vars => BytesInv'
<1> SUFFICES ASSUME BytesInv, [Next]_vars
             PROVE  BytesInv'
  OBVIOUS
<1> USE DEF BytesInv, TypeOK, Within, files
<1>1. ASSUME NEW bytes \in Bytes, BeginAdd(bytes)
      PROVE  BytesInv'
  BY <1>1, AccountAssumption DEF BeginAdd, Spend, AccountAssumption
<1>2. CASE OpenBak
  BY <1>2, ContentsKinds DEF OpenBak
<1>3. CASE WriteBak
  BY <1>3 DEF WriteBak
<1>4. CASE FailToWrite
  BY <1>4 DEF FailToWrite, Spend
<1>5. CASE RemoveMain
  BY <1>5, ContentsKinds DEF RemoveMain
<1>6. CASE FailToRemove
  BY <1>6 DEF FailToRemove, Spend
<1>7. CASE RenameBak
  BY <1>7, ContentsKinds DEF RenameBak, EndAdd
<1>8. CASE FailToRename
  BY <1>8, ContentsKinds DEF FailToRename, EndAdd, Spend
<1>9. CASE BeginReset
  BY <1>9, ContentsKinds DEF BeginReset, Spend
<1>10. CASE ResetBak \/ FailToResetBak
  BY <1>10, ContentsKinds DEF ResetBak, FailToResetBak, EndReset, Spend
<1>16. CASE ResetMain \/ FailToResetMain
  BY <1>16, ContentsKinds DEF ResetMain, FailToResetMain, Spend
<1>11. CASE Crash
  BY <1>11, ContentsKinds DEF Crash, Spend
<1>12. CASE Tick
  BY <1>12 DEF Tick
<1>13. CASE StepBack
  BY <1>13 DEF StepBack, Spend
<1>14. CASE UNCHANGED vars
  BY <1>14 DEF vars
<1>15. CASE Read \/ FailToRead
  BY <1>15, ReadStep
<1> QED
  BY <1>1, <1>2, <1>3, <1>4, <1>5, <1>6, <1>7, <1>8, <1>9, <1>10, <1>11,
     <1>12, <1>13, <1>14, <1>15, <1>16 DEF Next

\* Files, records and the counters keep their types.
THEOREM AccountTypes == Spec => []TypeOK
<1>1. BytesInv => TypeOK
  BY DEF BytesInv
<1> QED
  BY <1>1, BytesInit, BytesStep, PTL DEF Spec

\* However the system calls of Add and Reset fail and wherever the exporter dies,
\* the counter has no byte that no call of Add since the last Reset that left no
\* file brought (account_file.go:123-150).
THEOREM NeverInvented == Spec => []NothingInvented
<1>1. BytesInv => NothingInvented
  BY ReadWithin DEF NothingInvented, Count
<1> QED
  BY <1>1, BytesInit, BytesStep, PTL DEF Spec

(***************************************************************************)
(* What a crash leaves.                                                    *)
(***************************************************************************)

\* No system call failed and the clock was not set back.
Undisturbed == left.faults = MaxFaults /\ left.back = MaxStepsBack

BoundsKept == left.faults <= MaxFaults /\ left.back <= MaxStepsBack

\* A valid record ends at time t or before.
EndsBy(file, t) == Valid(file) => file.end <= t

\* What Add writes has all that has to be kept, and what it adds; only a record
\* that nothing has to be kept of is not valid.
Writing ==
  /\ record.kind = "record"
  /\ EndsBy(record, clock)
  /\ IF Valid(record) THEN record.bytes >= lower + adding
                      ELSE lower = 0 /\ adding = 0

\* What the next Add would find if the exporter died here.
Kept ==
  /\ pc \in {"idle", "read", "open"} => Count >= lower
  /\ pc \in {"open", "write", "remove", "rename"} => Writing
  /\ pc \in {"write", "remove"} => (Valid(main) => main.bytes >= lower)
  /\ pc = "write" => bak = Garbage
  /\ pc \in {"remove", "rename"} => bak = record
  /\ pc \in {"rename", "resetBak"} => main = Absent
  /\ pc \in {"resetMain", "resetBak"} => lower = 0

\* No record ends later than the clock, nor than the time Add took.
Times ==
  /\ EndsBy(main, clock) /\ EndsBy(bak, clock)
  /\ pc = "read" => now <= clock /\ EndsBy(main, now) /\ EndsBy(bak, now)

KeptInv == BytesInv /\ BoundsKept /\ (Undisturbed => Kept /\ Times)

LEMMA AccountValues ==
  ASSUME BytesInv
  PROVE  /\ {clock, now, adding, lower, upper} \subseteq Nat
         /\ \A f \in {main, bak, record} :
              f.kind = "record" =>
                f \in [kind : {"record"}, start : Nat, end : Nat, bytes : Nat]
         /\ {main, bak, record} \subseteq Contents
         /\ Count \in Nat
BY ContentsKinds, ReadWithin DEF BytesInv, TypeOK, Count

\* What is counted is the first valid record, or nothing.
LEMMA CountIs ==
  /\ Valid(main) => Count = main.bytes
  /\ ~ Valid(main) /\ Valid(bak) => Count = bak.bytes
  /\ ~ Valid(main) /\ ~ Valid(bak) => Count = 0
  /\ ~ Valid(Absent) /\ ~ Valid(Garbage)
BY DEF Count, ReadRecord, ReadBak, NewRecord, Record, Valid, Absent, Garbage

\* A new record is valid but for one that starts after Add began.
LEMMA KeptRead ==
  ASSUME KeptInv, Undisturbed, Read
  PROVE  Kept' /\ Times'
<1>1. /\ {clock, now, adding, lower, upper} \subseteq Nat
      /\ Count \in Nat /\ Count >= lower /\ Times /\ now <= clock
  BY AccountValues DEF KeptInv, Kept, Read, ReadAs, Times
<1>2. ReadRecord \in [kind : {"record"}, start : Nat, end : Nat, bytes : Nat]
  BY ReadWithin DEF KeptInv
<1>3. /\ record' = [kind |-> "record", start |-> ReadRecord.start, end |-> now,
                    bytes |-> Count + adding]
      /\ adding' = IF Valid(record') THEN adding ELSE 0
      /\ pc' = "open"
      /\ UNCHANGED <<main, bak, clock, lower>>
  BY <1>2 DEF Read, ReadAs, Added, Count, files
<1>4. CASE Valid(main) \/ Valid(bak)
  <2>1. \/ ReadRecord = main /\ Valid(main)
        \/ ReadRecord = bak /\ Valid(bak)
    BY <1>4 DEF ReadRecord, ReadBak
  <2>2. ReadRecord.start <= ReadRecord.end /\ ReadRecord.end <= now
    BY <1>1, <2>1 DEF Valid, Times, EndsBy, Read, ReadAs
  <2>3. Valid(record')
    BY <1>1, <1>2, <1>3, <2>2 DEF Valid
  <2>4. Writing'
    BY <1>1, <1>3, <2>3 DEF Writing, EndsBy
  <2>5. Count' = Count
    BY <1>3, <1>4 DEF Count, ReadRecord, ReadBak
  <2> QED
    BY <1>1, <1>3, <2>4, <2>5 DEF Kept, Times, EndsBy
<1>5. CASE ~ Valid(main) /\ ~ Valid(bak)
  <2>1. Count = 0 /\ lower = 0
    BY <1>1, <1>5, CountIs
  <2>2. Count' = Count
    BY <1>3, <1>5 DEF Count, ReadRecord, ReadBak, NewRecord, Record
  <2>3. Writing'
    BY <1>1, <1>3, <2>1 DEF Writing, EndsBy
  <2> QED
    BY <1>1, <1>3, <2>1, <2>2, <2>3 DEF Kept, Times, EndsBy
<1> QED
  BY <1>4, <1>5

\* A system call fails.
Fault ==
  \/ FailToRead \/ FailToWrite \/ FailToRemove \/ FailToRename
  \/ FailToResetMain \/ FailToResetBak

LEMMA KeptStep == KeptInv /\ [Next]_vars => KeptInv'
<1> SUFFICES ASSUME KeptInv, [Next]_vars
             PROVE  BoundsKept' /\ (Undisturbed' => Kept' /\ Times')
  BY BytesStep DEF KeptInv
<1>1. /\ left.faults \in Nat /\ left.back \in Nat
      /\ MaxFaults \in Nat /\ MaxStepsBack \in Nat
      /\ left.faults <= MaxFaults /\ left.back <= MaxStepsBack
  BY AccountAssumption DEF KeptInv, BytesInv, TypeOK, BoundsKept
<1>2. /\ BoundsKept' /\ (Undisturbed' => Undisturbed)
      /\ Fault \/ StepBack => ~ Undisturbed'
  <2>1. left' = left \/ \E what \in DOMAIN left :
                          left' = [left EXCEPT ![what] = @ - 1]
    BY DEF Next, vars, BeginAdd, Read, FailToRead, OpenBak, WriteBak, FailToWrite,
           RemoveMain, FailToRemove, RenameBak, FailToRename, EndAdd, BeginReset,
           ResetMain, FailToResetMain, ResetBak, FailToResetBak, EndReset, Crash, 
           Tick, StepBack, Spend, KeptInv, BytesInv, TypeOK
  <2>2. left \in [{"adds", "resets", "crashes", "faults", "back"} -> Nat]
    BY DEF KeptInv, BytesInv, TypeOK
  <2>3. Fault => left' = [left EXCEPT !["faults"] = @ - 1]
    BY DEF Fault, FailToRead, FailToWrite, FailToRemove, FailToRename,
           FailToResetMain, FailToResetBak, Spend
  <2>4. StepBack => left' = [left EXCEPT !["back"] = @ - 1]
    BY DEF StepBack, Spend
  <2> QED
    BY <1>1, <2>1, <2>2, <2>3, <2>4 DEF BoundsKept, Undisturbed
<1>3. SUFFICES ASSUME Undisturbed' PROVE Kept' /\ Times'
  BY <1>2
<1>4. /\ Undisturbed /\ BytesInv /\ Kept /\ Times
      /\ ~ (Fault \/ StepBack)
  BY <1>2, <1>3 DEF KeptInv
<1>5. /\ {clock, now, adding, lower, upper} \subseteq Nat
      /\ \A f \in {main, bak, record} :
           f.kind = "record" =>
             f \in [kind : {"record"}, start : Nat, end : Nat, bytes : Nat]
      /\ Count \in Nat
  BY <1>4, AccountValues
<1> USE DEF files
<1>6. ASSUME NEW bytes \in Bytes, BeginAdd(bytes) PROVE Kept' /\ Times'
  <2>1. /\ pc = "idle" /\ pc' = "read" /\ now' = clock
        /\ UNCHANGED <<main, bak, clock, lower>>
    BY <1>6 DEF BeginAdd
  <2>2. Count' = Count
    BY <2>1 DEF Count, ReadRecord, ReadBak, NewRecord
  <2> QED
    BY <1>4, <1>5, <2>1, <2>2 DEF Kept, Times, EndsBy
<1>7. CASE Read
  BY <1>4, <1>7, KeptRead DEF KeptInv
<1>8. CASE OpenBak
  <2>1. Valid(main) => main.bytes >= lower
    BY <1>4, <1>8, CountIs DEF OpenBak, Kept
  <2> QED
    BY <1>4, <1>8, <2>1, CountIs DEF OpenBak, Kept, Writing, Times, EndsBy
<1>9. CASE WriteBak
  <2>1. /\ pc = "write" /\ pc' = "remove" /\ bak' = record
        /\ UNCHANGED <<main, record, adding, clock, lower>>
    BY <1>9 DEF WriteBak
  <2>2. Writing /\ (Valid(main) => main.bytes >= lower)
    BY <1>4, <2>1 DEF Kept
  <2>3. Writing'
    BY <2>1, <2>2 DEF Writing, EndsBy
  <2> QED
    BY <1>4, <2>1, <2>2, <2>3 DEF Kept, Times, EndsBy, Writing
<1>10. CASE RemoveMain
  BY <1>4, <1>10, CountIs DEF RemoveMain, Kept, Writing, Times, EndsBy
<1>11. CASE RenameBak
  <2>1. /\ pc = "rename" /\ pc' = "idle" /\ bak = record /\ bak # Absent
        /\ main' = record /\ bak' = Absent
        /\ lower' = lower + adding /\ clock' = clock
    BY <1>4, <1>11 DEF RenameBak, EndAdd, Kept, Writing, Absent
  <2>2. Writing
    BY <1>4, <2>1 DEF Kept
  <2>3. Count' = IF Valid(record) THEN record.bytes ELSE 0
    BY <2>1 DEF Count, ReadRecord, ReadBak, NewRecord, Record, Valid, Absent
  <2>4. Count' >= lower'
    BY <1>5, <2>1, <2>2, <2>3 DEF Writing
  <2> QED
    BY <1>4, <2>1, <2>2, <2>4, CountIs DEF Kept, Times, EndsBy, Writing
<1>12. CASE BeginReset
  BY <1>4, <1>12, CountIs DEF BeginReset, Kept, Times, EndsBy
<1>13. CASE ResetBak
  <2>1. /\ pc' = "idle" /\ lower' = 0 /\ clock' = clock
        /\ main' = Absent /\ bak' = Absent
    BY <1>4, <1>13 DEF ResetBak, EndReset, Kept
  <2>2. Count' = 0 /\ Times'
    BY <2>1
    DEF Count, ReadRecord, ReadBak, NewRecord, Record, Valid, Absent, Times, EndsBy
  <2> QED
    BY <2>1, <2>2 DEF Kept
<1>14. CASE Crash
  <2>1. /\ pc' = "idle" /\ UNCHANGED <<main, bak, clock>>
        /\ lower' = IF Unprotected THEN 0 ELSE lower
    BY <1>14 DEF Crash
  <2>2. Count' = Count
    BY <2>1 DEF Count, ReadRecord, ReadBak, NewRecord
  <2>3. Times'
    BY <1>4, <2>1 DEF Times, EndsBy
  <2>4. Unprotected \/ Count >= lower
    <3>1. CASE pc = "write"
      BY <1>4, <3>1, CountIs DEF Kept, Unprotected
    <3>2. CASE pc \in {"remove", "rename"}
      <4>1. /\ Writing /\ bak = record
            /\ Valid(main) => main.bytes >= lower
        BY <1>4, <3>2, CountIs DEF Kept
      <4> QED
        BY <1>5, <4>1, CountIs DEF Writing, Valid
    <3>3. CASE pc \in {"resetMain", "resetBak"}
      BY <1>4, <1>5, <3>3 DEF Kept
    <3>4. CASE pc \in {"idle", "read", "open"}
      BY <1>4, <3>4 DEF Kept
    <3> QED
      BY <1>4, <3>1, <3>2, <3>3, <3>4 DEF BytesInv, TypeOK
  <2> QED
    BY <1>5, <2>1, <2>2, <2>3, <2>4 DEF Kept
<1>15. CASE Tick \/ UNCHANGED vars
  <2>1. /\ UNCHANGED <<main, bak, pc, now, record, adding, lower>>
        /\ clock' \in Nat /\ clock <= clock'
    BY <1>5, <1>15 DEF Tick, vars
  <2>2. Count' = Count
    BY <2>1 DEF Count, ReadRecord, ReadBak, NewRecord, Record
  <2>3. \A f \in {main, bak, record} : EndsBy(f, clock) => EndsBy(f, clock')
    BY <1>5, <2>1 DEF EndsBy, Valid
  <2>4. Times'
    BY <1>4, <1>5, <2>1, <2>3 DEF Times, EndsBy
  <2>5. Writing => Writing'
    BY <2>1, <2>3 DEF Writing, EndsBy
  <2>6. Kept'
    <3>1. pc \in {"idle", "read", "open", "write", "remove", "rename",
                 "resetMain", "resetBak"}
      BY <1>4 DEF BytesInv, TypeOK
    <3>2. CASE pc \in {"idle", "read", "open"}
      BY <1>4, <2>1, <2>2, <2>5, <3>2 DEF Kept
    <3>3. CASE pc \in {"write", "remove"}
      BY <1>4, <2>1, <2>5, <3>3 DEF Kept
    <3>4. CASE pc \in {"rename", "resetMain", "resetBak"}
      BY <1>4, <2>1, <2>5, <3>4 DEF Kept
    <3> QED
      BY <3>1, <3>2, <3>3, <3>4
  <2> QED
    BY <2>4, <2>6
<1>16. CASE ResetMain
  BY <1>4, <1>16, CountIs DEF ResetMain, Kept, Times, EndsBy
<1> QED
  BY <1>4, <1>6, <1>7, <1>8, <1>9, <1>10, <1>11, <1>12, <1>13, <1>14, <1>15,
     <1>16
  DEF Next, Fault

\* account_file.go:129-150: as long as no system call fails and the clock is not
\* set back, no crash takes a counted byte, but for one that meets an Add writing
\* over the only record an earlier crash left.
THEOREM NeverForgotten == Spec => []NothingForgotten
<1>1. Init => KeptInv
  <2> SUFFICES ASSUME Init PROVE BoundsKept /\ Kept /\ Times
    BY BytesInit DEF KeptInv
  <2>1. Count = 0
    BY CountIs DEF Init
  <2> QED
    BY <2>1, AccountAssumption, CountIs DEF Init, BoundsKept, Kept, Times, EndsBy
<1>2. KeptInv => NothingForgotten
  BY DEF KeptInv, Kept, Undisturbed, NothingForgotten
<1> QED
  BY <1>1, <1>2, KeptStep, PTL DEF Spec
=============================================================================
