---------------------------- MODULE AccountFile ----------------------------
(***************************************************************************)
(* The file accounter (secadvisor/pkg/account_file.go) counts the bytes    *)
(* that were exported.  Add reads the record, writes the new one beside it *)
(* (the .bak file), removes the old one and renames the new one over it,   *)
(* so that a crash leaves a record behind.  The model takes one step per   *)
(* system call that changes a file, and one for the reading; between any   *)
(* two of them time passes and the exporter can die, and each of them can  *)
(* fail.  The errors of Remove are ignored by the code, the others logged. *)
(***************************************************************************)
EXTENDS Integers

CONSTANTS
  Bytes,          \* what one Add can add
  MaxAdds,        \* bounds: calls of Add,
  MaxResets,      \* calls of Reset,
  MaxCrashes,     \* crashes,
  MaxFaults,      \* steps in which a system call fails,
  MaxTime,        \* the clock,
  MaxStepsBack    \* times the clock is set back

ASSUME AccountAssumption ==
  /\ Bytes \subseteq Nat
  /\ {MaxAdds, MaxResets, MaxCrashes, MaxFaults, MaxTime, MaxStepsBack} \subseteq Nat

VARIABLES
  main,       \* content of the file
  bak,        \* content of the .bak file
  pc,         \* what comes next
  now,        \* the time Add took when it began
  record,     \* the record Add is about to write
  adding,     \* the bytes it adds, zero once one of its system calls failed
              \* or if its record is not valid
  clock,
  lower,      \* bytes of the calls of Add that returned since the last Reset,
              \* or crash that left no record, with a valid record and without
              \* a failing system call
  upper,      \* bytes of the calls of Add that began, from their reading on,
              \* since the last Reset that left no file
  left        \* what is left of each bound

files == <<main, bak>>
vars == <<main, bak, pc, now, record, adding, clock, lower, upper, left>>

\* A file is absent, it holds no complete record, or it holds a record.
Absent == [kind |-> "absent"]
Garbage == [kind |-> "garbage"]
Record(start, end, bytes) ==
  [kind |-> "record", start |-> start, end |-> end, bytes |-> bytes]

\* newAccountRecord, with a time of its own.
NewRecord == Record(clock, clock, 0)

Init ==
  /\ main = Absent
  /\ bak = Absent
  /\ pc = "idle"
  /\ now = 0
  /\ record = Absent
  /\ adding = 0
  /\ clock = 1
  /\ lower = 0
  /\ upper = 0
  /\ left = [adds |-> MaxAdds, resets |-> MaxResets, crashes |-> MaxCrashes,
             faults |-> MaxFaults, back |-> MaxStepsBack]

Spend(what) ==
  /\ left[what] > 0
  /\ left' = [left EXCEPT ![what] = @ - 1]
-----------------------------------------------------------------------------
\* read and verifyAccountRecord: a record that ends before it starts is not
\* valid.
Valid(file) == file.kind = "record" /\ file.start <= file.end

\* Faulty variant: without a file there is no record.
ReadMain == IF Valid(main) THEN main ELSE NewRecord

ReadBak == IF Valid(bak) THEN bak ELSE NewRecord

\* The record that Add starts from.
ReadRecord == IF Valid(main) THEN main ELSE ReadBak

\* Faulty variant: bytes is taken for the running total.
AddedDifference(file, bytes) ==
  [file EXCEPT !.end = now, !.bytes = bytes - @]

\* Faulty variant: the bytes are counted twice.
AddedTwice(file, bytes) ==
  [file EXCEPT !.end = now, !.bytes = @ + bytes + bytes]

Added(file, bytes) == [file EXCEPT !.end = now, !.bytes = @ + bytes]

BeginAdd(bytes) ==
  /\ pc = "idle"
  /\ Spend("adds")
  /\ now' = clock
  /\ adding' = bytes
  /\ pc' = "read"
  /\ UNCHANGED <<files, record, clock, lower, upper>>

ReadAs(file) ==
  /\ pc = "read"
  /\ record' = Added(file, adding)
  /\ upper' = upper + adding
  /\ now' = 0
  /\ pc' = "open"
  /\ UNCHANGED <<files, clock, lower>>

\* A new record starts at the time of the reading and ends at the earlier time
\* when Add began: it may be invalid.
Read ==
  /\ ReadAs(ReadRecord)
  /\ adding' = IF Valid(record') THEN adding ELSE 0
  /\ UNCHANGED left

\* The file cannot be read, or neither file can.
FailToRead ==
  /\ \E file \in {ReadBak, NewRecord} : ReadAs(file)
  /\ Spend("faults")
  /\ adding' = 0

\* ioutil.WriteFile truncates the .bak file, then writes it.
OpenBak ==
  /\ pc = "open"
  /\ bak' = Garbage
  /\ pc' = "write"
  /\ UNCHANGED <<main, now, record, adding, clock, lower, upper, left>>

WriteBak ==
  /\ pc = "write"
  /\ bak' = record
  /\ pc' = "remove"
  /\ UNCHANGED <<main, now, record, adding, clock, lower, upper, left>>

\* An error of either is logged, and Add goes on.
FailToWrite ==
  /\ pc \in {"open", "write"}
  /\ Spend("faults")
  /\ pc' = "remove"
  /\ adding' = 0
  /\ UNCHANGED <<files, now, record, clock, lower, upper>>

RemoveMain ==
  /\ pc = "remove"
  /\ main' = Absent
  /\ pc' = "rename"
  /\ UNCHANGED <<bak, now, record, adding, clock, lower, upper, left>>

\* The error of os.Remove is ignored.
FailToRemove ==
  /\ pc = "remove"
  /\ Spend("faults")
  /\ pc' = "rename"
  /\ adding' = 0
  /\ UNCHANGED <<files, now, record, clock, lower, upper>>

EndAdd ==
  /\ pc = "rename"
  /\ pc' = "idle"
  /\ adding' = 0
  /\ record' = Absent
  /\ UNCHANGED <<now, clock, upper>>

\* Without a .bak file there is nothing to rename.
RenameBak ==
  /\ EndAdd
  /\ IF bak = Absent THEN UNCHANGED files
                     ELSE main' = bak /\ bak' = Absent
  /\ lower' = lower + adding
  /\ UNCHANGED left

FailToRename ==
  /\ EndAdd
  /\ Spend("faults")
  /\ UNCHANGED <<files, lower>>
-----------------------------------------------------------------------------
(* Reset removes the file, then the .bak file.                             *)

BeginReset ==
  /\ pc = "idle"
  /\ Spend("resets")
  /\ lower' = 0
  /\ pc' = "resetMain"
  /\ UNCHANGED <<files, now, record, adding, clock, upper>>

ResetMain ==
  /\ pc = "resetMain"
  /\ main' = Absent
  /\ pc' = "resetBak"
  /\ UNCHANGED <<bak, now, record, adding, clock, lower, upper, left>>

FailToResetMain ==
  /\ pc = "resetMain"
  /\ Spend("faults")
  /\ pc' = "resetBak"
  /\ UNCHANGED <<files, now, record, adding, clock, lower, upper>>

EndReset ==
  /\ pc = "resetBak"
  /\ upper' = IF main = Absent /\ bak' = Absent THEN 0 ELSE upper
  /\ pc' = "idle"
  /\ UNCHANGED <<main, now, record, adding, clock, lower>>

ResetBak ==
  /\ bak' = Absent
  /\ EndReset
  /\ UNCHANGED left

FailToResetBak ==
  /\ bak' = bak
  /\ EndReset
  /\ Spend("faults")
-----------------------------------------------------------------------------
(* The environment.                                                        *)

\* The .bak file is being written over.  It is the only record when the exporter
\* died between the removal and the renaming of an earlier Add.
Unprotected == pc = "write" /\ ~ Valid(main)

\* The exporter dies; the files stay.
Crash ==
  /\ pc # "idle"
  /\ Spend("crashes")
  /\ lower' = IF Unprotected THEN 0 ELSE lower
  /\ pc' = "idle"
  /\ now' = 0
  /\ record' = Absent
  /\ adding' = 0
  /\ UNCHANGED <<files, clock, upper>>

Tick ==
  /\ clock < MaxTime
  /\ clock' = clock + 1
  /\ UNCHANGED <<files, pc, now, record, adding, lower, upper, left>>

\* The wall clock is set back.
StepBack ==
  /\ clock > 1
  /\ Spend("back")
  /\ clock' = clock - 1
  /\ UNCHANGED <<files, pc, now, record, adding, lower, upper>>

Next ==
  \/ \E bytes \in Bytes : BeginAdd(bytes)
  \/ Read \/ FailToRead
  \/ OpenBak \/ WriteBak \/ FailToWrite
  \/ RemoveMain \/ FailToRemove
  \/ RenameBak \/ FailToRename
  \/ BeginReset \/ ResetMain \/ FailToResetMain \/ ResetBak \/ FailToResetBak
  \/ Crash \/ Tick \/ StepBack

Spec == Init /\ [][Next]_vars
-----------------------------------------------------------------------------
(* Properties.                                                             *)

Contents ==
  {Absent, Garbage} \cup
    [kind : {"record"}, start : Nat, end : Nat, bytes : Nat]

TypeOK ==
  /\ main \in Contents
  /\ bak \in Contents
  /\ pc \in {"idle", "read", "open", "write", "remove", "rename", "resetMain",
             "resetBak"}
  /\ now \in Nat
  /\ record \in Contents
  /\ adding \in Nat
  /\ clock \in Nat
  /\ lower \in Nat
  /\ upper \in Nat
  /\ left \in [{"adds", "resets", "crashes", "faults", "back"} -> Nat]

Count == ReadRecord.bytes

\* Crashes take nothing from the counter, but for the one that meets an Add which
\* writes over the only record an earlier crash left (account_file.go:145): while
\* no system call failed and the clock was not set back it has every byte of the
\* calls that returned with a valid record since the last Reset or such crash.
NothingForgotten ==
  pc = "idle" /\ left.faults = MaxFaults /\ left.back = MaxStepsBack =>
    Count >= lower

\* account_file.go:129-150, over crashes, failing calls and any clock: no byte is
\* counted twice, and none survives a Reset that removed both files
\* (account_file.go:123-127).  A Reset of which a removal failed, or that died
\* half way, may leave the old count, which the next Add takes up.
NothingInvented == Count <= upper
=============================================================================
