-------------------------- MODULE StorePrometheus --------------------------
(***************************************************************************)
(* The Prometheus storer (prom_sky_con/pkg/store_prom.go).  Three          *)
(* goroutines share its caches and lists without a lock: the pipeline's    *)
(* subscriber stores flows, a loop stores the metrics of interfaces, and a *)
(* loop removes what has expired.  The connections and the interfaces are  *)
(* kept in the same way, so one definition serves both kinds.              *)
(*                                                                         *)
(* The gauges of a label are set, and deleted, in one step: five of a flow *)
(* and eleven of an interface stand for one series.  The removal of an     *)
(* entry from the map and from the list is one step too: what its writer   *)
(* does in between, it could as well do after.  A call of a writer takes   *)
(* less than the timeout.                                                  *)
(***************************************************************************)
EXTENDS Integers, Sequences, SequencesExt

CONSTANTS
  Items,       \* what is reported: records of a kind, a key and a label
  Timeout,     \* connectionTimeout
  MaxCalls,    \* bounds: calls of each writer,
  LastCall,    \* the time of the last of them,
  MaxTime      \* the clock

Kinds == {"connection", "interface"}
Keys == {i.key : i \in Items}
Labels == {i.label : i \in Items}
ItemsOf(kind) == {i \in Items : i.kind = kind}

ASSUME PrometheusAssumption ==
  /\ Items \subseteq [kind : Kinds, key : Nat \ {0}, label : Nat \ {0}]
  /\ Timeout \in Nat \ {0}
  /\ MaxCalls \in Nat
  /\ LastCall \in Nat
  /\ MaxTime \in Nat \ {0}

NoItem == [kind |-> "none"]
NoEntry == [time |-> -1]

VARIABLES
  cache,     \* connectionCache, interfCache: the entry of each key
  list,      \* connectionList, interfaceList: keys, least recently used first
  series,    \* what Prometheus scrapes: the item each label shows
  writer,    \* StoreFlows and StoreInterfaceMetrics
  cleaner,   \* cleanupExpiredEntries
  clock,
  calls      \* calls left to each writer

vars == <<cache, list, series, writer, cleaner, clock, calls>>

IdleWriter == [pc |-> "idle", todo |-> {}, secs |-> 0, item |-> NoItem,
               label |-> 0]
IdleCleaner == [pc |-> "idle", kind |-> "connection", expire |-> 0,
                victim |-> 0]

NoEntries == [k \in Kinds |-> [key \in Keys |-> NoEntry]]
NoKeys == [k \in Kinds |-> <<>>]
NoSeries == [k \in Kinds |-> [l \in Labels |-> NoItem]]
IdleWriters == [k \in Kinds |-> IdleWriter]

Init ==
  /\ cache = NoEntries
  /\ list = NoKeys
  /\ series = NoSeries
  /\ writer = IdleWriters
  /\ cleaner = IdleCleaner
  /\ clock = 1
  /\ calls = [k \in Kinds |-> MaxCalls]

Cached(kind) == {key \in Keys : cache[kind][key] # NoEntry}

\* The entry a writer creates, in the list first and then in the map.
NewEntry(kind) == [label |-> writer[kind].item.label, time |-> writer[kind].secs]
InListOnly(kind) ==
  IF writer[kind].pc = "insert" THEN {writer[kind].item.key} ELSE {}

\* The entry of a key of the list.
EntryOf(kind, key) ==
  IF key \in InListOnly(kind) THEN NewEntry(kind) ELSE cache[kind][key]

\* list.List.Remove takes one element out of the list, and nothing if it is not
\* in the list any more.
Without(keys, key) ==
  IF key \in ToSet(keys)
  THEN RemoveAt(keys, CHOOSE i \in DOMAIN keys : keys[i] = key)
  ELSE keys
-----------------------------------------------------------------------------
(* The writers: every item is looked up, its entry refreshed or created,   *)
(* and its series set.                                                     *)

\* Faulty variant: the time is not read.
BeginReportUntimed(kind, batch) ==
  /\ writer[kind].pc = "idle"
  /\ calls[kind] > 0
  /\ clock <= LastCall
  /\ calls' = [calls EXCEPT ![kind] = @ - 1]
  /\ writer' = [writer EXCEPT ![kind] =
       [IdleWriter EXCEPT !.pc = "lookup", !.todo = batch]]
  /\ UNCHANGED <<cache, list, series, cleaner, clock>>

\* The time is read once for all the items of a call.
BeginReport(kind, batch) ==
  /\ writer[kind].pc = "idle"
  /\ calls[kind] > 0
  /\ clock <= LastCall
  /\ calls' = [calls EXCEPT ![kind] = @ - 1]
  /\ writer' = [writer EXCEPT ![kind] =
       [IdleWriter EXCEPT !.pc = "lookup", !.todo = batch, !.secs = clock]]
  /\ UNCHANGED <<cache, list, series, cleaner, clock>>

Goto(kind, item, label, pc) ==
  writer' = [writer EXCEPT ![kind].item = item, ![kind].label = label,
                           ![kind].pc = pc]

\* The entry keeps the label of the item it was created for.
Hit(kind, item) ==
  /\ item.key \in Cached(kind)
  /\ Goto(kind, item, cache[kind][item.key].label, "touch")
  /\ UNCHANGED <<cache, list, series, cleaner, clock, calls>>

Miss(kind, item) ==
  /\ item.key \notin Cached(kind)
  /\ list' = [list EXCEPT ![kind] = Append(@, item.key)]
  /\ Goto(kind, item, item.label, "insert")
  /\ UNCHANGED <<cache, series, cleaner, clock, calls>>

Lookup(kind) ==
  /\ writer[kind].pc = "lookup"
  /\ \E item \in writer[kind].todo : Hit(kind, item) \/ Miss(kind, item)

\* The new entry is pushed to the list before it is put into the map.
Insert(kind) ==
  /\ writer[kind].pc = "insert"
  /\ cache' = [cache EXCEPT ![kind][writer[kind].item.key] = NewEntry(kind)]
  /\ writer' = [writer EXCEPT ![kind].pc = "set"]
  /\ UNCHANGED <<list, series, cleaner, clock, calls>>

\* An entry that has been removed meanwhile is written to in vain.
Touch(kind) ==
  LET key == writer[kind].item.key IN
  /\ writer[kind].pc = "touch"
  /\ cache' = IF key \in Cached(kind)
                THEN [cache EXCEPT ![kind][key].time = writer[kind].secs]
                ELSE cache
  /\ writer' = [writer EXCEPT ![kind].pc = "move"]
  /\ UNCHANGED <<list, series, cleaner, clock, calls>>

\* Faulty variant: the entry keeps its place.
KeptInPlace(keys, key) == keys

\* list.MoveToBack does nothing for an element that is not in the list.
MovedToBack(keys, key) ==
  IF key \in ToSet(keys) THEN Append(Without(keys, key), key) ELSE keys

Move(kind) ==
  /\ writer[kind].pc = "move"
  /\ list' = [list EXCEPT ![kind] = MovedToBack(@, writer[kind].item.key)]
  /\ writer' = [writer EXCEPT ![kind].pc = "set"]
  /\ UNCHANGED <<cache, series, cleaner, clock, calls>>

\* With creates a series that does not exist.
SetSeries(kind) ==
  LET w == writer[kind]
      rest == w.todo \ {w.item} IN
  /\ w.pc = "set"
  /\ series' = [series EXCEPT ![kind][w.label] = w.item]
  /\ writer' = [writer EXCEPT ![kind] =
       IF rest = {} THEN IdleWriter
                    ELSE [w EXCEPT !.pc = "lookup", !.todo = rest]]
  /\ UNCHANGED <<cache, list, cleaner, clock, calls>>

Write(kind) ==
  Lookup(kind) \/ Insert(kind) \/ Touch(kind) \/ Move(kind) \/ SetSeries(kind)
-----------------------------------------------------------------------------
(* The cleaner: connections first, then interfaces, each from the least    *)
(* recently used entry to the first that has not expired.                  *)

BeginCleanup ==
  /\ cleaner.pc = "idle"
  /\ cleaner' = [cleaner EXCEPT !.pc = "front", !.expire = clock - Timeout]
  /\ UNCHANGED <<cache, list, series, writer, clock, calls>>

\* Faulty variant: the cleanup ends with the connections.
AfterConnections(kind) == IdleCleaner

AfterKind(kind) ==
  IF kind = "connection" THEN [cleaner EXCEPT !.kind = "interface"]
                         ELSE IdleCleaner

Expired(entry) == entry.time <= cleaner.expire

LookAtFront ==
  LET kind == cleaner.kind
      keys == list[kind] IN
  /\ cleaner.pc = "front"
  /\ cleaner' =
       IF keys # <<>> /\ Expired(EntryOf(kind, Head(keys)))
         THEN [cleaner EXCEPT !.pc = "delete", !.victim = Head(keys)]
         ELSE AfterKind(kind)
  /\ UNCHANGED <<cache, list, series, writer, clock, calls>>

\* Faulty variant: the gauges are reset.
DeleteAllSeries ==
  /\ cleaner.pc = "delete"
  /\ series' = [series EXCEPT ![cleaner.kind] = [l \in Labels |-> NoItem]]
  /\ cleaner' = [cleaner EXCEPT !.pc = "forget"]
  /\ UNCHANGED <<cache, list, writer, clock, calls>>

DeleteSeries ==
  LET kind == cleaner.kind
      label == cache[kind][cleaner.victim].label IN
  /\ cleaner.pc = "delete"
  /\ series' = [series EXCEPT ![kind][label] = NoItem]
  /\ cleaner' = [cleaner EXCEPT !.pc = "forget"]
  /\ UNCHANGED <<cache, list, writer, clock, calls>>

\* Faulty variant: the entry stays in the map.
ForgetListOnly ==
  /\ cleaner.pc = "forget"
  /\ list' = [list EXCEPT ![cleaner.kind] = Without(@, cleaner.victim)]
  /\ cleaner' = [cleaner EXCEPT !.pc = "front"]
  /\ UNCHANGED <<cache, series, writer, clock, calls>>

Forget ==
  LET kind == cleaner.kind IN
  /\ cleaner.pc = "forget"
  /\ cache' = [cache EXCEPT ![kind][cleaner.victim] = NoEntry]
  /\ list' = [list EXCEPT ![kind] = Without(@, cleaner.victim)]
  /\ cleaner' = [cleaner EXCEPT !.pc = "front"]
  /\ UNCHANGED <<series, writer, clock, calls>>

CleanUp == LookAtFront \/ DeleteSeries \/ Forget
-----------------------------------------------------------------------------
\* The Go runtime stops a program when it sees one goroutine write a map that
\* another one uses; the connector starts again with nothing.
MapFault(kind) ==
  /\ writer[kind].pc \in {"lookup", "insert"}
  /\ cleaner.pc = "forget"
  /\ cleaner.kind = kind
  /\ cache' = NoEntries
  /\ list' = NoKeys
  /\ series' = NoSeries
  /\ writer' = IdleWriters
  /\ cleaner' = IdleCleaner
  /\ UNCHANGED <<clock, calls>>

\* Assumed: no call of a writer takes as long as the timeout, so an entry does
\* not expire before its writer has put it into the map.
Tick ==
  /\ clock < MaxTime
  /\ \A kind \in Kinds :
       writer[kind].pc # "idle" => clock + 1 - writer[kind].secs < Timeout
  /\ clock' = clock + 1
  /\ UNCHANGED <<cache, list, series, writer, cleaner, calls>>

Next ==
  \/ \E kind \in Kinds :
       \/ \E batch \in SUBSET ItemsOf(kind) \ {{}} : BeginReport(kind, batch)
       \/ Write(kind)
       \/ MapFault(kind)
  \/ BeginCleanup
  \/ CleanUp
  \/ Tick

\* The loops go on for ever, the scheduler starves none of them and time
\* passes.  Reports may stop.
Fairness ==
  /\ \A kind \in Kinds : WF_vars(Write(kind))
  /\ WF_vars(BeginCleanup \/ CleanUp)
  /\ WF_vars(Tick)

Spec == Init /\ [][Next]_vars /\ Fairness
-----------------------------------------------------------------------------
(* Properties.                                                             *)

TypeOK ==
  /\ \A kind \in Kinds :
       /\ \A key \in Keys :
            \/ cache[kind][key] = NoEntry
            \/ cache[kind][key] \in [label : Labels, time : 1..MaxTime]
       /\ list[kind] \in Seq(Keys)
       /\ series[kind] \in [Labels -> ItemsOf(kind) \cup {NoItem}]
       /\ writer[kind].pc \in {"idle", "lookup", "insert", "touch", "move", "set"}
       /\ writer[kind].todo \subseteq ItemsOf(kind)
  /\ cleaner.pc \in {"idle", "front", "delete", "forget"}
  /\ cleaner.kind \in Kinds

\* The map and the list hold the same keys, whatever the order of the
\* unlocked steps: an entry of the map alone would never expire.
SameKeys ==
  \A kind \in Kinds :
    /\ Cached(kind) \cup InListOnly(kind) = ToSet(list[kind])
    /\ IsInjective(list[kind])

\* No writer is about to move the key.
Settled(kind, key) == ~ (writer[kind].pc = "move" /\ writer[kind].item.key = key)

\* The least recently used entries come first, but for one that a writer has
\* refreshed and not yet moved: the cleanup may stop at the first entry that
\* has not expired (store_prom.go:445 and 472).
OldestFirst ==
  \A kind \in Kinds : \A i, j \in DOMAIN list[kind] :
    i < j /\ Settled(kind, list[kind][i]) /\ Settled(kind, list[kind][j]) =>
      EntryOf(kind, list[kind][i]).time <= EntryOf(kind, list[kind][j]).time

\* What is in the cache is exported, unless the writer is about to do so or
\* the cleaner about to forget the entry.
EntriesExported ==
  \A kind \in Kinds : \A key \in Cached(kind) :
    \/ series[kind][cache[kind][key].label] # NoItem
    \/ writer[kind].pc = "set" /\ writer[kind].item.key = key
    \/ /\ cleaner.pc = "forget"
       /\ cleaner.kind = kind
       /\ cleaner.victim = key

\* Every entry expires: the caches and the lists do not grow for ever.
EntriesExpire ==
  \A kind \in Kinds : \A key \in Keys :
    key \in Cached(kind) ~> key \notin Cached(kind)

\* store_prom.go:21, "Flows that have been inactive for some time are removed
\* from the report".  The reports end at LastCall.
InactiveRemoved ==
  \A kind \in Kinds : \A l \in Labels :
    series[kind][l] # NoItem ~> series[kind][l] = NoItem
=============================================================================
