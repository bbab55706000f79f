# A verification of the Skydive flow exporter

TLA+ specifications of the flow exporter, the TLC configurations that check them
on small instances, and proofs of their most important properties for every
instance. Paths below are those of the repository.

- [1. The system](#1-the-system)
- [2. Modules, and how they correspond to the code](#2-modules-and-how-they-correspond-to-the-code)
- [3. Runs: what is checked, and the bounds](#3-runs-what-is-checked-and-the-bounds)
- [4. Fairness](#4-fairness)
- [5. Proofs](#5-proofs)
- [6. What the code does that its comments do not say](#6-what-the-code-does-that-its-comments-do-not-say)
- [7. Abstractions, and what is not modelled](#7-abstractions-and-what-is-not-modelled)
- [8. Plan](#8-plan)

## 1. The system

An exporter subscribes to the flows of a Skydive analyzer and sends each message
of flows through a pipeline (`core/pipeline.go`):

    filter -> split by tag -> transform -> mangle (once per tag) -> store

The storer uses three further parts, `encode`, `compress` and `write`. The parts
are chosen by name in a configuration file; the programs (`secadvisor`, `vpclogs`,
`awsflowlogs`, `prom_sky_con`, `allinone`, `dummy`) register the parts they bring.

| component | code | state | operations |
|---|---|---|---|
| pipeline | `core/pipeline.go` | a mutex | `OnStructMessage`: one message at a time |
| classifier, filter | `core/classify.go`, `core/filter.go` | subnets, excluded tags | `GetFlowTag`, `IsExcluded` |
| buffered storer | `core/store_buffered.go` | per tag: buffer, last flush time, stream, timer; a mutex | `StoreFlows`, timer callback |
| direct storer | `core/store_direct.go` | none | `StoreFlows` |
| Prometheus storer | `prom_sky_con/pkg/store_prom.go` | two caches, two lists, gauges | `StoreFlows`, `StoreInterfaceMetrics`, `cleanupExpiredEntries` |
| log-status mangler | `secadvisor/pkg/mangle_logstatus.go` | links and flows seen | `Mangle` |
| accept/reject mangler | `vpclogs/pkg/action.go` | a table of tracking IDs, time of the last cleanup | `Mangle` |
| secadvisor transformer | `secadvisor/pkg/transform.go` | update counts that expire | `Transform` |
| vpc transformer | `vpclogs/pkg/transform.go` | addresses of nodes that expire | `Transform` |
| aws transformer | `awsflowlogs/pkg/transform.go` | none | `Transform` |
| resolver chain | `secadvisor/pkg/resolve_*.go` | contexts and types that expire | `IPToContext`, `TIDToType` |
| cluster discovery | `secadvisor/pkg/cluster_ips.go`, `classify_autodiscovery.go` | none | retries at start |
| file accounter | `secadvisor/pkg/account_file.go` | a file and its `.bak` | `Add`, `Reset` |
| writers, encoders, compressors, headers | `core/*.go` | a client | `Write`, `Encode`, `Compress` |

**Interaction.** The subscriber's websocket client calls `OnStructMessage`, which
holds the pipeline's lock from the filter to the storer. Everything the pipeline
calls is therefore sequential with respect to other messages. Four things are not:

- the flush timers of the buffered storer, whose callbacks run on goroutines of
  their own and compete with the pipeline for `flowsMutex`;
- the loops of the Prometheus storer, which share maps and lists with `StoreFlows`
  without any lock;
- the HTTP server that scrapes the gauges;
- time, which passes while a write to the object store is under way.

**What is hard.** The buffered storer: one timer for all tags flushed together, a
flush that fails when its timer has already fired, writes that fail half-way
through a call, streams that roll over, keys after a restart. The Prometheus
storer: unlocked interleavings. The manglers: conclusions drawn over many messages
from what is missing in one, when they are called once per tag. The accounter:
crashes and errors between the system calls that replace a file. The caches: stale
answers, and answers to queries that failed. `PROJECT.json` lists each of these at
its line, with the properties that watch it.

**What makes each component correct.**

- *buffered storer*: no flow leaves memory but into an object or by overflow (the
  code does not keep this at the end of a call, section 6); order is kept; no flow
  is stored twice; every flow in memory has a flush to wait for; a stream's
  objects are consecutive; no object is overwritten; sizes keep their limits.
- *Prometheus storer*: map and list agree, the list is ordered by time, what is in
  the cache is exported, what is inactive goes away.
- *log-status mangler*: every known link is accounted for in each window, a loss
  of updates shows.
- *accept/reject mangler*: accepted numbers never exceed what both sides measured,
  while a flow counts as accepted nothing that both confirmed is held back, a
  reject means a silent side, no combination of rounds of two flows follows a nil
  pointer.
- *file accounter*: no byte is counted twice or survives a `Reset` that removed
  the files, and a crash forgets none that was written in a valid record.
- *pipeline and direct storer*: each message is seen whole by each part; what is
  stored under a tag when no error was returned is of this message and this tag.
- *secadvisor transformer*: the update counts of a flow have no gap, its first
  report and no other is withheld, the count cache holds the flows that go on.
- *resolver chain, topology queries*: what a cache answers was true within its
  life time, however the topology changed and whichever queries failed; what is
  cached always has the type that is asserted of it.
- *cluster discovery*: an exporter whose analyzer comes and goes starts when it is
  there to stay, and knows the better address of every node the analyzer knew.

## 2. Modules, and how they correspond to the code

**`StoreBuffered`** is `core/store_buffered.go`. `StoreFlows` runs under
`flowsMutex`; the model splits a call at each write to the object store, because
time passes and timers fire there. `StoreMessage` and `StoreNothing` take the
mutex (a message, a timer callback); `VisitTag` starts a tag of the loop of line
77 in any order; `FlushObject` is one successful `flushFlowsToObject`;
`FailToFlush` and `FinishTag` leave the tag, trimming of the buffer included;
`Return` is lines 108-138: the copy of the flushed buffers (`Copied`: Go's `copy`
into a slice of length 0 copies nothing), the stopping and arming of timers; it
frees the mutex. `FireTimer` is the Go timer: once it fired, its callback waits
for the mutex (`waiting`) and `Stop` does nothing to it. `Restart` empties
everything but the object store and takes a second at least. Variables have the
names of the struct's fields and of the locals of `StoreFlows` (`flushed` is
`flushedTags`, `reset` is `tagsToTimerReset`). A flow is its rank among the flows
of its tag, so the properties can speak of order; `clock` is in ticks, several to
a second, since object keys have a resolution of a second (`Second`, line 182).

**`FlowLog`** is what a storer of objects promises for each tag, without calls,
timers, streams or keys: flows wait in order, an object takes the oldest, a stored
object stays, flows are given up only from the old end or all together.
`StoreBuffered` implements it: `ImplementsFlowLog` is its specification under the
mapping `accepted <- arrived`, `pending <- flows`, `stored <-` the objects of the
bucket.

**`StoreBufferedTimed`** extends `StoreBuffered` for a machine that is never late:
time passes only when no call runs, no callback waits and no timer is due. It
answers how long a flow waits, and carries the liveness property.

**`LogStatusPipeline`** is a message's way through the pipeline with the
log-status mangler and the direct storer: `Receive` (lines 309-323 of
`pipeline.go`, with the filter, the transformer as far as it withholds flows, and
the split), `MangleTag` once for each tag in any order, `Store`, and `StoreOne`
for each tag of the call. A flow lies in, half in, or out of the cluster, or has
an address that does not parse, which `GetFlowTag` turns into its tag. `Address`
stands for the pointer comparison of `mangle_logstatus.go:74`: two metrics have
the same address only if they are the same field of the same flow of the same
message.

**`StoreDirect`** is `store_direct.go`: `StoreTag` encodes, compresses and writes
the object whose key is the tag; an error returns and leaves the tags that are not
visited yet (`ReturnError`), and a write whose answer is lost is stored and an
error as well.

**`GoCache`** is the expiring map that the transformers use (an external library):
`Set`, `Delete`, and `Aged` for the passing of time. An item is kept with the time
left to it, since no caller can tell an expired item from a purged one.

**`FlowStatus`** is the part of `secadvisor/pkg/transform.go` that counts the
reports of a flow: `CountReport` reads `UpdateCount`, decides `Status` and
`Withheld`, and leaves `Counted` in the cache. It is a specification of its own
(`StatusSpec`), the abstract one that the exporter implements. `last` is a ghost:
the last report of each flow and its age, from which the properties say what the
cache should have.

**`SecAdvisorTransform`** extends it to the whole of `Transform`: `Remembered` is
`resolveCache.IPToContext`, over `ResolveFallback`, `ResolveMulti` and the three
resolvers (`ResolveRunc`, `ResolveDocker`, `ResolveVM`), `TypesKept` is
`TIDToType`, `Extended` is `Extend` of `extend_gremlin.go`. The topology (`owner`)
gives an address to someone else between two flows, and queries fail by the sets
of `FailureModes`. `UntypedNil` is what the cache would hold if an error reached
it: the type assertion of `resolve_cache.go:62` on it is `panicked`.

**`SecAdvisorExporter`** is the life of the program. While it is "discovering" its
query is answered (`Discover`, with the addresses of `extractNodeIP`, fixes those
by which flows are classified: `Learnt`) or fails because the analyzer is down
(`FailToDiscover`); after a failure it sleeps and asks again (`Retry`, the loop of
`classify_autodiscovery.go:47`). `Flip` is the analyzer, which goes up and down as
often as it likes. `Receive` filters and transforms a flow, `Join` adds a node
that a running exporter does not learn of, `Restart` empties every cache. Its
specification implies `StatusSpec`.

**`AccountFile`** is `account_file.go`: `BeginAdd` takes the time, `Read` reads
the record (with a time of its own for a new one) and `FailToRead` goes on without
the file that could not be read, to the `.bak` or to a new record; then one action
per system call: truncate, write, remove, rename. `Reset` is `ResetMain` and
`ResetBak`, the removals whose errors it ignores (`FailToResetMain`,
`FailToResetBak`). `Crash` is possible between any two, twice in the run; each can
fail once its budget allows; the wall clock can be set back, which makes a record
invalid (`Valid`, `verifyAccountRecord`). `lower` and `upper` are ghosts: the
bytes of calls that must be counted (they returned, with a valid record), and of
calls that may be, which begin anew only with a `Reset` that has left no file.
`Unprotected` is the moment at which a crash takes what was counted.

**`StorePrometheus`** is `store_prom.go`: the writer of connections, the writer of
interfaces and the cleaner, one step per access to what they share (look-up, push
to the list, insertion into the map, time stamp, place in the list, gauges).
Connections and interfaces are kept by the same code twice, so one definition with
a `kind` serves both. The Go runtime stops a program whose goroutines access a map
concurrently: `MapFault` is that restart, at the places where it can happen.

**`VpcAction`** is `action.go` for the entry of one tracking ID. An action
`Mangle` is a whole call: `resetFlowInfoState`, `collectFlowInfo`, the handler by
the number of flows (`ZeroFlows`, `OneFlow`, `CombineFlows`, `ThreeFlows`) and
`cleanupOldEntries`. Handlers are functions from an entry to the set of possible
outcomes, because the keys of a map come in any order (`Orders`); a nil pointer
that is followed is the outcome `Crash`. A tracking ID may have any number of
flows at its two capture points; when one of them has shown a second UUID
(`SecondUUID`), the handlers are outside of what they were written for, and what
they do is part of the model but nothing more is promised.

A call of `Mangle` is what `rounds` counts: a message whose flows have several
tags is several calls, and for the entry all but one of them are rounds without a
flow.

The `MC...` modules give small sets to the constants. The modules `..._proofs`
hold the theorems. Definitions whose comment begins with "Faulty variant" are
wrong on purpose: each is a plausible mistake in the definition after it, and some
property must notice when it takes its place. No action uses them.

## 3. Runs: what is checked, and the bounds

`tlc -config <cfg> <module>` in this directory. The passing runs also check
`TypeOK`, but for `store_deadline`, whose module extends the one of `store_keys`.
Deadlock checking is off in all of them: the clocks, the messages and the faults
are bounded, and a model that has used them up stops, which the program does not.

| run | bounds | shows |
|---|---|---|
| `store_keys` | 1 tag, 5 flows, 6 ticks, 2 rejected writes, 1 restart | `TypeOK`, `TakenOnlyToStore`, `BufferIsLatest`, `SizesBounded`, `ObjectsInOrder`, `StreamConsecutive`, `NothingOverwritten`, `ImplementsFlowLog` |
| `store_deadline` | 2 tags, 2 flows each, time for three durations | `FlushIsPending`, `FlushedWithinTwoDurations`, `EventuallyFlushed` |
| `store_lost` | 1 tag, 3 flows, no failure | violated: `NoSilentLoss` (section 6) |
| `store_stranded` | 1 tag, 1 rejected write | violated: `FlushIsPending` (section 6) |
| `logstatus_tags` | 4 flows on 2 links under 4 tags, 1 tag excluded, 3 messages, any write fails | `KnownLinksCovered`, `LossIsReported`, `SilentInEveryTag`, `StoredUnlessError` |
| `logstatus_skipdata` | 4 flows under 1 tag, 2 messages | violated: `SkipDataMeansLoss` (section 6) |
| `account_faults` | 4 `Add`, 1 `Reset`, 2 crashes, 1 failing call, 1 step of the clock back | `NothingForgotten`, `NothingInvented` |
| `prom_race` | 2 connections, 1 interface, 2 calls of each writer, cleanups without limit | `SameKeys`, `OldestFirst`, `EntriesExported`, `EntriesExpire` |
| `prom_stale` | 1 connection, 1 interface | violated: `InactiveRemoved` (section 6) |
| `action_pair` | 1 flow on each side and a second UUID on one, 3 calls of `Mangle`, 4 ticks, a cleanup | `AcceptedIsConfirmed`, `NothingHeldBack`, `RejectedWhenSilent`, `CrashesBySecondUUID` |
| `action_late` | 1 flow on each side, 4 calls, larger increments | violated: `NothingTakenBack` (section 6) |
| `secadvisor_caches` | 3 flows, 2 addresses, 2 capture points, 3 reports, 2 nodes, 1 change of the topology or node that joins, 1 restart, an analyzer that comes and goes | `CountsFollow`, `WithheldWhenNew`, `CountsOfLiveFlows`, `NeverPanics`, `PeersRightAfterCalm`, `ExtensionRightAfterCalm`, `NodesLearnt`, `EventuallyRunning` |

Why the bounds are enough for the cases that matter:

- *store_keys*: tags share no keys (the tag is part of the key), so one is enough.
  Five flows make three objects; two of them in one stream, or in two streams of
  which one begins after a restart. A buffer of three overflows after two rejected
  writes.
- *store_deadline*: two tags are needed for the shared timer: one owns it, the
  other relies on it; a third would rely on it in the same way. Two flows per tag,
  since the timer of two tags is pushed back when one of them fills an object.
- *logstatus_tags*: two flows of different tags on one link, twice, one of the
  tags excluded by the filter; three messages so that a link known from the first
  can be missing in the second and come back in the third. Update numbers up to
  three let one update be lost. With and without withheld flows; each tag's object
  is written, refused, or written without an answer.
- *account_faults*: a third `Add` meets what a crash in the second left behind, a
  fourth what that one made of it, and a second crash meets both. The `Reset`
  comes before, between or after them, and the failing call may be one of its
  removals.
- *store_lost*, *store_stranded*: the shortest buffers that show the case.
- *prom_race*: two connections give an order in the list; each writer's second
  call can race the cleanup of what its first call made. Time passes inside a call
  (the timeout is two ticks), and the clock ends after the last report has
  expired.
- *action_pair*: three calls are enough for a first pair followed by a round of
  one side or of none, for a reject followed by a late answer, and for an entry
  that is cleaned up and comes back; the clock passes the reject timeout (1) and
  the period of the cleanup (3). The two sides start at different times, both
  connections may end, and the second UUID shows up in any round: it is reported
  once (`Brief`), since what matters of it is that its entry stays. *action_late*
  has a fourth call.
- *secadvisor_caches*: the life times are scaled (10, 5 and 1 minutes to 2, 1 and
  1 units), so a report can come within, at the end of, and after each of them;
  three reports are a first, one that follows and one after an end, a timeout, a
  silence or a restart, on one flow or spread over two that share an address. One
  flow has every way to end, one has an address that does not parse, one no
  network layer. Nothing fails, or the container queries do, or the pods, types
  and extensions do. One change of the topology is enough to make each cached
  answer stale; a node that joins counts as one. One node has an external address
  between two internal ones, the other an internal one only, so that each rule of
  `extractNodeIP` decides. The analyzer goes up and down without a bound until the
  exporter runs.

No run uses `SYMMETRY`.

## 4. Fairness

- `StoreBufferedTimed!FairTimedSpec`: a call that has begun goes on (weak fairness
  of `Call`; writes end) and an armed timer that is due fires (weak, per tag). A
  waiting callback gets the mutex (strong: messages without flows can hold the
  mutex again and again, and `sync.Mutex` hands it to a waiter after a
  millisecond). The clock advances (strong, for the same reason). No fairness is
  asked of messages: `EventuallyFlushed` says the timers do it alone.
- `StorePrometheus!Spec`: each writer finishes its call, the cleaner's loop goes
  on for ever and time passes, all weak: goroutines are scheduled, and nothing
  they wait for can be taken from them. Reports may stop.

- `SecAdvisorExporter!Spec`: weak fairness of the exporter's own two steps at its
  start, that a query that was sent comes to an end, one way or the other
  (`Discover \/ FailToDiscover`), and that it wakes up and asks again (`Retry`,
  `classify_autodiscovery.go:53`). Nothing is asked of the analyzer:
  `EventuallyRunning` has it as a premise that it is up for good at last. Each
  query may have met a moment when it was down, so the exporter is held to asking
  again, and to take an answer without nodes for an answer. Neither flows nor time
  need go on.

The other modules state safety only.

## 5. Proofs

Eight modules, each checked with `tlapm <module>.tla`, prove for every value of
the constants that the named assumptions allow:

| module | theorem | statement |
|---|---|---|
| `StoreBuffered_proofs` | `TypeCorrect` | `Spec => []TypeOK` |
| | `BufferCorrect` | `Spec => []BufferIsLatest` |
| | `KeysNeverReused` | `KeyAssumptions`: `Spec => NothingOverwritten` |
| | `FlushAlwaysPending` | `WriteFaults = {}`: `Spec => []FlushIsPending` |
| | `FlushedInTime` | `WriteFaults = {}`: `TimedSpec => []FlushedWithinTwoDurations` |
| | `TimedStorerIsStorer` | `TimedSpec => Spec` |
| `StoreBufferedObjects_proofs` | `SizesCorrect` | `Spec => []SizesBounded` |
| | `ObjectsOrdered`, `StreamsConsecutive` | `KeyAssumptions`: `[]ObjectsInOrder`, `[]StreamConsecutive` |
| | `StorerImplementsFlowLog` | `KeyAssumptions`: `Spec => ImplementsFlowLog` (the specification of `FlowLog`) |
| | `FlowsTakenOnlyToStore` | `MaxFlowsPerObject <= MaxFlowArraySize + 1`: `Spec => TakenOnlyToStore` |
| `LogStatusPipeline_proofs` | `LinksNeverLeftOut`, `NoDataIsSilence`, `LossesReported`, `DirectlyStored` | the four properties of `logstatus_tags` |
| | `PipelineTypeCorrect` | `Spec => []TypeOK` |
| `AccountFile_proofs` | `AccountTypes`, `NeverInvented`, `NeverForgotten` | the three invariants of `account_faults` |
| `FlowStatus_proofs` | `CountsAreOfLiveFlows`, `CountsAlwaysFollow`, `WithheldOnlyWhenNew` | of `StatusSpec` |
| `SecAdvisorExporter_proofs` | `ExporterImplementsStatus` | `Spec => StatusSpec` |
| | `ExporterCountsFollow`, `ExporterWithholdsOnlyWhenNew`, `ExporterCountsAreOfLiveFlows` | the same of the exporter, by refinement |
| | `ExporterNeverPanics`, `ExporterTypeCorrect` | `Spec => []NeverPanics`, `Spec => []TypeOK` |
| | `ExporterPeersRight`, `ExporterExtensionRight` | `Spec => []PeersRightAfterCalm`, `Spec => []ExtensionRightAfterCalm` |
| | `ExporterNodesLearnt` | `Spec => NodesLearnt` |
| `StorePrometheus_proofs` | `PrometheusTypeCorrect`, `MapsAndListsAgree`, `ListsOldestFirst` | `Spec => []TypeOK`, `[]SameKeys`, `[]OldestFirst` |
| | `CachedIsExported` | `LabelsTellKeys`: `Spec => []EntriesExported` |
| `VpcAction_proofs` | `ActionTypes`, `AcceptedAlwaysConfirmed`, `AllConfirmedReported`, `RejectedOnlyWhenSilent`, `CrashesOnlyBySecondUUID` | the five invariants of `action_pair` |

**The buffered storer.** `TypeOK` is inductive together with `CallOK` (only the
call that holds the mutex has tags to visit, and the tag it visits has a flush
time); their conjunction is `TypeInv`. `BufferIsLatest` is inductive relative to
it: a buffer only ever grows at its end by the next flows (`GrownIsLatest`), is
cut at its old end (`CutIsLatest`, which serves the flush and the trimming alike)
or is emptied (by the copy, by a restart). `NothingOverwritten` needs to know
which keys are taken. `KeysInv` adds that no time lies in the future (`TimesOK`)
and that every key of a tag lies before the next key of its stream, or, without a
stream, before the current second (`KeysTaken`); without it nothing relates the
bucket to a stream that begins later. `KeyIsFree` then says that the key of the
next object is not in the bucket: in the running stream because its number is
larger, in a new one because its second is later (`SecondStep`).

`SizesBounded` holds between calls, so `SizesInv` says how far a buffer may exceed
its bound before its tag is trimmed. `OrderInv` adds to `KeysInv` that the windows
of the objects lie in the order of their keys and before the buffer, `StreamInv`
that the objects of the running stream end where the next one begins.
`StorerImplementsFlowLog` takes each action to a step of `FlowLog` or a stutter;
it needs `BufferInv` for what the buffer holds and `KeysInv` for the object to be
a new one.

`FlushIsPending` speaks of the moment between two calls, and a call takes the
timers apart and puts them together again. `TimersInv` says what holds meanwhile:
tags without a flush time are new in this call, every known tag is covered by a
timer, a callback or the call (`KnownCovered`), a flushed tag has nothing older
left (`FlowsSettled`).

`FlushedWithinTwoDurations` needs to know how late a timer may be that covers a
tag it does not belong to. `TimelyInv` has it: while time passes every known tag
with flows is covered by a timer that is due at least one and less than two
durations after the tag's own flush (`TimerSoon`). The bound of two is reached in
`Return`: the call that arms a timer has found every tag that it does not flush
younger than one duration, and the new timer is due one duration later. A call
takes the timer of a tag away only if it flushes that tag, and then it covers all
the others by the timer that it arms (`KnownTimely`, `FlowsTimely`). `OnTime` is
what the timed specification adds: a call takes no time and no timer is overdue.

`TakenOnlyToStore` is an action property. Between two steps of one call a buffer
changes by a flush, which moves its oldest flows into the object just written
(`FlushedIsStored`), or by trimming. Trimming without a failed write is excluded
by arithmetic: the loop of line 87 ends with fewer flows than an object takes.

**The pipeline.** The records of a message are built tag by tag: `LinksInv`,
`SilenceInv` and `LossInv` are the properties with "the tags mangled so far" for
"the message". For `SilentInEveryTag` that is not enough: a link first met in this
message is NODATA in the calls that follow the one that met it and not in those
before. `SilenceInv` says that every tag mangled has reported all silent links,
that none has reported a link it has flows of, and that the mangler knows no other
links. `StoredInv` says of a call of the direct storer that what is not to
be stored any more has been, or there was an error.

**The accounter.** `BytesInv`: the records in the file, in its `.bak` and in the
hands of `Add` all have at most `upper` bytes, and what `Add` is about to count is
in `upper` already. A removal that fails leaves a record, and `upper` with it.
`KeptInv` is the other direction, as long as no call fails and the clock is not
set back (`Undisturbed`): at each point of the sequence of system calls one of the
two files, or `Add` itself, has a valid record with at least `lower`.

**The security advisor.** `StatusInv` relates each item of the count cache to the
last report: its value is that report's number plus one, the time left to it is
the life time less the report's age, and there is one just for the flows that go
on. The exporter implements `StatusSpec`: transforming a flow is a report or
leaves the counts alone, a restart is a restart, everything else stutters.
`PanicInv` says that no value of the context cache is the untyped nil, because the
fallback below the cache turns every error into a context.

The caches do not know when the topology changed or a query failed, so nothing in
them tells a right answer from a wrong one. `AnswersInv` says of each item that it
is right or that `calm`, the time since the last change or failure, and the time
left to the item fit in its life time (`ContextsSettle`, `TypesSettle`,
`ExtensionsSettle`). A change or a failure sets `calm` to 0, where every item
fits; time moves both by one; an item set without failure is right. Once `calm`
exceeds the life time no item can be wrong, which is `PeersRightAfterCalm` and
`ExtensionRightAfterCalm`. The extension has a cache of its own and a longer life
time, so the two are separate. `NodesLearnt` says of `Discover` that for each node
`NodeIP` finds an address of the better kind, wherever it stands in the node's
list.

**The Prometheus storer.** `ListsInv` is about each kind (`KindOK`) and the
cleaner (`CleanerOK`). A key leaves map and list together, so they can only differ
when the cleaner removes from the list a key that its writer has not inserted into
the map yet. `WriterYoung` and `ExpireOK` exclude it: the entry of that key has
the time of a call that is younger than the timeout, so it has not expired.
`ItemOK` says that a key to be inserted is not in the map, so the writer's
`Insert` meets its own push, and `VictimCached` that the cleaner's victim is still
there when it is removed. The order of a list is stated for pairs of keys
(`InOrder`, with `Before`) and not of positions, because keys keep their order
when another one is taken out: `WithoutPieces`, `AppendPieces` and `MovedPieces`
say so of the list operations. A key that is moved to the back has the time of its
writer's call, and no entry is younger than that (`EntryTimes`).

`ExportInv` adds the labels. The cleaner deletes the series of its victim's label,
and the entries of other keys have other labels (`LabelsTellKeys`); a writer that
found an entry sets the series of the label which that entry has (`LabelRight`),
also if the entry was removed and never comes back: that is the case `prom_stale`
shows from the other side.

**The accept/reject mangler.** What it knows of a flow is spread over the flows of
the round and those of earlier ones. `Latest` joins them, `Accounted` relates them
to the measurements: an entry knows the last measurement of every flow it has
seen; before its first report, the bytes accepted so far leave room for the last
increments; after it, no more was accepted than its metric says. That last part
makes the increments add up over rejects and cleanups: an accept adds the lesser
of both sides less the metric, and the sum stays below both. `Settled` says that
the metric of an entry reported as accepted is the lesser of what both sides have,
which is `NothingHeldBack`: an entry is left alone only when the combination of
the latest flows is the metric already. `Ready` says when the metric exists (after
both sides were seen), which is why no nil is followed. Each handler is shown to
lead from the one to the other (`Handled`).

All of this is true only while each capture point has shown one UUID. The
inductive invariant `ActionInv` therefore is `TypeOK`, `Numbers` and, as long as
`OnePerSide` holds of the flows measured, `Sound`; measurements are never
forgotten, so once it is lost it stays lost (`MeasurementGrows`), and the theorems
hold for any finite set of flows with any capture points and starts. That the
entry keeps its type needs no such condition: every handler, for any number of
flows, makes an entry of an entry (`HandleTypes`).

**The assumptions.** `ConfigAssumption` (in `StoreBuffered`): an object has room
for one flow at least. With `max_flows_per_object` unset (0) the code writes empty
objects for ever; every sample configuration sets it. `KeyAssumptions`: an error
of a write means that nothing was stored, and a stream lasts a second at least.
The model's `Restart` assumes that coming back takes a second; the code does not
enforce it, and two processes within one second share the names of their streams.
`FlushAlwaysPending` assumes that no write fails; `store_stranded` shows that it
must; `FlushedInTime` makes the same assumption. `FlowsTakenOnlyToStore` assumes
that `max_flow_array_size` has room for an object but for one flow; otherwise a
buffer is trimmed before an object is full, without any failure. `LabelsTellKeys`:
two items of a kind with one label have one key. The label of an interface has the
`node_tid` that is its key; that of a connection has addresses, ports and
protocol, for which its L3TrackingID stands. If it does not hold, the cleanup of
one entry takes the series of the other. The theorems of
`VpcAction`, `AccountFile`, `LogStatusPipeline`, `FlowStatus` and
`SecAdvisorExporter` need no assumption but the types of the constants (and, for
`VpcAction`, that the flows of a tracking ID are finitely many).

**What is model-checked only.** Liveness (`EventuallyFlushed`, `EntriesExpire`,
`EventuallyRunning`) is out of the prover's reach, and the five violated claims
are refuted by TLC's traces. Every other property of a run is stated by a theorem.
The values of the constants and the assumptions above apart, the theorems say
nothing about what the models leave out (section 7).

## 6. What the code does that its comments do not say

With a run that shows it:

- *What is left of a flushed buffer is lost* (`store_lost`).
  `store_buffered.go:109` wants to "copy slice to free up memory of already
  flushed flows", but makes the new slice with length 0, so `copy` copies nothing
  and line 112 empties the buffer. Flows that did not fill an object are lost, and
  so are those whose write failed after another one of the same call had
  succeeded. Up to that point of the call nothing is lost (`TakenOnlyToStore`).
- *A failed flush is forgotten* (`store_stranded`). `store_buffered.go:123` sets
  "a timer for next flush", but only for tags that were flushed or are new. When
  the write of a due flush fails its timer has fired already, and none is armed:
  the flows wait for the next message.
- *SKIPDATA always* (`logstatus_skipdata`). `mangle_logstatus.go:74` compares
  pointers of two messages, which always differ; every repeated report of a flow
  counts as a loss.
- *A series that never expires* (`prom_stale`). The cleaner removes entry and
  gauges between a writer's look-up and its setting of the gauges.
- *Accepted bytes below zero* (`action_late`). A side that reports after the
  reject makes `combineFlows` subtract what was rejected.

Met while modelling, without a run of their own:

- "a single timer will cover all of the flushed tags" (`store_buffered.go:132`):
  when the tag that owns the timer fills an object, the timer is stopped and set
  again, so flows of the other tags wait up to twice the configured time. That is
  what `FlushedWithinTwoDurations` bounds.
- A write that was stored but not acknowledged is followed by another object under
  the same key (`store_buffered.go:188`), since the sequence number advances on
  success only. `KeyAssumptions` excludes it.
- Stream names have a resolution of a second (`store_buffered.go:182`) and every
  stream begins with the number 0: streams shorter than that, as with
  `max_seconds_per_stream` unset, or of two processes within a second, overwrite
  each other's objects. `KeyAssumptions` excludes the first, `Restart` the second.
- A second crash can take the account (`account_file.go:145`, `113`): a crash
  between `Remove` and `Rename` leaves the record in the `.bak` only, and the next
  `Add`, which reads it there, truncates and writes that same `.bak`.
  `Unprotected` is that moment; `NothingForgotten` counts nothing that a crash
  takes then.
- The object of a tag in the direct storer has the tag for its key: each message
  replaces the last one's, and after an error some tags have the objects of this
  message and others those of an earlier one (`store_direct.go:37`, `50`).
- "do not report new flows (i.e. the first time you see them)"
  (`transform.go:263`) withholds a flow again after ten minutes of silence, or one
  after a FIN: the cache has forgotten it. `WithheldWhenNew` says exactly when.
- A query that fails is remembered like an answer, for five or ten minutes: the
  fallback makes an empty context of every error, and `Extend` an empty text. This
  is what the `...RightAfterCalm` properties bound.
- `ConvertIPsToNetmasks` (`cluster_ips.go:27`) appends `/32` to every address; of
  an IPv6 address that is a prefix of 2^96 hosts. A node that joins later is
  outside of the cluster until the exporter restarts.
- An `extend` entry without `=` in the configuration ends the program with an
  index out of range when it is parsed.
- The first lookup of a node by the vpc transformer returns its addresses with
  their masks (`transform.go:124`), the later ones, from the cache, without: the
  first flow of a node, and again the first after ten minutes, may have no
  direction, where the comment at line 131 expects a mask to be ignored. The
  direction of a combined report is that of whichever flow the map yields first.
- NODATA, "when nothing was seen per intrerface in measurement window"
  (`mangle_logstatus.go:45`), is reported per tag: a link with flows of one tag is
  reported without data in the call for another, and a link first met in this
  message too, if the other tag is mangled later. Only all the tags together tell
  the silent links: `SilentInEveryTag` says that the links reported without data
  under every tag of a message are those, in whatever order the tags come.
- The Prometheus cache is keyed by L3TrackingID, but a label has the capture
  point: a flow captured on two nodes is exported under the label of the first.
- `combineFlows` compares metrics with their start, which is that of whichever
  flow the map yields first (`action.go:167`, `178`), and with a `Last` that is
  computed otherwise once both connections have ended: with different starts, or
  after the end, an accept with nothing new is reported in each round, against
  "ensure that we have new data to report" (line 244). Both happen in
  `action_pair`; `AcceptedIsConfirmed` and `NothingHeldBack` say that such a
  report adds nothing and changes no total.
- `cleanupOldEntries` deletes the entry of an accepted flow once a FIN was seen;
  the next report of one side is rejected. `RejectedWhenSilent` holds until the
  first cleanup.
- Two UUIDs of one capture point under a tracking ID, or a third UUID, make the
  handlers of `action.go` follow a nil pointer (lines 193, 206, 261). They do so
  in `action_pair`; `CrashesBySecondUUID` says that nothing else makes them.
- `Reset` ignores the errors of its two removals (`account_file.go:125`): a file
  that could not be removed is read by the next `Add`, which counts on from the
  old total. `NothingInvented` counts from the last `Reset` that left no file.
- A full disk empties the account: `write` logs its error (`account_file.go:115`)
  and `Add` removes the file all the same (line 146). Its first record is invalid,
  and its bytes are lost, when the millisecond turns between the time that `Add`
  takes (line 131) and the later one of `read` (line 78), as `accumulate-start`
  then is after `accumulate-end`. `NothingForgotten` is stated for valid records
  and without failing system calls.
- `vpclogs.yml.default` asks for an accounter of type `file` and
  `awsflowlogs.yml.default` for the mangler `logstatus`; the programs they belong
  to register neither, so they stop at start. Nothing calls `Accounter.Add`.

## 7. Abstractions, and what is not modelled

- *StoreBuffered*: encoding, compression, headers and metadata are the success or
  failure of the write. The names of keys beside the tag, the stream's second and
  the number are constant. Timers and mutex are those of Go's documentation.
- *StorePrometheus*: the gauges of a label are one series; a list whose links are
  torn by the data race is not modelled, only the stop of the program by the
  runtime. Each operation of a `list.List` is one step, though the lists are as
  unlocked as the maps; removal from the map and from the list is one step, too.
  The fields of an interface are taken to be there: the type assertions of lines
  240-257 end the program when one is missing. A call of a writer
  is assumed to take less than the timeout: a process suspended for longer between
  the push to the list (`store_prom.go:426`) and the insertion into the map (line
  428) may leave a map entry that no cleanup finds. Flows without a transport
  layer are not reported. The HTTP server is not modelled.
- *VpcAction*: one tracking ID, one counter for bytes and packets of both
  directions, several reports of a flow in a message are one (`more`) of which the
  mangler sees the last (`delta`), capture points 1 and 2. Entries are independent
  but for the time of the last cleanup.
- *LogStatusPipeline*: the subnets are abstracted to where an address lies; the
  records have a status, a tag, a link and a flow. The transformer is there as far
  as it withholds flows, with a count that does not expire within the three
  messages.
- *SecAdvisorTransform*: the lookups of one flow are one step, so the topology
  does not change between them, and the queries of one flow fail by a set given
  beforehand. Names and addresses are atoms; all errors look alike, as they do to
  the fallback. One extension with one query, on the first address. The fields of
  a record that are only copied are left out.
- *SecAdvisorExporter*: a netmask is the set of addresses of interest that it
  holds; all queries of the start that fail look alike, and the second of sleep is
  no step of the clock by which caches expire, since they are empty then. Whether
  the subscriber reconnects is not asked.
- *AccountFile*: a file system whose operations are atomic and take effect at
  once. No power loss, since the code calls no `fsync`.

Not modelled, because there is no state or order in them that could go wrong: text
(encoders, compressors, headers, `core/utils.go`, the aws transformer, the
direction of a vpc flow, which nothing reads but the reader of the log), the
clients of libraries (subscriber, S3 sessions and credentials), components that do
nothing (`none` mangler, transformer, accounter), and the registry of handlers
with the start of the programs, which is one sequential pass over a configuration.

## 8. Plan

Done, in the order of their weight: the buffered storer with `FlowLog`, its timed
variant and all its safety proofs; the pipeline with the log-status mangler and
the direct storer, proved; the accounter, proved; the accept/reject mangler,
proved up to a second UUID on a side; the security advisor's counts, resolvers,
extensions and discovery, the counts by refinement and the answers of its caches
by an invariant of their own; the Prometheus storer's maps, lists and series,
proved.

What is left, if the project goes on:

1. `VpcAction` with two entries, which share the time of the last cleanup.
2. `StorePrometheus` with calls that take longer than the timeout, and the steps
   between the removal from the map and the one from the list.
