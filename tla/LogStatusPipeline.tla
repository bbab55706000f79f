------------------------- MODULE LogStatusPipeline -------------------------
(***************************************************************************)
(* A message of flows on its way through the pipeline of the security      *)
(* advisor (core/pipeline.go) with the log-status mangler                  *)
(* (secadvisor/pkg/mangle_logstatus.go) and the direct storer: filter,     *)
(* split by tag, transform each flow, mangle each tag, store each tag.     *)
(* The pipeline's lock makes the whole way one step for other messages,    *)
(* but the mangler is called once per tag, in an arbitrary order, and      *)
(* keeps state between the calls, and the storer may fail half way.        *)
(*                                                                         *)
(* A flow is reported again and again; each report is an update with a     *)
(* number, and updates can be lost on their way to the exporter.           *)
(***************************************************************************)
EXTENDS Naturals, StoreDirect

CONSTANTS
  Flows,          \* flows, by UUID
  EndA, EndB,     \* where the two addresses of a flow lie: see Ends
  LinkOf,         \* the LinkID of a flow
  ExcludedTags,   \* filter.excluded_tags
  MaxUpdates,     \* updates of one flow
  MaxMessages     \* messages

\* A cluster address, an address outside of it, or one that does not parse.
Ends == {"cluster", "outside", "unparsable"}

ASSUME FlowAssumption ==
  /\ EndA \in [Flows -> Ends]
  /\ EndB \in [Flows -> Ends]
  /\ DOMAIN LinkOf = Flows
  /\ MaxUpdates \in Nat
  /\ MaxMessages \in Nat

VARIABLES
  stage,        \* what the pipeline does: "mangle" or "store"
  message,      \* the flows in the pipeline, with their update numbers
  lastSeen,     \* update of each flow that was transformed last, 0 if none
  excludeStartedFlows,
  todo,         \* tags of the message that are not mangled yet
  linkIDs,      \* the mangler's links
  flows,        \* the mangler's flows: the address of the Metric last seen
  records,      \* what the mangler returned for this message so far
  messages,     \* number of messages received
  lastUpdate,   \* update of each flow that was mangled last, 0 if none
  knownLinks    \* the mangler's links when the message came in

vars == <<stage, message, lastSeen, excludeStartedFlows, todo, linkIDs, flows,
          records, messages, lastUpdate, knownLinks, storeVars>>

GetFlowTag(f) ==
  CASE EndA[f] = "unparsable" \/ EndB[f] = "unparsable" -> "other"
    [] EndA[f] = "cluster" /\ EndB[f] = "cluster" -> "internal"
    [] EndA[f] = "cluster" /\ EndB[f] = "outside" -> "egress"
    [] EndA[f] = "outside" /\ EndB[f] = "cluster" -> "ingress"
    [] EndA[f] = "outside" /\ EndB[f] = "outside" -> "other"

Tags == {GetFlowTag(f) : f \in Flows}

\* The flows the filter lets through.
Filtered(updates) == {f \in DOMAIN updates : GetFlowTag(f) \notin ExcludedTags}

\* The transformer of the security advisor withholds a flow it sees for the
\* first time, if it is told to.
Transformed(updates) ==
  {f \in Filtered(updates) : excludeStartedFlows => lastSeen[f] > 0}

\* The tags that have flows left, and the flows of one tag.
TagsOf(fs) == {GetFlowTag(f) : f \in fs}
Split(t) == {f \in DOMAIN message : GetFlowTag(f) = t}

Init ==
  /\ stage = "store"
  /\ message = [f \in {} |-> 0]
  /\ lastSeen = [f \in Flows |-> 0]
  /\ excludeStartedFlows \in BOOLEAN
  /\ todo = {}
  /\ linkIDs = {}
  /\ flows = [f \in {} |-> 0]
  /\ records = {}
  /\ messages = 0
  /\ lastUpdate = [f \in Flows |-> 0]
  /\ knownLinks = {}
  /\ StoreInit
-----------------------------------------------------------------------------
(* OnStructMessage: a message comes in while no other is in the pipeline.  *)

Updates == UNION {[S -> 1..MaxUpdates] : S \in SUBSET Flows \ {{}}}

Receive(updates) ==
  /\ stage = "store"
  /\ toStore = Nothing
  /\ messages < MaxMessages
  /\ \A f \in DOMAIN updates : updates[f] > lastSeen[f]
  /\ stage' = "mangle"
  /\ message' = Restrict(updates, Transformed(updates))
  /\ lastSeen' = [f \in Flows |-> IF f \in Filtered(updates) THEN updates[f]
                                                            ELSE lastSeen[f]]
  /\ todo' = TagsOf(Transformed(updates))
  /\ records' = {}
  /\ messages' = messages + 1
  /\ knownLinks' = linkIDs
  /\ UNCHANGED <<excludeStartedFlows, linkIDs, flows, lastUpdate, storeVars>>
-----------------------------------------------------------------------------
(* One call of Mangle, with the flows of one tag.                          *)

\* Faulty variant: a link is known by its flows.
LinksByFlow(in) == in

Links(in) == {LinkOf[f] : f \in in}

\* Each message is unmarshalled into memory of its own.
Address(field, f) == <<messages, f, field>>

OkRecords(t, in) ==
  {[status |-> "OK", tag |-> t, link |-> LinkOf[f], flow |-> f] : f \in in}

\* Faulty variants: a link that was reported for another tag of the message is
\* not reported again; no link is.
NoDataOnce(t, in) ==
  {[status |-> "NODATA", tag |-> t, link |-> l] :
     l \in linkIDs \ (Links(in) \cup {r.link : r \in records})}
NoDataNowhere(t, in) == {}

NoDataRecords(t, in) ==
  {[status |-> "NODATA", tag |-> t, link |-> l] : l \in linkIDs \ Links(in)}

\* Faulty variant: the flows that are new are reported.
SkipOfNewFlows(t, in) ==
  {[status |-> "SKIPDATA", tag |-> t, link |-> LinkOf[f], flow |-> f] :
     f \in in \ DOMAIN flows}

\* The code compares the addresses of the two metrics.
SkipRecords(t, in) ==
  {[status |-> "SKIPDATA", tag |-> t, link |-> LinkOf[f], flow |-> f] :
     f \in {g \in in \cap DOMAIN flows :
              Address("LastUpdateMetric", g) # flows[g]}}

MangleTag(t) ==
  LET in == Split(t) IN
  /\ stage = "mangle"
  /\ t \in todo
  /\ todo' = todo \ {t}
  /\ records' = records \cup OkRecords(t, in) \cup NoDataRecords(t, in)
                        \cup SkipRecords(t, in)
  /\ linkIDs' = linkIDs \cup Links(in)
  /\ flows' = [f \in DOMAIN flows \cup in |->
                 IF f \in in THEN Address("Metric", f) ELSE flows[f]]
  /\ UNCHANGED <<stage, message, lastSeen, excludeStartedFlows, messages,
                 lastUpdate, knownLinks, storeVars>>

\* The object of a tag: the message it comes from, and its records.
Object(t) ==
  [message |-> messages, records |-> {r \in records : r.tag = t}]

\* All tags are mangled: the records go to the storer in one call.
Store ==
  /\ stage = "mangle"
  /\ todo = {}
  /\ stage' = "store"
  /\ StoreFlows([t \in TagsOf(DOMAIN message) |-> Object(t)])
  /\ lastUpdate' = [f \in Flows |-> IF f \in DOMAIN message THEN message[f]
                                                           ELSE lastUpdate[f]]
  /\ UNCHANGED <<message, lastSeen, excludeStartedFlows, todo, linkIDs, flows,
                 records, messages, knownLinks>>

StoreOne ==
  /\ \E t \in Tags : StoreTag(t)
  /\ UNCHANGED <<stage, message, lastSeen, excludeStartedFlows, todo, linkIDs,
                 flows, records, messages, lastUpdate, knownLinks>>

Next ==
  \/ \E updates \in Updates : Receive(updates)
  \/ \E t \in Tags : MangleTag(t)
  \/ Store
  \/ StoreOne

Spec == Init /\ [][Next]_vars
-----------------------------------------------------------------------------
(* Properties of the records of a message once it is mangled.              *)

Mangled == stage = "mangle" /\ todo = {}

Reported(status) == {r \in records : r.status = status}

TypeOK ==
  /\ stage \in {"mangle", "store"}
  /\ DOMAIN message \subseteq Flows
  /\ \A f \in DOMAIN message : message[f] \in 1..MaxUpdates
  /\ lastSeen \in [Flows -> 0..MaxUpdates]
  /\ todo \subseteq Tags \ ExcludedTags
  /\ linkIDs \subseteq {LinkOf[f] : f \in Flows}
  /\ DOMAIN flows \subseteq Flows
  /\ messages \in 0..MaxMessages
  /\ lastUpdate \in [Flows -> 0..MaxUpdates]
  /\ knownLinks \subseteq linkIDs
  /\ \A r \in records : r.status \in {"OK", "NODATA", "SKIPDATA"}
  /\ DOMAIN toStore \cup DOMAIN objects \subseteq Tags \ ExcludedTags

\* A link the mangler knew when a message came in is never left out of its
\* records: it has data, or it is reported to have none.  Unless the message has
\* no flow left: then the mangler is not called, and all links are silent.
KnownLinksCovered ==
  Mangled /\ DOMAIN message # {} =>
    \A l \in knownLinks : \E r \in records : r.link = l

\* When updates of a flow were lost, its next update comes with a SKIPDATA.  The
\* updates that follow the first report that was withheld are an exception: the
\* mangler does not know the flow yet.
LossIsReported ==
  Mangled =>
    \A f \in DOMAIN message :
      lastUpdate[f] > 0 /\ message[f] > lastUpdate[f] + 1 =>
        \E r \in Reported("SKIPDATA") : r.flow = f

\* "NODATA: when nothing was seen per intrerface in measurement window"
\* (mangle_logstatus.go:45).  One tag's records do not say that: a link is also
\* reported in the calls for the tags it has no flow of, and a link first met in
\* this message is so or not by the order of the tags.  All the calls together
\* do: whatever the order, the links that every tag of a message reports are the
\* links known from earlier messages that have no flow in this one.
SilentInEveryTag ==
  Mangled /\ DOMAIN message # {} =>
    {l \in linkIDs : \A t \in TagsOf(DOMAIN message) :
                       \E r \in Reported("NODATA") : r.tag = t /\ r.link = l}
      = knownLinks \ Links(DOMAIN message)

\* mangle_logstatus.go:70, "SKIPDATA: flows were lost due to error or resource
\* constraint": a flow is reported to have skipped data only if an update of it
\* was lost.
SkipDataMeansLoss ==
  Mangled => \A r \in Reported("SKIPDATA") :
               message[r.flow] > lastUpdate[r.flow] + 1

\* store_direct.go:36-59: when StoreFlows returns no error, the object of each
\* tag of the message has the records of that tag and no other, and replaces
\* what earlier messages left there.  After an error no tag is sure to be stored.
StoredUnlessError ==
  stage = "store" /\ toStore = Nothing /\ ~ storeError =>
    \A t \in TagsOf(DOMAIN message) :
      t \in DOMAIN objects /\ objects[t] = Object(t)
=============================================================================
