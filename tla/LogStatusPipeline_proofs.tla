---------------------- MODULE LogStatusPipeline_proofs ----------------------
(***************************************************************************)
(* Proofs about the log-status pipeline: what the records of a message say *)
(* of the links and flows of all the messages before it, and what is       *)
(* stored of them.                                                         *)
(***************************************************************************)
EXTENDS LogStatusPipeline, TLAPS

(***************************************************************************)
(* Links.                                                                  *)
(***************************************************************************)

\* The tags to mangle are tags of the message, and links are not forgotten.
ToDoOK ==
  /\ DOMAIN message \subseteq Flows
  /\ todo \subseteq TagsOf(DOMAIN message)
  /\ knownLinks \subseteq linkIDs

Covered == \A l \in knownLinks : \E r \in records : r.link = l

\* The call for any tag covers all links.
CoveredByOne ==
  stage = "mangle" /\ todo # TagsOf(DOMAIN message) => Covered

LinksInv == ToDoOK /\ CoveredByOne

\* What the steps do to the variables of the mangler.
LEMMA ReceiveResult ==
  ASSUME NEW updates \in Updates, Receive(updates)
  PROVE  /\ DOMAIN message' = Transformed(updates)
         /\ DOMAIN message' \subseteq Flows
         /\ todo' = TagsOf(DOMAIN message')
         /\ stage' = "mangle" /\ records' = {} /\ knownLinks' = linkIDs
         /\ UNCHANGED <<linkIDs, flows, lastUpdate, storeVars>>
BY DEF Receive, Restrict, TagsOf, Transformed, Filtered, Updates

LEMMA LinksStep == LinksInv /\ [Next]_vars => LinksInv'
<1> SUFFICES ASSUME LinksInv, [Next]_vars PROVE LinksInv'
  OBVIOUS
<1>1. ToDoOK /\ CoveredByOne
  BY DEF LinksInv
<1>2. ASSUME NEW updates \in Updates, Receive(updates) PROVE LinksInv'
  <2>1. TagsOf(DOMAIN message)' = TagsOf(DOMAIN message')
    BY DEF TagsOf
  <2> QED
    BY <1>2, <2>1, ReceiveResult DEF LinksInv, ToDoOK, CoveredByOne
<1>3. ASSUME NEW t \in Tags, MangleTag(t) PROVE LinksInv'
  <2> DEFINE in == Split(t)
  <2>1. /\ todo' = todo \ {t}
        /\ linkIDs' = linkIDs \cup Links(in)
        /\ records' = records \cup OkRecords(t, in) \cup NoDataRecords(t, in)
                              \cup SkipRecords(t, in)
        /\ UNCHANGED <<stage, message, knownLinks>>
    BY <1>3 DEF MangleTag
  <2>2. TagsOf(DOMAIN message)' = TagsOf(DOMAIN message)
    BY <2>1 DEF TagsOf
  <2>3. ASSUME NEW l \in linkIDs PROVE \E r \in records' : r.link = l
    <3>1. CASE l \in Links(in)
      <4>1. PICK f \in in : l = LinkOf[f]
        BY <3>1 DEF Links
      <4>2. [status |-> "OK", tag |-> t, link |-> LinkOf[f], flow |-> f] \in records'
        BY <2>1, <4>1 DEF OkRecords
      <4> QED
        BY <4>1, <4>2
    <3>2. CASE l \notin Links(in)
      <4>1. [status |-> "NODATA", tag |-> t, link |-> l] \in records'
        BY <2>1, <3>2 DEF NoDataRecords
      <4> QED
        BY <4>1
    <3> QED
      BY <3>1, <3>2
  <2>4. Covered'
    BY <1>1, <2>1, <2>3 DEF ToDoOK, Covered
  <2>5. ToDoOK'
    BY <1>1, <2>1, <2>2 DEF ToDoOK
  <2> QED
    BY <2>4, <2>5 DEF LinksInv, CoveredByOne
<1>4. CASE Store
  BY <1>1, <1>4 DEF Store, LinksInv, ToDoOK, CoveredByOne, TagsOf
<1>5. CASE StoreOne \/ UNCHANGED vars
  BY <1>1, <1>5 DEF StoreOne, vars, LinksInv, ToDoOK, CoveredByOne, Covered, TagsOf
<1> QED
  BY <1>2, <1>3, <1>4, <1>5 DEF Next

\* mangle_logstatus.go:45-63: whatever the tags, the withheld reports and the
\* links seen before, the records of a message that has a flow left mention
\* every link the mangler knew.
THEOREM LinksNeverLeftOut == Spec => []KnownLinksCovered
<1>1. Init => LinksInv
  BY DEF Init, LinksInv, ToDoOK, CoveredByOne
<1>2. LinksInv => KnownLinksCovered
  BY DEF LinksInv, CoveredByOne, Covered, KnownLinksCovered, Mangled, TagsOf
<1> QED
  BY <1>1, <1>2, LinksStep, PTL DEF Spec

(***************************************************************************)
(* Silence.                                                                *)
(***************************************************************************)

\* The mangler has no links but those of earlier messages and of this one; the
\* tags mangled so far have reported every silent link, and no tag has reported
\* a link it has flows of.
SilenceInv ==
  stage = "mangle" =>
    /\ linkIDs \subseteq knownLinks \cup Links(DOMAIN message)
    /\ \A t \in TagsOf(DOMAIN message) \ todo :
         \A l \in knownLinks \ Links(DOMAIN message) :
           [status |-> "NODATA", tag |-> t, link |-> l] \in records
    /\ \A r \in Reported("NODATA") : r.link \notin Links(Split(r.tag))

LEMMA SilenceStep == ToDoOK /\ SilenceInv /\ [Next]_vars => SilenceInv'
<1> SUFFICES ASSUME ToDoOK, SilenceInv, [Next]_vars PROVE SilenceInv'
  OBVIOUS
<1>1. ASSUME NEW updates \in Updates, Receive(updates) PROVE SilenceInv'
  <2>1. TagsOf(DOMAIN message)' = todo'
    BY <1>1, ReceiveResult DEF TagsOf
  <2> QED
    BY <1>1, <2>1, ReceiveResult DEF SilenceInv, Reported
<1>2. ASSUME NEW t \in Tags, MangleTag(t) PROVE SilenceInv'
  <2>1. /\ todo' = todo \ {t}
        /\ linkIDs' = linkIDs \cup Links(Split(t))
        /\ records' = records \cup OkRecords(t, Split(t))
                              \cup NoDataRecords(t, Split(t))
                              \cup SkipRecords(t, Split(t))
        /\ UNCHANGED <<stage, message, knownLinks>> /\ stage = "mangle"
    BY <1>2 DEF MangleTag
  <2>2. /\ TagsOf(DOMAIN message)' = TagsOf(DOMAIN message)
        /\ Links(DOMAIN message)' = Links(DOMAIN message)
        /\ \A u : Links(Split(u))' = Links(Split(u))
    BY <2>1 DEF TagsOf, Links, Split
  <2>3. Links(Split(t)) \subseteq Links(DOMAIN message)
    BY DEF Links, Split
  <2>4. linkIDs' \subseteq knownLinks \cup Links(DOMAIN message)
    BY <2>1, <2>3 DEF SilenceInv
  <2>5. ASSUME NEW u \in TagsOf(DOMAIN message) \ todo',
               NEW l \in knownLinks \ Links(DOMAIN message)
        PROVE  [status |-> "NODATA", tag |-> u, link |-> l] \in records'
    <3>1. CASE u = t
      BY <2>1, <2>3, <2>5, <3>1 DEF NoDataRecords, ToDoOK
    <3>2. CASE u # t
      BY <2>1, <2>5, <3>2 DEF SilenceInv
    <3> QED
      BY <3>1, <3>2
  <2>6. ASSUME NEW r \in records', r.status = "NODATA"
        PROVE  r.link \notin Links(Split(r.tag))
    <3>1. CASE r \in records
      BY <2>1, <2>6, <3>1 DEF SilenceInv, Reported
    <3>2. CASE r \in NoDataRecords(t, Split(t))
      BY <3>2 DEF NoDataRecords
    <3>3. CASE r \in OkRecords(t, Split(t)) \cup SkipRecords(t, Split(t))
      BY <2>6, <3>3 DEF OkRecords, SkipRecords
    <3> QED
      BY <2>1, <3>1, <3>2, <3>3
  <2> QED
    BY <2>1, <2>2, <2>4, <2>5, <2>6 DEF SilenceInv, Reported
<1>3. CASE Store
  BY <1>3 DEF Store, SilenceInv
<1>4. CASE StoreOne \/ UNCHANGED vars
  BY <1>4 DEF StoreOne, vars, SilenceInv, Reported, TagsOf, Links, Split
<1> QED
  BY <1>1, <1>2, <1>3, <1>4 DEF Next

\* mangle_logstatus.go:45, "NODATA: when nothing was seen": for any number of
\* tags and any order of their calls, the links that all tags of a message report
\* are those that earlier messages had and this one has no flow of.
THEOREM NoDataIsSilence == Spec => []SilentInEveryTag
<1>1. Init => LinksInv /\ SilenceInv
  BY DEF Init, LinksInv, ToDoOK, CoveredByOne, SilenceInv
<1>2. LinksInv /\ SilenceInv /\ [Next]_vars => (LinksInv /\ SilenceInv)'
  BY LinksStep, SilenceStep DEF LinksInv
<1>3. ToDoOK /\ SilenceInv => SilentInEveryTag
  <2> SUFFICES ASSUME ToDoOK, SilenceInv, Mangled
               PROVE  SilentInEveryTag
    BY DEF SilentInEveryTag
  <2> DEFINE Silent(l) == \A t \in TagsOf(DOMAIN message) :
                            \E r \in Reported("NODATA") : r.tag = t /\ r.link = l
  <2>1. ASSUME NEW l \in linkIDs, Silent(l)
        PROVE  l \in knownLinks \ Links(DOMAIN message)
    <3>1. ASSUME NEW f \in DOMAIN message, l = LinkOf[f] PROVE FALSE
      <4>1. GetFlowTag(f) \in TagsOf(DOMAIN message) /\ f \in Split(GetFlowTag(f))
        BY DEF TagsOf, Split
      <4>2. PICK r \in Reported("NODATA") : r.tag = GetFlowTag(f) /\ r.link = l
        BY <2>1, <4>1
      <4>3. l \in Links(Split(r.tag))
        BY <3>1, <4>1, <4>2 DEF Links
      <4> QED
        BY <4>2, <4>3 DEF SilenceInv, Mangled
    <3> QED
      BY <2>1, <3>1 DEF SilenceInv, Mangled, Links
  <2>2. ASSUME NEW l \in knownLinks \ Links(DOMAIN message)
        PROVE  l \in linkIDs /\ Silent(l)
    <3>1. ASSUME NEW t \in TagsOf(DOMAIN message)
          PROVE  \E r \in Reported("NODATA") : r.tag = t /\ r.link = l
      <4> DEFINE record == [status |-> "NODATA", tag |-> t, link |-> l]
      <4>1. record \in records
        BY DEF SilenceInv, Mangled
      <4> QED
        BY <4>1 DEF Reported
    <3> QED
      BY <3>1 DEF ToDoOK
  <2> QED
    BY <2>1, <2>2 DEF SilentInEveryTag
<1> QED
  BY <1>1, <1>2, <1>3, PTL DEF Spec, LinksInv

(***************************************************************************)
(* Losses.                                                                 *)
(***************************************************************************)

\* The mangler remembers the flows it was called with, and where their metric
\* was; it reports each flow it remembers.
Remembered ==
  /\ \A f \in DOMAIN flows : flows[f][3] = "Metric"
  /\ \A f \in Flows : lastUpdate[f] > 0 => f \in DOMAIN flows
  /\ stage = "mangle" =>
       \A f \in DOMAIN message : GetFlowTag(f) \notin todo =>
         /\ f \in DOMAIN flows
         /\ lastUpdate[f] > 0 => \E r \in Reported("SKIPDATA") : r.flow = f

LossInv == ToDoOK /\ Remembered

LEMMA LossMangle ==
  ASSUME LossInv, NEW t \in Tags, MangleTag(t)
  PROVE  Remembered'
<1> DEFINE in == Split(t)
<1>1. /\ todo' = todo \ {t} /\ stage = "mangle"
      /\ DOMAIN flows' = DOMAIN flows \cup in
      /\ \A f \in in : flows'[f] = <<messages, f, "Metric">>
      /\ \A f \in DOMAIN flows \ in : flows'[f] = flows[f]
      /\ records' = records \cup OkRecords(t, in) \cup NoDataRecords(t, in)
                            \cup SkipRecords(t, in)
      /\ UNCHANGED <<stage, message, lastUpdate>>
  BY DEF MangleTag, Address
<1>2. \A f \in DOMAIN flows' : flows'[f][3] = "Metric"
  BY <1>1 DEF LossInv, Remembered
<1>3. ASSUME NEW f \in DOMAIN message, GetFlowTag(f) \notin todo'
      PROVE  /\ f \in DOMAIN flows'
             /\ lastUpdate[f] > 0 =>
                  \E r \in records' : r.status = "SKIPDATA" /\ r.flow = f
  <2>1. CASE GetFlowTag(f) = t
    <3>1. f \in in /\ f \in Flows
      BY <2>1 DEF Split, LossInv, ToDoOK
    <3>2. ASSUME lastUpdate[f] > 0
          PROVE  \E r \in records' : r.status = "SKIPDATA" /\ r.flow = f
      <4> DEFINE r == [status |-> "SKIPDATA", tag |-> t, link |-> LinkOf[f], flow |-> f]
      <4>1. f \in DOMAIN flows /\ flows[f][3] = "Metric"
        BY <3>1, <3>2 DEF LossInv, Remembered
      <4>2. Address("LastUpdateMetric", f) # flows[f]
        BY <4>1 DEF Address
      <4>3. r \in records'
        BY <1>1, <3>1, <4>1, <4>2 DEF SkipRecords
      <4> QED
        BY <4>3
    <3> QED
      BY <1>1, <3>1, <3>2
  <2>2. CASE GetFlowTag(f) # t
    BY <1>1, <1>3, <2>2 DEF LossInv, Remembered, Reported
  <2> QED
    BY <2>1, <2>2
<1> QED
  BY <1>1, <1>2, <1>3 DEF LossInv, Remembered, Reported

LEMMA LossStep == LinksInv /\ LossInv /\ [Next]_vars => LossInv'
<1> SUFFICES ASSUME LinksInv, LossInv, [Next]_vars
             PROVE  Remembered'
  BY LinksStep DEF LinksInv, LossInv
<1>1. ASSUME NEW updates \in Updates, Receive(updates)
      PROVE  Remembered'
  <2>1. \A f \in DOMAIN message' : GetFlowTag(f) \in todo'
    BY <1>1, ReceiveResult DEF TagsOf
  <2> QED
    BY <1>1, <2>1, ReceiveResult DEF LossInv, Remembered
<1>2. ASSUME NEW t \in Tags, MangleTag(t)
      PROVE  Remembered'
  BY <1>2, LossMangle DEF MangleTag, LossInv
<1>3. CASE Store
  <2>1. /\ stage = "mangle" /\ todo = {} /\ stage' = "store"
        /\ lastUpdate' = [f \in Flows |-> IF f \in DOMAIN message
                                          THEN message[f] ELSE lastUpdate[f]]
        /\ UNCHANGED flows
    BY <1>3 DEF Store
  <2> QED
    BY <2>1 DEF LossInv, Remembered
<1>4. CASE StoreOne \/ UNCHANGED vars
  BY <1>4 DEF StoreOne, vars, LossInv, Remembered, Reported
<1> QED
  BY <1>1, <1>2, <1>3, <1>4 DEF Next

\* mangle_logstatus.go:70: no loss goes unreported.  Over any tags, links and
\* messages, a flow that was mangled before and skipped an update has a SKIPDATA.
THEOREM LossesReported == Spec => []LossIsReported
<1>1. Init => LinksInv /\ LossInv
  BY DEF Init, LinksInv, ToDoOK, CoveredByOne, LossInv, Remembered
<1>2. LinksInv /\ LossInv /\ [Next]_vars => (LinksInv /\ LossInv)'
  BY LinksStep, LossStep
<1>3. LossInv => LossIsReported
  BY DEF LossInv, Remembered, LossIsReported, Mangled
<1> QED
  BY <1>1, <1>2, <1>3, PTL DEF Spec

(***************************************************************************)
(* The direct storer.                                                      *)
(***************************************************************************)

\* What waits are the objects of the message; without an error the object of a
\* tag waits for its turn or is stored.
StoredInv ==
  stage = "store" =>
    /\ \A t \in DOMAIN toStore : toStore[t] = Object(t)
    /\ ~ storeError =>
         \A t \in TagsOf(DOMAIN message) :
           \/ t \in DOMAIN toStore
           \/ t \in DOMAIN objects /\ objects[t] = Object(t)

LEMMA StoredStep == StoredInv /\ [Next]_vars => StoredInv'
<1> SUFFICES ASSUME StoredInv, [Next]_vars PROVE StoredInv'
  OBVIOUS
<1>1. ASSUME NEW updates \in Updates, Receive(updates) PROVE StoredInv'
  BY <1>1 DEF Receive, StoredInv
<1>2. ASSUME NEW t \in Tags, MangleTag(t) PROVE StoredInv'
  BY <1>2 DEF MangleTag, StoredInv
<1>3. CASE Store
  BY <1>3 DEF Store, StoreFlows, StoredInv, Object, TagsOf
<1>4. ASSUME NEW t \in Tags, StoreTag(t), StoreOne PROVE StoredInv'
  <2>1. UNCHANGED <<stage, message, messages, records>>
    BY <1>4 DEF StoreOne
  <2>2. /\ \A u : Object(u)' = Object(u)
        /\ TagsOf(DOMAIN message)' = TagsOf(DOMAIN message)
    BY <2>1 DEF Object, TagsOf
  <2>3. CASE ReturnError(t)
    BY <2>3 DEF ReturnError, Nothing, StoredInv
  <2>4. CASE ~ ReturnError(t)
    <3>1. /\ t \in DOMAIN toStore /\ storeError' = storeError
          /\ DOMAIN objects' = DOMAIN objects \cup {t}
          /\ objects'[t] = toStore[t]
          /\ \A u \in DOMAIN objects \ {t} : objects'[u] = objects[u]
          /\ DOMAIN toStore' = DOMAIN toStore \ {t}
          /\ \A u \in DOMAIN toStore \ {t} : toStore'[u] = toStore[u]
      BY <1>4, <2>4 DEF StoreTag, Written, Restrict
    <3> QED
      BY <2>1, <2>2, <3>1 DEF StoredInv
  <2> QED
    BY <2>3, <2>4
<1>5. CASE UNCHANGED vars
  BY <1>5 DEF vars, storeVars, StoredInv, Object, TagsOf
<1> QED
  BY <1>1, <1>2, <1>3, <1>4, <1>5 DEF Next, StoreOne

\* store_direct.go:36-59: when a call returns no error each tag of the message
\* has its records in the object under its name, whatever earlier calls, failed
\* ones among them, left there.
THEOREM DirectlyStored == Spec => []StoredUnlessError
<1>1. Init => StoredInv
  BY DEF Init, StoreInit, Nothing, StoredInv, TagsOf
<1>2. StoredInv => StoredUnlessError
  BY DEF StoredInv, StoredUnlessError, Nothing
<1> QED
  BY <1>1, <1>2, StoredStep, PTL DEF Spec

(***************************************************************************)
(* Types: what is excluded is neither mangled nor stored.                  *)
(***************************************************************************)

TypesInv == TypeOK /\ TagsOf(DOMAIN message) \subseteq Tags \ ExcludedTags

LEMMA TypesReceive ==
  ASSUME TypesInv, NEW updates \in Updates, Receive(updates)
  PROVE  TypesInv'
<1>1. /\ DOMAIN updates \subseteq Flows
      /\ \A f \in DOMAIN updates : updates[f] \in 1..MaxUpdates
  BY DEF Updates
<1>2. Transformed(updates) \subseteq Filtered(updates)
  BY DEF Transformed
<1>3. /\ Filtered(updates) \subseteq DOMAIN updates
      /\ \A f \in Filtered(updates) : GetFlowTag(f) \in Tags \ ExcludedTags
  BY <1>1 DEF Filtered, Tags
<1>4. /\ DOMAIN message' = Transformed(updates)
      /\ \A f \in DOMAIN message' : message'[f] = updates[f]
  BY DEF Receive, Restrict
<1>5. TagsOf(DOMAIN message') \subseteq Tags \ ExcludedTags
  BY <1>2, <1>3, <1>4 DEF TagsOf
<1>6. /\ DOMAIN message' \subseteq Flows
      /\ \A f \in DOMAIN message' : message'[f] \in 1..MaxUpdates
  BY <1>1, <1>2, <1>3, <1>4
<1>7. lastSeen' \in [Flows -> 0..MaxUpdates]
  BY <1>1, <1>3, FlowAssumption DEF Receive, TypesInv, TypeOK
<1>8. messages' \in 0..MaxMessages
  BY FlowAssumption DEF Receive, TypesInv, TypeOK
<1>9. /\ stage' = "mangle" /\ records' = {} /\ knownLinks' = linkIDs
      /\ todo' = TagsOf(DOMAIN message')
      /\ UNCHANGED <<linkIDs, flows, lastUpdate, toStore, objects>>
  BY <1>4 DEF Receive, storeVars
<1>10. TypeOK'
  BY <1>5, <1>6, <1>7, <1>8, <1>9 DEF TypesInv, TypeOK
<1> QED
  BY <1>5, <1>10 DEF TypesInv, TagsOf

LEMMA TypesMangle ==
  ASSUME TypesInv, NEW t \in Tags, MangleTag(t)
  PROVE  TypesInv'
<1> DEFINE in == Split(t)
<1>1. /\ todo' \subseteq todo
      /\ linkIDs' = linkIDs \cup Links(in)
      /\ DOMAIN flows' = DOMAIN flows \cup in
      /\ records' = records \cup OkRecords(t, in) \cup NoDataRecords(t, in)
                            \cup SkipRecords(t, in)
      /\ UNCHANGED <<stage, message, lastSeen, messages, lastUpdate, knownLinks,
                     toStore, objects>>
  BY DEF MangleTag, storeVars
<1>2. in \subseteq Flows
  BY DEF Split, TypesInv, TypeOK
<1>3. linkIDs \subseteq linkIDs' /\ linkIDs' \subseteq {LinkOf[f] : f \in Flows}
  BY <1>1, <1>2 DEF Links, TypesInv, TypeOK
<1>4. \A r \in records' : r.status \in {"OK", "NODATA", "SKIPDATA"}
  BY <1>1 DEF OkRecords, NoDataRecords, SkipRecords, TypesInv, TypeOK
<1> HIDE DEF in
<1>5. TypeOK'
  BY <1>1, <1>2, <1>3, <1>4 DEF TypesInv, TypeOK
<1> QED
  BY <1>1, <1>5 DEF TypesInv, TagsOf

LEMMA TypesStore ==
  ASSUME TypesInv, Store
  PROVE  TypesInv'
<1>1. DOMAIN toStore' \subseteq Tags \ ExcludedTags
  BY DEF Store, StoreFlows, TypesInv
<1>2. lastUpdate' \in [Flows -> 0..MaxUpdates]
  BY FlowAssumption DEF Store, TypesInv, TypeOK
<1>3. /\ stage' = "store"
      /\ UNCHANGED <<message, lastSeen, todo, linkIDs, flows, records, messages,
                     knownLinks, objects>>
  BY DEF Store, StoreFlows
<1>4. TypeOK'
  BY <1>1, <1>2, <1>3 DEF TypesInv, TypeOK
<1> QED
  BY <1>3, <1>4 DEF TypesInv, TagsOf

LEMMA TypesStoreOne ==
  ASSUME TypesInv, StoreOne
  PROVE  TypesInv'
<1>1. PICK t \in Tags : StoreTag(t)
  BY DEF StoreOne
<1>2. /\ t \in DOMAIN toStore
      /\ DOMAIN toStore' \subseteq DOMAIN toStore
      /\ DOMAIN objects' \subseteq DOMAIN objects \cup {t}
  BY <1>1 DEF StoreTag, Written, Restrict, ReturnError, Nothing
<1>3. UNCHANGED <<stage, message, lastSeen, todo, linkIDs, flows, records,
                  messages, lastUpdate, knownLinks>>
  BY DEF StoreOne
<1> QED
  BY <1>2, <1>3 DEF TypesInv, TypeOK, TagsOf

\* pipeline.go:249-262: with any tags excluded, none of them reaches the mangler
\* or the store, and the mangler's links and flows are those of flows it saw.
THEOREM PipelineTypeCorrect == Spec => []TypeOK
<1>1. Init => TypesInv
  BY FlowAssumption DEF Init, StoreInit, Nothing, TypesInv, TypeOK, TagsOf
<1>2. TypesInv /\ [Next]_vars => TypesInv'
  <2>1. ASSUME TypesInv, UNCHANGED vars PROVE TypesInv'
    BY <2>1 DEF vars, storeVars, TypesInv, TypeOK, TagsOf
  <2> QED
    BY <2>1, TypesReceive, TypesMangle, TypesStore, TypesStoreOne DEF Next
<1>3. TypesInv => TypeOK
  BY DEF TypesInv
<1> QED
  BY <1>1, <1>2, <1>3, PTL DEF Spec
=============================================================================
