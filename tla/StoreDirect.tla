---------------------------- MODULE StoreDirect ----------------------------
(***************************************************************************)
(* The storer that keeps nothing (core/store_direct.go): each tag of a     *)
(* message is encoded, compressed and written at once, as the object whose *)
(* key is the tag.  The tags come in an arbitrary order, and the first     *)
(* error ends the call.                                                    *)
(***************************************************************************)
EXTENDS Functions

VARIABLES
  toStore,      \* what StoreFlows was called with and has not written yet, by tag
  objects,      \* the writer's objects, by key
  storeError    \* the last call of StoreFlows returned an error

storeVars == <<toStore, objects, storeError>>

Nothing == [t \in {} |-> 0]

StoreInit ==
  /\ toStore = Nothing
  /\ objects = Nothing
  /\ storeError = FALSE

StoreFlows(in) ==
  /\ toStore' = in
  /\ storeError' = FALSE
  /\ UNCHANGED objects

\* The object of a tag replaces the one that had its key.
Written(t) ==
  [k \in DOMAIN objects \cup {t} |-> IF k = t THEN toStore[t] ELSE objects[k]]

\* Faulty variant: an error is logged and the loop goes on.
LoopAfterError(t) ==
  /\ toStore' = Restrict(toStore, DOMAIN toStore \ {t})
  /\ UNCHANGED storeError

\* The error is returned: the other tags are not visited.
ReturnError(t) ==
  /\ toStore' = Nothing
  /\ storeError' = TRUE

StoreTag(t) ==
  /\ t \in DOMAIN toStore
  /\ \/ /\ objects' = Written(t)
        /\ toStore' = Restrict(toStore, DOMAIN toStore \ {t})
        /\ UNCHANGED storeError
     \/ \* encode, compress or write failed
        /\ ReturnError(t)
        /\ UNCHANGED objects
     \/ \* the object was stored but the answer was lost
        /\ ReturnError(t)
        /\ objects' = Written(t)
=============================================================================
