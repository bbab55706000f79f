------------------------------ MODULE FlowLog ------------------------------
(***************************************************************************)
(* What a storer that writes objects promises of each tag's flows: they    *)
(* wait in the order of their arrival, an object takes the oldest of them, *)
(* an object that is stored stays as it is, and flows are given up only    *)
(* from the old end.                                                       *)
(***************************************************************************)
EXTENDS Integers, Sequences

CONSTANTS
  Tags,
  MaxObject     \* flows in one object

VARIABLES
  accepted,     \* number of flows of each tag that arrived
  pending,      \* flows of each tag that wait, oldest first
  stored        \* the objects of each tag: a set of sequences of flows

vars == <<accepted, pending, stored>>

Init ==
  /\ accepted = [t \in Tags |-> 0]
  /\ pending = [t \in Tags |-> <<>>]
  /\ stored = [t \in Tags |-> {}]

\* New flows of any tags are taken in, numbered in order.
Accept ==
  /\ accepted' \in [Tags -> Nat]
  /\ \A t \in Tags : accepted'[t] >= accepted[t]
  /\ pending' = [t \in Tags |->
                   pending[t] \o [i \in 1..(accepted'[t] - accepted[t]) |->
                                    accepted[t] + i]]
  /\ UNCHANGED stored

\* The n oldest flows of t become an object.
Store(t, n) ==
  /\ stored' = [stored EXCEPT ![t] = @ \cup {SubSeq(pending[t], 1, n)}]
  /\ pending' = [pending EXCEPT ![t] = SubSeq(@, n + 1, Len(@))]
  /\ UNCHANGED accepted

\* The oldest flows of any tags are given up, or all of them.
GiveUp ==
  /\ pending' = [t \in Tags |-> pending'[t]]
  /\ \A t \in Tags : \E n \in 0..Len(pending[t]) :
       pending'[t] = SubSeq(pending[t], n + 1, Len(pending[t]))
  /\ UNCHANGED <<accepted, stored>>

Next ==
  \/ Accept
  \/ \E t \in Tags : \E n \in 1..MaxObject :
       n <= Len(pending[t]) /\ Store(t, n)
  \/ GiveUp

Spec == Init /\ [][Next]_vars
=============================================================================
