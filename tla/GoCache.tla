------------------------------ MODULE GoCache -------------------------------
(***************************************************************************)
(* The cache of github.com/pmylund/go-cache as the transformers use it: a  *)
(* map whose items expire.  Get does not return an item that has expired,  *)
(* whether it has been purged or not, so an item is gone when it expires.  *)
(* An item is kept with the time that is left to it.                       *)
(***************************************************************************)
EXTENDS Naturals, Functions

EmptyCache == [k \in {} |-> 0]

Set(c, k, v, lifetime) ==
  [x \in DOMAIN c \cup {k} |->
     IF x = k THEN [value |-> v, left |-> lifetime] ELSE c[x]]

Delete(c, k) == Restrict(c, DOMAIN c \ {k})

\* One unit of time passes.
Aged(c) ==
  [k \in {x \in DOMAIN c : c[x].left > 0} |-> [c[k] EXCEPT !.left = @ - 1]]

\* A cache with keys in K and values in V.
IsCache(c, K, V, lifetime) ==
  /\ DOMAIN c \subseteq K
  /\ c \in [DOMAIN c -> [value : V, left : 0..lifetime]]
=============================================================================
