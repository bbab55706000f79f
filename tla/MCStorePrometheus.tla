------------------------- MODULE MCStorePrometheus -------------------------
(* The Prometheus storer with a few connections and interfaces, for TLC.   *)
EXTENDS StorePrometheus

Item(kind, key, label) == [kind |-> kind, key |-> key, label |-> label]

\* Two connections and one interface.
TwoConnections ==
  { Item("connection", 1, 1), Item("connection", 2, 2), Item("interface", 1, 1) }

\* One connection and one interface.
OneOfEach == { Item("connection", 1, 1), Item("interface", 1, 1) }
=============================================================================
