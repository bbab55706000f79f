-------------------------- MODULE MCStoreBuffered --------------------------
(* The buffered storer with one tag, for TLC.                              *)
EXTENDS StoreBuffered

CONSTANT a

OneTag == {a}
=============================================================================
