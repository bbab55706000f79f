------------------------ MODULE MCStoreBufferedTimed -----------------------
(* The timed storer with two tags, for TLC.                                *)
EXTENDS StoreBufferedTimed

CONSTANTS a, b

TwoTags == {a, b}
=============================================================================
