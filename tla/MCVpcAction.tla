---------------------------- MODULE MCVpcAction ----------------------------
(* The accept/reject mangler with two or three flows, for TLC.             *)
EXTENDS VpcAction

\* One flow on each side of the firewall, and a second one on the first.
Sides == [u \in UUIDs |-> IF u = 2 THEN 2 ELSE 1]

\* The second side sees the first packet later.
LateStart == [u \in UUIDs |-> IF u = 2 THEN 1 ELSE 0]
=============================================================================
