------------------------ MODULE MCLogStatusPipeline ------------------------
(* The log-status pipeline with a few flows, for TLC.                      *)
EXTENDS LogStatusPipeline

\* One flow of each kind: internal, egress on the same link, unparsable and
\* ingress on another.
MixedA == [f1 |-> "cluster", f2 |-> "cluster", f3 |-> "unparsable",
           f4 |-> "outside"]
MixedB == [f1 |-> "cluster", f2 |-> "outside", f3 |-> "cluster",
           f4 |-> "cluster"]
MixedLinks == [f1 |-> "link1", f2 |-> "link1", f3 |-> "link2", f4 |-> "link2"]

\* All flows outside of the cluster: a single tag.
OutsideEnds == [f \in DOMAIN MixedA |-> "outside"]
=============================================================================
