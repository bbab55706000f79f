----------------------- MODULE MCSecAdvisorExporter ------------------------
(* A security advisor exporter with three flows, for TLC.                  *)
EXTENDS SecAdvisorExporter

\* The same address at two capture points, a flow to a node and one to nothing
\* that parses, and a flow without a network layer.
MCA == [f1 |-> "pod", f2 |-> "pod", f3 |-> NoNetwork]
MCB == [f1 |-> "node", f2 |-> NoAddress, f3 |-> NoNetwork]
MCTID == [f1 |-> 1, f2 |-> 2, f3 |-> 1]

\* One flow ends in every way.
MCFinishes == [f1 |-> {"NOT_FINISHED"}, f2 |-> {"NOT_FINISHED"},
               f3 |-> FinishTypes]

Pod == [name |-> "p1", found |-> {"runc", "vm"}, named |-> TRUE, pod |-> TRUE]
Container == [name |-> "c1", found |-> {"docker"}, named |-> TRUE, pod |-> FALSE]
Host == [name |-> "h1", found |-> {"vm"}, named |-> TRUE, pod |-> FALSE]
MCPeers == {Pod, Container, Host}

MCOwner ==
  [place \in Places |->
     CASE place[1] = "node" -> Host
       [] place = <<"pod", 1>> -> Pod
       [] OTHER -> Container]

\* A node with an external address between internal ones, and one without.
MCNodes ==
  [n1 |-> <<[type |-> "InternalIP", ip |-> "pod"],
            [type |-> "ExternalIP", ip |-> "node"],
            [type |-> "InternalIP", ip |-> "pod"]>>,
   n2 |-> <<[type |-> "Hostname", ip |-> "node"],
            [type |-> "InternalIP", ip |-> "pod"]>>]
=============================================================================
