---------------------------- MODULE MCConnections ----------------------------
(* Connections for TLC: one node and its successive connections.          *)
EXTENDS Connections

MCOwner == [s \in Sockets |-> CHOOSE n \in Nodes : TRUE]
=============================================================================
