---------------------------- MODULE MCPeerPool ----------------------------
(* Instances of PeerPool for TLC.                                          *)
EXTENDS PeerPool

CONSTANTS t1, d1, d2, a1

\* Every task is for the same address.
SameAddr == [t \in Tasks |-> a1]
=============================================================================
