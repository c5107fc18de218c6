--------------------------- MODULE MCPeerSession ---------------------------
(* An instance of PeerSession for TLC.                                     *)
EXTENDS PeerSession

\* With two pieces of 2 bytes the last one is short, or full.
ShortOrFull == {3, 4}
=============================================================================
