----------------------------- MODULE MCTracker -----------------------------
(* Instances of Tracker for TLC.                                           *)
EXTENDS Tracker

CONSTANTS c1, c2, a1, a2

OneUdp     == <<"udp">>
AllSchemes == <<"other", "udp", "http">>

\* A tracker that knows nobody; one that repeats itself; one whose list ends
\* in the middle of an entry.
Lists == {<<>>, <<a1, a1>>, <<a2, a1, Partial>>}
=============================================================================
