--------------------------- MODULE MCFileManager ---------------------------
(* Instances of FileManager for TLC.                                       *)
EXTENDS FileManager

\* One file, which a download left too short before CreateFiles makes it; and
\* three at their full size, with an empty one in the middle.
OneOrThree ==
    {[lengths |-> <<3>>, sizes |-> <<1>>],
     [lengths |-> <<2, 0, 1>>, sizes |-> <<2, 0, 1>>]}
=============================================================================
