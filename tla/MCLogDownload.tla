--------------------------- MODULE MCLogDownload ---------------------------
(***************************************************************************)
(* Instances of LogDownload for TLC: two interchangeable processes and two *)
(* jobs, one of which matches the pattern.                                 *)
(***************************************************************************)
EXTENDS LogDownload, TLC

CONSTANTS j1, j2, p1, p2

Symmetry == Permutations(Processes)
=============================================================================
