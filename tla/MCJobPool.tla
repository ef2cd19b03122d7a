------------------------------ MODULE MCJobPool ------------------------------
(***************************************************************************)
(* Instances of JobPool for TLC: more runs than threads, both of them      *)
(* interchangeable.                                                        *)
(***************************************************************************)
EXTENDS JobPool, TLC

CONSTANTS i1, i2, i3, i4, t1, t2

Symmetry == Permutations(Items) \cup Permutations(Threads)
=============================================================================
