-------------------------- MODULE MCRunnerSnapshots --------------------------
(***************************************************************************)
(* Instances of RunnerSnapshots for TLC: two processes.                    *)
(***************************************************************************)
EXTENDS RunnerSnapshots

CONSTANTS p1, p2
=============================================================================
