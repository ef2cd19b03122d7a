------------------------------ MODULE MCRunSync ------------------------------
(***************************************************************************)
(* Instances of RunSync for TLC: one run that is re-run once, with up to   *)
(* two jobs per attempt, and two workflows that are synced in turn.        *)
(***************************************************************************)
EXTENDS RunSync, TLC

CONSTANTS r1, w1, w2, j1, j2

OneWorkflow == [r \in Runs |-> w1]

\* Jobs differ by their number only.
JobSymmetry == Permutations(JobNums)
=============================================================================
