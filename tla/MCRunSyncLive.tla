---------------------------- MODULE MCRunSyncLive ----------------------------
(***************************************************************************)
(* Instances of RunSyncLive for TLC: one workflow with one or two runs.    *)
(***************************************************************************)
EXTENDS RunSyncLive

CONSTANTS r1, r2, w1, w2

OneWorkflow == [r \in Runs |-> w1]
=============================================================================
