---------------------------- MODULE MCCyclicSync ----------------------------
(***************************************************************************)
(* Instances of CyclicSync for TLC: two days of two workflows, each with   *)
(* more requests than one rate-limit window allows.                        *)
(***************************************************************************)
EXTENDS CyclicSync
=============================================================================
