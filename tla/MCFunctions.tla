---------------------------- MODULE MCFunctions ----------------------------
(***************************************************************************)
(* PureFunctions for TLC.                                                  *)
(***************************************************************************)
EXTENDS PureFunctions, TLC

Spec == SpecPure

=============================================================================
