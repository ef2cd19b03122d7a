------------------------------ MODULE MCApiGet ------------------------------
(***************************************************************************)
(* Instances of ApiGet for TLC.                                            *)
(***************************************************************************)
EXTENDS ApiGet

CONSTANTS t1, t2, u1
=============================================================================
