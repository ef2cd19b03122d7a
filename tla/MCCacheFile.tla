----------------------------- MODULE MCCacheFile -----------------------------
(***************************************************************************)
(* Instances of CacheFile for TLC: two processes, two runs, two fetches.   *)
(***************************************************************************)
EXTENDS CacheFile

CONSTANTS r1, r2, p1, p2
=============================================================================
