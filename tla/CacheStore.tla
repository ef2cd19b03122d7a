----------------------------- MODULE CacheStore -----------------------------
(***************************************************************************)
(* What workflows.parquet is meant to be for the commands that change it:  *)
(* a table of runs that each command updates in one step.  `sync' replaces *)
(* the runs of its request, `prune-runs' removes the runs of a date range, *)
(* `repair-cache' corrects the durations of every run.                     *)
(***************************************************************************)
EXTENDS Naturals

CONSTANTS
  Runs,
  MaxFetch      \* bound: syncs that ever fetch

VARIABLES
  content,    \* content[r]: the rows of run r, or Absent
  asked       \* commands given and not yet carried out

\* The sync that fetched the rows and whether their durations are right.
RunRows == [there: BOOLEAN, fetched: 0..MaxFetch, healed: BOOLEAN]
Absent == [there |-> FALSE, fetched |-> 0, healed |-> FALSE]
Legacy == [Absent EXCEPT !.there = TRUE]

Commands == [name: {"sync", "prune", "repair"}, runs: SUBSET Runs, fetch: 0..MaxFetch]

\* merge_parquet_cache: rows of fetch n for the runs S.
Merged(c, S, n) ==
  [r \in Runs |-> IF r \in S THEN [there |-> TRUE, fetched |-> n, healed |-> TRUE]
               ELSE c[r]]

\* prune_runs: everything but the runs S.
Pruned(c, S) == [r \in Runs |-> IF r \in S THEN Absent ELSE c[r]]

\* repair_job_durations.
Repaired(c) == [r \in Runs |-> [c[r] EXCEPT !.healed = @ \/ c[r].there]]

After(c, k) ==
  CASE k.name = "sync"  -> Merged(c, k.runs, k.fetch)
    [] k.name = "prune" -> Pruned(c, k.runs)
    [] OTHER            -> Repaired(c)

\* The cache may come from an older version, with durations still to repair.
Init == content \in [Runs -> {Absent, Legacy}] /\ asked = {}

Ask(k) == asked' = asked \cup {k} /\ UNCHANGED content

CarryOut(k) ==
  /\ k \in asked
  /\ content' = After(content, k)
  /\ asked' = asked \ {k}

\* A command that fails, dies or finds nothing to do.
GiveUp(k) == k \in asked /\ asked' = asked \ {k} /\ UNCHANGED content

Next == \E k \in Commands : Ask(k) \/ CarryOut(k) \/ GiveUp(k)

Spec == Init /\ [][Next]_<<content, asked>>
=============================================================================
