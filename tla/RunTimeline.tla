----------------------------- MODULE RunTimeline -----------------------------
(***************************************************************************)
(* The figures of one workflow run in                                      *)
(* visualization/renderers/run_timeline.py: the times of its jobs, the     *)
(* time covered by at least one of them and the heuristic critical path.   *)
(* A table of jobs is a sequence, in the order of the data frame; time is  *)
(* counted in minutes.                                                     *)
(***************************************************************************)
EXTENDS Integers, Sequences, FiniteSets, FiniteSetsExt, SequencesExt

CONSTANTS
  Snapshot,    \* bound: the last time, when the cache was updated
  Gap,         \* -p gap=
  MinLength    \* MIN_CRITICAL_JOB_MINUTES

ASSUME RunTimelineAssumption ==
  Snapshot \in Nat /\ Gap \in Nat /\ MinLength \in Nat \ {0}

Times == 0..Snapshot
NaT == -1

-----------------------------------------------------------------------------
(* prepare_jobs                                                            *)

\* A job as GitHub reports it: completed after it starts, but for jobs that
\* never ran, which may be completed slightly before their start
\* (_duration_seconds of synch.py).  A job that is still queued reports its
\* creation as its start; of the others the creation may even be the later one,
\* against which the code clips queue_min.
Reported ==
  {r \in [status: {"queued", "in_progress", "completed"}, created: Times \cup {NaT},
          started: Times, completed: Times \cup {NaT}] :
     /\ r.status = "queued" => r.created \in {r.started, NaT}
     /\ IF r.status = "completed" THEN r.completed # NaT /\ r.completed >= r.started - 1
        ELSE r.completed = NaT}

Prepared(r) ==
  [eligible |-> IF r.created = NaT THEN r.started ELSE r.created,
   start |-> IF r.status = "queued" THEN Snapshot ELSE r.started,
   end |-> IF r.completed = NaT THEN Snapshot ELSE r.completed]

\* queue_min and dur_min, clipped at 0.
Queue(job) == Max({job.start - job.eligible, 0})
Duration(job) == Max({job.end - job.start, 0})

-----------------------------------------------------------------------------
(* union_minutes                                                           *)

Before(a, b) == a[1] < b[1] \/ (a[1] = b[1] /\ a[2] < b[2])

\* Mutant: the end of the last interval replaces a later one.
AddSpanForgetting(sum, span) ==
  [total |-> sum.total + (IF sum.end = NaT \/ span[1] > sum.end THEN span[2] - span[1]
                          ELSE Max({span[2] - sum.end, 0})),
   end |-> span[2]]

\* One turn of the loop; sum.end is current_end.
AddSpan(sum, span) ==
  IF sum.end = NaT \/ span[1] > sum.end
  THEN [total |-> sum.total + span[2] - span[1], end |-> span[2]]
  ELSE [total |-> sum.total + Max({span[2] - sum.end, 0}), end |-> Max({span[2], sum.end})]

\* The spans in their order: the k-th has k - 1 before it.
sorted(spans) ==
  [k \in 1..Cardinality(spans) |->
     CHOOSE s \in spans : Cardinality({x \in spans : Before(x, s)}) = k - 1]

union_minutes(spans) ==
  FoldLeft(AddSpan, [total |-> 0, end |-> NaT], sorted(spans)).total

Running(jobs) == {<<jobs[j].start, jobs[j].end>> : j \in DOMAIN jobs}
Waiting(jobs) == {<<jobs[j].eligible, jobs[j].start>> : j \in DOMAIN jobs}

\* The minutes of the snapshot's time that lie in one of the intervals.
CoveredMinutes(spans) == {t \in Times : \E s \in spans : s[1] <= t /\ t < s[2]}

-----------------------------------------------------------------------------
(* render, stage_contribution                                              *)

\* Mutant: a later attempt is measured from the start of its first job.
WallFromFirstStart(jobs, attempt, created) ==
  Max({jobs[j].end : j \in DOMAIN jobs})
    - (IF attempt = 1 THEN created ELSE Min({jobs[j].start : j \in DOMAIN jobs}))

\* A later attempt of a run keeps the time the run was created at.
wall_minutes(jobs, attempt, created) ==
  Max({jobs[j].end : j \in DOMAIN jobs})
    - (IF attempt = 1 THEN created ELSE Min({jobs[j].eligible : j \in DOMAIN jobs}))

\* The minutes of a stage, the jobs j \in S, and of the run, whose quotients
\* are wall_share_pct and queue_share_pct.
stage_contribution(jobs, S, wall) ==
  LET group == [j \in S |-> jobs[j]] IN
  [wall |-> union_minutes(Running(group)), queue_wall |-> union_minutes(Waiting(group)),
   of |-> wall]

-----------------------------------------------------------------------------
(* critical_path                                                           *)

\* Mutant: a predecessor only has to have ended in time.
EndedBefore(jobs, j) ==
  {k \in DOMAIN jobs : /\ jobs[k].end <= jobs[j].eligible + Gap
                       /\ Duration(jobs[k]) >= MinLength}

\* Mutant: a predecessor only has to have started before.
StartedBefore(jobs, j) ==
  {k \in DOMAIN jobs : /\ jobs[k].start < jobs[j].eligible
                       /\ Duration(jobs[k]) >= MinLength}

\* The jobs the path could step back to from job j.
Candidates(jobs, j) ==
  {k \in DOMAIN jobs : /\ jobs[k].end <= jobs[j].eligible + Gap
                       /\ jobs[k].start < jobs[j].eligible
                       /\ Duration(jobs[k]) >= MinLength}

\* idxmax: the first of the jobs that end last.
LastToEnd(jobs, K) ==
  CHOOSE k \in K : \A m \in K : \/ jobs[k].end > jobs[m].end
                                \/ jobs[k].end = jobs[m].end /\ k <= m

\* The path after n turns of the loop, the last job first.
PathAfter(jobs, turns) ==
  LET path[n \in 1..turns] ==
        IF n = 1 THEN <<LastToEnd(jobs, DOMAIN jobs)>>
        ELSE LET K == Candidates(jobs, Last(path[n - 1])) IN
             IF K = {} THEN path[n - 1] ELSE Append(path[n - 1], LastToEnd(jobs, K))
  IN path[turns]

PathLength(jobs, path) ==
  FoldLeft(LAMBDA sum, j : sum + Queue(jobs[j]) + Duration(jobs[j]), 0, path)
=============================================================================
