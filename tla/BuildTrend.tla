----------------------------- MODULE BuildTrend -----------------------------
(***************************************************************************)
(* The figures `cimon build-metrics' draws from the builds of a log        *)
(* (workflows/build_metrics.py): the rows a build becomes, one per target, *)
(* and the points of the two trend charts, which are one per build again.  *)
(***************************************************************************)
EXTENDS Naturals, Sequences, FiniteSets, SequencesExt

(* An entry of the input is a job with its runner, or 0 where that is not  *)
(* known; builds[job] are the builds of its log, in order, which start at  *)
(* different times.                                                        *)

\* One row per target.  A build's figures are known by its place in the log.
flatten_metric_rows(entry, builds) ==
  UNION {{[job_run_url |-> entry.job, runner_name |-> entry.runner, start_ts |-> k,
           target |-> t, config |-> builds[k].config,
           rates |-> IF builds[k].info_missing THEN 0 ELSE k]
          : t \in ToSet(builds[k].targets)} : k \in DOMAIN builds}

rows(entries, builds) ==
  UNION {flatten_metric_rows(entries[e], builds[entries[e].job]) : e \in DOMAIN entries}

\* Mutant: the runs of a configuration in one job are taken for one build.
PointsByConfig(R) ==
  LET Key(r) == <<r.job_run_url, r.config>> IN
  {[job |-> key[1], start |-> CHOOSE s \in {r.start_ts : r \in {q \in R : Key(q) = key}} : TRUE,
    targets |-> {r.target : r \in {q \in R : Key(q) = key}},
    rates |-> {r.rates : r \in {q \in R : Key(q) = key}}] : key \in {Key(r) : r \in R}}

\* The points of render_hit_rate_trend.
TrendPoints(R) ==
  LET Key(r) == <<r.job_run_url, r.start_ts, r.config>> IN
  {[job |-> key[1], start |-> key[2],
    targets |-> {r.target : r \in {q \in R : Key(q) = key}},
    rates |-> {r.rates : r \in {q \in R : Key(q) = key}}] : key \in {Key(r) : r \in R}}

\* Those of render_runner_cache_trend, of one runner.
RunnerPoints(R, runner) == TrendPoints({r \in R : r.runner_name = runner})

-----------------------------------------------------------------------------
\* A chart has one point for every build of the jobs it draws that has
\* targets, however many these are and however often the input lists a job,
\* and the point has all its targets and only its own figures.
OnePointPerInvocation(entries, builds, runners) ==
  LET Points(jobs) ==
        UNION {{[job |-> j, start |-> k, targets |-> ToSet(builds[j][k].targets),
                 rates |-> {IF builds[j][k].info_missing THEN 0 ELSE k}]
                : k \in {n \in DOMAIN builds[j] : builds[j][n].targets # <<>>}} : j \in jobs}
      JobsOn(runner) == {entries[e].job : e \in {x \in DOMAIN entries :
                                                    entries[x].runner = runner}}
      all == rows(entries, builds)
  IN /\ TrendPoints(all) = Points({entries[e].job : e \in DOMAIN entries})
     /\ \A runner \in runners : RunnerPoints(all, runner) = Points(JobsOn(runner))
=============================================================================
