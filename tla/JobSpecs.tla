------------------------------ MODULE JobSpecs -------------------------------
(***************************************************************************)
(* The filter specs for jobs, with what their renderers draw: the jobs of  *)
(* a cache that job-durations and merge-group-failures show.  A row holds  *)
(* numbers: a status, a conclusion, an event, a duration.                  *)
(***************************************************************************)
EXTENDS QuerySpec

queued == 0
in_progress == 1
completed == 2
success == 0
failure == 1
merge_group == 0

Is(column, value) == [column |-> column, op |-> "eq", args |-> <<value>>]

\* Mutant: jobs that are not completed are taken, running or not.
DurationsOfUnfinished ==
  [any |-> <<[all |-> <<Is("job_status", completed), Is("job_conclusion", success)>>],
             [not |-> Is("job_status", completed)]>>]

\* specs/job_durations.yml, specs/merge_group_failures.yml
job_durations ==
  [any |-> <<[all |-> <<Is("job_status", completed), Is("job_conclusion", success)>>],
             Is("job_status", in_progress)>>]
merge_group_failures ==
  [all |-> <<Is("event", merge_group), Is("job_status", completed),
             Is("job_conclusion", failure)>>]

\* The queries of the renderers drop the rows they have no value to draw of.
DrawnInDurations(row) ==
  Keeps(job_durations, row) /\ row.job_active_duration_sec # Null
DrawnInFailures(row) ==
  Keeps(merge_group_failures, row) /\ row.job_started_at # Null
=============================================================================
