------------------------------- MODULE GitHub -------------------------------
(***************************************************************************)
(* The GitHub Actions server as `cimon sync` sees it.  It is not part of   *)
(* the repository: its behaviour is what workflows/synch.py relies on and  *)
(* what its comments say about it.                                         *)
(*                                                                         *)
(* A run goes queued -> in_progress -> completed (or is cancelled while    *)
(* still queued), can be re-run as a new attempt once completed, gets jobs *)
(* while it is active (one is created when it becomes eligible to run),    *)
(* can lose its pull-request link (PR merged, branch deleted) and can be   *)
(* deleted altogether.  A job is named by its attempt and a number; it is  *)
(* done once it has a completed_at.                                        *)
(***************************************************************************)
EXTENDS Naturals, FiniteSets

CONSTANTS
  Runs,          \* the workflow runs that may ever exist
  Workflows,     \* the workflows they belong to
  Owner,         \* Owner[r]: the workflow of run r
  MaxAttempt,    \* bound: attempts of a run
  JobNums,       \* bound: numbers of the jobs of one attempt
  Deletes        \* TRUE: runs can be deleted

ASSUME GitHubAssumption ==
  /\ Owner \in [Runs -> Workflows]
  /\ MaxAttempt \in Nat \ {0}
  /\ Deletes \in BOOLEAN

VARIABLE gh      \* gh[r]: what GitHub holds about run r

Attempts == 1..MaxAttempt
JobIds == Attempts \X JobNums
AttemptOf(job) == job[1]

\* synch.ACTIVE_RUN_STATUSES, in the order scan_active_runs asks for them.
ACTIVE_RUN_STATUSES == <<"in_progress", "queued">>
Active == {"in_progress", "queued"}
RunStatus == Active \cup {"completed"}
GhStatus == RunStatus \cup {"absent", "deleted"}

GhTypeOK ==
  gh \in [Runs -> [status: GhStatus, attempt: Attempts,
                   jobs: SUBSET JobIds, done: SUBSET JobIds, linked: BOOLEAN,
                   late: BOOLEAN]]

GhInit ==
  gh = [r \in Runs |-> [status |-> "absent", attempt |-> 1,
                        jobs |-> {}, done |-> {}, linked |-> FALSE,
                        late |-> FALSE]]

\* Status of attempt k of run r, as the run-attempt endpoint reports it: an
\* attempt that was followed by another one is over.
AttemptStatus(r, k) ==
  IF k < gh[r].attempt THEN "completed" ELSE gh[r].status

\* Attempt k of run r has had this status: it exists, and it is over if it is
\* called completed.
Happened(r, k, status) ==
  /\ k <= gh[r].attempt
  /\ status = "completed" => AttemptStatus(r, k) \in {"completed", "deleted"}

GhCreateRun(r) ==
  /\ gh[r].status = "absent"
  /\ \E l \in BOOLEAN :
       gh' = [gh EXCEPT ![r] = [@ EXCEPT !.status = "queued", !.linked = l]]

GhStartRun(r) ==
  /\ gh[r].status = "queued"
  /\ gh' = [gh EXCEPT ![r].status = "in_progress"]

\* The run's current attempt has jobs, and all of them are done.
AllDone(r) ==
  LET own == {job \in gh[r].jobs : AttemptOf(job) = gh[r].attempt}
  IN own # {} /\ own \subseteq gh[r].done

\* late is history, which the program never sees: the attempt was given a job
\* when all its others were done.
GhCreateJob(r) ==
  /\ gh[r].status \in Active
  /\ \E n \in JobNums :
       /\ <<gh[r].attempt, n>> \notin gh[r].jobs
       /\ gh' = [gh EXCEPT ![r] =
                   [@ EXCEPT !.jobs = gh[r].jobs \cup {<<gh[r].attempt, n>>},
                             !.late = gh[r].late \/ AllDone(r)]]

GhFinishJob(r) ==
  /\ gh[r].status = "in_progress"
  /\ \E job \in gh[r].jobs : gh' = [gh EXCEPT ![r].done = @ \cup {job}]

\* Completion ends every job; cancelling a queued run is the same step.
GhCompleteRun(r) ==
  /\ gh[r].status \in Active
  /\ gh' = [gh EXCEPT ![r] = [@ EXCEPT !.status = "completed", !.done = gh[r].jobs]]

GhRerun(r) ==
  /\ gh[r].status = "completed"
  /\ gh[r].attempt < MaxAttempt
  /\ gh' = [gh EXCEPT ![r] = [@ EXCEPT !.status = "queued", !.late = FALSE,
                                       !.attempt = gh[r].attempt + 1]]

\* The pull request is merged or closed: the run's "pull_requests" turns empty.
GhLoseLink(r) ==
  /\ gh[r].linked
  /\ gh' = [gh EXCEPT ![r].linked = FALSE]

GhDelete(r) ==
  /\ Deletes
  /\ gh[r].status \in RunStatus
  /\ gh' = [gh EXCEPT ![r].status = "deleted"]

GhNext ==
  \E r \in Runs :
    \/ GhCreateRun(r) \/ GhStartRun(r) \/ GhCreateJob(r) \/ GhFinishJob(r)
    \/ GhCompleteRun(r) \/ GhRerun(r) \/ GhLoseLink(r) \/ GhDelete(r)
=============================================================================
