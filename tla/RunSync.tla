------------------------------ MODULE RunSync ------------------------------
(***************************************************************************)
(* `cimon sync` run over and over against one cache: main() of             *)
(* workflows/synch.py, with the row conversions it uses.  Every call to    *)
(* the GitHub API is a step of its own, so the runs can change between any *)
(* two of them; each can meet the quota limit, and the process can fail or *)
(* be killed before its last step, the merge into workflows.parquet.       *)
(*                                                                         *)
(* A listing is paged one run at a time (100 per page in the code), and    *)
(* `window' is the set of runs it reaches: for the date range it stands    *)
(* for --from-date and --to-date, and for each listing for --max-pages,    *)
(* GitHub's 1000-result cap and the runs that slip from page to page.      *)
(***************************************************************************)
EXTENDS GitHub

CONSTANTS
  Workers,     \* --workers
  QuotaHits,   \* TRUE: the quota limit can be reached
  WholeScans,  \* TRUE: the scan of a status fits on its pages and misses no run
  Nil          \* no job, no workflow

ASSUME RunSyncAssumption ==
  /\ Workers \in Nat \ {0}
  /\ QuotaHits \in BOOLEAN
  /\ WholeScans \in BOOLEAN
  /\ Nil \notin JobIds \cup Workflows

VARIABLES
  store,    \* store[r]: the rows of run r in workflows.parquet
  pc,       \* what the sync is doing; a scan is named by the status it lists
  wf,       \* workflow being synced
  window,   \* runs the listing under way reaches
  resp,     \* resp[r]: the run as the API returned it  (`runs')
  entry,    \* entry[r]: the run's RunEntry             (`cached_runs')
  todo,     \* stale runs to fetch, then the submitted futures not yet started
  busy,     \* runs whose jobs a pool thread is fetching
  again,    \* runs listed twice that are to be submitted twice
  quota     \* `quota_exceeded is not None'

local == <<pc, wf, window, resp, entry, todo, busy, again, quota>>
vars == <<gh, store, local>>

Phases == {"idle", "runs", "in_progress", "queued", "reconcile", "update",
           "jobs", "attempts", "save"}

Row == [att: Attempts, status: RunStatus, job: JobIds \cup {Nil}, done: BOOLEAN]
Stored == [rows: SUBSET Row, wf: Workflows \cup {Nil}, linked: BOOLEAN,
           last: 0..MaxAttempt]
Snapshot == [status: RunStatus \cup {"absent"}, attempt: Attempts, linked: BOOLEAN]
Entry == [present: BOOLEAN, attempt: Attempts, status: RunStatus, linked: BOOLEAN,
          jobs: SUBSET JobIds, done: SUBSET JobIds, last: 0..MaxAttempt,
          atts: [Attempts -> RunStatus \cup {"absent"}]]

NotStored == [rows |-> {}, wf |-> Nil, linked |-> FALSE, last |-> 0]
NoSnapshot == [status |-> "absent", attempt |-> 1, linked |-> FALSE]
NoEntry == [present |-> FALSE, attempt |-> 1, status |-> "queued", linked |-> FALSE,
            jobs |-> {}, done |-> {}, last |-> 0,
            atts |-> [k \in Attempts |-> "absent"]]

-----------------------------------------------------------------------------
(* What the cache says about a run: cached_data_from_parquet.              *)

Known(s) == s.rows # {}
CachedJobs(s) == {row.job : row \in s.rows} \ {Nil}
CachedDone(s) == {row.job : row \in {x \in s.rows : x.done}}
CachedAttempts(s) == {row.att : row \in s.rows}

\* Rows of one attempt carry one status, so any of them will do.
CachedStatus(s, k) ==
  IF k \in CachedAttempts(s)
  THEN (CHOOSE row \in s.rows : row.att = k).status ELSE "absent"

cached_attempt_has_job_snapshot(s, k) ==
  /\ k \in CachedAttempts(s)
  /\ \/ CachedJobs(s) = {}
     \/ \E job \in CachedJobs(s) : AttemptOf(job) = k

\* Mutant: the cached jobs need not be terminal.
KeepsAnyCachedJobs(s, snap) ==
  Known(s) /\ snap.status = "completed" /\ cached_attempt_has_job_snapshot(s, snap.attempt)

\* The test that lets the update loop keep the cached jobs of a run.  Its third
\* part, jobs_have_created_at, is true of every row this version writes (the
\* store starts empty and GitHub gives every job a created_at): it is about rows
\* of older versions, which the model does not have.
KeepsCachedJobs(s, snap) ==
  /\ Known(s)
  /\ snap.status = "completed"
  /\ CachedJobs(s) = CachedDone(s)
  /\ cached_attempt_has_job_snapshot(s, snap.attempt)

\* workflow_status of the run's last row; s.last is that row's job's attempt.
LastStatus(s) ==
  (CHOOSE row \in s.rows : row.job = Nil \/ AttemptOf(row.job) = s.last).status

\* Mutants: stale runs of every workflow; only the queued ones.
StaleRunsOfAllWorkflows(known) ==
  {r \in Runs \ known : Known(store[r]) /\ LastStatus(store[r]) \in Active}
StaleQueuedRuns(known) ==
  {r \in Runs \ known : Known(store[r]) /\ store[r].wf = wf
                        /\ LastStatus(store[r]) = "queued"}

\* Called with the rows of the synced workflow only.
find_stale_active_run_ids(known) ==
  {r \in Runs \ known : Known(store[r]) /\ store[r].wf = wf
                        /\ LastStatus(store[r]) \in Active}

-----------------------------------------------------------------------------
(* Run entries and their rows.                                             *)

create_run_cache_entry(snap) ==
  [NoEntry EXCEPT !.present = TRUE, !.attempt = snap.attempt,
                  !.status = snap.status, !.linked = snap.linked,
                  !.atts = [@ EXCEPT ![snap.attempt] = snap.status]]

\* The attempts of the cache are carried over, the current one is fresh.
WithCachedAttempts(e, s) ==
  [e EXCEPT !.atts = [k \in Attempts |-> IF k = e.attempt THEN e.atts[k]
                                         ELSE CachedStatus(s, k)]]

update_run_cache_entry(e, snap) ==
  [e EXCEPT !.attempt = snap.attempt, !.status = snap.status,
            !.linked = e.linked \/ snap.linked]

\* Mutant: a run that needs no refetch does not get its cached jobs back.
EntryWithoutCachedJobs(s, snap) ==
  WithCachedAttempts(create_run_cache_entry(snap), s)

\* What the update loop makes of one returned run.
UpdatedEntry(s, snap) ==
  LET fresh == WithCachedAttempts(create_run_cache_entry(snap), s)
      e == IF Known(s) THEN update_run_cache_entry(fresh, snap) ELSE fresh
  IN IF KeepsCachedJobs(s, snap)
     THEN [e EXCEPT !.jobs = CachedJobs(s), !.done = CachedDone(s), !.last = s.last]
     ELSE e

\* Mutant: every row takes the status of the run.
RowWithRunStatus(e, job) ==
  [att |-> AttemptOf(job), status |-> e.status, job |-> job, done |-> job \in e.done]

RowOf(e, job) ==
  LET k == AttemptOf(job)
      known == e.atts[k] # "absent"
  IN [att |-> IF known THEN k ELSE e.attempt,
      status |-> IF known THEN e.atts[k] ELSE e.status,
      job |-> job, done |-> job \in e.done]

cache_to_parquet_rows(e) ==
  IF e.jobs = {}
  THEN {[att |-> e.attempt, status |-> e.status, job |-> Nil, done |-> FALSE]}
  ELSE {RowOf(e, job) : job \in e.jobs}

MissingAttempts(e) == {AttemptOf(job) : job \in e.jobs}
                      \ {k \in Attempts : e.atts[k] # "absent"}

-----------------------------------------------------------------------------
(* One sync.                                                               *)

Returned(r) == resp[r].status # "absent"
Exists(r) == gh[r].status \in RunStatus
SnapshotOf(r) ==
  [status |-> gh[r].status, attempt |-> gh[r].attempt, linked |-> gh[r].linked]

\* Runs the current listing has still to return.
Unlisted ==
  {r \in window : /\ Owner[r] = wf
                  /\ ~Returned(r)
                  /\ \/ pc = "runs" /\ Exists(r)
                     \/ pc \in Active /\ gh[r].status = pc}

Idle(p) ==
  /\ pc' = p /\ wf' = Nil /\ window' = {} /\ todo' = {} /\ busy' = {}
  /\ again' = {} /\ quota' = FALSE
  /\ resp' = [r \in Runs |-> NoSnapshot]
  /\ entry' = [r \in Runs |-> NoEntry]

\* Argument parsing, the preflight quota check, the workflow lookup and the
\* loading of the cache; a sync they stop changes nothing.
StartSync(w, W) ==
  /\ pc = "idle"
  /\ pc' = "runs" /\ wf' = w /\ window' = W
  /\ UNCHANGED <<gh, store, resp, entry, todo, busy, again, quota>>

\* iter_runs and scan_active_runs: the next run of the listing.
ListRun(r) ==
  /\ r \in Unlisted
  /\ resp' = [resp EXCEPT ![r] = SnapshotOf(r)]
  /\ UNCHANGED <<gh, store, pc, wf, window, entry, todo, busy, again, quota>>

\* A page shift puts a run into the date-range listing once more: both copies go
\* into `runs', the update loop lets the later one overwrite the entry and
\* submits the run for each copy whose cached jobs are not kept (`store' does
\* not change before).  A third copy would change nothing more.
ListRunAgain(r) ==
  /\ pc = "runs" /\ r \in window \ again /\ Returned(r) /\ Exists(r)
  /\ again' = IF KeepsCachedJobs(store[r], resp[r]) THEN again ELSE again \cup {r}
  /\ resp' = [resp EXCEPT ![r] = SnapshotOf(r)]
  /\ UNCHANGED <<gh, store, pc, wf, window, entry, todo, busy, quota>>

NextListing == CASE pc = "runs" -> ACTIVE_RUN_STATUSES[1]
                 [] pc = ACTIVE_RUN_STATUSES[1] -> ACTIVE_RUN_STATUSES[2]
                 [] OTHER -> "reconcile"

\* Mutant: the active-run scan keeps to the date range.
EndListingInDateRange ==
  /\ pc \in {"runs"} \cup Active
  /\ Unlisted = {}
  /\ pc' = NextListing
  /\ window' = IF pc = ACTIVE_RUN_STATUSES[2] THEN {} ELSE window
  /\ todo' = IF pc = ACTIVE_RUN_STATUSES[2]
             THEN find_stale_active_run_ids({r \in Runs : Returned(r)}) ELSE {}
  /\ UNCHANGED <<gh, store, wf, resp, entry, busy, again, quota>>

\* A listing is exhausted; after the last one the stale runs are known.  A scan
\* has no date range, but the limits on pages are the same.
EndListing ==
  /\ pc \in {"runs"} \cup Active
  /\ Unlisted = {}
  /\ pc' = NextListing
  /\ window' \in IF pc = ACTIVE_RUN_STATUSES[2] THEN {{}}
                 ELSE IF WholeScans THEN {Runs} ELSE SUBSET Runs
  /\ todo' = IF pc = ACTIVE_RUN_STATUSES[2]
             THEN find_stale_active_run_ids({r \in Runs : Returned(r)}) ELSE {}
  /\ UNCHANGED <<gh, store, wf, resp, entry, busy, again, quota>>

\* Mutant: the answer for a deleted run is taken for a run.
FetchAnyStaleRun(r) ==
  /\ pc = "reconcile" /\ r \in todo
  /\ resp' = [resp EXCEPT ![r] = SnapshotOf(r)]
  /\ todo' = todo \ {r}
  /\ UNCHANGED <<gh, store, pc, wf, window, entry, busy, again, quota>>

\* The reconciliation loop: fetch_run.
FetchStaleRun(r) ==
  /\ pc = "reconcile" /\ r \in todo /\ Exists(r)
  /\ resp' = [resp EXCEPT ![r] = SnapshotOf(r)]
  /\ todo' = todo \ {r}
  /\ UNCHANGED <<gh, store, pc, wf, window, entry, busy, again, quota>>

EndReconcile ==
  /\ pc = "reconcile" /\ todo = {}
  /\ pc' = "update"
  /\ UNCHANGED <<gh, store, wf, window, resp, entry, todo, busy, again, quota>>

\* A listing or a fetch_run meets the limit: what was returned is kept and the
\* later stages that use the API are skipped.
QuotaWhileListing ==
  /\ QuotaHits
  /\ pc \in {"runs"} \cup Active \/ (pc = "reconcile" /\ todo # {})
  /\ quota' = TRUE /\ pc' = "update" /\ todo' = {} /\ window' = {}
  /\ UNCHANGED <<gh, store, wf, resp, entry, busy, again>>

\* The update loop; `runs' is not read again after it.
UpdateRuns ==
  /\ pc = "update"
  /\ entry' = [r \in Runs |-> IF Returned(r) THEN UpdatedEntry(store[r], resp[r])
                              ELSE NoEntry]
  /\ resp' = [r \in Runs |-> NoSnapshot]
  /\ LET refetched == {r \in Runs : Returned(r) /\ ~KeepsCachedJobs(store[r], resp[r])}
     IN /\ todo' = IF quota THEN {} ELSE refetched \cup again
        /\ again' = IF quota THEN {} ELSE refetched \cap again
  /\ pc' = IF quota THEN "save" ELSE "jobs"
  /\ UNCHANGED <<gh, store, wf, window, busy, quota>>

\* A pool thread takes a submitted future.
StartFetchJobs(r) ==
  /\ pc = "jobs" /\ ~quota
  /\ r \in todo /\ Cardinality(busy) < Workers
  /\ todo' = todo \ {r} /\ busy' = busy \cup {r}
  /\ UNCHANGED <<gh, store, pc, wf, window, resp, entry, again, quota>>

\* Its result replaces the job list, in the order the API chose.  Of a run that
\* was submitted twice, the second list is stored later, from a later request;
\* or it was stored before this one, which leaves nothing of it.
FetchJobs(r) ==
  /\ pc = "jobs" /\ r \in busy /\ Exists(r)
  /\ \E last \in IF gh[r].jobs = {} THEN {0} ELSE {AttemptOf(job) : job \in gh[r].jobs} :
       entry' = [entry EXCEPT ![r] = [@ EXCEPT !.jobs = gh[r].jobs,
                                               !.done = gh[r].done,
                                               !.last = last]]
  /\ busy' = busy \ {r} /\ again' = again \ {r}
  /\ todo' \in {todo, todo \cup ({r} \cap again)}
  /\ UNCHANGED <<gh, store, pc, wf, window, resp, quota>>

\* The first thread to fail makes main cancel the futures still queued (the
\* others of `todo' were started meanwhile and failed on the same flag).
QuotaWhileFetchingJobs(r) ==
  /\ QuotaHits
  /\ pc = "jobs" /\ r \in busy
  /\ busy' = busy \ {r}
  /\ quota' = TRUE
  /\ again' = {}
  /\ IF quota THEN UNCHANGED todo
     ELSE \E cancelled \in SUBSET (todo \cup again) : todo' = cancelled
  /\ UNCHANGED <<gh, store, pc, wf, window, resp, entry>>

\* as_completed has yielded every future.  It never yields a cancelled one
\* (see JobPool), so a sync with cancelled futures stays here.
EndJobs ==
  /\ pc = "jobs" /\ todo = {} /\ busy = {}
  /\ pc' = IF quota THEN "save" ELSE "attempts"
  /\ UNCHANGED <<gh, store, wf, window, resp, entry, todo, busy, again, quota>>

\* Mutant: an attempt is given the status of the run.
FetchAttemptOfRun(r) ==
  /\ pc = "attempts"
  /\ \E k \in MissingAttempts(entry[r]) :
       /\ \A m \in MissingAttempts(entry[r]) : k <= m
       /\ entry' = [entry EXCEPT ![r].atts[k] = entry[r].status]
  /\ UNCHANGED <<gh, store, pc, wf, window, resp, todo, busy, again, quota>>

\* fetch_run_attempt_info of the lowest attempt a run's entry does not know.
FetchAttempt(r) ==
  /\ pc = "attempts"
  /\ \E k \in MissingAttempts(entry[r]) :
       /\ \A m \in MissingAttempts(entry[r]) : k <= m
       /\ AttemptStatus(r, k) \in RunStatus
       /\ entry' = [entry EXCEPT ![r].atts[k] = AttemptStatus(r, k)]
  /\ UNCHANGED <<gh, store, pc, wf, window, resp, todo, busy, again, quota>>

EndAttempts ==
  /\ pc = "attempts"
  /\ \A r \in Runs : MissingAttempts(entry[r]) = {}
  /\ pc' = "save"
  /\ UNCHANGED <<gh, store, wf, window, resp, entry, todo, busy, again, quota>>

QuotaWhileFetchingAttempts ==
  /\ QuotaHits
  /\ pc = "attempts"
  /\ \E r \in Runs : MissingAttempts(entry[r]) # {}
  /\ quota' = TRUE /\ pc' = "save"
  /\ UNCHANGED <<gh, store, wf, window, resp, entry, todo, busy, again>>

\* Mutant: the rows of other runs are stamped with the synced workflow.
MergedRowsOfOneWorkflow(s, e) ==
  IF e.present
  THEN [rows |-> cache_to_parquet_rows(e), wf |-> wf, linked |-> e.linked,
        last |-> e.last]
  ELSE IF Known(s) THEN [s EXCEPT !.wf = wf] ELSE s

\* What merge_parquet_cache makes of the rows of one run.
MergedRows(s, e) ==
  IF e.present
  THEN [rows |-> cache_to_parquet_rows(e), wf |-> wf, linked |-> e.linked,
        last |-> e.last]
  ELSE s

\* Both caches are written, then a quota error is raised again: either way the
\* process ends.
Save ==
  /\ pc = "save"
  /\ store' = [r \in Runs |-> MergedRows(store[r], entry[r])]
  /\ Idle("idle")
  /\ UNCHANGED gh

\* A run that was deleted on GitHub answers 404, which nothing catches.
NotFound ==
  /\ \E r \in Runs :
       /\ gh[r].status = "deleted"
       /\ \/ pc = "reconcile" /\ r \in todo
          \/ pc = "jobs" /\ r \in busy
          \/ pc = "attempts" /\ MissingAttempts(entry[r]) # {}
  /\ Idle("idle")
  /\ UNCHANGED <<gh, store>>

\* Any other error, an interrupt, a kill or a crash before the merge.
Abort ==
  /\ pc # "idle"
  /\ Idle("idle")
  /\ UNCHANGED <<gh, store>>

-----------------------------------------------------------------------------
Init ==
  /\ GhInit
  /\ store = [r \in Runs |-> NotStored]
  /\ pc = "idle" /\ wf = Nil /\ window = {} /\ todo = {} /\ busy = {}
  /\ again = {} /\ quota = FALSE
  /\ resp = [r \in Runs |-> NoSnapshot]
  /\ entry = [r \in Runs |-> NoEntry]

\* The server moves on its own.
GitHubStep == GhNext /\ UNCHANGED <<store, local>>

\* What a sync does when nothing goes wrong.
SyncStep ==
  \/ \E w \in Workflows, W \in SUBSET Runs : StartSync(w, W)
  \/ \E r \in Runs : \/ ListRun(r) \/ ListRunAgain(r) \/ FetchStaleRun(r) \/ StartFetchJobs(r)
                     \/ FetchJobs(r) \/ FetchAttempt(r)
  \/ EndListing \/ EndReconcile \/ UpdateRuns \/ EndJobs \/ EndAttempts
  \/ Save \/ NotFound

QuotaStep ==
  \/ QuotaWhileListing
  \/ \E r \in Runs : QuotaWhileFetchingJobs(r)
  \/ QuotaWhileFetchingAttempts

Next == GitHubStep \/ SyncStep \/ QuotaStep \/ Abort

Spec == Init /\ [][Next]_vars

-----------------------------------------------------------------------------
(* Properties.                                                             *)

Mirror == INSTANCE CacheMirror
            WITH mirror <- [r \in Runs |-> [rows |-> store[r].rows, wf |-> store[r].wf]]

\* Any number of syncs of any workflows, with everything that can stop them, act
\* on the cache like the abstract mirror: only whole syncs change it, in one
\* step, for runs of their own workflow, by what has happened.
IsMirror == Mirror!Spec

\* Every variable holds values of its kind (all of main's state).
TypeOK ==
  /\ GhTypeOK
  /\ store \in [Runs -> Stored]
  /\ pc \in Phases
  /\ wf \in Workflows \cup {Nil}
  /\ window \in SUBSET Runs
  /\ resp \in [Runs -> Snapshot]
  /\ entry \in [Runs -> Entry]
  /\ todo \in SUBSET Runs
  /\ busy \in SUBSET Runs
  /\ again \in SUBSET Runs
  /\ quota \in BOOLEAN

\* The rows of a run never run ahead of GitHub: their attempt has happened, an
\* attempt they call completed is over, their job exists and one with a
\* completion time is done.  The status of a row comes from one API call, its
\* job from another and its attempt from a third, possibly of an earlier sync
\* (update loop, job pool and attempts stage of main, cache_to_parquet_rows).
CacheNeverAhead ==
  \A r \in Runs : \A row \in store[r].rows :
    /\ Happened(r, row.att, row.status)
    /\ row.job # Nil => row.job \in gh[r].jobs
    /\ row.done => row.job \in gh[r].done

\* A run is filed under the workflow it belongs to, although the reconciliation
\* fetches runs by id alone and files them under the synced workflow.
RunsKeepTheirWorkflow ==
  \A r \in Runs : Known(store[r]) => store[r].wf = Owner[r]

\* An entry that no later sync would refresh is complete: when GitHub shows a
\* run as completed and the update loop would keep its cached jobs, these are
\* all its jobs in their final state ("completed runs are immutable").
Frozen(r) == gh[r].status = "completed" /\ KeepsCachedJobs(store[r], SnapshotOf(r))
Complete(r) == CachedJobs(store[r]) = gh[r].jobs /\ CachedDone(store[r]) = gh[r].done
FrozenIsComplete == \A r \in Runs : Frozen(r) => Complete(r)

\* ... of such an entry that has a job at all, nothing is missing but jobs of the
\* run's last attempt, and those only if GitHub has given it a job when all its
\* others were done: neither a quota stop, a re-run nor a job list older or newer
\* than the run's status freezes a part of the jobs in any other way.
FrozenListIsComplete ==
  \A r \in Runs : Frozen(r) /\ CachedJobs(store[r]) # {} =>
    /\ \A job \in gh[r].jobs \ CachedJobs(store[r]) : AttemptOf(job) = gh[r].attempt
    /\ Complete(r) \/ gh[r].late

\* A run that is in the cache stays there, whatever a sync meets (the
\* placeholder row of a run without jobs is what keeps it).
RunsNeverVanish == [][\A r \in Runs : Known(store[r]) => Known(store'[r])]_vars

\* No sync that stays below the quota limit removes a cached job of a run or
\* turns a finished one back, whether it fetches the run's jobs or keeps them.
JobsNeverLost ==
  [][~quota => \A r \in Runs :
       /\ CachedJobs(store[r]) \subseteq CachedJobs(store'[r])
       /\ CachedDone(store[r]) \subseteq CachedDone(store'[r])]_vars

\* An attempt the cache has shown as completed is never shown as active again,
\* even when a re-run changes the status of the run as a whole.
AttemptsStayCompleted ==
  [][\A r \in Runs, k \in Attempts :
       /\ CachedStatus(store[r], k) = "completed"
       /\ k \in CachedAttempts(store'[r])
       => CachedStatus(store'[r], k) = "completed"]_vars

\* A pull-request link, once cached, is not blanked by a later refresh.
LinkNeverBlanked == [][\A r \in Runs : store[r].linked => store'[r].linked]_vars
=============================================================================
