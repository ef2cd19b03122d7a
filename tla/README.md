# cimon in TLA+

This directory models **cimon**, a command-line tool that copies the state of
GitHub Actions workflow runs, jobs and logs into local files
(`workflows.parquet`, `etag_cache.json`, one directory of logs per run) and
computes metrics and figures from them. The modules are translated from the
Python and shell sources under `src/`; `PROJECT.json` maps every definition to
the lines it stands for. In this file, `synch.py` is
`src/src/cimon/workflows/synch.py`, `github_api.py` is
`src/src/cimon/github_api.py`, and so on.

To check a run: `tlc -config RunSync_core.cfg MCRunSync`; to check the proofs of
a module: `tlapm RunSyncProofs.tla`.

## 1. The system

| Part | State it keeps | Operations | Module |
|---|---|---|---|
| GitHub (external) | runs, attempts, jobs, pull-request links | a run is created, starts, gets jobs, completes, is re-run, loses its link, is deleted | `GitHub` |
| Run synchronizer, `main` of `synch.py` | `workflows.parquet`; within a sync `runs`, `cached_runs`, `quota_exceeded` | list, scan active runs, reconcile stale runs, update entries, fetch jobs, fetch attempts, save | `CacheMirror` (abstract), `RunSync`, `RunSyncLive` |
| Run listings, `_iter_run_pages`, `scan_active_runs` | page number, runs yielded so far | next page, next status, stop at quota, cap or `--max-pages` | `RunPages` |
| Job pool, the `ThreadPoolExecutor` block of `main` | futures, work queue, threads | submit, take, finish, yield, cancel, leave | `JobPool` |
| HTTP client, `api_get` | the session's quota flag, ETag cache (memory and file) | send, receive by status, retry, raise, save and load the cache | `ApiGet` |
| Cache commands: `sync`'s merge, `prune-runs`, `repair-cache` | `workflows.parquet`, temporary files | read, compute, write a temporary file, rename | `CacheStore` (abstract), `CacheFile`, `JobDurations` |
| Log downloads: `download-logs`, `build-metrics` | `<job_id>.log`, `<job_id>.log.part` | reuse or download, rename, read, `--clear-logs` | `LogDownload`, `LogMatches` |
| Runner snapshots: `cimon runners` | `runner_status.parquet`, `runner_status_snapshots/` | poll, write the JSON file of the second, read it back, append, replace | `RunnerSnapshots` |
| Cyclic driver: `cyclic_sync.sh` and the sync scripts | the current day, quota | run the window, advance, wait and retry, kill on time-out | `CyclicSync` |
| Build-log parser and metrics, `build_metrics.py` | none | `parse_log`, `parse_bazel_build_args`; rows per target, points of the trend charts | `BuildLog`, `BuildTrend` |
| Run timeline, `run_timeline.py` | none | `prepare_jobs`, `union_minutes`, `stage_contribution`, `critical_path` | `RunTimeline` |
| Queries, `query_spec.py`, `query.py` | none | compile a filter, keep rows | `QuerySpec` |
| Charts of jobs: the specs and renderers of `job-durations`, `merge-group-failures` | none | select the rows that are drawn | `JobSpecs` |
| `cimon visualize`: registry, pipeline, run URLs, renderers | files of one call | refuse, filter, write rows, draw | `Visualize` |
| Disk report, `disk_usage_report.py` | none | read logs, one line per runner | `DiskReport` |

How they interact. The driver starts a sync script per day; the script starts
one `cimon sync` per workflow. A sync reads the whole cache, talks to GitHub
through `api_get` (single-threaded except in the job pool), and merges its
result into the cache with one rename at the end. Everything else reads the
cache, except `prune-runs` and `repair-cache`, which rewrite it. GitHub changes
between any two requests. The only signals between the parts are exit codes,
files and the shared quota.

What is hard about it:

* *time of check and use*: a sync combines a listing, job lists, attempts and
  rows of earlier syncs that were all seen at different moments;
* *partial failure*: the quota limit stops a sync at any request, with the
  promise that what was fetched is saved; other errors and kills lose the sync;
* *concurrency*: pool threads share a session, a cache and a quota; commands
  share files without a lock;
* *liveness*: stale runs have to be corrected, the job stage and the critical
  path loop have to end, the driver has to get to its last day;
* *boundaries*: page ends, result caps, three-valued logic over null columns,
  jobs that end before they start.

What makes each part correct, in a sentence:

* synchronizer: the cache is a mirror of GitHub that lags behind: whole syncs
  change it, by what has happened; it forgets no run, loses no job, and treats
  as final only what is complete;
* listings: no run that stays in the range is skipped, none is listed twice by
  the active scan;
* job pool: every list that was fetched is stored, cancelled work never runs,
  and the stage ends;
* HTTP client: no stale body, no request beyond the quota floor that was not
  already on its way, no exit from the retry loop by its bottom;
* cache commands: each acts on the file in one step;
* log downloads: a log under its final name is whole, and the rows that match
  are those of the logs that match;
* runner snapshots: the history only grows, and the archive has all of it;
* driver: it advances past finished days only, and it gets to the end;
* functions: they agree with a direct definition of what they are for.

The hazards behind these, each at its line, are listed in `PROJECT.json`.

## 2. The modules and the code

### `GitHub`, `RunSync`, `RunSyncLive`

`gh[r]` is what GitHub holds about run `r`; its actions are interleaved with
every step of the sync. A run gets jobs at any time while it is active, as GitHub
creates each one when it becomes eligible; `late` notes, for the properties only,
that the current attempt was given one when all its others were done. `store[r]` is the set of rows of the run in the cache;
a row has its attempt, that attempt's status, and a job or `Nil` (the
placeholder row that `cache_to_parquet_rows` writes for a run without jobs).
`pc` follows the stages of `main`:

    idle -> runs -> in_progress -> queued -> reconcile -> update -> jobs -> attempts -> save -> idle

Each API call is one action (`ListRun`, `FetchStaleRun`, `FetchJobs`,
`FetchAttempt`); the loop that decides per run whether its cached jobs are kept
(`UpdateRuns`) reads nothing from GitHub and is one action. `window` is the set
of runs the listing under way can reach, chosen freely when the listing begins:
for the date range it stands for the dates, the result cap, `--max-pages` and
pages that shift, for the scan of a status for its pages. With `WholeScans` the
scan of a status reaches every run, that is, it fits on its pages and no page
shifts. A listing ends (`EndListing`) only when it has returned the runs of its
window that match, so that a run can be missed by not being in the window, and
in no other way. The quota
actions leave a stage the way the `except` clauses do, and `Abort` is any other
error, an interrupt or a kill before the merge. `NotFound` is the 404 of a
deleted run in the reconciliation. Rows carry no names, times or runner
fields; equal attempts of a run carry one status, as in the code.

A page shift can put a run into the date-range listing twice (`RunPages`).
`ListRunAgain` replaces the response, as the second `RunEntry` of the update
loop replaces the first, and notes in `again` that the run is submitted to the
pool twice. Either result may be stored last, so `FetchJobs` of such a run may
put it back into `todo` or not.

`CacheMirror` is the abstract specification: GitHub, and a mirror of it that is
published for runs of one workflow in one step. What is published has happened,
a run that is published has rows, and no attempt that was shown as over is shown
otherwise. `RunSync` implements it with `mirror` being the rows of `store` and
their workflow (`IsMirror`): `Save` is `Publish`, GitHub's steps are
`GitHubMoves`, and everything else a sync does is a stutter.

`RunSyncLive` adds the fairness of section 4, the moment after which no more
quota hits and aborts come (`calm`), and `TimeOut`: a sync that waits for
cancelled futures is killed by the driver's `timeout`.

### `JobPool`

The same stage as `StartFetchJobs`/`FetchJobs`/`EndJobs` of `RunSync`, one level
deeper: futures, the executor's queue, threads, and `main` in `as_completed`.
`concurrent.futures` is a library and its actions are marked external. The
point modelled from its use is that `shutdown(cancel_futures=True)` takes the
futures out of the queue and marks them cancelled but does not tell the waiter
of `as_completed`.

`IsJobStage` ties the two levels together: through an instance of `RunSync`
whose runs are the pool's items, every step of the pool is a step of `RunSync`
or none. A request and what `main` does with its result, two steps here, are one
there, so a list counts as fetched from the moment the thread has it, and the
quota limit from the moment `main` learns of it. A future that is started between
these two moments fails on the session's flag without a request; for `RunSync`
it is one of the futures that were still queued. An error in a thread is
`RunSync`'s `Abort`. GitHub and the cache stand still in the instance, and each
run has one job, because the pool looks at neither.

### `ApiGet`

Threads call `api_get`; a request and its response are steps of their own, so a
thread has one under way while another finds the quota used up. A resource's
version is both its ETag and its body. `NewSync` starts a process (session flag
down, `etag_cache.json` loaded), `SaveAndRestart` writes what the sync touched,
`DieAndRestart` dies before or in the middle of that write, which leaves a
truncated file that loads as empty.

### `CacheStore`, `CacheFile`

`CacheStore` is the promise: each command changes the table in one step, or has
no effect. `CacheFile` is the code: read the table, compute the new one, write
a temporary file next to it, rename. A process can die between any two.
`CacheFile` maps `content` to the file and `asked` to the commands that have
not yet replaced it.

### `LogDownload`, `LogMatches`

`LogMatches` is `run` of `download_logs.py` as a function of its input and of
what the logs hold. In `LogDownload`, directory entries name inodes, because a rename installs whatever has the name
`<job_id>.log.part` at that moment. The user either runs commands one at a time
(`usage = "alone"`, with failures and kills anywhere) or lets them overlap
(`"overlapping"`, no failures); section 6 says what happens with both.

### `RunPages`

Listings are served newest first, `PageSize` per page and at most `Cap` runs,
from whatever GitHub holds when the page is asked for. The date-range listing
and the scan of each active status go through the same loop as in the code.

### `CyclicSync`

Time is counted in requests, and a sync of a window of a workflow by the
requests it still needs. What a sync leaves behind comes from the other
modules: it saves what it fetched when it ends or meets the quota limit
(`RunSync`), nothing when it fails, is killed or hangs (`JobPool`). `QuotaHangs`
may come at every quota stop that leaves another request than the one that met
the limit, as often as these come: it is what the code does there and no fault.
`cimon`'s preflight check, the exit code passed on by the script, `timeout` and
the two pauses are actions.

### `RunnerSnapshots`

A call of `cimon runners` polls, opens and writes the JSON file named after the
second, reads it back, and replaces `runner_status.parquet` by the old table
with its rows at the end. It can be killed anywhere; a file that is being
written reads as `Cut`. With `OneAtATime` calls do not overlap and are at least
a second apart.

### `BuildLog`, `BuildTrend`, `JobDurations`, `RunTimeline`, `QuerySpec`, `JobSpecs`, `LogMatches`, `DiskReport`, `Visualize`

Functions that keep no state. Lines and arguments are known by their kind and
place, values by small numbers, and a missing time, duration or value by
`Null` or `NaT`, a number that none of the others is. `PureFunctions` calls each
function once on every input up to a bound and compares the result with a
definition that does not follow the code's loop; `MCFunctions` gives it to TLC.
`JobSpecs` takes the filter specs `job_durations.yml` and
`merge_group_failures.yml` as terms of `QuerySpec`, evaluated on rows that
`JobDurations` computes. Loops are folds or recursive functions, so that they
can be proved about; in the disk report a size is `Unreadable` if its unit is one
`parse_size_to_gb` raises an error for. `SpecsOver` and `build_expression` recurse over the level
at which a spec nests, of which `MaxDepth` bounds the number.

## 3. The runs

| Run | Instance | What it shows |
|---|---|---|
| `RunSync_core` | 1 run, 2 workflows, 2 attempts of 2 jobs each, repeated listing, deletion, quota, aborts | `IsMirror` (refinement of `CacheMirror`), `CacheNeverAhead`, `RunsKeepTheirWorkflow`, `FrozenListIsComplete`, `JobsNeverLost`, `AttemptsStayCompleted` |
| `RunSync_quotaempty` | 1 run, 1 job, quota hits | violation of `FrozenIsComplete` |
| `RunSync_live` | 1 run, 2 attempts, quota hits, hangs and aborts until a last one | `StaleRunsAreCorrected`, `ActiveRunsGetCached` |
| `JobPool_stage` | 3 items, 2 threads, quota hits and errors | `NothingFetchedIsLost`, `IsJobStage` (each step is one of `RunSync`), `StageEndsUnlessCancelled` |
| `JobPool_hangs` | the same without other errors | violation of `StageEnds` |
| `ApiGet_calls` | 2 threads, quota 4 with a limit of 2, 2 tries, 2 versions, 2 lost responses | `QuotaFloor`, `BodiesAreFresh`, `CallsEnd` |
| `CacheFile_one` | 2 runs, 2 processes one at a time, 3 syncs | `ActsAtomically` (refinement of `CacheStore`) |
| `LogDownload_logs` | 2 processes, 2 jobs, 1 of them matching | `LogsAreWhole`, `CutLogsAreBeingWritten`, `MatchingLogsStay` |
| `RunPages_growing` | 3 old runs and 1 new one, pages of 2, cap 4 | `DateRangeHasNoGaps`, `DateRangeIsComplete`, `ScanAddsOnlyNewRuns` |
| `CyclicSync_days` | 2 days, 2 workflows, up to 4 requests each, 3 requests per quota window, any number of hangs, 2 other faults | `PastDaysAreSynced`, `EveryWindowIsSynced` |
| `RunnerSnapshots_alone` | 2 processes one at a time, 4 polls, 5 seconds, kills | `HistoryOnlyGrows`, `RowsHaveSnapshots` |
| `Functions_all` | tables of 3 jobs with 4 times, job rows with 5 times, logs of 7 lines, 5 arguments, 2 builds per job, filters nested 4 deep, 4 rows of `download-logs`, 3 logs of the disk report, 2 names of `visualize` | agreement with the reference definitions |

Why the bounds are enough to be interesting:

* *RunSync*: the decisions of a sync are made per run, and runs meet only in
  the quota flag, the order of the stages and the pool, which `JobPool` has
  with more items than threads. Two attempts give rows of an attempt that is
  over next to those of the current one, two jobs per attempt a list of which one
  is done and one not, or not yet created; a third copy of a run in a listing
  would change nothing. More than this is left to the theorems. Jobs are
  model values and `JobSymmetry` their permutations: they differ by number only,
  and where a definition chooses a row of an attempt it takes the status that all
  of them carry. The two workflows make the reconciliation of one meet the cached run
  of the other. For the liveness properties two attempts give a cached row of
  an earlier attempt next to one that is still active.
* *ApiGet*: two threads suffice for a request in flight while the flag goes up,
  two lost responses for the quota to be used up entirely, two versions
  for an old entry and a newer answer, two tries for one that is repeated.
* *LogDownload*: two processes on two jobs allow every collision of names.
* *RunPages*: pages of two with a cap of four have full pages, a half-full last
  page, an exactly full last page and a listing cut by the cap.
* *RunnerSnapshots*: four polls in six seconds have polls that follow each
  other, one that is killed at each place, and a second left out.
* *Functions*: three jobs are a path with a job in its middle, and spans that
  overlap, nest and touch; seven lines are two builds with a link and a cache
  line each, one of them repeated; two builds with two targets show a point that
  is counted per target; filters four deep have a negation inside a group inside
  a group. All of it is proved for any bound (section 5), so the bounds serve
  the seeded faults.
* *CyclicSync*: 3 requests per quota window are less than a day of two workflows
  needs, so that progress must come from saves. A window of 3 requests just fits
  into one quota and one of 4 does not; `PastDaysAreSynced` is checked with
  both, `EveryWindowIsSynced` says something of those that fit.

The type invariants `TypeOK` of `JobPool`, `LogDownload`, `RunPages` and
`RunnerSnapshots` hold in the same instances and are left out of the
configurations, which keep to what could go wrong; they are proved, as is that
of `CyclicSync`.

Each property has a seeded fault (`mutants` in `PROJECT.json`): an operator
beside the definition it replaces, marked "Mutant" in the modules, that breaks
the property under the run's own configuration. They are not part of any
specification.

## 4. Fairness

* `RunSyncLive`: weak fairness of `ProgramStep` (syncs are started again and
  again, by `cyclic_sync.sh` or cron, a sync that runs goes on, and one that
  hangs is killed after `WINDOW_TIMEOUT_SECONDS`, `cyclic_sync.sh:103-117`) and
  of `CalmDown` (faults end). Nothing is assumed of GitHub: jobs may run for
  ever. The run has `WholeScans = TRUE`: that active runs get cached is promised
  only of scans that see them all. A scan with more active runs than it has
  pages, or whose pages shift under it, can miss the same run again and again.
* `ApiGet`: weak fairness of each thread, and of the answer or the exception
  that ends its request, which has a timeout of 30 seconds
  (`github_api.py:153`). `CallsEnd` needs no more: not even the quota has to be
  renewed.
* `JobPool`: weak fairness of `main` and of each thread. Requests have a
  timeout (`github_api.py:153`), so a thread does not stay in one.
* `CyclicSync`: weak fairness of the driver and its scripts, and of
  `ResetQuota`, which GitHub does every hour. Stuck connections and failed syncs
  are not fair and at most `MaxFaults` in number; without that bound the driver
  may of course retry one window for ever. Hangs on the quota limit have no bound,
  and nothing is assumed of whether a quota stop hangs or saves.

`EveryWindowIsSynced` also needs `MaxNeed + Workflows <= Timeout` and
`FitsQuota`: an attempt that hangs or is killed saves nothing, so a window that
does not fit into one attempt and one quota may be retried for ever without
progress (section 6). One that fits and begins with a new quota meets the limit
with its last request at the earliest, and then nothing is left to hang on.

The 30 seconds of `github_api.py:153` bound the wait for a connection and for each
part of an answer, and `ApiGet` and `JobPool` take it that they end every
request. `cyclic_sync.sh:16-19` reports connections that got stuck without any
exception: in these two modules that is an unfair thread, of which `CallsEnd` and
`StageEndsUnlessCancelled` promise nothing. `CyclicSync` has it as `Stuck`, and
the driver's `timeout` is the code's answer to it.

## 5. What is proved

Every safety property that a passing run checks, invariant, action property or
refinement, is also a theorem, for all values of the constants, from the
`ASSUME`s of the modules.
Some of them have one of two further hypotheses, constants that say how the
program is used (`OneAtATime`, `ScriptReportsFailure`); it is named with them,
and section 6 shows what happens without it.

* **`RunSyncProofs`**
  * `TypeCorrect`: `Spec => []TypeOK`.
  * `CacheIsNeverAhead`: `Spec => []CacheNeverAhead`. The invariant speaks of
    the cache only and is not inductive: a row is written from `resp` and
    `entry`, which were filled many steps before. `NeverAhead` adds that every
    response and every entry of the sync that runs has happened, and rests on
    `GitHubOnlyGrows`: what has happened on GitHub stays so (attempts and jobs
    are only added, a finished attempt is never unfinished).
  * `WorkflowsAreKept`: `Spec => []RunsKeepTheirWorkflow`, with `OwnRunsOnly`:
    whatever a sync of workflow `w` has an entry, a response or a pending
    refetch for belongs to `w`.
  * `RunsStayCached`: `Spec => RunsNeverVanish`, an action property, from the
    lemma that every entry yields at least one row.
  * `JobsAreNotLost`: `Spec => JobsNeverLost`. A save is safe only because of
    what the stages before it did: while a sync is below the quota limit, the
    entry of each run either has all cached jobs or is still to be fetched, and
    what is fetched has all of them because GitHub keeps the jobs of earlier
    attempts (`CacheNeverAhead` gives that the cached ones were there).
  * `FrozenListsAreComplete`: `Spec => []FrozenListIsComplete`, whenever GitHub
    creates jobs. `ListsCover` says that a job list, of an entry or of the cache,
    with a job of some attempt has all jobs of the attempts before; and that one
    with jobs of the current attempt, all done, has all of that too unless it is
    `late`. A list that no sync refreshes is done and has a job of the run's last
    attempt; with `NeverAhead` it has no others.
  * `AttemptsAreNotTakenBack`: `Spec => AttemptsStayCompleted`. The cache does
    not say by itself that the next sync will not take an attempt back.
    `OverStaysOver` says that what the running sync holds of a run, its response
    and its entry, knows every attempt the cache shows as over, and that rows
    of one attempt carry one status.
  * `CacheIsMirror`: `Spec => IsMirror`. The initial states map to initial
    states; `Save` maps to `Publish(wf)` by the invariants above, GitHub's steps
    to `GitHubMoves`, all others to stutters.
* **`JobPoolProofs`**
  * `TypeCorrect`, and `NoFetchedListIsLost` (`Spec => []NothingFetchedIsLost`)
    with `TakenIsCached`: what `as_completed` has yielded with a job list is
    stored, and `main` can leave normally only when everything has been yielded.
  * `PoolIsJobStage`: `Spec => IsJobStage`. `StageInv` says who set the
    session's flag, that a future started after it ends in a quota error, and
    that after `main` has learned of the limit nothing is queued. Each step then
    has its step of `RunSync`: a thread takes a future (`StartFetchJobs`; fewer
    requests than threads, by an injection of the items under way into the other
    threads), it gets the list (`FetchJobs`), `main` takes a quota error
    (`QuotaWhileFetchingJobs`, with the cancelled futures as the set chosen
    there), the loop ends (`EndJobs`), a thread fails (`Abort`).
* **`ApiGetProofs`**
  * `TypeCorrect`, and `LoopNeverRunsOut`: no call gets past the retry loop, to
    the line the code calls unreachable.
  * `QuotaIsHeld`: `Spec => []QuotaFloor`. `LimitIsHeld` counts: while the flag is
    down, each request charged at or below the limit is a response on its way to
    a thread that will set the flag, or was lost; once it is up, only what is in
    flight can still be charged, and the request that set it was not among that.
  * `FreshBodies`: `Spec => []BodiesAreFresh`. A cached body carries the ETag of
    its version, in memory, in the file and in every request under way, so that
    "not modified" confirms the very version that is returned.
* **`DataProofs`**, what commands make of data already there
  * `TypeCorrect`, and `AtomicWhenAlone`:
    `OneAtATime => (Spec => ActsAtomically)`. `Alone` says that the table a
    process has read is still the file's content as long as it is the only one,
    so that its rename is the abstract command; every other step is a stutter or
    the abstract `Ask`/`GiveUp`.
  * All twelve properties of `Functions_all`, as `SpecPure => []...`, from
    theorems about one call that hold for inputs of any size. Table below.
* **`LogDownloadProofs`**: `TypeCorrect`; `LogsAreAlwaysWhole`
  (`Spec => []LogsAreWhole`): alone, a process's partial file is its own and is
  whole when it is renamed; `MatchingLogsAreKept` (`Spec => MatchingLogsStay`);
  and `CutLogsAreFinished` (`Spec => []CutLogsAreBeingWritten`), where
  `OverlapInv` says that every inode with a name is whole or is being written,
  whichever name a rename has given it meanwhile.
* **`RunPagesProofs`**, for any page size, cap and `--max-pages`
  * The place of a run in a listing is the number of newer runs in it. Every
    place is that of one run (`PlacesAreTaken`, from the pigeonhole theorem), and
    a page has the runs whose places it covers (`PageContents`).
  * `TypeCorrect`; `ScanIsNew` (`Spec => []ScanAddsOnlyNewRuns`), where the
    invariant adds that the date range is over before the scan begins.
  * `DateRangeIsDense` and `DateRangeIsWhole`: `Spec => DateRangeHasNoGaps` and
    `Spec => DateRangeIsComplete`. `PagesAreFull` says that the listing has
    passed exactly as many places as it has returned runs, and `NoneIsSkipped`
    that a run that was there all along is returned or still ahead: without
    deletions a place only grows.
* **`RunnerSnapshotsProofs`**: `ArchiveIsComplete` and `HistoryIsKept`,
  `OneAtATime => (Spec => []RowsHaveSnapshots)` and
  `OneAtATime => (Spec => HistoryOnlyGrows)`. `AloneInv` says that the table a
  call has read is still the one in the file and that its second is later than
  every archived one.
* **`CyclicSyncProofs`**: `NoDayIsLeftBehind`:
  `ScriptReportsFailure => (Spec => []PastDaysAreSynced)`. `Progress` says that
  the workflows before the one the script is at are done for the current day,
  so that the end of the last one ends the day. Nothing is assumed of the
  time-out, the quota or the number of faults.

| Property | Theorems | The argument |
|---|---|---|
| `StageTimesAreCovered` | `StageTimes`, `StageTimesSpec` | `UnionOfSpans`: after each span, in the order of their starts, the sum is the number of minutes covered so far, and `end` is the latest of them |
| `PathIsAChain` | `PathEnds`, `PathFits`, `PathSpec` | `ChainGrows`: each job taken starts before all those taken so far, so that none is taken twice and the time they take adds up to no more than the run's |
| `EntriesMatchLog` | `EntriesOfLog`, `EntriesSpec` | `LogInvIsKept`: the entries are those of the build lines read, with what was last seen after each |
| `ArgsAreReadAsBazelDoes` | `ArgsOfLine`, `ArgsSpec` | `ArgInvIsKept`: the place of the loop is never the value of a flag, and targets and configs are those before it |
| `OnePointPerInvocation` | `PointsOfCharts`, `OnePointSpec` | the rows of a build's targets have one key, and those of two builds different ones |
| `PagesAreAsAsked` | `PagesOfNames`, `PagesSpec` | `VizInvIsKept`: files and pages are those of the names drawn before the first failure |
| `MatchesAndLogsAgree` | `LogsOfRows`, `MatchesSpec` | `RowInvIsKept`: which rows are written and which logs are left, after each row |
| `ReportAgreesWithLogs` | `ReportOfLogs`, `ReportSpec` | `LineInvIsKept` gives each log's samples, `Collected` the entries in the order of the logs, `JobsInOrder` those of a runner in the order of their times |
| `KeptIffHolds` | `SpecsAgree`, `KeptOfSpecs`, `KeptSpec` | `CombineAgrees`: a group of truths that are right is right; then level by level of the spec |
| `DurationsAreOfJobsThatRan` | `RenderersKeep`, `DurationsSpec` | the truth of the two specs, for every status and conclusion |
| `RepairAgreesWithSync` | `RepairIsLikeSync`, `RepairSpec` | two lemmas that say when a duration is missing |
| `ClockErrorsDoNotLast` | `ClockErrorsEnd`, `ClockSpec` | the same two |

The theorems on calls of one function (`...OfLog`, `...OfNames`, `SpecsAgree` and
so on) have no bound; those on `SpecPure` apply them to the inputs that the run
enumerates, which `InputIsOK` says are all there are.

Induction over data. The library's induction theorems take an operator as a
parameter, which no prover here can instantiate. What the proofs need of them is
had from one instance, that the natural numbers are well-founded: `LeastNat` (a
set of numbers that is not empty has a least one) gives `InductionUpTo` (a
subset of `0..n` that has 0 and the successor of each of its members below `n`
is all of it). `FoldExists` shows with it that the function by which a fold is
defined exists, so that its `CHOOSE` is that function, and `FoldTurns` that a
fold is its turns one after the other; a loop's invariant then holds after each
turn. `NestExists` and `LevelsExist` do the same for the levels of a filter
spec.

Only model-checked:

* liveness (`StaleRunsAreCorrected`, `ActiveRunsGetCached`,
  `StageEndsUnlessCancelled`, `CallsEnd`, `EveryWindowIsSynced`): it rests on
  fairness, and so on `ENABLED`, which the provers do not know;
* the two violations of section 6, which are counterexamples.

## 6. Where code and documents disagree

Two runs show one each:

1. **The job stage hangs on the quota limit** (`JobPool_hangs`). After the first
   quota error `main` cancels the queued futures and goes on iterating
   `as_completed`, which is never told of them (`synch.py:1561`). The comment
   and the README promise that what was fetched is saved before the abort.
   `StageEndsUnlessCancelled` shows that this is the only way to hang.
2. **A run cached without jobs is taken for complete** (`RunSync_quotaempty`).
   `all(...)` over an empty job list is true (`synch.py:1491`), so a completed
   run whose jobs the quota limit kept from being fetched is never refetched;
   the README says it is.

Further ones were seen with the same modules; each can be reproduced by
changing the named constants in a configuration:

3. A job that GitHub creates when all others of its attempt are done is missed if
   the cached list is from before it: `FrozenListIsComplete` in `RunSync_core`
   without `\/ gh[r].late` (`synch.py:1478-1490`, "immutable for our purposes").
   The theorem shows that this is the only way.
4. A refresh that the quota limit stops replaces the jobs of an earlier sync by
   a placeholder: `JobsNeverLost` in `RunSync_core` without `~quota =>`.
5. A cached pull-request link is blanked: `LinkNeverBlanked` with one run and one
   attempt. `main` never loads it from the cache (`synch.py:1460`);
   `docs/references/workflow-query.md:44-45` says it is kept.
6. Only the last row of a run decides whether the cache shows it as active
   (`synch.py:345`). Of a run with two attempts, a last row of the first, which
   was cached as active and is carried over, makes every later sync fetch the
   run again; and a last row of a finished attempt hides that the current one
   is still shown as active. `RunSync_live` has both if
   `StaleRunsAreCorrected` asks for `~ShownActive(r)`, or asks the same of every
   run whose current attempt is cached as active.
7. A cached active run that is deleted on GitHub answers 404 in every later
   sync, which then saves nothing: `ActiveRunsGetCached` in `RunSync_live` with
   two runs, two workers, one attempt, `Deletes = TRUE` and no quota hits
   (`synch.py:1434`).
8. A run that starts between the `in_progress` and the `queued` listing is in
   neither: `ScanFindsActive` in `RunPages_growing` (`synch.py:249`).
9. `prune-runs` next to a `sync` writes back the table it read:
   `PruneKeepsTheRest` in `CacheFile` with `OneAtATime = FALSE`.
10. Overlapping downloads of which one dies leave a cut log for good:
    `LogDownload` if `Usages` allowed failures and overlap together.
11. Driving `sync.sh`, which loses the exit code of `cimon` (`if ! cmd; then
    rc=$?`, `sync.sh:49`), the driver advances past failed days:
    `PastDaysAreSynced` with `ScriptReportsFailure = FALSE`.
12. `union_minutes` adds a negative length for a job that ended before its start
    and was not skipped (`run_timeline.py:101`), or started before it was created:
    `StageTimesAreCovered` without `InOrder`.
13. `--config` values after `--target_pattern_file` are not returned
    (`build_metrics.py:331`): `ArgsAreReadAsBazelDoes` without `files = {}`.
14. `not_between` is documented as the complement of `between`
    (`query.py:83-84`), but a row with a null is in neither; `KeptIffHolds`
    states what does hold.
15. Of two `cimon runners` that overlap the later one drops the rows of the
    other, and two in one second share an archive file: `HistoryOnlyGrows` and
    `RowsHaveSnapshots` in `RunnerSnapshots_alone` with `OneAtATime = FALSE`
    (`github_api.py:339`, `:373`; "a lossless, timestamp-named archive", `:327`,
    "can only ever be built up", `:352`).
16. The disk report takes the first and the last of any number of `df` lines
    from two on; its description says there are exactly two
    (`disk_usage_report.py:8`). `ReportAgreesWithLogs` states what the code does.
17. A window that needs more requests than one quota has may never be synced. Its
    sync meets the limit with futures still queued, may hang there (1), and is
    killed by the driver's `timeout` unsaved; the next attempt starts from the
    same cache (`synch.py:1556-1561`, `cyclic_sync.sh:103-117`). "Retries" and
    "until the current one succeeds" (`cyclic_sync.sh:11-13`) suggest otherwise:
    `EveryWindowIsSynced` in `CyclicSync_days` without `FitsQuota`.
18. A job that was created after its start can precede itself, and then
    `critical_path` does not end. `run_timeline.py:88` clips a negative waiting
    time as if that came up: `PathIsAChain` without `InOrder(Waiting(...))`.
19. A time zone that does not exist is a `KeyError` and is reported like an
    unknown visualization, as wrong usage (`__main__.py:527`); other bad
    parameters are reported as errors.

Three more concern code that is not modelled. `executed_share`
(`build_metrics.py:466`) is documented (`:451-454`) as a share of the processes
that the remote cache did not resolve, and as `None` if it resolved all; its
denominator includes remote hits, and it is 0 then. The box plots of
`render_runner_health` (`build_metrics.py:772`) count a build once per target.
`run_timeline.py:63` compares naive local times, so that a job that runs across
a change to or from summer time is an hour off.

A listing that stops at GitHub's 1000 results is logged and the sync goes on
(`synch.py:160`), so that it exits 0 and the driver takes the window for done;
`RunPages` has the cap, `CyclicSync` does not.

## 7. What is left out, and why

Names, times, runner fields and messages of runs and jobs; the JSON snapshot of
a sync's response, which nothing reads; logging, Markdown, charts and figures;
the numbers in a build's INFO line and the rates computed from them, which are
quotients; operators on text in filters. GitHub's listings are modelled without
duplicates inside one page. `RunSync` takes each listing one run at a time and a
job list at one instant; `RunPages` has the pages.

Narrower than the code in small ways: the cached rows of `RunSync` are all of this
version, so that the test for rows without `job_created_at`
(`synch.py:1494-1498`), which refetches those of older versions, is always true;
`RunPages_growing` has no `--max-pages` (the theorems have any); `LogDownload`
has one pattern; `PagesAreAsAsked` begins with an empty output directory;
`ReportAgreesWithLogs` bounds the largest share of the disk from below only; that
a truncated `etag_cache.json` loads as empty is how it is modelled, not a result.

Not modelled at all: `filter_logs.py`, which nothing imports and whose loop is
that of `download_logs.py`; the layout of the renderers and
`runner_status_trend.py`, which keeps every row and groups them; the release
and convenience scripts `bump.py` and `visualize.sh`, which have no part in the
program's state.

## 8. Plan

Written so far, in this order: `GitHub`, `RunSync` with its proofs; `JobPool`
and `ApiGet`, the two parts a sync runs concurrently; `CacheStore` and
`CacheFile` with the refinement; `LogDownload`, `RunPages`, `CyclicSync`; the
pure functions; repeated listings in `RunSync`, the abstract mirror with its
proof; `RunnerSnapshots`; the functions of `download-logs`, `build-metrics`,
`visualize` and the disk report; the proofs of the remaining safety properties;
the pool as the job stage of `RunSync`; listings of `RunSync` that may miss any
run; and the proofs about the functions.

`RunPages` is not tied to `RunSync` by a refinement. It needs none: whatever a
listing of `RunPages` returns, some choice of `window` and some `ListRunAgain`
return in `RunSync`, whose theorems hold for every choice. `WholeScans` assumes
of a status's scan what `DateRangeIsWhole` proves of the date range: if nothing
leaves the listing and no limit is met, it misses nothing.

What would be worth doing next: the liveness properties by a prover that knows
`ENABLED`; the numbers of the INFO lines and the rates computed from them.
