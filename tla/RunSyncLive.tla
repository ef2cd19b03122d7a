---------------------------- MODULE RunSyncLive ----------------------------
(***************************************************************************)
(* Repeated syncs under a scheduler (scripts/cyclic_sync.sh, cron): after  *)
(* some moment no sync is killed, fails on the network or meets the quota  *)
(* limit, and syncs keep being started and keep going; one that hangs is   *)
(* killed.  Nothing is asked of GitHub: jobs may run forever.              *)
(***************************************************************************)
EXTENDS RunSync

VARIABLE calm    \* no more quota hits and aborts

liveVars == <<vars, calm>>

LiveInit == Init /\ calm = FALSE

\* A sync that waits for cancelled futures is killed by the driver's timeout.
TimeOut == pc = "jobs" /\ quota /\ busy = {} /\ todo # {} /\ Abort

ProgramStep == (SyncStep \/ TimeOut) /\ UNCHANGED calm
FaultStep == ~calm /\ (QuotaStep \/ Abort) /\ UNCHANGED calm
CalmDown == ~calm /\ calm' = TRUE /\ UNCHANGED vars

LiveNext == ProgramStep \/ FaultStep \/ CalmDown \/ (GitHubStep /\ UNCHANGED calm)

LiveSpec == /\ LiveInit /\ [][LiveNext]_liveVars
            /\ WF_liveVars(ProgramStep) /\ WF_liveVars(CalmDown)

\* A run GitHub considers over gets its current attempt shown as over if the
\* cache shows it as active (find_stale_active_run_ids and the loop over its
\* result), however many faults there were before.  The last row decides whether
\* the cache shows a run as active: a row of an earlier attempt may stay active,
\* because the attempts of the cache are carried over as they are, and a last
\* row of a finished attempt hides an active current one.
Settled(r) ==
  /\ gh[r].status = "completed"
  /\ gh[r].jobs # {} => \E job \in gh[r].jobs : AttemptOf(job) = gh[r].attempt
ShownActive(r) == Known(store[r]) /\ LastStatus(store[r]) \in Active
ShownOver(r) == CachedStatus(store[r], gh[r].attempt) = "completed"
StaleRunsAreCorrected ==
  \A r \in Runs : (Settled(r) /\ ShownActive(r))
                    ~> (~Settled(r) \/ ~ShownActive(r) \/ ShownOver(r))

\* A run that stays active reaches the cache whatever date range the syncs ask
\* for (scan_active_runs).
ActiveRunsGetCached ==
  \A r \in Runs : (gh[r].status \in Active) ~> (gh[r].status \notin Active \/ Known(store[r]))
=============================================================================
