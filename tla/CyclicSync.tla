----------------------------- MODULE CyclicSync -----------------------------
(***************************************************************************)
(* scripts/cyclic_sync.sh: one-day windows are synced one after the other  *)
(* by a sync script that runs `cimon sync' for several workflows.  A       *)
(* window whose script fails is retried after the quota pause, one whose   *)
(* script is killed by `timeout' after a shorter one.                      *)
(*                                                                         *)
(* A sync is modelled by the requests it still has to make for a window of *)
(* a workflow.  It saves what it fetched when it ends or meets the quota   *)
(* limit (RunSync), and nothing when it fails otherwise, is killed or      *)
(* hangs on the futures that the limit made it cancel (JobPool).  Time is  *)
(* counted in requests.                                                    *)
(***************************************************************************)
EXTENDS Naturals

CONSTANTS
  Days,           \* windows from START_DATE to END_DATE
  Workflows,      \* the script syncs workflows 1..Workflows
  MaxNeed,        \* bound: requests one window of a workflow needs
  Quota,          \* requests per rate-limit window
  quota_limit,    \* cimon's quota limit
  Timeout,        \* WINDOW_TIMEOUT_SECONDS
  MaxFaults,      \* bound: stuck connections and failed syncs
  ScriptReportsFailure   \* TRUE: sync_static_runner_workflows.sh, which exits
                         \* with the exit code of cimon; FALSE: sync.sh

ASSUME CyclicSyncAssumption ==
  /\ Days \in Nat /\ Workflows \in Nat \ {0} /\ MaxNeed \in Nat
  /\ Quota \in Nat /\ quota_limit \in Nat /\ quota_limit + 1 < Quota
  /\ Timeout \in Nat /\ MaxFaults \in Nat
  /\ ScriptReportsFailure \in BOOLEAN

VARIABLES
  day,      \* the window being synced
  pc,       \* what cyclic_sync.sh is doing
  wf,       \* the workflow the script is at
  clock,    \* time since the window was started
  quota,    \* X-RateLimit-Remaining
  need,     \* need[d][w]: requests whose results are not in the cache yet
  got,      \* results the running sync has fetched and not saved
  faults

vars == <<day, pc, wf, clock, quota, need, got, faults>>

Over == day > Days

\* The driver leaves this attempt: nothing of it is left but what was saved.
Attempt(label) == pc' = label /\ wf' = 1 /\ clock' = 0 /\ got' = 0

StartWindow ==
  /\ pc = "start" /\ ~Over
  /\ Attempt("sync")
  /\ UNCHANGED <<day, quota, need, faults>>

NextDay == day' = day + 1 /\ Attempt("start")

\* Mutant: the failure is lost (`if ! cmd; then rc=$?').
ScriptStopsQuietly == NextDay

\* cimon has failed with an exit code other than 0.
ScriptStops ==
  IF ScriptReportsFailure THEN Attempt("failed") /\ UNCHANGED day ELSE NextDay

\* The preflight check, then the listing, which costs no quota when unchanged.
PreflightFails ==
  /\ pc = "sync" /\ quota <= quota_limit
  /\ ScriptStops
  /\ UNCHANGED <<quota, need, faults>>

BeginSync ==
  /\ pc = "sync" /\ quota > quota_limit /\ clock < Timeout
  /\ pc' = "fetch" /\ clock' = clock + 1
  /\ UNCHANGED <<day, wf, quota, need, got, faults>>

Fetch ==
  /\ pc = "fetch" /\ got < need[day][wf] /\ clock < Timeout
  /\ quota > quota_limit + 1
  /\ quota' = quota - 1 /\ got' = got + 1 /\ clock' = clock + 1
  /\ UNCHANGED <<day, pc, wf, need, faults>>

MeetsQuotaLimit ==
  /\ pc = "fetch" /\ got < need[day][wf] /\ clock < Timeout
  /\ quota <= quota_limit + 1
  /\ quota' = IF quota > quota_limit THEN quota - 1 ELSE quota

\* Mutant: a sync stopped by the quota limit saves nothing.
QuotaStopsWithoutSave ==
  /\ MeetsQuotaLimit /\ ScriptStops
  /\ UNCHANGED <<need, faults>>

\* The response that reports the limit is not used; what came before it is
\* saved and the sync fails.
QuotaStops ==
  /\ MeetsQuotaLimit /\ ScriptStops
  /\ need' = [need EXCEPT ![day][wf] = @ - got]
  /\ UNCHANGED faults

\* The job stage hangs on the futures it has cancelled (JobPool), as it can at
\* every quota stop that leaves another request than the one that met the limit.
QuotaHangs ==
  /\ MeetsQuotaLimit /\ need[day][wf] - got > 1
  /\ pc' = "stuck"
  /\ UNCHANGED <<day, wf, clock, need, got, faults>>

EndSync ==
  /\ pc = "fetch" /\ got = need[day][wf]
  /\ need' = [need EXCEPT ![day][wf] = 0]
  /\ IF wf < Workflows
     THEN /\ pc' = "sync" /\ wf' = wf + 1 /\ got' = 0
          /\ UNCHANGED <<day, clock>>
     ELSE NextDay
  /\ UNCHANGED <<quota, faults>>

SyncFails ==
  /\ pc = "fetch" /\ faults < MaxFaults
  /\ faults' = faults + 1
  /\ ScriptStops
  /\ UNCHANGED <<quota, need>>

\* A connection stuck in CLOSE_WAIT.
Stuck ==
  /\ pc = "fetch" /\ faults < MaxFaults
  /\ faults' = faults + 1 /\ pc' = "stuck"
  /\ UNCHANGED <<day, wf, clock, quota, need, got>>

\* `timeout' kills the script: exit code 124 or 137.
TimeOut ==
  /\ \/ pc = "stuck"
     \/ pc = "sync" /\ clock >= Timeout
     \/ pc = "fetch" /\ got < need[day][wf] /\ clock >= Timeout
  /\ Attempt("timed out")
  /\ UNCHANGED <<day, quota, need, faults>>

\* Both pauses end, whether or not the quota has been renewed.
Retry ==
  /\ pc \in {"failed", "timed out"}
  /\ pc' = "start"
  /\ UNCHANGED <<day, wf, clock, quota, need, got, faults>>

\* The rate-limit window is renewed.
ResetQuota ==
  /\ quota < Quota /\ ~Over
  /\ quota' = Quota
  /\ UNCHANGED <<day, pc, wf, clock, need, got, faults>>

Init ==
  /\ day = 1 /\ pc = "start" /\ wf = 1 /\ clock = 0 /\ got = 0 /\ faults = 0
  /\ quota \in {quota_limit, Quota}
  /\ need \in [1..Days -> [1..Workflows -> 0..MaxNeed]]

DriverStep ==
  \/ StartWindow \/ PreflightFails \/ BeginSync \/ Fetch \/ QuotaStops \/ EndSync
  \/ TimeOut \/ Retry

Next == DriverStep \/ QuotaHangs \/ SyncFails \/ Stuck \/ ResetQuota

Spec == Init /\ [][Next]_vars

\* The scripts keep running, and GitHub renews the quota every hour.
Fairness == WF_vars(DriverStep) /\ WF_vars(ResetQuota)
FairSpec == Spec /\ Fairness

-----------------------------------------------------------------------------
\* Every variable holds values of its kind.
TypeOK ==
  /\ day \in 1..(Days + 1) /\ wf \in 1..Workflows
  /\ pc \in {"start", "sync", "fetch", "stuck", "failed", "timed out"}
  /\ clock \in 0..Timeout /\ got \in 0..MaxNeed /\ faults \in 0..MaxFaults
  /\ quota \in 0..Quota
  /\ need \in [1..Days -> [1..Workflows -> 0..MaxNeed]]

\* The driver moves on to the next day only when every workflow of the days
\* before has been synced to the end ("does not advance to the next day until
\* the current one succeeds").
PastDaysAreSynced ==
  \A d \in 1..Days : d < day => \A w \in 1..Workflows : need[d][w] = 0

\* No window of a workflow needs more requests than a whole quota allows before
\* the limit, and the one that meets it.
FitsQuota == \A d \in 1..Days, w \in 1..Workflows : need[d][w] <= Quota - quota_limit

\* The driver gets to the end of its range, over any number of quota windows and
\* of syncs that hang on the quota limit, if each workflow's window fits into
\* one quota and, after the listings of the workflows before it, into one
\* attempt: an attempt that hangs or times out saves nothing.  (A window that
\* does not fit may be killed and retried for ever: see the README.)
EveryWindowIsSynced == FitsQuota /\ MaxNeed + Workflows <= Timeout => <>Over
=============================================================================
