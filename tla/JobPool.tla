------------------------------ MODULE JobPool ------------------------------
(***************************************************************************)
(* The job-update stage of main() in workflows/synch.py in detail: main    *)
(* submits one future per run to a ThreadPoolExecutor and takes the        *)
(* results from as_completed.  The first QuotaLimitReachedError it meets   *)
(* makes it call shutdown(wait=False, cancel_futures=True); any other      *)
(* exception leaves the loop.  Leaving the `with' block joins the threads. *)
(*                                                                         *)
(* concurrent.futures is a library: its futures, queue and threads are     *)
(* modelled as this stage uses them.  shutdown() cancels the futures it    *)
(* finds in the queue but does not tell as_completed's waiter; only a      *)
(* worker that takes a cancelled future from the queue would, and the      *)
(* queue is empty by then.                                                 *)
(***************************************************************************)
EXTENDS Naturals, Sequences, FiniteSets

CONSTANTS
  Items,       \* runs_to_process
  Threads,     \* the pool's threads, --workers of them
  QuotaHits,   \* TRUE: a request can meet the quota limit
  Errors,      \* TRUE: a request can fail for another reason
  Nil          \* no item

ASSUME JobPoolAssumption ==
  /\ IsFiniteSet(Threads)
  /\ QuotaHits \in BOOLEAN
  /\ Errors \in BOOLEAN
  /\ Nil \notin Items

VARIABLES
  main,      \* where main is
  future,    \* future[i]: state or outcome of i's future
  queue,     \* the executor's work queue
  thread,    \* thread[t]: item thread t works on
  doomed,    \* items taken after the session's flag was set
  hit,       \* item whose request set session._quota_exceeded, or Nil
  yielded,   \* items as_completed has yielded
  quota,     \* `quota_exceeded is not None'
  failed,    \* an exception is leaving the loop
  cached     \* items whose jobs were written to their entry

vars == <<main, future, queue, thread, doomed, hit, yielded, quota, failed, cached>>

flagged == hit # Nil

Outcomes == {"jobs", "quota", "error"}
FutureStates == {"unsubmitted", "pending", "running", "cancelled"} \cup Outcomes

Init ==
  /\ main = "submit"
  /\ future = [i \in Items |-> "unsubmitted"]
  /\ queue = <<>>
  /\ thread = [t \in Threads |-> Nil]
  /\ doomed = {} /\ yielded = {} /\ cached = {}
  /\ hit = Nil /\ quota = FALSE /\ failed = FALSE

\* executor.submit; the threads start working at once.
Submit(i) ==
  /\ main = "submit"
  /\ future[i] = "unsubmitted"
  /\ future' = [future EXCEPT ![i] = "pending"]
  /\ queue' = Append(queue, i)
  /\ UNCHANGED <<main, thread, doomed, hit, yielded, quota, failed, cached>>

BeginIteration ==
  /\ main = "submit"
  /\ \A i \in Items : future[i] # "unsubmitted"
  /\ main' = "iterate"
  /\ UNCHANGED <<future, queue, thread, doomed, hit, yielded, quota, failed, cached>>

\* A thread takes the next future; with the flag set its first api_get raises.
TakeFuture(t) ==
  /\ thread[t] = Nil
  /\ queue # <<>>
  /\ thread' = [thread EXCEPT ![t] = Head(queue)]
  /\ future' = [future EXCEPT ![Head(queue)] = "running"]
  /\ doomed' = IF flagged THEN doomed \cup {Head(queue)} ELSE doomed
  /\ queue' = Tail(queue)
  /\ UNCHANGED <<main, hit, yielded, quota, failed, cached>>

\* Mutant: a thread that starts after the flag was set sends its request.
FinishUnaware(t, outcome) ==
  LET i == thread[t] IN
  /\ i # Nil
  /\ CASE outcome = "jobs"  -> TRUE
       [] outcome = "quota" -> flagged \/ QuotaHits
       [] OTHER             -> Errors
  /\ future' = [future EXCEPT ![i] = outcome]
  /\ thread' = [thread EXCEPT ![t] = Nil]
  /\ hit' = IF outcome = "quota" /\ ~flagged THEN i ELSE hit
  /\ UNCHANGED <<main, queue, doomed, yielded, quota, failed, cached>>

\* process_job_run returns or raises.
FinishFuture(t, outcome) ==
  LET i == thread[t] IN
  /\ i # Nil
  /\ CASE outcome = "jobs"  -> i \notin doomed
       [] outcome = "quota" -> flagged \/ QuotaHits
       [] OTHER             -> Errors /\ i \notin doomed
  /\ future' = [future EXCEPT ![i] = outcome]
  /\ thread' = [thread EXCEPT ![t] = Nil]
  /\ hit' = IF outcome = "quota" /\ ~flagged THEN i ELSE hit
  /\ UNCHANGED <<main, queue, doomed, yielded, quota, failed, cached>>

\* as_completed can yield the futures that finished, in any order.
Yieldable(i) == main = "iterate" /\ future[i] \in Outcomes /\ i \notin yielded

YieldJobs(i) ==
  /\ Yieldable(i) /\ future[i] = "jobs"
  /\ yielded' = yielded \cup {i}
  /\ cached' = cached \cup {i}
  /\ UNCHANGED <<main, future, queue, thread, doomed, hit, quota, failed>>

\* Mutant: main leaves the loop on the first quota error.
YieldQuotaAndLeave(i) ==
  /\ Yieldable(i) /\ future[i] = "quota"
  /\ yielded' = yielded \cup {i}
  /\ quota' = TRUE /\ main' = "leave"
  /\ future' = [j \in Items |-> IF future[j] = "pending" THEN "cancelled" ELSE future[j]]
  /\ queue' = <<>>
  /\ UNCHANGED <<thread, doomed, hit, failed, cached>>
YieldQuota(i) ==
  /\ Yieldable(i) /\ future[i] = "quota"
  /\ yielded' = yielded \cup {i}
  /\ quota' = TRUE
  /\ IF quota
     THEN UNCHANGED <<future, queue>>
     ELSE /\ future' = [j \in Items |-> IF future[j] = "pending" THEN "cancelled"
                                        ELSE future[j]]
          /\ queue' = <<>>
  /\ UNCHANGED <<main, thread, doomed, hit, failed, cached>>

YieldError(i) ==
  /\ Yieldable(i) /\ future[i] = "error"
  /\ yielded' = yielded \cup {i}
  /\ failed' = TRUE /\ main' = "leave"
  /\ UNCHANGED <<future, queue, thread, doomed, hit, quota, cached>>

\* Mutant: the loop waits for a job list of every item.
EndIterationWithAllJobs ==
  /\ main = "iterate"
  /\ cached = Items
  /\ main' = "leave"
  /\ UNCHANGED <<future, queue, thread, doomed, hit, yielded, quota, failed, cached>>

\* as_completed stops once it has yielded every future it was given.
EndIteration ==
  /\ main = "iterate"
  /\ yielded = Items
  /\ main' = "leave"
  /\ UNCHANGED <<future, queue, thread, doomed, hit, yielded, quota, failed, cached>>

\* The executor's __exit__: shutdown(wait=True).  After an exception the
\* queued futures are still worked off before it propagates.
Leave ==
  /\ main = "leave"
  /\ queue = <<>> /\ \A t \in Threads : thread[t] = Nil
  /\ main' = IF failed THEN "raised" ELSE "done"
  /\ UNCHANGED <<future, queue, thread, doomed, hit, yielded, quota, failed, cached>>

MainStep ==
  \/ \E i \in Items : Submit(i) \/ YieldJobs(i) \/ YieldQuota(i) \/ YieldError(i)
  \/ BeginIteration \/ EndIteration \/ Leave

ThreadStep(t) == TakeFuture(t) \/ \E o \in Outcomes : FinishFuture(t, o)

Next == MainStep \/ \E t \in Threads : ThreadStep(t)

Spec == Init /\ [][Next]_vars

\* Main and every thread keep running; requests have a timeout, so a thread
\* does not stay in one for ever.
Fairness == WF_vars(MainStep) /\ \A t \in Threads : WF_vars(ThreadStep(t))
FairSpec == Spec /\ Fairness

-----------------------------------------------------------------------------
\* Every variable of the stage holds values of its kind.
TypeOK ==
  /\ main \in {"submit", "iterate", "leave", "done", "raised"}
  /\ future \in [Items -> FutureStates]
  /\ queue \in Seq(Items)
  /\ thread \in [Threads -> Items \cup {Nil}]
  /\ doomed \in SUBSET Items
  /\ yielded \in SUBSET Items
  /\ cached \in SUBSET Items
  /\ hit \in Items \cup {Nil} /\ quota \in BOOLEAN /\ failed \in BOOLEAN

\* When the stage ends normally every job list that was fetched, before or
\* after the quota error, is in its entry: the loop goes on after the error so
\* that threads in flight are not lost.
NothingFetchedIsLost ==
  main = "done" => \A i \in Items : future[i] = "jobs" => i \in cached

\* The stage ends, so that main gets to saving what was fetched.
Over == main \in {"done", "raised"}
StageEnds == <>Over

\* Only cancelled futures can keep the stage from ending: quota hits and other
\* errors without queued futures never do.
StageEndsUnlessCancelled == <>(Over \/ \E i \in Items : future[i] = "cancelled")

-----------------------------------------------------------------------------
(* The stage as RunSync has it, one step per job list: there `todo' and    *)
(* `busy' are what is still to be fetched and what is being fetched, and   *)
(* the quota limit counts from the moment main learns of it.  What GitHub  *)
(* and the cache hold is fixed here, one job per run.                      *)

Submitted == {"unsubmitted", "pending", "cancelled"}

\* An exception in a thread keeps main from getting past the stage.
Failing == main # "done" /\ \E i \in Items : future[i] = "error"

\* A future that was started too late fails without a request: for RunSync it
\* is one of those that were still queued, and then cancelled.
ToFetch ==
  IF Failing THEN {}
  ELSE {i \in Items : future[i] \in Submitted} \cup (IF quota THEN {} ELSE doomed)

\* The others are under way until main learns their outcome; if it learns of
\* the limit from a late one first, that stands for the request that met it.
Fetching ==
  IF Failing THEN {}
  ELSE {i \in Items \ doomed :
          \/ future[i] = "running"
          \/ /\ future[i] = "quota" /\ i \notin yielded
             /\ i = hit => doomed \cap yielded = {}}

\* The runs whose entry has its job list; in the end those that main has taken.
Fetched ==
  IF main \in {"submit", "iterate"} THEN {i \in Items : future[i] = "jobs"} ELSE cached

OnlyJob == <<1, 1>>
OneJobEach ==
  [i \in Items |-> [status |-> "completed", attempt |-> 1, jobs |-> {OnlyJob},
                    done |-> {OnlyJob}, linked |-> FALSE, late |-> FALSE]]
EntryWith(jobs) ==
  [present |-> TRUE, attempt |-> 1, status |-> "completed", linked |-> FALSE,
   jobs |-> jobs, done |-> jobs, last |-> Cardinality(jobs), atts |-> <<"completed">>]
NoEntry ==
  [present |-> FALSE, attempt |-> 1, status |-> "queued", linked |-> FALSE,
   jobs |-> {}, done |-> {}, last |-> 0, atts |-> <<"absent">>]

StagePc ==
  IF Failing THEN "idle"
  ELSE IF main \in {"submit", "iterate"} THEN "jobs"
  ELSE IF quota THEN "save"
  ELSE "attempts"
StageEntry ==
  [i \in Items |-> IF Failing THEN NoEntry
                   ELSE EntryWith(IF i \in Fetched THEN {OnlyJob} ELSE {})]

Stage == INSTANCE RunSync WITH
  Runs <- Items, Workflows <- {"workflow"}, Owner <- [i \in Items |-> "workflow"],
  MaxAttempt <- 1, JobNums <- {1}, Deletes <- FALSE,
  Workers <- Cardinality(Threads), WholeScans <- TRUE, Nil <- "none",
  gh <- OneJobEach,
  store <- [i \in Items |-> [rows |-> {}, wf |-> "none", linked |-> FALSE, last |-> 0]],
  pc <- StagePc,
  wf <- IF Failing THEN "none" ELSE "workflow",
  window <- {}, again <- {},
  resp <- [i \in Items |-> [status |-> "absent", attempt |-> 1, linked |-> FALSE]],
  entry <- StageEntry,
  todo <- ToFetch, busy <- Fetching,
  quota <- quota /\ ~Failing

\* The pool with its threads, its late results and its cancelled futures does
\* no more than the stage of RunSync, in which a request and what main does
\* with its result are one step: every step is one of RunSync's or none.
IsJobStage == [][Stage!Next]_Stage!vars
=============================================================================
