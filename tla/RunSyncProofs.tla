--------------------------- MODULE RunSyncProofs ---------------------------
(***************************************************************************)
(* Theorems about RunSync, for any runs, workflows, attempts and jobs:     *)
(* its types, what no sync loses, and that any number of syncs implement   *)
(* the abstract mirror of CacheMirror.                                     *)
(***************************************************************************)
EXTENDS RunSync, TLAPS

-----------------------------------------------------------------------------
(* The operators the actions are built from.                               *)

\* The status a cache gives an attempt is that of one of its rows.
LEMMA CachedStatusFromRow ==
  ASSUME NEW s, NEW k, CachedStatus(s, k) # "absent"
  PROVE  \E row \in s.rows : row.att = k /\ row.status = CachedStatus(s, k)
<1>1. k \in CachedAttempts(s)
  BY DEF CachedStatus
<1>2. \E row \in s.rows : row.att = k
  BY <1>1 DEF CachedAttempts
<1>3. PICK row \in s.rows : row = CHOOSE x \in s.rows : x.att = k
  BY <1>2
<1>4. row.att = k
  BY <1>2, <1>3
<1>5. CachedStatus(s, k) = row.status
  BY <1>1, <1>3 DEF CachedStatus
<1> QED
  BY <1>4, <1>5

LEMMA CachedStatusType ==
  ASSUME NEW s \in Stored, NEW k
  PROVE  CachedStatus(s, k) \in RunStatus \cup {"absent"}
<1>1. CASE CachedStatus(s, k) = "absent"
  BY <1>1
<1>2. CASE CachedStatus(s, k) # "absent"
  <2>1. PICK row \in s.rows : row.status = CachedStatus(s, k)
    BY <1>2, CachedStatusFromRow
  <2>2. row \in Row
    BY DEF Stored
  <2> QED
    BY <2>1, <2>2 DEF Row
<1> QED
  BY <1>1, <1>2

\* The cached jobs of a run are jobs, the finished ones among them too.
LEMMA CachedJobsType ==
  ASSUME NEW s \in Stored
  PROVE  CachedJobs(s) \in SUBSET JobIds
<1>1. \A row \in s.rows : row.job \in JobIds \cup {Nil}
  BY DEF Stored, Row
<1> QED
  BY <1>1 DEF CachedJobs

LEMMA EmptyTypes ==
  /\ NotStored \in Stored
  /\ NoSnapshot \in Snapshot
  /\ NoEntry \in Entry
BY GitHubAssumption DEF NotStored, NoSnapshot, NoEntry, Stored, Snapshot, Entry,
   Attempts, RunStatus, Active

LEMMA AttemptOfType ==
  ASSUME NEW job \in JobIds
  PROVE  AttemptOf(job) \in Attempts
BY DEF JobIds, AttemptOf

LEMMA UpdatedEntryType ==
  ASSUME NEW s \in Stored, NEW snap \in Snapshot, snap.status \in RunStatus
  PROVE  UpdatedEntry(s, snap) \in Entry
<1> DEFINE new == create_run_cache_entry(snap)
           fresh == WithCachedAttempts(new, s)
           e == IF Known(s) THEN update_run_cache_entry(fresh, snap) ELSE fresh
<1>1. new \in Entry
  BY EmptyTypes DEF create_run_cache_entry, Entry, Snapshot
<1>2. fresh \in Entry
  <2>1. \A k \in Attempts : CachedStatus(s, k) \in RunStatus \cup {"absent"}
    BY CachedStatusType
  <2> HIDE DEF new
  <2> QED
    BY <1>1, <2>1 DEF WithCachedAttempts, Entry
<1>3. e \in Entry
  <2> HIDE DEF fresh
  <2> QED
    BY <1>2 DEF update_run_cache_entry, Entry, Snapshot
<1>4. CASE KeepsCachedJobs(s, snap)
  <2>1. CachedJobs(s) \in SUBSET JobIds /\ CachedDone(s) \in SUBSET JobIds
    BY <1>4, CachedJobsType DEF KeepsCachedJobs
  <2>2. UpdatedEntry(s, snap)
          = [e EXCEPT !.jobs = CachedJobs(s), !.done = CachedDone(s), !.last = s.last]
    BY <1>4 DEF UpdatedEntry
  <2>3. s.last \in 0..MaxAttempt
    BY DEF Stored
  <2> HIDE DEF e
  <2> QED
    BY <1>3, <2>1, <2>2, <2>3 DEF Entry
<1>5. CASE ~KeepsCachedJobs(s, snap)
  BY <1>3, <1>5 DEF UpdatedEntry
<1> QED
  BY <1>4, <1>5

LEMMA RowsType ==
  ASSUME NEW e \in Entry
  PROVE  cache_to_parquet_rows(e) \in SUBSET Row
<1>1. ASSUME NEW job \in e.jobs
      PROVE  RowOf(e, job) \in Row
  <2>1. job \in JobIds /\ AttemptOf(job) \in Attempts
    BY AttemptOfType DEF Entry
  <2>2. e.atts[AttemptOf(job)] \in RunStatus \cup {"absent"}
    BY <2>1 DEF Entry
  <2>3. e.attempt \in Attempts /\ e.status \in RunStatus
    BY DEF Entry
  <2> QED
    BY <2>1, <2>2, <2>3 DEF RowOf, Row
<1>2. [att |-> e.attempt, status |-> e.status, job |-> Nil, done |-> FALSE] \in Row
  BY DEF Entry, Row
<1> QED
  BY <1>1, <1>2 DEF cache_to_parquet_rows

LEMMA MergedRowsType ==
  ASSUME NEW s \in Stored, NEW e \in Entry, wf \in Workflows \cup {Nil}
  PROVE  MergedRows(s, e) \in Stored
BY RowsType DEF MergedRows, Stored, Entry

\* What a new job changes, with its effect on the history as a value.
LEMMA NewJob ==
  ASSUME GhTypeOK, NEW r \in Runs, GhCreateJob(r)
  PROVE  \E n \in JobNums, l \in BOOLEAN :
           /\ l <=> gh[r].late \/ AllDone(r)
           /\ gh' = [gh EXCEPT ![r] =
                [gh[r] EXCEPT !.jobs = gh[r].jobs \cup {<<gh[r].attempt, n>>}, !.late = l]]
<1>1. PICK n \in JobNums : gh' = [gh EXCEPT ![r] =
        [gh[r] EXCEPT !.jobs = gh[r].jobs \cup {<<gh[r].attempt, n>>},
                      !.late = gh[r].late \/ AllDone(r)]]
  BY Zenon DEF GhCreateJob
<1> DEFINE now == gh[r].late \/ AllDone(r)
<1>2. now \in BOOLEAN
  OBVIOUS
<1>3. gh' = [gh EXCEPT ![r] =
        [gh[r] EXCEPT !.jobs = gh[r].jobs \cup {<<gh[r].attempt, n>>}, !.late = now]]
  BY <1>1
<1> HIDE DEF now
<1>4. \E l \in BOOLEAN :
        /\ l = now
        /\ gh' = [gh EXCEPT ![r] =
             [gh[r] EXCEPT !.jobs = gh[r].jobs \cup {<<gh[r].attempt, n>>}, !.late = l]]
  BY <1>2, <1>3, Zenon
<1> QED
  BY <1>4, Zenon DEF now

LEMMA GhTypePreserved ==
  ASSUME GhTypeOK, GhNext
  PROVE  GhTypeOK'
<1> USE GitHubAssumption
<1>1. PICK r \in Runs :
        \/ GhCreateRun(r) \/ GhStartRun(r) \/ GhCreateJob(r) \/ GhFinishJob(r)
        \/ GhCompleteRun(r) \/ GhRerun(r) \/ GhLoseLink(r) \/ GhDelete(r)
  BY DEF GhNext
<1> USE DEF GhTypeOK, GhStatus, RunStatus, Active
<1>3. CASE GhCreateRun(r)
  <2>1. PICK l \in BOOLEAN :
          gh' = [gh EXCEPT ![r] = [gh[r] EXCEPT !.status = "queued", !.linked = l]]
    BY <1>3 DEF GhCreateRun
  <2> QED
    BY <2>1
<1>4. CASE GhStartRun(r)
  BY <1>4 DEF GhStartRun
<1>5. CASE GhCreateJob(r)
  <2>1. PICK n \in JobNums, l \in BOOLEAN :
          gh' = [gh EXCEPT ![r] =
            [gh[r] EXCEPT !.jobs = gh[r].jobs \cup {<<gh[r].attempt, n>>}, !.late = l]]
    BY <1>5, NewJob
  <2>2. <<gh[r].attempt, n>> \in JobIds
    BY DEF JobIds
  <2> QED
    BY <2>1, <2>2
<1>6. CASE GhFinishJob(r)
  BY <1>6 DEF GhFinishJob
<1>7. CASE GhCompleteRun(r)
  BY <1>7 DEF GhCompleteRun
<1>8. CASE GhRerun(r)
  <2>1. gh[r].attempt + 1 \in Attempts
    BY <1>8 DEF GhRerun, Attempts
  <2> QED
    BY <1>8, <2>1 DEF GhRerun
<1>9. CASE GhLoseLink(r)
  BY <1>9 DEF GhLoseLink
<1>10. CASE GhDelete(r)
  BY <1>10 DEF GhDelete
<1> QED
  BY <1>1, <1>3, <1>4, <1>5, <1>6, <1>7, <1>8, <1>9, <1>10

-----------------------------------------------------------------------------
(* Type correctness.                                                       *)

LEMMA TypeInit == Init => TypeOK
<1> SUFFICES ASSUME Init PROVE TypeOK
  OBVIOUS
<1>1. GhTypeOK
  BY GitHubAssumption DEF Init, GhInit, GhTypeOK, GhStatus, RunStatus, Active, Attempts
<1> QED
  BY <1>1, EmptyTypes DEF Init, TypeOK, Phases, Active

\* The state a sync leaves behind when its process ends.
LEMMA IdleType ==
  ASSUME TypeOK, Idle("idle")
  PROVE  /\ pc' \in Phases /\ wf' \in Workflows \cup {Nil} /\ window' \in SUBSET Runs
         /\ resp' \in [Runs -> Snapshot] /\ entry' \in [Runs -> Entry]
         /\ todo' \in SUBSET Runs /\ busy' \in SUBSET Runs
         /\ again' \in SUBSET Runs /\ quota' \in BOOLEAN
BY EmptyTypes DEF Idle, Phases

LEMMA SnapshotType ==
  ASSUME TypeOK, NEW r \in Runs, Exists(r)
  PROVE  SnapshotOf(r) \in Snapshot
BY DEF TypeOK, GhTypeOK, SnapshotOf, Snapshot, Exists

LEMMA TypeStep == TypeOK /\ [Next]_vars => TypeOK'
<1> SUFFICES ASSUME TypeOK, [Next]_vars PROVE TypeOK'
  OBVIOUS
<1> USE DEF TypeOK
<1>1. CASE GitHubStep
  <2>1. GhTypeOK'
    BY <1>1, GhTypePreserved DEF GitHubStep
  <2> QED
    BY <1>1, <2>1 DEF GitHubStep, local
<1> USE DEF GhTypeOK
<1>2. ASSUME NEW w \in Workflows, NEW W \in SUBSET Runs, StartSync(w, W)
      PROVE  TypeOK'
  BY <1>2 DEF StartSync, Phases
<1>3. ASSUME NEW r \in Runs, ListRun(r)
      PROVE  TypeOK'
  <2>1. Exists(r)
    BY <1>3 DEF ListRun, Unlisted, Exists, Active, RunStatus
  <2>2. SnapshotOf(r) \in Snapshot
    BY <2>1, SnapshotType
  <2> QED
    BY <1>3, <2>2 DEF ListRun
<1>3a. ASSUME NEW r \in Runs, ListRunAgain(r)
       PROVE  TypeOK'
  <2>1. SnapshotOf(r) \in Snapshot
    BY <1>3a, SnapshotType DEF ListRunAgain
  <2> QED
    BY <1>3a, <2>1 DEF ListRunAgain
<1>4. CASE EndListing
  <2>1. pc' \in Phases
    BY <1>4 DEF EndListing, NextListing, Phases, Active, ACTIVE_RUN_STATUSES
  <2>2. window' \in SUBSET Runs /\ todo' \in SUBSET Runs
    BY <1>4 DEF EndListing, find_stale_active_run_ids
  <2> QED
    BY <1>4, <2>1, <2>2 DEF EndListing
<1>5. ASSUME NEW r \in Runs, FetchStaleRun(r)
      PROVE  TypeOK'
  <2>1. SnapshotOf(r) \in Snapshot
    BY <1>5, SnapshotType DEF FetchStaleRun
  <2> QED
    BY <1>5, <2>1 DEF FetchStaleRun
<1>6. CASE EndReconcile
  BY <1>6 DEF EndReconcile, Phases
<1>7. CASE QuotaWhileListing
  BY <1>7 DEF QuotaWhileListing, Phases
<1>8. CASE UpdateRuns
  <2>1. ASSUME NEW r \in Runs, Returned(r)
        PROVE  UpdatedEntry(store[r], resp[r]) \in Entry
    BY <2>1, UpdatedEntryType DEF Returned, Snapshot
  <2>2. entry' \in [Runs -> Entry] /\ resp' \in [Runs -> Snapshot]
    BY <1>8, <2>1, EmptyTypes DEF UpdateRuns
  <2> QED
    BY <1>8, <2>2 DEF UpdateRuns, Phases
<1>9. ASSUME NEW r \in Runs, StartFetchJobs(r)
      PROVE  TypeOK'
  BY <1>9 DEF StartFetchJobs
<1>10. ASSUME NEW r \in Runs, FetchJobs(r)
       PROVE  TypeOK'
  <2>1. PICK last \in IF gh[r].jobs = {} THEN {0} ELSE {AttemptOf(job) : job \in gh[r].jobs} :
          entry' = [entry EXCEPT ![r] = [@ EXCEPT !.jobs = gh[r].jobs,
                                                  !.done = gh[r].done, !.last = last]]
    BY <1>10 DEF FetchJobs
  <2>2. last \in 0..MaxAttempt
    <3>1. \A job \in gh[r].jobs : AttemptOf(job) \in Attempts
      BY AttemptOfType
    <3> QED
      BY <2>1, <3>1, GitHubAssumption DEF Attempts
  <2>3. entry' \in [Runs -> Entry]
    BY <2>1, <2>2 DEF Entry
  <2> QED
    BY <1>10, <2>3 DEF FetchJobs
<1>11. ASSUME NEW r \in Runs, QuotaWhileFetchingJobs(r)
       PROVE  TypeOK'
  BY <1>11 DEF QuotaWhileFetchingJobs
<1>12. CASE EndJobs
  BY <1>12 DEF EndJobs, Phases
<1>13. ASSUME NEW r \in Runs, FetchAttempt(r)
       PROVE  TypeOK'
  <2>1. PICK k \in MissingAttempts(entry[r]) :
          /\ AttemptStatus(r, k) \in RunStatus
          /\ entry' = [entry EXCEPT ![r].atts[k] = AttemptStatus(r, k)]
    BY <1>13 DEF FetchAttempt
  <2>2. entry' \in [Runs -> Entry]
    BY <2>1 DEF Entry
  <2> QED
    BY <1>13, <2>2 DEF FetchAttempt
<1>14. CASE EndAttempts
  BY <1>14 DEF EndAttempts, Phases
<1>15. CASE QuotaWhileFetchingAttempts
  BY <1>15 DEF QuotaWhileFetchingAttempts, Phases
<1>16. CASE Save
  <2>1. \A r \in Runs : MergedRows(store[r], entry[r]) \in Stored
    BY MergedRowsType
  <2>2. store' \in [Runs -> Stored]
    BY <1>16, <2>1 DEF Save
  <2> QED
    BY <1>16, <2>2, IdleType DEF Save
<1>17. CASE NotFound
  BY <1>17, IdleType DEF NotFound
<1>18. CASE Abort
  BY <1>18, IdleType DEF Abort
<1>19. CASE UNCHANGED vars
  BY <1>19 DEF vars, local
<1> QED
  BY <1>1, <1>2, <1>3, <1>4, <1>5, <1>6, <1>7, <1>8, <1>9, <1>10, <1>11, <1>12,
     <1>13, <1>14, <1>15, <1>16, <1>17, <1>18, <1>19, <1>3a
     DEF Next, SyncStep, QuotaStep

\* All of main's state stays of its kind through any number of syncs.
THEOREM TypeCorrect == Spec => []TypeOK
<1> QED
  BY TypeInit, TypeStep, PTL DEF Spec

-----------------------------------------------------------------------------
(* The cache never runs ahead of GitHub.  Inductive strengthening: neither *)
(* do the returned runs nor the entries the rows are made from.            *)

SnapshotNotAhead(r) == Happened(r, resp[r].attempt, resp[r].status)

EntryNotAhead(r) ==
  /\ Happened(r, entry[r].attempt, entry[r].status)
  /\ entry[r].jobs \subseteq gh[r].jobs
  /\ entry[r].done \subseteq gh[r].done
  /\ \A k \in Attempts : entry[r].atts[k] # "absent" => Happened(r, k, entry[r].atts[k])

RowNotAhead(r, row) ==
  /\ Happened(r, row.att, row.status)
  /\ row.job # Nil => row.job \in gh[r].jobs
  /\ row.done => row.job \in gh[r].done

StoredNotAhead(r) == \A row \in store[r].rows : RowNotAhead(r, row)

JobsMakeSense(r) ==
  /\ gh[r].done \subseteq gh[r].jobs
  /\ gh[r].status = "absent" => gh[r].jobs = {}
  /\ \A job \in gh[r].jobs : AttemptOf(job) <= gh[r].attempt

NeverAhead ==
  \A r \in Runs : /\ JobsMakeSense(r)
                  /\ SnapshotNotAhead(r) /\ EntryNotAhead(r) /\ StoredNotAhead(r)

\* What has happened on GitHub stays so, jobs stay and finished ones stay done.
LEMMA GitHubOnlyGrows ==
  ASSUME GhTypeOK, GhNext, NEW r \in Runs, JobsMakeSense(r)
  PROVE  /\ JobsMakeSense(r)'
         /\ gh[r].jobs \subseteq gh'[r].jobs
         /\ gh[r].done \subseteq gh'[r].done
         /\ \A k \in Attempts, s \in RunStatus \cup {"absent"} :
              Happened(r, k, s) => Happened(r, k, s)'
<1> DEFINE Grows ==
      /\ JobsMakeSense(r)'
      /\ gh[r].jobs \subseteq gh'[r].jobs
      /\ gh[r].done \subseteq gh'[r].done
      /\ \/ gh[r].attempt < gh'[r].attempt
         \/ /\ gh[r].attempt = gh'[r].attempt
            /\ gh[r].status \in {"completed", "deleted"}
               => gh'[r].status \in {"completed", "deleted"}
<1>1. Grows
  <2>1. PICK q \in Runs :
          \/ GhCreateRun(q) \/ GhStartRun(q) \/ GhCreateJob(q) \/ GhFinishJob(q)
          \/ GhCompleteRun(q) \/ GhRerun(q) \/ GhLoseLink(q) \/ GhDelete(q)
    BY DEF GhNext
  <2>2. gh[r].attempt \in Nat /\ 1 <= gh[r].attempt
    BY GitHubAssumption DEF GhTypeOK, Attempts
  <2> USE <2>2 DEF GhTypeOK, JobsMakeSense
  <2>3. CASE GhCreateRun(q)
    BY <2>3 DEF GhCreateRun, AttemptOf
  <2>4. CASE GhStartRun(q)
    BY <2>4 DEF GhStartRun
  <2>5. CASE GhCreateJob(q)
    <3>1. PICK n \in JobNums, l \in BOOLEAN :
            gh' = [gh EXCEPT ![q] =
              [gh[q] EXCEPT !.jobs = gh[q].jobs \cup {<<gh[q].attempt, n>>}, !.late = l]]
      BY <2>5, NewJob
    <3>2. gh[q].status \in Active
      BY <2>5 DEF GhCreateJob
    <3> QED
      BY <3>1, <3>2 DEF Active, AttemptOf
  <2>6. CASE GhFinishJob(q)
    BY <2>6 DEF GhFinishJob
  <2>7. CASE GhCompleteRun(q)
    BY <2>7 DEF GhCompleteRun
  <2>8. CASE GhRerun(q)
    <3>1. \A job \in gh[q].jobs : AttemptOf(job) \in Nat
      BY AttemptOfType, GitHubAssumption DEF Attempts
    <3>2. gh[q].attempt \in Nat
      BY GitHubAssumption DEF Attempts
    <3>3. CASE q = r
      BY <2>8, <3>1, <3>2, <3>3 DEF GhRerun
    <3>4. CASE q # r
      BY <2>8, <3>4 DEF GhRerun
    <3> QED
      BY <3>3, <3>4
  <2>9. CASE GhLoseLink(q)
    BY <2>9 DEF GhLoseLink
  <2>10. CASE GhDelete(q)
    BY <2>10 DEF GhDelete
  <2> QED
    BY <2>1, <2>3, <2>4, <2>5, <2>6, <2>7, <2>8, <2>9, <2>10
<1>2. /\ gh[r].attempt \in Nat /\ gh'[r].attempt \in Nat
      /\ \A k \in Attempts : k \in Nat
  BY GhTypePreserved, GitHubAssumption DEF GhTypeOK, Attempts
<1>3. ASSUME NEW k \in Attempts, NEW s \in RunStatus \cup {"absent"}, Happened(r, k, s)
      PROVE  Happened(r, k, s)'
  BY <1>1, <1>2, <1>3 DEF Happened, AttemptStatus
<1> QED
  BY <1>1, <1>3

LEMMA NeverAheadInit == Init => NeverAhead
BY GitHubAssumption DEF Init, GhInit, NotStored, NoSnapshot, NoEntry, NeverAhead,
   JobsMakeSense, SnapshotNotAhead, EntryNotAhead, StoredNotAhead, Happened, Attempts

\* A process that has ended holds nothing.
LEMMA IdleNotAhead ==
  ASSUME TypeOK, NeverAhead, Idle("idle"), UNCHANGED gh, NEW r \in Runs
  PROVE  SnapshotNotAhead(r)' /\ EntryNotAhead(r)'
<1>1. gh[r].attempt \in Nat /\ 1 <= gh[r].attempt
  BY GitHubAssumption DEF TypeOK, GhTypeOK, Attempts
<1> QED
  BY <1>1 DEF Idle, SnapshotNotAhead, EntryNotAhead, Happened, NoSnapshot, NoEntry

\* A run the API returns is one that exists.
LEMMA SnapshotHappened ==
  ASSUME TypeOK, NEW r \in Runs
  PROVE  Happened(r, SnapshotOf(r).attempt, SnapshotOf(r).status)
<1>1. gh[r].attempt \in Nat
  BY GitHubAssumption DEF TypeOK, GhTypeOK, Attempts
<1> QED
  BY <1>1 DEF SnapshotOf, Happened, AttemptStatus

\* The update loop builds an entry from a returned run and cached rows.
LEMMA UpdatedEntryNotAhead ==
  ASSUME TypeOK, NEW r \in Runs, SnapshotNotAhead(r), StoredNotAhead(r), Returned(r),
         NEW e, e = UpdatedEntry(store[r], resp[r])
  PROVE  /\ Happened(r, e.attempt, e.status)
         /\ e.jobs \subseteq gh[r].jobs
         /\ e.done \subseteq gh[r].done
         /\ \A k \in Attempts : e.atts[k] # "absent" => Happened(r, k, e.atts[k])
<1> DEFINE s == store[r]
           snap == resp[r]
<1>1. s \in Stored /\ snap \in Snapshot /\ snap.status \in RunStatus
  BY DEF TypeOK, Returned, Snapshot
<1>2. /\ CachedJobs(s) \subseteq gh[r].jobs
      /\ CachedDone(s) \subseteq gh[r].done
  BY DEF CachedJobs, CachedDone, StoredNotAhead, RowNotAhead
<1>3. ASSUME NEW k \in Attempts, CachedStatus(s, k) # "absent"
      PROVE  Happened(r, k, CachedStatus(s, k))
  BY <1>3, CachedStatusFromRow DEF StoredNotAhead, RowNotAhead
<1>4. /\ e.attempt = snap.attempt /\ e.status = snap.status
      /\ \/ e.jobs = {} /\ e.done = {}
         \/ e.jobs = CachedJobs(s) /\ e.done = CachedDone(s)
      /\ \A k \in Attempts :
           e.atts[k] = IF k = snap.attempt THEN snap.status ELSE CachedStatus(s, k)
  BY <1>1 DEF UpdatedEntry, update_run_cache_entry, WithCachedAttempts,
              create_run_cache_entry, NoEntry, Snapshot
<1> QED
  BY <1>2, <1>3, <1>4 DEF SnapshotNotAhead

\* The rows of an entry say what the entry says.
LEMMA RowsNotAhead ==
  ASSUME TypeOK, NEW r \in Runs, EntryNotAhead(r),
         NEW row \in cache_to_parquet_rows(entry[r])
  PROVE  RowNotAhead(r, row)
<1>1. entry[r] \in Entry
  BY DEF TypeOK
<1>2. CASE entry[r].jobs = {}
  BY <1>2 DEF cache_to_parquet_rows, EntryNotAhead, RowNotAhead
<1>3. CASE entry[r].jobs # {}
  <2>1. PICK job \in entry[r].jobs : row = RowOf(entry[r], job)
    BY <1>3 DEF cache_to_parquet_rows
  <2>2. AttemptOf(job) \in Attempts
    BY <1>1, AttemptOfType DEF Entry
  <2> QED
    BY <2>1, <2>2 DEF RowOf, EntryNotAhead, RowNotAhead
<1> QED
  BY <1>2, <1>3

LEMMA NeverAheadStep == TypeOK /\ NeverAhead /\ [Next]_vars => NeverAhead'
<1> SUFFICES ASSUME TypeOK, NeverAhead, [Next]_vars, NEW r \in Runs
             PROVE  /\ JobsMakeSense(r)' /\ SnapshotNotAhead(r)'
                    /\ EntryNotAhead(r)' /\ StoredNotAhead(r)'
  BY DEF NeverAhead
<1> DEFINE Goal == /\ JobsMakeSense(r)' /\ SnapshotNotAhead(r)'
                   /\ EntryNotAhead(r)' /\ StoredNotAhead(r)'
<1>0. /\ JobsMakeSense(r) /\ SnapshotNotAhead(r)
      /\ EntryNotAhead(r) /\ StoredNotAhead(r)
  BY DEF NeverAhead
<1> USE <1>0
<1>1. CASE GitHubStep
  <2>1. /\ UNCHANGED <<store, resp, entry>>
        /\ GhTypeOK /\ GhNext
    BY <1>1 DEF GitHubStep, local, TypeOK
  <2>2. /\ JobsMakeSense(r)'
        /\ gh[r].jobs \subseteq gh'[r].jobs
        /\ gh[r].done \subseteq gh'[r].done
        /\ \A k \in Attempts, s \in RunStatus \cup {"absent"} :
             Happened(r, k, s) => Happened(r, k, s)'
    BY <2>1, GitHubOnlyGrows
  <2>3. SnapshotNotAhead(r)'
    BY <2>1, <2>2 DEF SnapshotNotAhead, TypeOK, Snapshot
  <2>4. EntryNotAhead(r)'
    BY <2>1, <2>2 DEF EntryNotAhead, TypeOK, Entry
  <2>5. StoredNotAhead(r)'
    <3>1. \A row \in store[r].rows : row \in Row
      BY DEF TypeOK, Stored
    <3> QED
      BY <2>1, <2>2, <3>1 DEF StoredNotAhead, RowNotAhead, Row
  <2> QED
    BY <2>2, <2>3, <2>4, <2>5
<1> USE DEF JobsMakeSense, SnapshotNotAhead, EntryNotAhead, StoredNotAhead, RowNotAhead,
            Happened, AttemptStatus
<1>2. ASSUME NEW w \in Workflows, NEW W \in SUBSET Runs, StartSync(w, W)
      PROVE  Goal
  BY <1>2 DEF StartSync
<1>3. ASSUME NEW q \in Runs, ListRun(q) \/ ListRunAgain(q) \/ FetchStaleRun(q)
      PROVE  Goal
  <2>1. /\ UNCHANGED <<gh, store, entry>>
        /\ resp' = [resp EXCEPT ![q] = SnapshotOf(q)]
    BY <1>3 DEF ListRun, ListRunAgain, FetchStaleRun
  <2>2. Happened(q, SnapshotOf(q).attempt, SnapshotOf(q).status)
    BY SnapshotHappened
  <2> QED
    BY <2>1, <2>2 DEF TypeOK
<1>4. CASE EndListing \/ EndReconcile \/ QuotaWhileListing \/ EndJobs \/ EndAttempts
           \/ QuotaWhileFetchingAttempts
  BY <1>4 DEF EndListing, EndReconcile, QuotaWhileListing, EndJobs, EndAttempts,
              QuotaWhileFetchingAttempts
<1>5. CASE UpdateRuns
  <2>1. UNCHANGED <<gh, store>> /\ resp'[r] = NoSnapshot
    BY <1>5 DEF UpdateRuns
  <2>2. gh[r].attempt \in Nat /\ 1 <= gh[r].attempt
    BY GitHubAssumption DEF TypeOK, GhTypeOK, Attempts
  <2>3. SnapshotNotAhead(r)'
    BY <2>1, <2>2 DEF NoSnapshot
  <2>4. EntryNotAhead(r)'
    <3>1. CASE Returned(r)
      <4>1. entry'[r] = UpdatedEntry(store[r], resp[r])
        BY <1>5, <3>1 DEF UpdateRuns
      <4> QED
        BY <2>1, <3>1, <4>1, UpdatedEntryNotAhead
    <3>2. CASE ~Returned(r)
      <4>1. entry'[r] = NoEntry
        BY <1>5, <3>2 DEF UpdateRuns
      <4> QED
        BY <2>1, <2>2, <4>1 DEF NoEntry
    <3> QED
      BY <3>1, <3>2
  <2> QED
    BY <2>1, <2>3, <2>4
<1>6. ASSUME NEW q \in Runs, StartFetchJobs(q) \/ QuotaWhileFetchingJobs(q)
      PROVE  Goal
  BY <1>6 DEF StartFetchJobs, QuotaWhileFetchingJobs
<1>7. ASSUME NEW q \in Runs, FetchJobs(q)
      PROVE  Goal
  <2>1. PICK last :
          entry' = [entry EXCEPT ![q] = [@ EXCEPT !.jobs = gh[q].jobs,
                                                  !.done = gh[q].done, !.last = last]]
    BY <1>7 DEF FetchJobs
  <2> QED
    BY <1>7, <2>1 DEF FetchJobs, TypeOK, Entry
<1>8. ASSUME NEW q \in Runs, FetchAttempt(q)
      PROVE  Goal
  <2>1. UNCHANGED <<gh, store, resp>>
    BY <1>8 DEF FetchAttempt
  <2>2. PICK k \in MissingAttempts(entry[q]) :
          /\ AttemptStatus(q, k) \in RunStatus
          /\ entry' = [entry EXCEPT ![q].atts[k] = AttemptStatus(q, k)]
    BY <1>8 DEF FetchAttempt
  <2>3. k <= gh[q].attempt
    <3>1. PICK job \in entry[q].jobs : k = AttemptOf(job)
      BY <2>2 DEF MissingAttempts
    <3>2. job \in gh[q].jobs
      BY <3>1 DEF NeverAhead
    <3>3. JobsMakeSense(q)
      BY DEF NeverAhead
    <3> QED
      BY <3>1, <3>2, <3>3
  <2> QED
    BY <2>1, <2>2, <2>3 DEF TypeOK, Entry
<1>9. CASE Save
  <2>1. SnapshotNotAhead(r)' /\ EntryNotAhead(r)' /\ JobsMakeSense(r)'
    BY <1>9, IdleNotAhead DEF Save
  <2>2. ASSUME NEW row \in store'[r].rows
        PROVE  RowNotAhead(r, row)'
    <3>1. UNCHANGED gh /\ store'[r] = MergedRows(store[r], entry[r])
      BY <1>9 DEF Save
    <3>2. row \in store[r].rows \/ row \in cache_to_parquet_rows(entry[r])
      BY <3>1 DEF MergedRows
    <3>3. RowNotAhead(r, row)
      BY <3>2, RowsNotAhead
    <3> QED
      BY <3>1, <3>3
  <2> QED
    BY <2>1, <2>2
<1>10. CASE NotFound \/ Abort
  <2>1. Idle("idle") /\ UNCHANGED <<gh, store>>
    BY <1>10 DEF NotFound, Abort
  <2>2. SnapshotNotAhead(r)' /\ EntryNotAhead(r)'
    BY <2>1, IdleNotAhead
  <2> QED
    BY <2>1, <2>2
<1>11. CASE UNCHANGED vars
  BY <1>11 DEF vars, local
<1> QED
  BY <1>1, <1>2, <1>3, <1>4, <1>5, <1>6, <1>7, <1>8, <1>9, <1>10, <1>11
     DEF Next, SyncStep, QuotaStep

\* Whatever GitHub does between two API calls, and wherever a sync dies, the
\* rows of the cache only say what has happened on GitHub.
THEOREM CacheIsNeverAhead == Spec => []CacheNeverAhead
<1>1. NeverAhead => CacheNeverAhead
  BY DEF NeverAhead, StoredNotAhead, RowNotAhead, CacheNeverAhead
<1> QED
  BY <1>1, TypeCorrect, NeverAheadInit, NeverAheadStep, PTL DEF Spec

-----------------------------------------------------------------------------
(* Runs are filed under their own workflow.  Inductive strengthening: what *)
(* a sync holds or is about to fetch belongs to the workflow it syncs.     *)

OwnRunsOnly ==
  /\ RunsKeepTheirWorkflow
  /\ \A r \in Runs : Returned(r) \/ entry[r].present => Owner[r] = wf
  /\ pc = "reconcile" => \A r \in todo : Owner[r] = wf
  /\ pc = "idle" => \A r \in Runs : ~Returned(r) /\ ~entry[r].present

LEMMA OwnRunsInit == Init => OwnRunsOnly
BY DEF Init, OwnRunsOnly, RunsKeepTheirWorkflow, Known, NotStored, Returned, NoSnapshot, NoEntry

LEMMA OwnRunsStep == TypeOK /\ OwnRunsOnly /\ [Next]_vars => OwnRunsOnly'
<1> SUFFICES ASSUME TypeOK, OwnRunsOnly, [Next]_vars PROVE OwnRunsOnly'
  OBVIOUS
<1> USE DEF OwnRunsOnly, RunsKeepTheirWorkflow, Known, Returned
<1>1. CASE GitHubStep \/ UNCHANGED vars
  BY <1>1 DEF GitHubStep, vars, local
<1>2. ASSUME NEW w \in Workflows, NEW W \in SUBSET Runs, StartSync(w, W)
      PROVE  OwnRunsOnly'
  BY <1>2 DEF StartSync
<1>3. ASSUME NEW q \in Runs, ListRun(q)
      PROVE  OwnRunsOnly'
  <2>1. Owner[q] = wf /\ pc # "idle"
    BY <1>3 DEF ListRun, Unlisted, Active
  <2> QED
    BY <1>3, <2>1 DEF ListRun, TypeOK
<1>4. ASSUME NEW q \in Runs, FetchStaleRun(q) \/ ListRunAgain(q)
      PROVE  OwnRunsOnly'
  BY <1>4 DEF FetchStaleRun, ListRunAgain, TypeOK
<1>5. CASE EndListing
  <2>1. UNCHANGED <<store, wf, resp, entry>> /\ pc' # "idle"
    BY <1>5 DEF EndListing, NextListing, ACTIVE_RUN_STATUSES
  <2>2. \A r \in todo' : Owner[r] = wf
    BY <1>5 DEF EndListing, find_stale_active_run_ids
  <2> QED
    BY <2>1, <2>2
<1>6. CASE EndReconcile \/ QuotaWhileListing \/ EndJobs \/ EndAttempts
           \/ QuotaWhileFetchingAttempts
  BY <1>6 DEF EndReconcile, QuotaWhileListing, EndJobs, EndAttempts,
              QuotaWhileFetchingAttempts
<1>7. CASE UpdateRuns
  <2>1. \A r \in Runs : entry'[r].present => Owner[r] = wf
    BY <1>7 DEF UpdateRuns, NoEntry
  <2>2. \A r \in Runs : resp'[r].status = "absent"
    BY <1>7 DEF UpdateRuns, NoSnapshot
  <2>3. UNCHANGED <<store, wf>> /\ pc' \in {"save", "jobs"}
    BY <1>7 DEF UpdateRuns
  <2> QED
    BY <2>1, <2>2, <2>3
<1>8. ASSUME NEW q \in Runs, StartFetchJobs(q) \/ QuotaWhileFetchingJobs(q)
      PROVE  OwnRunsOnly'
  BY <1>8 DEF StartFetchJobs, QuotaWhileFetchingJobs
<1>9. ASSUME NEW q \in Runs, FetchJobs(q) \/ FetchAttempt(q)
      PROVE  OwnRunsOnly'
  <2>1. /\ UNCHANGED <<store, pc, wf, resp>>
        /\ pc \in {"jobs", "attempts"}
    BY <1>9 DEF FetchJobs, FetchAttempt
  <2>2. \A r \in Runs : entry'[r].present = entry[r].present
    <3>1. entry \in [Runs -> Entry]
      BY DEF TypeOK
    <3>2. CASE FetchJobs(q)
      <4>1. PICK last : entry' = [entry EXCEPT ![q] = [@ EXCEPT !.jobs = gh[q].jobs,
                                      !.done = gh[q].done, !.last = last]]
        BY <3>2 DEF FetchJobs
      <4> QED
        BY <3>1, <4>1 DEF Entry
    <3>3. CASE FetchAttempt(q)
      <4>1. PICK k : entry' = [entry EXCEPT ![q].atts[k] = AttemptStatus(q, k)]
        BY <3>3 DEF FetchAttempt
      <4> QED
        BY <3>1, <4>1 DEF Entry
    <3> QED
      BY <1>9, <3>2, <3>3
  <2> QED
    BY <2>1, <2>2
<1>10. CASE Save
  <2>1. RunsKeepTheirWorkflow'
    BY <1>10 DEF Save, MergedRows
  <2> QED
    BY <1>10, <2>1 DEF Save, Idle, NoSnapshot, NoEntry
<1>11. CASE NotFound \/ Abort
  BY <1>11 DEF NotFound, Abort, Idle, NoSnapshot, NoEntry
<1> QED
  BY <1>1, <1>2, <1>3, <1>4, <1>5, <1>6, <1>7, <1>8, <1>9, <1>10, <1>11
     DEF Next, SyncStep, QuotaStep

\* However syncs of several workflows into one cache follow each other, no run
\* is filed under a workflow it does not belong to.
THEOREM WorkflowsAreKept == Spec => []RunsKeepTheirWorkflow
<1>1. OwnRunsOnly => RunsKeepTheirWorkflow
  BY DEF OwnRunsOnly
<1> QED
  BY <1>1, TypeCorrect, OwnRunsInit, OwnRunsStep, PTL DEF Spec

-----------------------------------------------------------------------------
(* Runs do not vanish: only Save writes, and an entry has rows.            *)

LEMMA EntriesHaveRows ==
  ASSUME NEW e
  PROVE  cache_to_parquet_rows(e) # {}
BY DEF cache_to_parquet_rows

\* Only the save changes the cache.
LEMMA OnlySaveWrites ==
  ASSUME [Next]_vars
  PROVE  Save \/ UNCHANGED store
BY DEF Next, GitHubStep, SyncStep, QuotaStep, StartSync, ListRun, ListRunAgain, EndListing,
   FetchStaleRun, EndReconcile, UpdateRuns, StartFetchJobs, FetchJobs, EndJobs,
   FetchAttempt, EndAttempts, NotFound, Abort, QuotaWhileListing,
   QuotaWhileFetchingJobs, QuotaWhileFetchingAttempts, vars

\* A run in the cache stays there: a sync writes at least a placeholder row.
THEOREM RunsStayCached == Spec => RunsNeverVanish
<1> DEFINE Kept == \A r \in Runs : Known(store[r]) => Known(store'[r])
<1>1. ASSUME [Next]_vars
      PROVE  [Kept]_vars
  <2>1. CASE Save
    BY <2>1, EntriesHaveRows DEF Save, MergedRows, Known
  <2>2. CASE UNCHANGED store
    BY <2>2
  <2>3. CASE UNCHANGED vars
    BY <2>3
  <2>4. Save \/ UNCHANGED store
    BY <1>1, OnlySaveWrites
  <2> QED
    BY <2>1, <2>2, <2>4
<1> QED
  BY <1>1, PTL DEF Spec, RunsNeverVanish

-----------------------------------------------------------------------------
(* Job lists.                                                              *)

\* The cache holds the jobs of the entry it was written from.
LEMMA RowsHaveTheJobs ==
  ASSUME NEW s, NEW e \in Entry, e.present
  PROVE  /\ CachedJobs(MergedRows(s, e)) = e.jobs
         /\ CachedDone(MergedRows(s, e)) = e.jobs \cap e.done
<1> DEFINE rows == cache_to_parquet_rows(e)
<1>1. MergedRows(s, e).rows = rows
  BY DEF MergedRows
<1>2. Nil \notin e.jobs
  BY RunSyncAssumption DEF Entry
<1>3. CASE e.jobs = {}
  BY <1>1, <1>3 DEF cache_to_parquet_rows, CachedJobs, CachedDone
<1>4. CASE e.jobs # {}
  <2>1. rows = {RowOf(e, job) : job \in e.jobs}
    BY <1>4 DEF cache_to_parquet_rows
  <2>2. \A job \in e.jobs : RowOf(e, job).job = job /\ (RowOf(e, job).done <=> job \in e.done)
    BY DEF RowOf
  <2>3. {row.job : row \in rows} = e.jobs
    BY <2>1, <2>2
  <2>4. {row.job : row \in {x \in rows : x.done}} = e.jobs \cap e.done
    BY <2>1, <2>2
  <2> HIDE DEF rows
  <2> QED
    BY <1>1, <1>2, <2>3, <2>4 DEF CachedJobs, CachedDone
<1> QED
  BY <1>3, <1>4

\* What an entry has before the job stage: the cached list, or none.
LEMMA UpdatedEntryJobs ==
  ASSUME NEW s \in Stored, NEW snap \in Snapshot
  PROVE  LET e == UpdatedEntry(s, snap)
         IN  IF KeepsCachedJobs(s, snap)
             THEN e.jobs = CachedJobs(s) /\ e.done = CachedDone(s)
             ELSE e.jobs = {} /\ e.done = {}
BY DEF UpdatedEntry, update_run_cache_entry, WithCachedAttempts, create_run_cache_entry, NoEntry

\* Inductive strengthening of JobsNeverLost: below the quota limit, an entry
\* has the cached jobs or is still to be fetched, and nothing is left to fetch
\* after the job stage.
HasCachedJobs(r) ==
  /\ CachedJobs(store[r]) \subseteq entry[r].jobs
  /\ CachedDone(store[r]) \subseteq entry[r].done

JobsAreHeld ==
  ~quota /\ pc \in {"jobs", "attempts", "save"} =>
    /\ \A r \in Runs : entry[r].present => r \in todo \cup busy \/ HasCachedJobs(r)
    /\ pc # "jobs" => todo = {} /\ busy = {}

LEMMA JobsAreHeldStep ==
  TypeOK /\ NeverAhead /\ JobsAreHeld /\ [Next]_vars => JobsAreHeld'
<1> SUFFICES ASSUME TypeOK, NeverAhead, JobsAreHeld, [Next]_vars PROVE JobsAreHeld'
  OBVIOUS
<1> USE DEF JobsAreHeld, HasCachedJobs
<1>1. CASE GitHubStep \/ UNCHANGED vars
  BY <1>1 DEF GitHubStep, vars, local
<1>2. ASSUME NEW w \in Workflows, NEW W \in SUBSET Runs, StartSync(w, W)
      PROVE  JobsAreHeld'
  BY <1>2 DEF StartSync
<1>3. ASSUME NEW q \in Runs, ListRun(q) \/ ListRunAgain(q) \/ FetchStaleRun(q)
      PROVE  JobsAreHeld'
  BY <1>3 DEF ListRun, ListRunAgain, FetchStaleRun, Unlisted, Active
<1>4. CASE EndListing \/ EndReconcile \/ QuotaWhileListing \/ QuotaWhileFetchingAttempts
  BY <1>4 DEF EndListing, NextListing, EndReconcile, QuotaWhileListing,
              QuotaWhileFetchingAttempts, ACTIVE_RUN_STATUSES
<1>5. CASE UpdateRuns
  <2>1. ASSUME NEW r \in Runs, ~quota, entry'[r].present
        PROVE  r \in todo' \/ HasCachedJobs(r)'
    <3>1. Returned(r)
      BY <1>5, <2>1 DEF UpdateRuns, NoEntry
    <3>2. entry'[r] = UpdatedEntry(store[r], resp[r]) /\ store' = store
      BY <1>5, <3>1 DEF UpdateRuns
    <3>3. CASE KeepsCachedJobs(store[r], resp[r])
      BY <3>2, <3>3, UpdatedEntryJobs DEF TypeOK
    <3>4. CASE ~KeepsCachedJobs(store[r], resp[r])
      BY <1>5, <2>1, <3>1, <3>4 DEF UpdateRuns
    <3> QED
      BY <3>3, <3>4
  <2>2. UNCHANGED quota /\ (pc' = IF quota THEN "save" ELSE "jobs")
    BY <1>5 DEF UpdateRuns
  <2> QED
    BY <2>1, <2>2
<1>6. ASSUME NEW q \in Runs, StartFetchJobs(q)
      PROVE  JobsAreHeld'
  BY <1>6 DEF StartFetchJobs
<1>7. ASSUME NEW q \in Runs, FetchJobs(q)
      PROVE  JobsAreHeld'
  <2>1. PICK last :
          entry' = [entry EXCEPT ![q] = [@ EXCEPT !.jobs = gh[q].jobs,
                                                  !.done = gh[q].done, !.last = last]]
    BY <1>7 DEF FetchJobs
  <2>2. /\ entry'[q].jobs = gh[q].jobs /\ entry'[q].done = gh[q].done
        /\ \A r \in Runs \ {q} : entry'[r] = entry[r]
        /\ UNCHANGED <<store, pc, quota>> /\ pc = "jobs"
        /\ busy' = busy \ {q} /\ todo \subseteq todo'
    BY <1>7, <2>1 DEF FetchJobs, TypeOK, Entry
  <2>3. CachedJobs(store[q]) \subseteq gh[q].jobs /\ CachedDone(store[q]) \subseteq gh[q].done
    BY DEF NeverAhead, StoredNotAhead, RowNotAhead, CachedJobs, CachedDone
  <2>4. ASSUME ~quota, NEW r \in Runs, entry'[r].present
        PROVE  r \in todo' \cup busy' \/ HasCachedJobs(r)'
    <3>1. CASE r = q
      BY <2>2, <2>3, <3>1
    <3>2. CASE r # q
      BY <2>2, <2>4, <3>2
    <3> QED
      BY <3>1, <3>2
  <2> QED
    BY <2>2, <2>4
<1>8. ASSUME NEW q \in Runs, QuotaWhileFetchingJobs(q)
      PROVE  JobsAreHeld'
  BY <1>8 DEF QuotaWhileFetchingJobs
<1>9. CASE EndJobs
  BY <1>9 DEF EndJobs
<1>10. ASSUME NEW q \in Runs, FetchAttempt(q)
       PROVE  JobsAreHeld'
  <2>1. PICK k : entry' = [entry EXCEPT ![q].atts[k] = AttemptStatus(q, k)]
    BY <1>10 DEF FetchAttempt
  <2>2. \A r \in Runs : /\ entry'[r].present = entry[r].present
                        /\ entry'[r].jobs = entry[r].jobs /\ entry'[r].done = entry[r].done
    BY <2>1 DEF TypeOK, Entry
  <2>3. UNCHANGED <<store, pc, todo, busy, quota>>
    BY <1>10 DEF FetchAttempt
  <2> QED
    BY <2>2, <2>3
<1>11. CASE EndAttempts
  BY <1>11 DEF EndAttempts
<1>12. CASE Save \/ NotFound \/ Abort
  BY <1>12 DEF Save, NotFound, Abort, Idle
<1> QED
  BY <1>1, <1>2, <1>3, <1>4, <1>5, <1>6, <1>7, <1>8, <1>9, <1>10, <1>11, <1>12
     DEF Next, SyncStep, QuotaStep

\* A sync that stays below the quota limit costs no cached job and turns no
\* finished one back, whether it keeps the jobs of a run or fetches them again.
THEOREM JobsAreNotLost == Spec => JobsNeverLost
<1> DEFINE Kept == \A r \in Runs :
             /\ CachedJobs(store[r]) \subseteq CachedJobs(store'[r])
             /\ CachedDone(store[r]) \subseteq CachedDone(store'[r])
<1>1. Init => JobsAreHeld
  BY DEF Init, JobsAreHeld
<1>2. ASSUME TypeOK, NeverAhead, JobsAreHeld, [Next]_vars
      PROVE  [~quota => Kept]_vars
  <2>1. CASE Save
    <3>1. ASSUME ~quota, NEW r \in Runs
          PROVE  /\ CachedJobs(store[r]) \subseteq CachedJobs(store'[r])
                 /\ CachedDone(store[r]) \subseteq CachedDone(store'[r])
      <4>1. store'[r] = MergedRows(store[r], entry[r]) /\ pc = "save"
        BY <2>1 DEF Save
      <4>2. CASE entry[r].present
        <5>1. HasCachedJobs(r)
          BY <1>2, <3>1, <4>1, <4>2 DEF JobsAreHeld
        <5>2. CachedDone(store[r]) \subseteq CachedJobs(store[r])
          BY <1>2, RunSyncAssumption
             DEF NeverAhead, StoredNotAhead, RowNotAhead, JobsMakeSense, CachedDone,
                 CachedJobs, TypeOK, GhTypeOK
        <5>3. /\ CachedJobs(store'[r]) = entry[r].jobs
              /\ CachedDone(store'[r]) = entry[r].jobs \cap entry[r].done
          BY <1>2, <4>1, <4>2, RowsHaveTheJobs DEF TypeOK
        <5> QED
          BY <5>1, <5>2, <5>3 DEF HasCachedJobs
      <4>3. CASE ~entry[r].present
        BY <4>1, <4>3 DEF MergedRows
      <4> QED
        BY <4>2, <4>3
    <3> QED
      BY <3>1
  <2>2. CASE UNCHANGED store
    BY <2>2
  <2> QED
    BY <1>2, <2>1, <2>2, OnlySaveWrites
<1> QED
  BY <1>1, <1>2, TypeCorrect, NeverAheadInit, NeverAheadStep, JobsAreHeldStep, PTL
     DEF Spec, JobsNeverLost

-----------------------------------------------------------------------------
(* Entries that no sync refreshes.  Inductive strengthening: a list with a *)
(* job of some attempt has all jobs of the attempts before, and a list of  *)
(* finished jobs that has one of the last attempt has all the run's jobs,  *)
(* as long as no job was created when all the others were done.            *)

Covers(r, J, D) ==
  /\ \A job \in gh[r].jobs, k \in J : AttemptOf(job) < AttemptOf(k) => job \in J
  /\ (\E k \in J : AttemptOf(k) = gh[r].attempt) /\ J \subseteq D /\ ~gh[r].late
       => gh[r].jobs \subseteq J

ListsCover ==
  \A r \in Runs : /\ Covers(r, CachedJobs(store[r]), CachedDone(store[r]))
                  /\ Covers(r, entry[r].jobs, entry[r].done)
                  /\ gh[r].status = "completed" => gh[r].done = gh[r].jobs

LEMMA ListsCoverInit == Init => ListsCover
BY DEF Init, GhInit, ListsCover, Covers

\* A list the run's jobs and finished jobs have been taken for still covers them
\* after GitHub has moved.
LEMMA StillCovers ==
  ASSUME GhTypeOK, GhNext, NEW r \in Runs, JobsMakeSense(r),
         NEW J \in SUBSET gh[r].jobs, NEW D \in SUBSET gh[r].done, Covers(r, J, D)
  PROVE  Covers(r, J, D)'
<1> DEFINE Same == /\ gh'[r].jobs = gh[r].jobs /\ gh'[r].attempt = gh[r].attempt
                   /\ gh'[r].late = gh[r].late
<1>1. PICK q \in Runs :
        \/ GhCreateRun(q) \/ GhStartRun(q) \/ GhCreateJob(q) \/ GhFinishJob(q)
        \/ GhCompleteRun(q) \/ GhRerun(q) \/ GhLoseLink(q) \/ GhDelete(q)
  BY DEF GhNext
<1>2. /\ gh[r].attempt \in Nat
      /\ \A job \in gh[r].jobs : AttemptOf(job) \in Nat /\ AttemptOf(job) <= gh[r].attempt
  BY AttemptOfType, GitHubAssumption DEF GhTypeOK, Attempts, JobsMakeSense
<1>3. CASE Same
  BY <1>3 DEF Covers
<1>4. CASE GhCreateRun(q)
  <2>1. PICK l \in BOOLEAN :
          gh' = [gh EXCEPT ![q] = [gh[q] EXCEPT !.status = "queued", !.linked = l]]
    BY <1>4 DEF GhCreateRun
  <2>2. Same
    BY <2>1 DEF GhTypeOK
  <2> QED
    BY <1>3, <2>2
<1>4a. CASE GhStartRun(q) \/ GhLoseLink(q) \/ GhDelete(q)
  <2>1. Same
    BY <1>4a DEF GhTypeOK, GhStartRun, GhLoseLink, GhDelete
  <2> QED
    BY <1>3, <2>1
<1>4b. CASE GhFinishJob(q)
  <2>1. Same
    BY <1>4b DEF GhTypeOK, GhFinishJob
  <2> QED
    BY <1>3, <2>1
<1>4c. CASE GhCompleteRun(q)
  <2>1. Same
    BY <1>4c DEF GhTypeOK, GhCompleteRun
  <2> QED
    BY <1>3, <2>1
<1>5. CASE q # r /\ (GhCreateJob(q) \/ GhRerun(q))
  <2>1. Same
    <3>1. CASE GhCreateJob(q)
      <4>1. PICK n \in JobNums, l \in BOOLEAN :
              gh' = [gh EXCEPT ![q] =
                [gh[q] EXCEPT !.jobs = gh[q].jobs \cup {<<gh[q].attempt, n>>}, !.late = l]]
        BY <3>1, NewJob
      <4> QED
        BY <1>5, <4>1 DEF GhTypeOK
    <3>2. CASE GhRerun(q)
      BY <1>5, <3>2 DEF GhTypeOK, GhRerun
    <3> QED
      BY <1>5, <3>1, <3>2
  <2> QED
    BY <1>3, <2>1
<1>6. CASE q = r /\ GhCreateJob(r)
  <2>1. PICK n \in JobNums, l \in BOOLEAN :
          /\ l <=> gh[r].late \/ AllDone(r)
          /\ gh' = [gh EXCEPT ![r] =
               [gh[r] EXCEPT !.jobs = gh[r].jobs \cup {<<gh[r].attempt, n>>}, !.late = l]]
    BY <1>6, NewJob
  <2>2. /\ gh'[r].jobs = gh[r].jobs \cup {<<gh[r].attempt, n>>}
        /\ gh'[r].attempt = gh[r].attempt
        /\ gh'[r].late = l
    BY <2>1 DEF GhTypeOK
  <2>3. ASSUME NEW job \in gh'[r].jobs, NEW k \in J, AttemptOf(job) < AttemptOf(k)
        PROVE  job \in J
    <3>1. job \in gh[r].jobs
      BY <1>2, <2>2, <2>3 DEF AttemptOf
    <3> QED
      BY <2>3, <3>1 DEF Covers
  <2>4. ASSUME NEW k \in J, AttemptOf(k) = gh[r].attempt, J \subseteq D, ~gh'[r].late
        PROVE  FALSE
    <3>1. ~gh[r].late /\ ~AllDone(r)
      BY <2>1, <2>2, <2>4, Zenon
    <3>2. gh[r].jobs \subseteq J
      BY <2>4, <3>1 DEF Covers
    <3>3. AllDone(r)
      BY <2>4, <3>2 DEF AllDone
    <3> QED
      BY <3>1, <3>3
  <2> QED
    BY <2>2, <2>3, <2>4 DEF Covers
<1>7. CASE q = r /\ GhRerun(r)
  <2>1. gh'[r].jobs = gh[r].jobs /\ gh'[r].attempt = gh[r].attempt + 1
    BY <1>7 DEF GhTypeOK, GhRerun
  <2> QED
    BY <1>2, <2>1 DEF Covers
<1> QED
  BY <1>1, <1>4, <1>4a, <1>4b, <1>4c, <1>5, <1>6, <1>7

\* All jobs of a completed run are done.
LEMMA CompletedIsDone ==
  ASSUME GhTypeOK, GhNext, NEW r \in Runs,
         gh[r].status = "completed" => gh[r].done = gh[r].jobs,
         gh'[r].status = "completed"
  PROVE  gh'[r].done = gh'[r].jobs
<1>1. PICK q \in Runs :
        \/ GhCreateRun(q) \/ GhStartRun(q) \/ GhCreateJob(q) \/ GhFinishJob(q)
        \/ GhCompleteRun(q) \/ GhRerun(q) \/ GhLoseLink(q) \/ GhDelete(q)
  BY DEF GhNext
<1> USE DEF GhTypeOK
<1>2. CASE GhCreateRun(q) \/ GhStartRun(q) \/ GhRerun(q) \/ GhDelete(q)
  BY <1>2 DEF GhCreateRun, GhStartRun, GhRerun, GhDelete
<1>3. CASE GhCreateJob(q)
  <2>1. PICK n \in JobNums, l \in BOOLEAN :
          gh' = [gh EXCEPT ![q] =
            [gh[q] EXCEPT !.jobs = gh[q].jobs \cup {<<gh[q].attempt, n>>}, !.late = l]]
    BY <1>3, NewJob
  <2>2. gh[q].status \in Active
    BY <1>3 DEF GhCreateJob
  <2> QED
    BY <2>1, <2>2 DEF Active
<1>3a. CASE GhFinishJob(q)
  BY <1>3a DEF GhFinishJob
<1>4. CASE GhCompleteRun(q)
  BY <1>4 DEF GhCompleteRun
<1>5. CASE GhLoseLink(q)
  BY <1>5 DEF GhLoseLink
<1> QED
  BY <1>1, <1>2, <1>3, <1>3a, <1>4, <1>5

LEMMA ListsCoverStep == TypeOK /\ NeverAhead /\ ListsCover /\ [Next]_vars => ListsCover'
<1> SUFFICES ASSUME TypeOK, NeverAhead, ListsCover, [Next]_vars, NEW r \in Runs
             PROVE  /\ Covers(r, CachedJobs(store[r]), CachedDone(store[r]))'
                    /\ Covers(r, entry[r].jobs, entry[r].done)'
                    /\ gh'[r].status = "completed" => gh'[r].done = gh'[r].jobs
  BY DEF ListsCover
<1> DEFINE StoredCovers == Covers(r, CachedJobs(store[r]), CachedDone(store[r]))
           EntryCovers == Covers(r, entry[r].jobs, entry[r].done)
<1>0. /\ StoredCovers /\ EntryCovers
      /\ gh[r].status = "completed" => gh[r].done = gh[r].jobs
  BY DEF ListsCover
<1>1. CASE GitHubStep
  <2>1. UNCHANGED <<store, entry>> /\ GhTypeOK /\ GhNext /\ JobsMakeSense(r)
    BY <1>1 DEF GitHubStep, local, TypeOK, NeverAhead
  <2>2. ASSUME NEW J \in SUBSET gh[r].jobs, NEW D \in SUBSET gh[r].done, Covers(r, J, D)
        PROVE  Covers(r, J, D)'
    BY <2>1, <2>2, StillCovers
  <2>3. EntryCovers'
    <3> DEFINE J == entry[r].jobs
               D == entry[r].done
    <3>1. /\ J \in SUBSET gh[r].jobs /\ D \in SUBSET gh[r].done /\ Covers(r, J, D)
          /\ entry'[r].jobs = J /\ entry'[r].done = D
      BY <1>0, <2>1 DEF NeverAhead, EntryNotAhead
    <3> HIDE DEF J, D
    <3> QED
      BY <2>2, <3>1 DEF Covers
  <2>4. StoredCovers'
    <3> DEFINE J == CachedJobs(store[r])
               D == CachedDone(store[r])
    <3>1. J \subseteq gh[r].jobs /\ D \subseteq gh[r].done
      BY DEF NeverAhead, StoredNotAhead, RowNotAhead, CachedJobs, CachedDone
    <3>2. /\ J \in SUBSET gh[r].jobs /\ D \in SUBSET gh[r].done /\ Covers(r, J, D)
          /\ CachedJobs(store'[r]) = J /\ CachedDone(store'[r]) = D
      BY <1>0, <2>1, <3>1
    <3> HIDE DEF J, D
    <3> QED
      BY <2>2, <3>2 DEF Covers
  <2> QED
    BY <1>0, <2>1, <2>3, <2>4, CompletedIsDone
<1>2. CASE UpdateRuns
  <2>1. UNCHANGED <<gh, store>>
    BY <1>2 DEF UpdateRuns
  <2>2. \/ entry'[r].jobs = {}
        \/ entry'[r].jobs = CachedJobs(store[r]) /\ entry'[r].done = CachedDone(store[r])
    <3>1. CASE Returned(r)
      <4>1. entry'[r] = UpdatedEntry(store[r], resp[r])
        BY <1>2, <3>1 DEF UpdateRuns
      <4> QED
        BY <4>1, UpdatedEntryJobs DEF TypeOK
    <3>2. CASE ~Returned(r)
      BY <1>2, <3>2 DEF UpdateRuns, NoEntry
    <3> QED
      BY <3>1, <3>2
  <2> QED
    BY <1>0, <2>1, <2>2 DEF Covers
<1>3. ASSUME NEW q \in Runs, FetchJobs(q)
      PROVE  StoredCovers' /\ EntryCovers' /\ UNCHANGED gh
  <2>1. PICK last :
          entry' = [entry EXCEPT ![q] = [@ EXCEPT !.jobs = gh[q].jobs,
                                                  !.done = gh[q].done, !.last = last]]
    BY <1>3 DEF FetchJobs
  <2>2. UNCHANGED <<gh, store>>
    BY <1>3 DEF FetchJobs
  <2>3. \/ entry'[r].jobs = gh[r].jobs
        \/ entry'[r].jobs = entry[r].jobs /\ entry'[r].done = entry[r].done
    BY <2>1 DEF TypeOK, Entry
  <2> QED
    BY <1>0, <2>2, <2>3 DEF Covers
<1>4. ASSUME NEW q \in Runs, FetchAttempt(q)
      PROVE  StoredCovers' /\ EntryCovers' /\ UNCHANGED gh
  <2>1. PICK k : entry' = [entry EXCEPT ![q].atts[k] = AttemptStatus(q, k)]
    BY <1>4 DEF FetchAttempt
  <2>2. UNCHANGED <<gh, store>>
    BY <1>4 DEF FetchAttempt
  <2>3. entry'[r].jobs = entry[r].jobs /\ entry'[r].done = entry[r].done
    BY <2>1 DEF TypeOK, Entry
  <2> QED
    BY <1>0, <2>2, <2>3 DEF Covers
<1>5. CASE Save
  <2>1. UNCHANGED gh /\ store'[r] = MergedRows(store[r], entry[r]) /\ entry'[r].jobs = {}
    BY <1>5 DEF Save, Idle, NoEntry
  <2>2. StoredCovers'
    <3>1. CASE entry[r].present
      <4>1. /\ CachedJobs(store'[r]) = entry[r].jobs
            /\ CachedDone(store'[r]) = entry[r].jobs \cap entry[r].done
        BY <2>1, <3>1, RowsHaveTheJobs DEF TypeOK
      <4> QED
        BY <1>0, <2>1, <4>1 DEF Covers
    <3>2. CASE ~entry[r].present
      <4>1. store'[r] = store[r]
        BY <2>1, <3>2 DEF MergedRows
      <4> QED
        BY <1>0, <2>1, <4>1 DEF Covers
    <3> QED
      BY <3>1, <3>2
  <2> QED
    BY <1>0, <2>1, <2>2 DEF Covers
<1>6. CASE NotFound \/ Abort
  <2>1. UNCHANGED <<gh, store>> /\ entry'[r].jobs = {}
    BY <1>6 DEF NotFound, Abort, Idle, NoEntry
  <2> QED
    BY <1>0, <2>1 DEF Covers
<1>7. CASE UNCHANGED <<gh, store, entry>>
  BY <1>0, <1>7 DEF Covers
<1>8. \/ GitHubStep \/ UpdateRuns \/ Save \/ NotFound \/ Abort
      \/ \E q \in Runs : FetchJobs(q) \/ FetchAttempt(q)
      \/ UNCHANGED <<gh, store, entry>>
  BY DEF Next, SyncStep, QuotaStep, StartSync, ListRun, ListRunAgain, EndListing,
     FetchStaleRun, EndReconcile, StartFetchJobs, EndJobs, EndAttempts, QuotaWhileListing,
     QuotaWhileFetchingJobs, QuotaWhileFetchingAttempts, vars, local
<1> QED
  BY <1>0, <1>1, <1>2, <1>3, <1>4, <1>5, <1>6, <1>7, <1>8

\* An entry with a job list that no later sync would refresh has all jobs of the
\* attempts before the run's last one, and all of the last one too unless GitHub
\* gave that attempt a job when all its others were done: no quota stop, re-run
\* or list older or newer than the run's status loses a job in another way.
THEOREM FrozenListsAreComplete == Spec => []FrozenListIsComplete
<1>1. TypeOK /\ NeverAhead /\ ListsCover => FrozenListIsComplete
  <2> SUFFICES ASSUME TypeOK, NeverAhead, ListsCover, NEW r \in Runs, Frozen(r),
                      CachedJobs(store[r]) # {}
               PROVE  /\ \A job \in gh[r].jobs \ CachedJobs(store[r]) :
                           AttemptOf(job) = gh[r].attempt
                      /\ Complete(r) \/ gh[r].late
    BY DEF FrozenListIsComplete
  <2> DEFINE J == CachedJobs(store[r])
  <2>1. /\ gh[r].status = "completed" /\ J = CachedDone(store[r])
        /\ \E job \in J : AttemptOf(job) = gh[r].attempt
    BY DEF Frozen, KeepsCachedJobs, SnapshotOf, cached_attempt_has_job_snapshot
  <2>2. Covers(r, J, CachedDone(store[r])) /\ gh[r].done = gh[r].jobs
    BY <2>1 DEF ListsCover
  <2>3. J \subseteq gh[r].jobs
    BY DEF NeverAhead, StoredNotAhead, RowNotAhead, CachedJobs
  <2>4. ASSUME NEW job \in gh[r].jobs \ J
        PROVE  AttemptOf(job) = gh[r].attempt
    <3>1. /\ gh[r].attempt \in Nat /\ AttemptOf(job) \in Nat
          /\ AttemptOf(job) <= gh[r].attempt
      BY AttemptOfType, GitHubAssumption
         DEF TypeOK, GhTypeOK, Attempts, NeverAhead, JobsMakeSense
    <3>2. ~(AttemptOf(job) < gh[r].attempt)
      BY <2>1, <2>2 DEF Covers
    <3> QED
      BY <3>1, <3>2
  <2>5. ~gh[r].late => gh[r].jobs \subseteq J
    BY <2>1, <2>2 DEF Covers
  <2> QED
    BY <2>1, <2>2, <2>3, <2>4, <2>5 DEF Complete
<1> QED
  BY <1>1, TypeCorrect, NeverAheadInit, NeverAheadStep, ListsCoverInit, ListsCoverStep,
     PTL DEF Spec

-----------------------------------------------------------------------------
(* No attempt is taken back.  Inductive strengthening: what a sync holds   *)
(* of a run knows every attempt the cache shows as over.                   *)

OneStatusPerAttempt(r) ==
  \A x, y \in store[r].rows : x.att = y.att => x.status = y.status

ResponseKnows(r) ==
  Returned(r) =>
    \A row \in store[r].rows :
      row.att = resp[r].attempt /\ row.status = "completed" => resp[r].status = "completed"

EntryKnows(r) ==
  entry[r].present =>
    /\ entry[r].atts[entry[r].attempt] = entry[r].status
    /\ \A row \in store[r].rows :
         row.status = "completed" => entry[r].atts[row.att] = "completed"

OverStaysOver ==
  \A r \in Runs : OneStatusPerAttempt(r) /\ ResponseKnows(r) /\ EntryKnows(r)

\* A row of a run says of its attempt what the entry says.
LEMMA RowsFollowAttempts ==
  ASSUME NEW e \in Entry, e.atts[e.attempt] = e.status,
         NEW row \in cache_to_parquet_rows(e)
  PROVE  row.status = e.atts[row.att]
<1>1. CASE e.jobs = {}
  BY <1>1 DEF cache_to_parquet_rows
<1>2. CASE e.jobs # {}
  <2>1. PICK job \in e.jobs : row = RowOf(e, job)
    BY <1>2 DEF cache_to_parquet_rows
  <2> QED
    BY <2>1 DEF RowOf
<1> QED
  BY <1>1, <1>2

\* The rows of an entry take nothing back that the cache shows as over.
LEMMA EntryTakesNothingBack ==
  ASSUME TypeOK, NEW r \in Runs, EntryKnows(r), entry[r].present,
         NEW x \in store[r].rows, NEW y \in cache_to_parquet_rows(entry[r]),
         x.att = y.att, x.status = "completed"
  PROVE  y.status = "completed"
<1>1. entry[r] \in Entry
  BY DEF TypeOK
<1>2. y.status = entry[r].atts[y.att]
  BY <1>1, RowsFollowAttempts DEF EntryKnows
<1> QED
  BY <1>2 DEF EntryKnows

\* A run that the API returns is over if the cache has shown its attempt so.
LEMMA SnapshotKnows ==
  ASSUME TypeOK, NeverAhead, NEW r \in Runs, Exists(r), NEW row \in store[r].rows,
         row.att = gh[r].attempt, row.status = "completed"
  PROVE  gh[r].status = "completed"
<1>1. Happened(r, row.att, row.status)
  BY DEF NeverAhead, StoredNotAhead, RowNotAhead
<1>2. gh[r].attempt \in Nat
  BY GitHubAssumption DEF TypeOK, GhTypeOK, Attempts
<1> QED
  BY <1>1, <1>2 DEF Happened, AttemptStatus, Exists, RunStatus, Active

LEMMA UpdatedEntryKnows ==
  ASSUME TypeOK, NEW r \in Runs, OneStatusPerAttempt(r), ResponseKnows(r), Returned(r),
         NEW e, e = UpdatedEntry(store[r], resp[r])
  PROVE  /\ e.atts[e.attempt] = e.status
         /\ \A row \in store[r].rows :
              row.status = "completed" => e.atts[row.att] = "completed"
<1> DEFINE s == store[r]
           snap == resp[r]
<1>1. s \in Stored /\ snap \in Snapshot
  BY DEF TypeOK
<1>2. /\ e.attempt = snap.attempt /\ e.status = snap.status
      /\ \A k \in Attempts :
           e.atts[k] = IF k = snap.attempt THEN snap.status ELSE CachedStatus(s, k)
  BY <1>1 DEF UpdatedEntry, update_run_cache_entry, WithCachedAttempts,
              create_run_cache_entry, NoEntry, Snapshot
<1>3. e.atts[e.attempt] = e.status
  BY <1>1, <1>2 DEF Snapshot
<1>4. ASSUME NEW row \in s.rows, row.status = "completed"
      PROVE  e.atts[row.att] = "completed"
  <2>1. row.att \in Attempts
    BY <1>1 DEF Stored, Row
  <2>2. CASE row.att = snap.attempt
    BY <1>2, <1>4, <2>1, <2>2 DEF ResponseKnows
  <2>3. CASE row.att # snap.attempt
    <3>1. row.att \in CachedAttempts(s)
      BY DEF CachedAttempts
    <3>2. PICK x \in s.rows : x = CHOOSE y \in s.rows : y.att = row.att
      OBVIOUS
    <3>3. x.att = row.att
      BY <3>2
    <3>4. CachedStatus(s, row.att) = x.status
      BY <3>1, <3>2 DEF CachedStatus
    <3>5. x.status = row.status
      BY <3>3 DEF OneStatusPerAttempt
    <3> QED
      BY <1>2, <1>4, <2>1, <2>3, <3>4, <3>5
  <2> QED
    BY <2>2, <2>3
<1> QED
  BY <1>3, <1>4

LEMMA OverStaysOverInit == Init => OverStaysOver
BY DEF Init, OverStaysOver, OneStatusPerAttempt, ResponseKnows, EntryKnows, NotStored,
   NoSnapshot, NoEntry, Returned

LEMMA OverStaysOverStep ==
  TypeOK /\ NeverAhead /\ OverStaysOver /\ [Next]_vars => OverStaysOver'
<1> SUFFICES ASSUME TypeOK, NeverAhead, OverStaysOver, [Next]_vars, NEW r \in Runs
             PROVE  OneStatusPerAttempt(r)' /\ ResponseKnows(r)' /\ EntryKnows(r)'
  BY DEF OverStaysOver
<1> DEFINE Goal == OneStatusPerAttempt(r)' /\ ResponseKnows(r)' /\ EntryKnows(r)'
<1>0. OneStatusPerAttempt(r) /\ ResponseKnows(r) /\ EntryKnows(r)
  BY DEF OverStaysOver
<1> USE <1>0
<1>1. CASE GitHubStep \/ UNCHANGED vars
  BY <1>1 DEF GitHubStep, vars, local, OneStatusPerAttempt, ResponseKnows, EntryKnows, Returned
<1>2. ASSUME NEW w \in Workflows, NEW W \in SUBSET Runs, StartSync(w, W)
      PROVE  Goal
  BY <1>2 DEF StartSync, OneStatusPerAttempt, ResponseKnows, EntryKnows, Returned
<1>3. ASSUME NEW q \in Runs, ListRun(q) \/ ListRunAgain(q) \/ FetchStaleRun(q)
      PROVE  Goal
  <2>1. /\ UNCHANGED <<store, entry>> /\ Exists(q)
        /\ resp' = [resp EXCEPT ![q] = SnapshotOf(q)]
    BY <1>3 DEF ListRun, ListRunAgain, FetchStaleRun, Unlisted, Exists, Active, RunStatus
  <2>2. OneStatusPerAttempt(r)' /\ EntryKnows(r)'
    BY <2>1 DEF OneStatusPerAttempt, EntryKnows
  <2>3. ResponseKnows(r)'
    <3>1. CASE q # r
      BY <2>1, <3>1 DEF ResponseKnows, Returned, TypeOK
    <3>2. CASE q = r
      <4>1. resp'[r].attempt = gh[r].attempt /\ resp'[r].status = gh[r].status
        BY <2>1, <3>2 DEF TypeOK, SnapshotOf
      <4> QED
        BY <2>1, <3>2, <4>1, SnapshotKnows DEF ResponseKnows
    <3> QED
      BY <3>1, <3>2
  <2> QED
    BY <2>2, <2>3
<1>4. CASE EndListing \/ EndReconcile \/ QuotaWhileListing \/ EndJobs \/ EndAttempts
           \/ QuotaWhileFetchingAttempts
  <2>1. UNCHANGED <<store, resp, entry>>
    BY <1>4 DEF EndListing, EndReconcile, QuotaWhileListing, EndJobs, EndAttempts,
                QuotaWhileFetchingAttempts
  <2> QED
    BY <2>1 DEF OneStatusPerAttempt, ResponseKnows, EntryKnows, Returned
<1>5. CASE UpdateRuns
  <2>1. UNCHANGED store /\ resp'[r] = NoSnapshot
    BY <1>5 DEF UpdateRuns
  <2>2. OneStatusPerAttempt(r)' /\ ResponseKnows(r)'
    BY <2>1 DEF OneStatusPerAttempt, ResponseKnows, Returned, NoSnapshot
  <2>3. CASE Returned(r)
    <3>1. entry'[r] = UpdatedEntry(store[r], resp[r])
      BY <1>5, <2>3 DEF UpdateRuns
    <3>2. /\ entry'[r].atts[entry'[r].attempt] = entry'[r].status
          /\ \A row \in store[r].rows :
               row.status = "completed" => entry'[r].atts[row.att] = "completed"
      BY <2>3, <3>1, UpdatedEntryKnows
    <3> QED
      BY <2>1, <2>2, <3>2 DEF EntryKnows
  <2>4. CASE ~Returned(r)
    <3>1. entry'[r] = NoEntry
      BY <1>5, <2>4 DEF UpdateRuns
    <3> QED
      BY <2>2, <3>1 DEF EntryKnows, NoEntry
  <2> QED
    BY <2>3, <2>4
<1>6. ASSUME NEW q \in Runs, StartFetchJobs(q) \/ QuotaWhileFetchingJobs(q)
      PROVE  Goal
  <2>1. UNCHANGED <<store, resp, entry>>
    BY <1>6 DEF StartFetchJobs, QuotaWhileFetchingJobs
  <2> QED
    BY <2>1 DEF OneStatusPerAttempt, ResponseKnows, EntryKnows, Returned
<1>7. ASSUME NEW q \in Runs, FetchJobs(q)
      PROVE  Goal
  <2>1. PICK last :
          entry' = [entry EXCEPT ![q] = [@ EXCEPT !.jobs = gh[q].jobs,
                                                  !.done = gh[q].done, !.last = last]]
    BY <1>7 DEF FetchJobs
  <2>2. UNCHANGED <<store, resp>>
    BY <1>7 DEF FetchJobs
  <2>3. /\ entry'[r].present = entry[r].present /\ entry'[r].atts = entry[r].atts
        /\ entry'[r].attempt = entry[r].attempt /\ entry'[r].status = entry[r].status
    BY <2>1 DEF TypeOK, Entry
  <2> QED
    BY <2>2, <2>3 DEF OneStatusPerAttempt, ResponseKnows, EntryKnows, Returned
<1>8. ASSUME NEW q \in Runs, FetchAttempt(q)
      PROVE  Goal
  <2>1. UNCHANGED <<store, resp>>
    BY <1>8 DEF FetchAttempt
  <2>2. PICK k \in MissingAttempts(entry[q]) :
          entry' = [entry EXCEPT ![q].atts[k] = AttemptStatus(q, k)]
    BY <1>8 DEF FetchAttempt
  <2>3. entry[q] \in Entry /\ entry[r] \in Entry
    BY DEF TypeOK
  <2>4. k \in Attempts /\ entry[q].atts[k] = "absent"
    <3>1. PICK job \in entry[q].jobs : k = AttemptOf(job)
      BY <2>2 DEF MissingAttempts
    <3>2. k \in Attempts
      BY <2>3, <3>1, AttemptOfType DEF Entry
    <3> QED
      BY <2>2, <3>2 DEF MissingAttempts
  <2>5. /\ entry'[r].present = entry[r].present
        /\ entry'[r].attempt = entry[r].attempt /\ entry'[r].status = entry[r].status
        /\ \A m \in Attempts : entry[r].atts[m] # "absent" => entry'[r].atts[m] = entry[r].atts[m]
    BY <2>2, <2>3, <2>4 DEF TypeOK, Entry
  <2>6. entry[r].status # "absent" /\ entry[r].attempt \in Attempts
    BY <2>3 DEF Entry, RunStatus, Active
  <2>7. \A row \in store[r].rows : row.att \in Attempts
    BY DEF TypeOK, Stored, Row
  <2> QED
    BY <2>1, <2>5, <2>6, <2>7 DEF OneStatusPerAttempt, ResponseKnows, EntryKnows, Returned
<1>9. CASE Save
  <2>1. /\ store'[r] = MergedRows(store[r], entry[r])
        /\ resp'[r] = NoSnapshot /\ entry'[r] = NoEntry
    BY <1>9 DEF Save, Idle
  <2>2. ResponseKnows(r)' /\ EntryKnows(r)'
    BY <2>1 DEF ResponseKnows, EntryKnows, Returned, NoSnapshot, NoEntry
  <2>3. OneStatusPerAttempt(r)'
    <3>1. CASE ~entry[r].present
      BY <2>1, <3>1 DEF OneStatusPerAttempt, MergedRows
    <3>2. CASE entry[r].present
      <4>1. store'[r].rows = cache_to_parquet_rows(entry[r])
        BY <2>1, <3>2 DEF MergedRows
      <4>2. entry[r] \in Entry /\ entry[r].atts[entry[r].attempt] = entry[r].status
        BY <3>2 DEF TypeOK, EntryKnows
      <4>3. \A row \in store'[r].rows : row.status = entry[r].atts[row.att]
        BY <4>1, <4>2, RowsFollowAttempts
      <4> QED
        BY <4>3 DEF OneStatusPerAttempt
    <3> QED
      BY <3>1, <3>2
  <2> QED
    BY <2>2, <2>3
<1>10. CASE NotFound \/ Abort
  <2>1. Idle("idle") /\ UNCHANGED store
    BY <1>10 DEF NotFound, Abort
  <2> QED
    BY <2>1 DEF Idle, NoSnapshot, NoEntry, OneStatusPerAttempt, ResponseKnows, EntryKnows,
                Returned
<1> QED
  BY <1>1, <1>2, <1>3, <1>4, <1>5, <1>6, <1>7, <1>8, <1>9, <1>10
     DEF Next, SyncStep, QuotaStep

\* An attempt that the cache has shown as completed is never shown as active
\* again, whichever stage the later syncs learn of the run in.
THEOREM AttemptsAreNotTakenBack == Spec => AttemptsStayCompleted
<1> DEFINE Kept == \A r \in Runs, k \in Attempts :
                     /\ CachedStatus(store[r], k) = "completed"
                     /\ k \in CachedAttempts(store'[r])
                     => CachedStatus(store'[r], k) = "completed"
<1>1. ASSUME TypeOK, OverStaysOver, [Next]_vars
      PROVE  [Kept]_vars
  <2>1. CASE UNCHANGED store
    BY <2>1
  <2>2. CASE Save
    <3> SUFFICES ASSUME NEW r \in Runs, NEW k \in Attempts,
                        CachedStatus(store[r], k) = "completed",
                        k \in CachedAttempts(store'[r])
                 PROVE  CachedStatus(store'[r], k) = "completed"
      OBVIOUS
    <3>1. store'[r] = MergedRows(store[r], entry[r])
      BY <2>2 DEF Save
    <3>2. CASE ~entry[r].present
      BY <3>1, <3>2 DEF MergedRows
    <3>3. CASE entry[r].present
      <4>1. PICK x \in store[r].rows : x.att = k /\ x.status = "completed"
        BY CachedStatusFromRow
      <4>2. PICK y \in store'[r].rows : y = CHOOSE row \in store'[r].rows : row.att = k
        BY DEF CachedAttempts
      <4>3. y.att = k
        BY <4>2 DEF CachedAttempts
      <4>4. CachedStatus(store'[r], k) = y.status
        BY <4>2 DEF CachedStatus
      <4>5. y \in cache_to_parquet_rows(entry[r])
        BY <3>1, <3>3 DEF MergedRows
      <4> QED
        BY <1>1, <3>3, <4>1, <4>3, <4>4, <4>5, EntryTakesNothingBack DEF OverStaysOver
    <3> QED
      BY <3>2, <3>3
  <2> QED
    BY <1>1, <2>1, <2>2, OnlySaveWrites
<1> QED
  BY <1>1, TypeCorrect, NeverAheadInit, NeverAheadStep, OverStaysOverInit, OverStaysOverStep,
     PTL DEF Spec, AttemptsStayCompleted

-----------------------------------------------------------------------------
(* The refinement.                                                         *)

mirrored == [r \in Runs |-> [rows |-> store[r].rows, wf |-> store[r].wf]]

LEMMA MirrorInit == Init => Mirror!Init
BY DEF Init, Mirror!Init, GhInit, Mirror!GhInit, Mirror!Nothing, NotStored

LEMMA GitHubMovesAlike == GhNext => Mirror!GhNext
<1> SUFFICES ASSUME NEW r \in Runs,
                    \/ GhCreateRun(r) \/ GhStartRun(r) \/ GhCreateJob(r) \/ GhFinishJob(r)
                    \/ GhCompleteRun(r) \/ GhRerun(r) \/ GhLoseLink(r) \/ GhDelete(r)
             PROVE  Mirror!GhNext
  BY DEF GhNext
<1>1. CASE GhCreateJob(r)
  <2>1. AllDone(r) = Mirror!AllDone(r)
    BY DEF AllDone, Mirror!AllDone, AttemptOf, Mirror!AttemptOf
  <2> QED
    BY <1>1, <2>1 DEF GhCreateJob, Mirror!GhCreateJob, Mirror!GhNext, Active, Mirror!Active
<1>2. CASE ~GhCreateJob(r)
  BY <1>2 DEF Mirror!GhNext, GhCreateRun, Mirror!GhCreateRun, GhStartRun, Mirror!GhStartRun,
     GhFinishJob, Mirror!GhFinishJob, GhCompleteRun, Mirror!GhCompleteRun, GhRerun,
     Mirror!GhRerun, GhLoseLink, Mirror!GhLoseLink, GhDelete, Mirror!GhDelete,
     Active, Mirror!Active, RunStatus, Mirror!RunStatus
<1> QED
  BY <1>1, <1>2

\* A save publishes the entries of the sync that ends.
LEMMA SavePublishes ==
  ASSUME TypeOK, NeverAhead, OwnRunsOnly, OverStaysOver, Save
  PROVE  Mirror!Next \/ UNCHANGED <<gh, mirrored>>
<1>1. UNCHANGED gh /\ \A r \in Runs : store'[r] = MergedRows(store[r], entry[r])
  BY DEF Save
<1>2. \A r \in Runs : ~entry[r].present => mirrored'[r] = mirrored[r]
  BY <1>1 DEF MergedRows, mirrored
<1>3. CASE \A r \in Runs : ~entry[r].present
  BY <1>1, <1>2, <1>3 DEF mirrored
<1>4. CASE \E r \in Runs : entry[r].present
  <2>1. PICK w \in Workflows : w = wf
    BY <1>4, GitHubAssumption DEF OwnRunsOnly
  <2>2. ASSUME NEW r \in Runs, entry[r].present
        PROVE  Mirror!Published(r, w)
    <3>1. /\ mirrored'[r].rows = cache_to_parquet_rows(entry[r])
          /\ mirrored'[r].wf = wf /\ mirrored[r].rows = store[r].rows
      <4>1. store'[r] = [rows |-> cache_to_parquet_rows(entry[r]), wf |-> wf,
                         linked |-> entry[r].linked, last |-> entry[r].last]
        BY <1>1, <2>2 DEF MergedRows
      <4>2. mirrored'[r] = [rows |-> store'[r].rows, wf |-> store'[r].wf]
        BY DEF mirrored
      <4> QED
        BY <4>1, <4>2 DEF mirrored
    <3>2. Owner[r] = w
      BY <2>1, <2>2 DEF OwnRunsOnly
    <3>3. \A row \in cache_to_parquet_rows(entry[r]) : RowNotAhead(r, row)
      BY RowsNotAhead DEF NeverAhead
    <3>4. \A row \in cache_to_parquet_rows(entry[r]) : Mirror!HasHappened(r, row)
      BY <3>3 DEF RowNotAhead, Mirror!HasHappened, Happened, Mirror!Happened, AttemptStatus,
                  Mirror!AttemptStatus
    <3>5. Mirror!TakesNothingBack(store[r].rows, cache_to_parquet_rows(entry[r]))
      BY <2>2, EntryTakesNothingBack DEF Mirror!TakesNothingBack, OverStaysOver
    <3> QED
      BY <2>1, <3>1, <3>2, <3>4, <3>5, EntriesHaveRows DEF Mirror!Published, mirrored
  <2>3. \A r \in Runs : mirrored'[r] = mirrored[r] \/ Mirror!Published(r, w)
    BY <1>2, <2>2
  <2>4. Mirror!Publish(w)
    BY <1>1, <2>3 DEF Mirror!Publish, mirrored
  <2> QED
    BY <2>4 DEF Mirror!Next
<1> QED
  BY <1>3, <1>4

LEMMA MirrorStep ==
  TypeOK /\ NeverAhead /\ OwnRunsOnly /\ OverStaysOver /\ [Next]_vars
    => [Mirror!Next]_<<gh, mirrored>>
<1> SUFFICES ASSUME TypeOK, NeverAhead, OwnRunsOnly, OverStaysOver, [Next]_vars
             PROVE  [Mirror!Next]_<<gh, mirrored>>
  OBVIOUS
<1>1. CASE Save
  BY <1>1, SavePublishes
<1>2. CASE GitHubStep
  BY <1>2, GitHubMovesAlike DEF GitHubStep, Mirror!Next, Mirror!GitHubMoves, mirrored
<1>3. CASE ~Save /\ ~GitHubStep
  <2>1. UNCHANGED store
    BY <1>3, OnlySaveWrites
  <2>2. UNCHANGED gh
    BY <1>3 DEF Next, SyncStep, QuotaStep, StartSync, ListRun, ListRunAgain, EndListing,
       FetchStaleRun, EndReconcile, UpdateRuns, StartFetchJobs, FetchJobs, EndJobs,
       FetchAttempt, EndAttempts, NotFound, Abort, QuotaWhileListing,
       QuotaWhileFetchingJobs, QuotaWhileFetchingAttempts, vars
  <2> QED
    BY <2>1, <2>2 DEF mirrored
<1> QED
  BY <1>1, <1>2, <1>3

\* Syncs, whatever stops them, act on the cache like the abstract mirror.
THEOREM CacheIsMirror == Spec => IsMirror
<1> QED
  BY TypeCorrect, NeverAheadInit, NeverAheadStep, OwnRunsInit, OwnRunsStep,
     OverStaysOverInit, OverStaysOverStep, MirrorInit, MirrorStep,
     PTL DEF Spec, IsMirror, Mirror!Spec, mirrored
=============================================================================
