-------------------------- MODULE CyclicSyncProofs --------------------------
(***************************************************************************)
(* Theorems about CyclicSync, for any days, workflows, quota and time-out, *)
(* when the driver is given a script that reports failures.                *)
(***************************************************************************)
EXTENDS CyclicSync, TLAPS

\* The script runs for days of the range only, and the workflows before the
\* one it is at are done for the current day.
Progress ==
  /\ pc # "start" => day \in 1..Days
  /\ day \in 1..Days => \A w \in 1..Workflows : w < wf => need[day][w] = 0

IInv == TypeOK /\ Progress /\ PastDaysAreSynced

Needs == [1..Days -> [1..Workflows -> 0..MaxNeed]]

LEMMA Init1 == Init => IInv
BY CyclicSyncAssumption DEF Init, IInv, TypeOK, Progress, PastDaysAreSynced

\* A failed sync leaves the attempt and no trace of it.
LEMMA ScriptStopsAlone ==
  ASSUME ScriptReportsFailure, ScriptStops
  PROVE  pc' = "failed" /\ wf' = 1 /\ clock' = 0 /\ got' = 0 /\ UNCHANGED day
BY DEF ScriptStops, Attempt

LEMMA NewAttemptType ==
  ASSUME wf' = 1, clock' = 0, got' = 0
  PROVE  wf' \in 1..Workflows /\ clock' \in 0..Timeout /\ got' \in 0..MaxNeed
BY CyclicSyncAssumption

\* What is saved of a workflow's window is no longer needed.
LEMMA NeedsAfterSaving ==
  ASSUME TypeOK, day \in 1..Days, NEW n \in 0..MaxNeed,
         need' = [need EXCEPT ![day][wf] = n]
  PROVE  /\ need' \in Needs
         /\ \A d \in 1..Days : d # day => need'[d] = need[d]
         /\ \A w \in 1..Workflows : w # wf => need'[day][w] = need[day][w]
         /\ need'[day][wf] = n
BY DEF TypeOK, Needs

LEMMA TypeStep ==
  ASSUME ScriptReportsFailure
  PROVE  IInv /\ [Next]_vars => TypeOK'
<1> SUFFICES ASSUME TypeOK, Progress, [Next]_vars PROVE TypeOK'
  BY DEF IInv
<1> USE CyclicSyncAssumption
<1>1. CASE StartWindow
  BY <1>1 DEF StartWindow, Attempt, TypeOK
<1>2. CASE PreflightFails
  BY <1>2, ScriptStopsAlone DEF PreflightFails, TypeOK
<1>3. CASE BeginSync
  BY <1>3 DEF BeginSync, TypeOK
<1>4. CASE Fetch
  <2>1. day \in 1..Days
    BY <1>4 DEF Fetch, Progress
  <2>2. need[day][wf] \in 0..MaxNeed
    BY <2>1 DEF TypeOK
  <2> QED
    BY <1>4, <2>2 DEF Fetch, TypeOK
<1>5. CASE QuotaStops
  <2>1. day \in 1..Days
    BY <1>5 DEF QuotaStops, MeetsQuotaLimit, Progress
  <2>2. need[day][wf] - got \in 0..MaxNeed
    BY <1>5, <2>1 DEF QuotaStops, MeetsQuotaLimit, TypeOK
  <2>3. need' = [need EXCEPT ![day][wf] = need[day][wf] - got]
    BY <1>5 DEF QuotaStops
  <2>4. need' \in Needs
    BY <2>1, <2>2, <2>3, NeedsAfterSaving
  <2> QED
    BY <1>5, <2>4, ScriptStopsAlone DEF QuotaStops, MeetsQuotaLimit, TypeOK, Needs
<1>6. CASE QuotaHangs
  BY <1>6 DEF QuotaHangs, MeetsQuotaLimit, TypeOK
<1>7. CASE EndSync
  <2>1. day \in 1..Days
    BY <1>7 DEF EndSync, Progress
  <2>2. 0 \in 0..MaxNeed /\ need' = [need EXCEPT ![day][wf] = 0]
    BY <1>7 DEF EndSync
  <2>3. need' \in Needs
    BY <2>1, <2>2, NeedsAfterSaving
  <2>4. UNCHANGED <<quota, faults>> /\ got' = 0
    BY <1>7 DEF EndSync, NextDay, Attempt
  <2>5. CASE wf < Workflows
    BY <1>7, <2>3, <2>4, <2>5 DEF EndSync, TypeOK, Needs
  <2>6. CASE ~(wf < Workflows)
    <3>1. day' = day + 1 /\ pc' = "start" /\ wf' = 1 /\ clock' = 0
      BY <1>7, <2>6 DEF EndSync, NextDay, Attempt
    <3>2. day' \in 1..(Days + 1)
      BY <2>1, <3>1
    <3>3. wf' \in 1..Workflows /\ clock' \in 0..Timeout /\ got' \in 0..MaxNeed
      BY <2>4, <3>1, NewAttemptType
    <3> QED
      BY <2>3, <2>4, <3>1, <3>2, <3>3 DEF TypeOK, Needs
  <2> QED
    BY <2>5, <2>6
<1>8. CASE TimeOut
  <2>1. /\ UNCHANGED <<day, quota, need, faults>>
        /\ pc' = "timed out" /\ wf' = 1 /\ clock' = 0 /\ got' = 0
    BY <1>8 DEF TimeOut, Attempt
  <2>2. wf' \in 1..Workflows /\ clock' \in 0..Timeout /\ got' \in 0..MaxNeed
    BY <2>1, NewAttemptType
  <2> QED
    BY <2>1, <2>2 DEF TypeOK
<1>9. CASE Retry
  BY <1>9 DEF Retry, TypeOK
<1>10. CASE SyncFails
  BY <1>10, ScriptStopsAlone DEF SyncFails, TypeOK
<1>11. CASE Stuck
  BY <1>11 DEF Stuck, TypeOK
<1>12. CASE ResetQuota
  <2>1. quota' = Quota /\ UNCHANGED <<day, pc, wf, clock, need, got, faults>>
    BY <1>12 DEF ResetQuota
  <2>2. quota' \in 0..Quota
    BY <2>1
  <2> QED
    BY <2>1, <2>2 DEF TypeOK
<1>13. CASE UNCHANGED vars
  BY <1>13 DEF vars, TypeOK
<1> QED
  BY <1>1, <1>2, <1>3, <1>4, <1>5, <1>6, <1>7, <1>8, <1>9, <1>10, <1>11, <1>12, <1>13
     DEF Next, DriverStep

LEMMA ProgressStep ==
  ASSUME ScriptReportsFailure
  PROVE  IInv /\ [Next]_vars => Progress' /\ PastDaysAreSynced'
<1> SUFFICES ASSUME TypeOK, Progress, PastDaysAreSynced, [Next]_vars
             PROVE  Progress' /\ PastDaysAreSynced'
  BY DEF IInv
<1> USE CyclicSyncAssumption
\* Leaving an attempt: the day stays, and with wf at 1 nothing is claimed.
<1>a. ASSUME UNCHANGED <<day, need>>, wf' = 1, day \in 1..Days
      PROVE  Progress' /\ PastDaysAreSynced'
  BY <1>a DEF Progress, PastDaysAreSynced
\* Going on with it: neither the day, nor the workflow, nor the cache changes.
<1>b. ASSUME UNCHANGED <<day, need, wf>>, pc' = "start" \/ pc # "start"
      PROVE  Progress' /\ PastDaysAreSynced'
  BY <1>b DEF Progress, PastDaysAreSynced
<1>1. CASE StartWindow
  <2>1. day \in 1..Days
    BY <1>1 DEF StartWindow, Over, TypeOK
  <2> QED
    BY <1>1, <2>1, <1>a DEF StartWindow, Attempt
<1>2. CASE PreflightFails
  BY <1>2, <1>a, ScriptStopsAlone DEF PreflightFails, Progress
<1>3. CASE BeginSync
  BY <1>3, <1>b DEF BeginSync
<1>4. CASE Fetch
  BY <1>4, <1>b DEF Fetch
<1>5. CASE QuotaStops
  <2>1. day \in 1..Days
    BY <1>5 DEF QuotaStops, MeetsQuotaLimit, Progress
  <2>2. need[day][wf] - got \in 0..MaxNeed
    BY <1>5, <2>1 DEF QuotaStops, MeetsQuotaLimit, TypeOK
  <2>3. need' = [need EXCEPT ![day][wf] = need[day][wf] - got]
    BY <1>5 DEF QuotaStops
  <2>4. \A d \in 1..Days : d # day => need'[d] = need[d]
    BY <2>1, <2>2, <2>3, NeedsAfterSaving
  <2>5. day' = day /\ wf' = 1
    BY <1>5, ScriptStopsAlone DEF QuotaStops
  <2> QED
    BY <2>1, <2>4, <2>5 DEF Progress, PastDaysAreSynced
<1>6. CASE QuotaHangs
  BY <1>6, <1>b DEF QuotaHangs, MeetsQuotaLimit
<1>7. CASE EndSync
  <2>1. day \in 1..Days /\ wf \in 1..Workflows
    BY <1>7 DEF EndSync, Progress, TypeOK
  <2>2. /\ \A d \in 1..Days : d # day => need'[d] = need[d]
        /\ \A w \in 1..Workflows : w # wf => need'[day][w] = need[day][w]
        /\ need'[day][wf] = 0
    <3>1. 0 \in 0..MaxNeed
      OBVIOUS
    <3> QED
      BY <1>7, <2>1, <3>1, NeedsAfterSaving DEF EndSync
  \* The workflows up to the one that has ended are done.
  <2>3. \A w \in 1..Workflows : w <= wf => need'[day][w] = 0
    BY <2>1, <2>2 DEF Progress
  <2>4. CASE wf < Workflows
    <3>1. day' = day /\ wf' = wf + 1
      BY <1>7, <2>4 DEF EndSync
    <3> QED
      BY <2>1, <2>2, <2>3, <3>1 DEF Progress, PastDaysAreSynced
  <2>5. CASE ~(wf < Workflows)
    <3>1. day' = day + 1 /\ wf' = 1 /\ pc' = "start"
      BY <1>7, <2>5 DEF EndSync, NextDay, Attempt
    <3>2. \A w \in 1..Workflows : need'[day][w] = 0
      BY <2>1, <2>3, <2>5
    <3>3. PastDaysAreSynced'
      BY <2>1, <2>2, <3>1, <3>2 DEF PastDaysAreSynced
    <3> QED
      BY <3>1, <3>3 DEF Progress
  <2> QED
    BY <2>4, <2>5
<1>8. CASE TimeOut
  BY <1>8, <1>a DEF TimeOut, Attempt, Progress
<1>9. CASE Retry
  BY <1>9, <1>b DEF Retry
<1>10. CASE SyncFails
  BY <1>10, <1>a, ScriptStopsAlone DEF SyncFails, Progress
<1>11. CASE Stuck
  BY <1>11, <1>b DEF Stuck
<1>12. CASE ResetQuota
  BY <1>12 DEF ResetQuota, Progress, PastDaysAreSynced
<1>13. CASE UNCHANGED vars
  BY <1>13 DEF vars, Progress, PastDaysAreSynced
<1> QED
  BY <1>1, <1>2, <1>3, <1>4, <1>5, <1>6, <1>7, <1>8, <1>9, <1>10, <1>11, <1>12, <1>13
     DEF Next, DriverStep

\* With a script that passes on the exit code of cimon, cyclic_sync.sh leaves
\* no day behind whose windows are not in the cache.
THEOREM NoDayIsLeftBehind == ASSUME ScriptReportsFailure PROVE Spec => []PastDaysAreSynced
<1>1. IInv /\ [Next]_vars => IInv'
  BY TypeStep, ProgressStep DEF IInv
<1>2. Spec => []IInv
  BY Init1, <1>1, PTL DEF Spec
<1> QED
  BY <1>2, PTL DEF IInv
=============================================================================
