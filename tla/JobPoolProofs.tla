--------------------------- MODULE JobPoolProofs ---------------------------
(***************************************************************************)
(* Theorems about JobPool, for any number of runs and threads.             *)
(***************************************************************************)
EXTENDS JobPool, TLAPS, FiniteSetTheorems

\* Inductive strengthening of NothingFetchedIsLost: a job list main has taken
\* is in its entry, and without an exception main leaves the loop only when
\* it has taken everything.
TakenIsCached ==
  /\ \A i \in yielded : future[i] \in Outcomes /\ (future[i] = "jobs" => i \in cached)
  /\ main \in {"leave", "done"} /\ ~failed => yielded = Items
  /\ main = "done" => ~failed
  /\ \A k \in 1..Len(queue) : future[queue[k]] = "pending"
  /\ \A k, l \in 1..Len(queue) : queue[k] = queue[l] => k = l
  /\ \A t \in Threads : thread[t] # Nil => future[thread[t]] = "running"
  /\ \A t, u \in Threads : thread[t] # Nil /\ thread[t] = thread[u] => t = u

LEMMA TypeInit == Init => TypeOK
<1> SUFFICES ASSUME Init PROVE TypeOK
  OBVIOUS
<1>1. queue \in Seq(Items)
  BY DEF Init
<1> QED
  BY <1>1 DEF Init, TypeOK, FutureStates

LEMMA TypeStep == TypeOK /\ [Next]_vars => TypeOK'
<1> SUFFICES ASSUME TypeOK, [Next]_vars PROVE TypeOK'
  OBVIOUS
<1> USE DEF TypeOK, FutureStates, Outcomes
<1>1. ASSUME NEW i \in Items, Submit(i)
      PROVE  TypeOK'
  BY <1>1 DEF Submit
<1>2. CASE BeginIteration \/ EndIteration \/ Leave
  BY <1>2 DEF BeginIteration, EndIteration, Leave
<1>3. ASSUME NEW t \in Threads, TakeFuture(t)
      PROVE  TypeOK'
  <2>1. Head(queue) \in Items /\ Tail(queue) \in Seq(Items)
    BY <1>3 DEF TakeFuture
  <2> QED
    BY <1>3, <2>1 DEF TakeFuture
<1>4. ASSUME NEW t \in Threads, NEW o \in Outcomes, FinishFuture(t, o)
      PROVE  TypeOK'
  BY <1>4 DEF FinishFuture
<1>5. ASSUME NEW i \in Items, YieldJobs(i) \/ YieldError(i)
      PROVE  TypeOK'
  BY <1>5 DEF YieldJobs, YieldError
<1>6. ASSUME NEW i \in Items, YieldQuota(i)
      PROVE  TypeOK'
  <2>1. queue' \in Seq(Items)
    <3>1. queue' = queue \/ queue' = <<>>
      BY <1>6 DEF YieldQuota
    <3>2. <<>> \in Seq(Items)
      OBVIOUS
    <3> QED
      BY <3>1, <3>2
  <2>2. future' \in [Items -> FutureStates]
    <3>1. CASE quota
      BY <1>6, <3>1 DEF YieldQuota
    <3>2. CASE ~quota
      <4>1. future' = [j \in Items |-> IF future[j] = "pending" THEN "cancelled"
                                      ELSE future[j]]
        BY <1>6, <3>2 DEF YieldQuota
      <4>2. \A j \in Items : future[j] \in FutureStates
        OBVIOUS
      <4> QED
        BY <4>1, <4>2
    <3> QED
      BY <3>1, <3>2
  <2> QED
    BY <1>6, <2>1, <2>2 DEF YieldQuota
<1>7. CASE UNCHANGED vars
  BY <1>7 DEF vars
<1> QED
  BY <1>1, <1>2, <1>3, <1>4, <1>5, <1>6, <1>7 DEF Next, MainStep, ThreadStep

\* All of the stage's state stays of its kind.
THEOREM TypeCorrect == Spec => []TypeOK
<1> QED
  BY TypeInit, TypeStep, PTL DEF Spec

LEMMA TakenIsCachedInit == Init => TakenIsCached
BY JobPoolAssumption DEF Init, TakenIsCached

LEMMA TakenIsCachedStep == TypeOK /\ TakenIsCached /\ [Next]_vars => TakenIsCached'
<1> SUFFICES ASSUME TypeOK, TakenIsCached, [Next]_vars PROVE TakenIsCached'
  OBVIOUS
<1> USE JobPoolAssumption DEF TypeOK, TakenIsCached, Outcomes
<1>1. ASSUME NEW i \in Items, Submit(i)
      PROVE  TakenIsCached'
  <2>1. queue' = Append(queue, i) /\ future' = [future EXCEPT ![i] = "pending"]
    BY <1>1 DEF Submit
  <2>2. \A k \in 1..Len(queue') : future'[queue'[k]] = "pending"
    BY <1>1, <2>1 DEF Submit
  <2> QED
    BY <1>1, <2>2 DEF Submit
<1>2. CASE BeginIteration \/ EndIteration \/ Leave
  BY <1>2 DEF BeginIteration, EndIteration, Leave
<1>3. ASSUME NEW t \in Threads, TakeFuture(t)
      PROVE  TakenIsCached'
  <2>1. /\ Head(queue) \in Items /\ future[Head(queue)] = "pending"
        /\ Head(queue) = queue[1] /\ Len(queue) \in Nat \ {0}
    BY <1>3 DEF TakeFuture
  <2> QED
    BY <1>3, <2>1 DEF TakeFuture
<1>4. ASSUME NEW t \in Threads, NEW o \in Outcomes, FinishFuture(t, o)
      PROVE  TakenIsCached'
  BY <1>4 DEF FinishFuture
<1>5. ASSUME NEW i \in Items, YieldJobs(i) \/ YieldError(i)
      PROVE  TakenIsCached'
  BY <1>5 DEF YieldJobs, YieldError, Yieldable
<1>6. ASSUME NEW i \in Items, YieldQuota(i)
      PROVE  TakenIsCached'
  BY <1>6 DEF YieldQuota, Yieldable
<1>7. CASE UNCHANGED vars
  BY <1>7 DEF vars
<1> QED
  BY <1>1, <1>2, <1>3, <1>4, <1>5, <1>6, <1>7 DEF Next, MainStep, ThreadStep

\* A stage that ends normally has stored every job list that was fetched.
THEOREM NoFetchedListIsLost == Spec => []NothingFetchedIsLost
<1>1. TakenIsCached => NothingFetchedIsLost
  BY DEF TakenIsCached, NothingFetchedIsLost
<1> QED
  BY <1>1, TypeCorrect, TakenIsCachedInit, TakenIsCachedStep, PTL DEF Spec

-----------------------------------------------------------------------------
(* The pool as the job stage of RunSync.  What its steps rest on: who met  *)
(* the quota limit, who was started too late, and what a stop leaves.      *)

StageInv ==
  /\ hit = Nil => doomed = {} /\ ~quota /\ \A i \in Items : future[i] # "quota"
  /\ hit # Nil => QuotaHits /\ future[hit] = "quota" /\ hit \notin doomed
  /\ \A i \in doomed : future[i] \in {"running", "quota"}
  /\ quota => queue = <<>> /\ \A i \in Items : future[i] \notin {"unsubmitted", "pending"}
  /\ ~quota => \A i \in Items : /\ future[i] # "cancelled"
                                /\ i \in yielded => future[i] # "quota"
  /\ main = "submit" \/ \A i \in Items : future[i] # "unsubmitted"
  /\ \A i \in Items : future[i] = "running" => \E t \in Threads : thread[t] = i
  /\ \A i \in cached : future[i] = "jobs"
  /\ \A i \in yielded : future[i] = "error" => failed
  /\ failed => \E i \in Items : future[i] = "error"
  /\ main = "raised" => failed

AllInv == TypeOK /\ TakenIsCached /\ StageInv

LEMMA StageInvInit == Init => StageInv
BY JobPoolAssumption DEF Init, StageInv

LEMMA StageInvStep == AllInv /\ [Next]_vars => StageInv'
<1> SUFFICES ASSUME AllInv, [Next]_vars PROVE StageInv'
  OBVIOUS
<1>1. TypeOK /\ TakenIsCached /\ StageInv
  BY DEF AllInv
<1> USE JobPoolAssumption DEF TypeOK, StageInv, FutureStates, Outcomes, flagged
<1>2. ASSUME NEW i \in Items, Submit(i)
      PROVE  StageInv'
  BY <1>1, <1>2 DEF Submit
<1>3. CASE BeginIteration \/ EndIteration \/ Leave
  BY <1>1, <1>3 DEF BeginIteration, EndIteration, Leave
<1>4. ASSUME NEW t \in Threads, TakeFuture(t)
      PROVE  StageInv'
  <2> DEFINE h == Head(queue)
  <2>1. /\ h \in Items /\ future[h] = "pending" /\ queue # <<>> /\ thread[t] = Nil
        /\ thread' = [thread EXCEPT ![t] = h] /\ future' = [future EXCEPT ![h] = "running"]
        /\ doomed' = IF flagged THEN doomed \cup {h} ELSE doomed
        /\ UNCHANGED <<main, hit, yielded, quota, failed, cached>>
    <3>1. h \in Items /\ h = queue[1] /\ 1 \in 1..Len(queue)
      BY <1>1, <1>4 DEF TakeFuture
    <3> QED
      BY <1>1, <1>4, <3>1 DEF TakeFuture, TakenIsCached
  <2>2. ~quota /\ h \notin yielded
    BY <1>1, <2>1 DEF TakenIsCached
  <2> HIDE DEF h
  <2>3. \A i \in Items : future'[i] = "running" => \E u \in Threads : thread'[u] = i
    BY <1>1, <2>1
  <2> QED
    BY <1>1, <2>1, <2>2, <2>3
<1>5. ASSUME NEW t \in Threads, NEW o \in Outcomes, FinishFuture(t, o)
      PROVE  StageInv'
  <2> DEFINE i == thread[t]
  <2>1. i \in Items /\ future[i] = "running" /\ i \notin yielded
    BY <1>1, <1>5 DEF FinishFuture, TakenIsCached
  <2>2. \A j \in Items : future'[j] = "running" => \E u \in Threads : thread'[u] = j
    BY <1>1, <1>5, <2>1 DEF FinishFuture
  <2>3. o = "quota" \/ i \notin doomed
    BY <1>5 DEF FinishFuture
  <2> QED
    BY <1>1, <1>5, <2>1, <2>2, <2>3 DEF FinishFuture
<1>6. ASSUME NEW i \in Items, YieldJobs(i) \/ YieldError(i)
      PROVE  StageInv'
  BY <1>1, <1>6 DEF YieldJobs, YieldError, Yieldable
<1>7. ASSUME NEW i \in Items, YieldQuota(i)
      PROVE  StageInv'
  <2>1. /\ \A j \in Items : /\ future'[j] \notin {"unsubmitted", "pending"}
                            /\ future[j] # "pending" => future'[j] = future[j]
                            /\ future'[j] # future[j] => future'[j] = "cancelled"
        /\ queue' = <<>>
    BY <1>1, <1>7 DEF YieldQuota, Yieldable
  <2> QED
    BY <1>1, <1>7, <2>1 DEF YieldQuota, Yieldable
<1>8. CASE UNCHANGED vars
  BY <1>1, <1>8 DEF vars
<1> QED
  BY <1>2, <1>3, <1>4, <1>5, <1>6, <1>7, <1>8 DEF Next, MainStep, ThreadStep

LEMMA AllInvInvariant == Spec => []AllInv
<1>1. Init => AllInv
  BY TypeInit, TakenIsCachedInit, StageInvInit DEF AllInv
<1>2. AllInv /\ [Next]_vars => AllInv'
  BY TypeStep, TakenIsCachedStep, StageInvStep DEF AllInv
<1> QED
  BY <1>1, <1>2, PTL DEF Spec

-----------------------------------------------------------------------------
(* The steps.                                                              *)

LEMMA StageCounts == \A S : Stage!Cardinality(S) = Cardinality(S)
BY DEF Stage!Cardinality, Cardinality

LEMMA StageStutters ==
  ASSUME Failing' = Failing, StagePc' = StagePc, StageEntry' = StageEntry,
         ToFetch' = ToFetch, Fetching' = Fetching, quota' = quota
  PROVE  UNCHANGED Stage!vars
<1>1. OneJobEach' = OneJobEach
  BY DEF OneJobEach
<1> QED
  BY <1>1 DEF Stage!vars, Stage!local

\* Once a thread has failed the sync is over for RunSync.
LEMMA FailingStutters ==
  ASSUME Failing, Failing'
  PROVE  UNCHANGED Stage!vars
<1>1. /\ StagePc = "idle" /\ StagePc' = "idle"
      /\ StageEntry = [i \in Items |-> NoEntry] /\ StageEntry' = [i \in Items |-> NoEntry]
      /\ ToFetch = {} /\ ToFetch' = {} /\ Fetching = {} /\ Fetching' = {}
  BY DEF StagePc, StageEntry, ToFetch, Fetching, NoEntry
<1>2. OneJobEach' = OneJobEach
  BY DEF OneJobEach
<1> QED
  BY <1>1, <1>2 DEF Stage!vars, Stage!local

LEMMA FailureAborts ==
  ASSUME ~Failing, Failing'
  PROVE  Stage!Abort
<1>1. /\ StagePc # "idle" /\ StagePc' = "idle"
      /\ StageEntry' = [i \in Items |-> NoEntry]
      /\ ToFetch' = {} /\ Fetching' = {}
  BY DEF StagePc, StageEntry, ToFetch, Fetching, NoEntry
<1>2. OneJobEach' = OneJobEach
  BY DEF OneJobEach
<1>3. NoEntry = Stage!NoEntry
  <2>1. [k \in Stage!Attempts |-> "absent"] = <<"absent">>
    BY DEF Stage!Attempts
  <2> QED
    BY <2>1 DEF NoEntry, Stage!NoEntry
<1> QED
  BY <1>1, <1>2, <1>3 DEF Stage!Abort, Stage!Idle, Stage!NoSnapshot

\* Before any failure, main has left the loop only with every future yielded.
LEMMA NoErrors ==
  ASSUME AllInv, ~Failing
  PROVE  /\ \A i \in Items : future[i] # "error"
         /\ ~failed /\ main \in {"submit", "iterate", "leave", "done"}
         /\ main \in {"leave", "done"} =>
              yielded = Items /\ \A i \in Items : future[i] \in {"jobs", "quota"}
BY DEF AllInv, TypeOK, TakenIsCached, StageInv, Failing, Outcomes

\* With a future still to come, the stage is on.
LEMMA StageIsOn ==
  ASSUME AllInv, ~Failing, NEW i \in Items, future[i] \notin {"jobs", "quota"}
  PROVE  main \in {"submit", "iterate"} /\ StagePc = "jobs"
BY NoErrors DEF StagePc

\* A thread that takes a future before the flag is set starts a request; fewer
\* than all threads are in one.
LEMMA TakeStep ==
  ASSUME AllInv, ~Failing, NEW t \in Threads, TakeFuture(t)
  PROVE  \/ UNCHANGED Stage!vars
         \/ \E i \in Items : Stage!StartFetchJobs(i)
<1> DEFINE h == Head(queue)
<1> USE DEF flagged
<1>1. TypeOK /\ TakenIsCached /\ StageInv
  BY DEF AllInv
<1>2. /\ h \in Items /\ future[h] = "pending" /\ queue # <<>> /\ thread[t] = Nil
      /\ thread' = [thread EXCEPT ![t] = h] /\ future' = [future EXCEPT ![h] = "running"]
      /\ doomed' = IF hit # Nil THEN doomed \cup {h} ELSE doomed
      /\ UNCHANGED <<main, hit, yielded, quota, failed, cached>>
  <2>1. h \in Items /\ h = queue[1] /\ 1 \in 1..Len(queue)
    BY <1>1 DEF TakeFuture, TypeOK
  <2> QED
    BY <1>1, <2>1 DEF TakeFuture, TakenIsCached
<1> HIDE DEF h
<1>3. /\ ~quota /\ h \notin yielded /\ h \notin doomed /\ h # hit
      /\ main \in {"submit", "iterate"} /\ StagePc = "jobs"
  <2>1. main \in {"submit", "iterate"} /\ StagePc = "jobs"
    BY <1>2, StageIsOn
  <2>2. ~quota /\ h \notin doomed /\ h # hit
    BY <1>1, <1>2, JobPoolAssumption DEF StageInv
  <2>3. h \notin yielded
    BY <1>1, <1>2 DEF TakenIsCached, Outcomes
  <2> QED
    BY <2>1, <2>2, <2>3
<1>4. /\ \A i \in Items : i # h => future'[i] = future[i]
      /\ future'[h] = "running"
  BY <1>1, <1>2 DEF TypeOK
<1>5. ~Failing' /\ Failing' = Failing
  <2>1. \A i \in Items : future'[i] # "error"
    BY <1>4, NoErrors
  <2> QED
    BY <2>1 DEF Failing
<1>6. StagePc' = StagePc /\ StageEntry' = StageEntry
  <2>1. Fetched' = Fetched
    BY <1>2, <1>3, <1>4 DEF Fetched
  <2> QED
    BY <1>2, <1>5, <2>1 DEF StagePc, StageEntry, EntryWith
<1>7. CASE hit # Nil
  <2>1. ToFetch' = ToFetch
    BY <1>1, <1>2, <1>3, <1>4, <1>5, <1>7 DEF ToFetch, Submitted, TypeOK
  <2>2. doomed' \cap yielded' = doomed \cap yielded
    BY <1>2, <1>3
  <2>3. Fetching' = Fetching
    BY <1>1, <1>2, <1>3, <1>4, <1>5, <1>7, <2>2 DEF Fetching
  <2> QED
    BY <1>2, <1>5, <1>6, <2>1, <2>3, StageStutters
<1>8. CASE hit = Nil
  <2>1. doomed = {} /\ doomed' = {} /\ \A i \in Items : future[i] # "quota"
    BY <1>1, <1>2, <1>8 DEF StageInv
  <2>2. ToFetch' = ToFetch \ {h} /\ h \in ToFetch
    BY <1>2, <1>3, <1>4, <1>5, <2>1 DEF ToFetch, Submitted
  <2>3. Fetching = {i \in Items : future[i] = "running"} /\ Fetching' = Fetching \cup {h}
    BY <1>2, <1>3, <1>4, <1>5, <2>1 DEF Fetching
  <2>4. Cardinality(Fetching) < Cardinality(Threads)
    <3> DEFINE T == Threads \ {t}
               f == [i \in Fetching |-> CHOOSE u \in Threads : thread[u] = i]
    <3>1. \A i \in Fetching : f[i] \in Threads /\ thread[f[i]] = i
      BY <1>1, <2>3 DEF StageInv
    <3>2. \A i \in Fetching : i # Nil
      BY <2>3, JobPoolAssumption
    <3> HIDE DEF f
    <3>3. f \in [Fetching -> T]
      <4>1. \A i \in Fetching : f[i] \in T
        BY <1>2, <3>1, <3>2
      <4>2. f = [i \in Fetching |-> f[i]]
        BY DEF f
      <4> QED
        BY <4>1, <4>2
    <3>4. f \in Injection(Fetching, T)
      BY <3>1, <3>3 DEF Injection, IsInjective
    <3>5. IsFiniteSet(T) /\ Cardinality(T) = Cardinality(Threads) - 1
      BY JobPoolAssumption, FS_RemoveElement
    <3>6. IsFiniteSet(Fetching) /\ Cardinality(Fetching) <= Cardinality(T)
      BY <3>4, <3>5, FS_Injection
    <3>7. /\ Cardinality(T) \in Nat /\ Cardinality(Threads) \in Nat
          /\ Cardinality(Fetching) \in Nat
      BY <3>5, <3>6, JobPoolAssumption, FS_CardinalityType
    <3> HIDE DEF T
    <3> QED
      BY <3>5, <3>6, <3>7
  <2>5. OneJobEach' = OneJobEach
    BY DEF OneJobEach
  <2>6. Stage!StartFetchJobs(h)
    BY <1>2, <1>3, <1>5, <1>6, <2>2, <2>3, <2>4, <2>5, StageCounts DEF Stage!StartFetchJobs
  <2> QED
    BY <1>2, <2>6
<1> QED
  BY <1>7, <1>8

\* The outcome of a request counts when it is a job list.
LEMMA FinishStep ==
  ASSUME AllInv, ~Failing, ~Failing', NEW t \in Threads, NEW o \in Outcomes,
         FinishFuture(t, o)
  PROVE  \/ UNCHANGED Stage!vars
         \/ \E i \in Items : Stage!FetchJobs(i)
<1> DEFINE i == thread[t]
<1> USE DEF flagged
<1>1. TypeOK /\ TakenIsCached /\ StageInv
  BY DEF AllInv
<1>2. /\ i \in Items /\ future[i] = "running" /\ i \notin yielded
      /\ future' = [future EXCEPT ![i] = o]
      /\ hit' = IF o = "quota" /\ hit = Nil THEN i ELSE hit
      /\ o = "quota" \/ i \notin doomed
      /\ UNCHANGED <<main, doomed, yielded, quota, failed, cached>>
  BY <1>1 DEF FinishFuture, TypeOK, TakenIsCached, Outcomes
<1> HIDE DEF i
<1>3. main \in {"submit", "iterate"} /\ StagePc = "jobs"
  BY <1>2, StageIsOn
<1>4. /\ \A j \in Items : j # i => future'[j] = future[j]
      /\ future'[i] = o
  BY <1>1, <1>2 DEF TypeOK
<1>5. o # "error" /\ Failing' = Failing
  BY <1>2, <1>3, <1>4 DEF Failing
<1>6. StagePc' = StagePc
  BY <1>2, <1>5 DEF StagePc
<1>7. ToFetch' = ToFetch
  BY <1>2, <1>4, <1>5 DEF ToFetch, Submitted, Outcomes
<1>8. CASE o = "quota"
  <2>1. Fetched' = Fetched
    BY <1>2, <1>3, <1>4, <1>8 DEF Fetched
  <2>2. StageEntry' = StageEntry
    BY <1>5, <2>1 DEF StageEntry, EntryWith
  <2>3. ASSUME NEW j \in Items
        PROVE  j \in Fetching' <=> j \in Fetching
    <3>1. CASE hit = Nil
      <4>1. doomed = {} /\ \A k \in Items : future[k] # "quota"
        BY <1>1, <3>1 DEF StageInv
      <4> QED
        BY <1>2, <1>4, <1>5, <1>8, <4>1 DEF Fetching
    <3>2. CASE hit # Nil
      <4>1. hit' = hit /\ i # hit
        BY <1>1, <1>2, <3>2 DEF StageInv
      <4> QED
        BY <1>2, <1>4, <1>5, <1>8, <4>1 DEF Fetching
    <3> QED
      BY <3>1, <3>2
  <2>4. Fetching' = Fetching
    <3>1. Fetching \subseteq Items /\ Fetching' \subseteq Items
      BY DEF Fetching
    <3> QED
      BY <2>3, <3>1
  <2> QED
    BY <1>2, <1>5, <1>6, <1>7, <2>2, <2>4, StageStutters
<1>9. CASE o = "jobs"
  <2>1. hit' = hit /\ i \notin doomed /\ i # hit
    BY <1>1, <1>2, <1>9, JobPoolAssumption DEF StageInv
  <2>2. Fetching' = Fetching \ {i} /\ i \in Fetching
    BY <1>2, <1>4, <1>5, <1>9, <2>1 DEF Fetching
  <2>3. Fetched' = Fetched \cup {i} /\ i \notin Fetched
    BY <1>2, <1>3, <1>4, <1>9 DEF Fetched
  <2>4. /\ StageEntry \in [Items -> {EntryWith({}), EntryWith({OnlyJob})}]
        /\ StageEntry[i] = EntryWith({})
        /\ StageEntry' = [StageEntry EXCEPT ![i] = EntryWith({OnlyJob})]
    <3>1. EntryWith({})' = EntryWith({}) /\ EntryWith({OnlyJob})' = EntryWith({OnlyJob})
      BY DEF EntryWith, OnlyJob
    <3>2. StageEntry = [j \in Items |-> EntryWith(IF j \in Fetched THEN {OnlyJob} ELSE {})]
      BY DEF StageEntry
    <3>3. StageEntry' = [j \in Items |-> EntryWith(IF j \in Fetched' THEN {OnlyJob} ELSE {})]
      BY DEF StageEntry, EntryWith, OnlyJob
    <3> QED
      BY <1>2, <2>3, <3>2, <3>3
  <2>5. EntryWith({OnlyJob}) = [EntryWith({}) EXCEPT !.jobs = {OnlyJob}, !.done = {OnlyJob},
                                                   !.last = 1]
    <3>1. Cardinality({OnlyJob}) = 1
      BY FS_Singleton
    <3>2. PICK d : d = EntryWith({})
      OBVIOUS
    <3>3. PICK e : e = [d EXCEPT !.jobs = {OnlyJob}, !.done = {OnlyJob}, !.last = 1]
      OBVIOUS
    <3>4. e = EntryWith({OnlyJob})
      BY <3>1, <3>2, <3>3 DEF EntryWith
    <3> QED
      BY <3>2, <3>3, <3>4
  <2>6. OneJobEach' = OneJobEach /\ OneJobEach[i].status = "completed"
        /\ OneJobEach[i].jobs = {OnlyJob} /\ OneJobEach[i].done = {OnlyJob}
    BY <1>2 DEF OneJobEach
  <2>7. Stage!AttemptOf(OnlyJob) = 1 /\ Stage!Exists(i)
    BY <2>6 DEF Stage!AttemptOf, OnlyJob, Stage!Exists, Stage!RunStatus, Stage!Active
  <2>8. StageEntry' = [StageEntry EXCEPT ![i] = [@ EXCEPT !.jobs = OneJobEach[i].jobs,
                                                          !.done = OneJobEach[i].done,
                                                          !.last = 1]]
    BY <1>2, <2>4, <2>5, <2>6
  <2>9. 1 \in IF OneJobEach[i].jobs = {} THEN {0}
              ELSE {Stage!AttemptOf(job) : job \in OneJobEach[i].jobs}
    BY <2>6, <2>7
  <2>10. Stage!FetchJobs(i)
    BY <1>2, <1>3, <1>5, <1>6, <1>7, <2>2, <2>6, <2>7, <2>8, <2>9 DEF Stage!FetchJobs
  <2> QED
    BY <1>2, <2>10
<1> QED
  BY <1>5, <1>8, <1>9 DEF Outcomes

\* What main learns of the quota limit: from a request that was under way, or
\* from a future that was started too late, which stands for the first of these.
LEMMA YieldQuotaStep ==
  ASSUME AllInv, ~Failing, NEW i \in Items, YieldQuota(i)
  PROVE  \/ UNCHANGED Stage!vars
         \/ \E r \in Items : Stage!QuotaWhileFetchingJobs(r)
<1>1. TypeOK /\ TakenIsCached /\ StageInv
  BY DEF AllInv
<1>2. /\ main = "iterate" /\ future[i] = "quota" /\ i \notin yielded
      /\ yielded' = yielded \cup {i} /\ quota'
      /\ UNCHANGED <<main, doomed, hit, cached>>
  BY DEF YieldQuota, Yieldable
<1>3. /\ hit # Nil /\ QuotaHits = TRUE /\ hit \in Items /\ future[hit] = "quota"
      /\ hit \notin doomed
  BY <1>1, <1>2 DEF StageInv, TypeOK
<1>4. /\ quota => future' = future
      /\ ~quota => \A j \in Items : future'[j] = IF future[j] = "pending" THEN "cancelled"
                                                 ELSE future[j]
  BY DEF YieldQuota
<1>5. \A j \in Items : /\ future'[j] = "jobs" <=> future[j] = "jobs"
                       /\ future'[j] = "quota" <=> future[j] = "quota"
                       /\ future'[j] = "running" <=> future[j] = "running"
                       /\ future'[j] # "error"
  BY <1>4, NoErrors
<1>6. ~Failing' /\ Failing' = Failing
  BY <1>5 DEF Failing
<1>7. StagePc = "jobs" /\ StagePc' = StagePc
  BY <1>2, <1>6 DEF StagePc
<1>8. StageEntry' = StageEntry
  <2>1. Fetched' = Fetched
    BY <1>2, <1>5 DEF Fetched
  <2> QED
    BY <1>6, <2>1 DEF StageEntry, EntryWith
<1>9. quota => ToFetch' = ToFetch
  BY <1>2, <1>4, <1>6 DEF ToFetch
<1>10. ~quota => ToFetch' \in SUBSET ToFetch
  <2>1. SUFFICES ASSUME ~quota, NEW j \in ToFetch'
                 PROVE  j \in ToFetch
    OBVIOUS
  <2>2. j \in Items /\ future'[j] \in Submitted
    BY <1>2, <1>6 DEF ToFetch
  <2>3. future[j] \in Submitted
    BY <1>4, <2>1, <2>2 DEF Submitted
  <2> QED
    BY <2>2, <2>3 DEF ToFetch
<1>11. OneJobEach' = OneJobEach
  BY DEF OneJobEach
<1>12. ASSUME NEW r \in Fetching, Fetching' = Fetching \ {r}
       PROVE  Stage!QuotaWhileFetchingJobs(r)
  BY <1>2, <1>3, <1>6, <1>7, <1>8, <1>9, <1>10, <1>11, <1>12 DEF Stage!QuotaWhileFetchingJobs
<1>13. ASSUME quota, Fetching' = Fetching
       PROVE  UNCHANGED Stage!vars
  BY <1>2, <1>6, <1>7, <1>8, <1>9, <1>13, StageStutters
<1>14. Fetching \in SUBSET Items /\ Fetching' \in SUBSET Items
  BY DEF Fetching
<1>15. CASE i \notin doomed
  <2>1. doomed' \cap yielded' = doomed \cap yielded
    BY <1>2, <1>15
  <2>2. \A j \in Items : j \in Fetching' <=> j \in Fetching /\ j # i
    BY <1>2, <1>5, <1>6, <2>1 DEF Fetching
  <2>3. Fetching' = Fetching \ {i}
    BY <1>14, <2>2
  <2>4. CASE i \in Fetching
    BY <1>12, <2>3, <2>4
  <2>5. CASE i \notin Fetching
    <3>1. doomed \cap yielded # {}
      BY <1>2, <1>15, <2>5 DEF Fetching
    <3>2. quota
      BY <1>1, <3>1 DEF StageInv, TakenIsCached, Outcomes, TypeOK
    <3> QED
      BY <1>13, <2>3, <2>5, <3>2
  <2> QED
    BY <2>4, <2>5
<1>16. CASE i \in doomed
  <2>1. doomed' \cap yielded' # {} /\ i # hit
    BY <1>2, <1>3, <1>16
  <2>2. \A j \in Items : j \in Fetching' <=> j \in Fetching /\ j # hit
    BY <1>2, <1>3, <1>5, <1>6, <1>16, <2>1 DEF Fetching
  <2>3. Fetching' = Fetching \ {hit}
    BY <1>14, <2>2
  <2>4. CASE hit \in Fetching
    BY <1>12, <1>14, <2>3, <2>4
  <2>5. CASE hit \notin Fetching
    <3>1. doomed \cap yielded # {} \/ hit \in yielded
      BY <1>3, <2>5 DEF Fetching
    <3>2. quota
      BY <1>1, <1>3, <3>1 DEF StageInv, TakenIsCached, Outcomes, TypeOK
    <3> QED
      BY <1>13, <2>3, <2>5, <3>2
  <2> QED
    BY <2>4, <2>5
<1> QED
  BY <1>15, <1>16

\* main gets past the loop with every list that was fetched, and only then.
LEMMA EndIterationStep ==
  ASSUME AllInv, ~Failing, EndIteration
  PROVE  Stage!EndJobs
<1>1. TypeOK /\ TakenIsCached /\ StageInv
  BY DEF AllInv
<1>2. /\ main = "iterate" /\ yielded = Items /\ main' = "leave"
      /\ UNCHANGED <<future, queue, thread, doomed, hit, yielded, quota, failed, cached>>
  BY DEF EndIteration
<1>3. \A i \in Items : future[i] \in {"jobs", "quota"}
  BY <1>1, <1>2, NoErrors DEF TakenIsCached, Outcomes
<1>4. ~Failing' /\ Failing' = Failing
  BY <1>2, <1>3 DEF Failing
<1>5. StagePc = "jobs" /\ StagePc' = IF quota THEN "save" ELSE "attempts"
  BY <1>2, <1>4 DEF StagePc
<1>6. ToFetch = {} /\ ToFetch' = {}
  <2>1. quota \/ doomed = {}
    BY <1>1, <1>2 DEF StageInv, TypeOK
  <2> QED
    BY <1>2, <1>3, <1>4, <2>1 DEF ToFetch, Submitted
<1>7. Fetching = {} /\ Fetching' = {}
  BY <1>2, <1>3, <1>4 DEF Fetching
<1>8. StageEntry' = StageEntry
  <2>1. cached = {i \in Items : future[i] = "jobs"}
    BY <1>1, <1>2 DEF TakenIsCached, StageInv, TypeOK
  <2>2. Fetched' = Fetched
    BY <1>2, <2>1 DEF Fetched
  <2> QED
    BY <1>4, <2>2 DEF StageEntry, EntryWith
<1>9. OneJobEach' = OneJobEach
  BY DEF OneJobEach
<1> QED
  BY <1>2, <1>4, <1>5, <1>6, <1>7, <1>8, <1>9 DEF Stage!EndJobs

\* Everything else RunSync does not see.
LEMMA QuietSteps ==
  ASSUME AllInv, ~Failing,
         \/ \E i \in Items : Submit(i) \/ YieldJobs(i)
         \/ BeginIteration \/ Leave
         \/ UNCHANGED vars
  PROVE  UNCHANGED Stage!vars
<1>1. TypeOK /\ TakenIsCached /\ StageInv
  BY DEF AllInv
<1>2. ASSUME NEW i \in Items, Submit(i)
      PROVE  UNCHANGED Stage!vars
  <2>1. /\ main' = main /\ future[i] = "unsubmitted" /\ future' = [future EXCEPT ![i] = "pending"]
        /\ UNCHANGED <<doomed, hit, yielded, quota, cached>>
    BY <1>2 DEF Submit
  <2>2. /\ \A j \in Items : j # i => future'[j] = future[j]
        /\ future'[i] = "pending"
    BY <1>1, <2>1 DEF TypeOK
  <2>3. Failing' = Failing /\ StagePc' = StagePc
    BY <2>1, <2>2 DEF Failing, StagePc
  <2>4. ToFetch' = ToFetch /\ Fetching' = Fetching
    BY <2>1, <2>2, <2>3 DEF ToFetch, Submitted, Fetching
  <2>5. Fetched' = Fetched
    BY <2>1, <2>2 DEF Fetched
  <2>6. StageEntry' = StageEntry
    BY <2>3, <2>5 DEF StageEntry, EntryWith
  <2> QED
    BY <2>1, <2>3, <2>4, <2>6, StageStutters
<1>3. ASSUME NEW i \in Items, YieldJobs(i)
      PROVE  UNCHANGED Stage!vars
  <2>1. /\ main = "iterate" /\ future[i] = "jobs" /\ yielded' = yielded \cup {i}
        /\ UNCHANGED <<main, future, doomed, hit, quota>>
    BY <1>3 DEF YieldJobs, Yieldable
  <2>2. i \notin doomed
    BY <1>1, <2>1 DEF StageInv
  <2>3. doomed \cap yielded' = doomed \cap yielded
    BY <2>1, <2>2
  <2>4. Failing' = Failing /\ StagePc' = StagePc /\ ToFetch' = ToFetch /\ Fetched' = Fetched
    BY <2>1 DEF Failing, StagePc, ToFetch, Fetched
  <2>5. \A j \in Items : j \in Fetching' <=> j \in Fetching
    BY <2>1, <2>3, <2>4 DEF Fetching
  <2>6. Fetching' = Fetching
    <3>1. Fetching \in SUBSET Items /\ Fetching' \in SUBSET Items
      BY DEF Fetching
    <3> QED
      BY <2>5, <3>1
  <2>7. StageEntry' = StageEntry
    BY <2>4 DEF StageEntry, EntryWith
  <2> QED
    BY <2>1, <2>4, <2>6, <2>7, StageStutters
<1>4. ASSUME BeginIteration \/ Leave \/ UNCHANGED vars
      PROVE  UNCHANGED Stage!vars
  <2>1. /\ UNCHANGED <<future, doomed, hit, yielded, quota, cached>>
        /\ main' = main \/ (main = "submit" /\ main' = "iterate")
             \/ (main = "leave" /\ main' = "done")
    BY <1>4, NoErrors DEF BeginIteration, Leave, vars
  <2>2. Failing' = Failing
    BY <2>1, NoErrors DEF Failing
  <2>3. /\ StagePc' = StagePc /\ ToFetch' = ToFetch /\ Fetching' = Fetching
        /\ Fetched' = Fetched
    BY <2>1, <2>2 DEF StagePc, ToFetch, Fetching, Fetched
  <2>4. StageEntry' = StageEntry
    BY <2>2, <2>3 DEF StageEntry, EntryWith
  <2> QED
    BY <2>1, <2>2, <2>3, <2>4, StageStutters
<1> QED
  BY <1>2, <1>3, <1>4

\* A failure is not undone, and a failed stage does not end as if it were whole.
LEMMA FailingStays ==
  ASSUME AllInv, Failing, [Next]_vars
  PROVE  Failing'
<1>1. TypeOK /\ TakenIsCached /\ StageInv /\ AllInv'
  BY TypeStep, TakenIsCachedStep, StageInvStep DEF AllInv
<1>2. PICK i \in Items : future[i] = "error"
  BY DEF Failing
<1>3. future'[i] = "error"
  <2>1. ASSUME NEW j \in Items, Submit(j)
        PROVE  future'[i] = "error"
    BY <1>1, <1>2, <2>1 DEF Submit, TypeOK
  <2>2. ASSUME NEW t \in Threads, TakeFuture(t)
        PROVE  future'[i] = "error"
    <3>1. Head(queue) = queue[1] /\ 1 \in 1..Len(queue)
      BY <1>1, <2>2 DEF TakeFuture, TypeOK
    <3>2. future[Head(queue)] = "pending"
      BY <1>1, <3>1 DEF TakenIsCached
    <3> QED
      BY <1>1, <1>2, <2>2, <3>2 DEF TakeFuture, TypeOK
  <2>3. ASSUME NEW t \in Threads, NEW o \in Outcomes, FinishFuture(t, o)
        PROVE  future'[i] = "error"
    BY <1>1, <1>2, <2>3 DEF FinishFuture, TypeOK, TakenIsCached
  <2>4. ASSUME NEW j \in Items, YieldJobs(j) \/ YieldQuota(j) \/ YieldError(j)
        PROVE  future'[i] = "error"
    BY <1>2, <2>4 DEF YieldJobs, YieldQuota, YieldError
  <2>5. CASE BeginIteration \/ EndIteration \/ Leave \/ UNCHANGED vars
    BY <1>2, <2>5 DEF BeginIteration, EndIteration, Leave, vars
  <2> QED
    BY <2>1, <2>2, <2>3, <2>4, <2>5 DEF Next, MainStep, ThreadStep
<1>4. main' # "done"
  BY <1>1, <1>2, <1>3 DEF AllInv, TakenIsCached, StageInv
<1> QED
  BY <1>2, <1>3, <1>4 DEF Failing

LEMMA StepIsJobStage == AllInv /\ [Next]_vars => [Stage!Next]_Stage!vars
<1> SUFFICES ASSUME AllInv, [Next]_vars
             PROVE  Stage!Next \/ UNCHANGED Stage!vars
  OBVIOUS
<1>1. CASE Failing
  BY <1>1, FailingStays, FailingStutters
<1>2. CASE ~Failing /\ Failing'
  BY <1>2, FailureAborts DEF Stage!Next
<1>3. CASE ~Failing /\ ~Failing'
  <2>1. ASSUME NEW t \in Threads, TakeFuture(t)
        PROVE  Stage!Next \/ UNCHANGED Stage!vars
    BY <1>3, <2>1, TakeStep DEF Stage!Next, Stage!SyncStep
  <2>2. ASSUME NEW t \in Threads, NEW o \in Outcomes, FinishFuture(t, o)
        PROVE  Stage!Next \/ UNCHANGED Stage!vars
    BY <1>3, <2>2, FinishStep DEF Stage!Next, Stage!SyncStep
  <2>3. ASSUME NEW i \in Items, YieldQuota(i)
        PROVE  Stage!Next \/ UNCHANGED Stage!vars
    BY <1>3, <2>3, YieldQuotaStep DEF Stage!Next, Stage!QuotaStep
  <2>4. CASE EndIteration
    BY <1>3, <2>4, EndIterationStep DEF Stage!Next, Stage!SyncStep
  <2>5. ASSUME NEW i \in Items, YieldError(i)
        PROVE  FALSE
    BY <1>3, <2>5, NoErrors DEF YieldError
  <2>6. CASE \/ \E i \in Items : Submit(i) \/ YieldJobs(i)
             \/ BeginIteration \/ Leave
             \/ UNCHANGED vars
    BY <1>3, <2>6, QuietSteps
  <2> QED
    BY <2>1, <2>2, <2>3, <2>4, <2>5, <2>6 DEF Next, MainStep, ThreadStep
<1> QED
  BY <1>1, <1>2, <1>3

\* For any number of runs and threads the executor does no more than the job
\* stage of RunSync, where a request and what main does with its result are one
\* step: late results, futures that were started too late and cancelled ones
\* included.
THEOREM PoolIsJobStage == Spec => IsJobStage
BY StepIsJobStage, AllInvInvariant, PTL DEF Spec, IsJobStage
=============================================================================
