----------------------------- MODULE DataProofs -----------------------------
(***************************************************************************)
(* What the commands make of data already there.  CacheFile implements     *)
(* CacheStore when commands run one at a time, for any number of runs and  *)
(* processes and with processes dying anywhere.  The functions that keep   *)
(* no state (PureFunctions) give what they are for, whatever the number    *)
(* of jobs, spans, lines, arguments, builds or names: a fold is its turns  *)
(* one after the other (FoldExists, FoldTurns), and a loop's invariant     *)
(* holds after each (InductionUpTo).  A filter spec is judged level by     *)
(* level (LevelsExist).                                                    *)
(***************************************************************************)
EXTENDS CacheFile, PureFunctions, TLAPS, FiniteSetTheorems, WellFoundedInduction

-----------------------------------------------------------------------------
(* Commands that rewrite the cache file.                                   *)
\* One command at a time; what the active process holds is the cache as it
\* is, or its command carried out on it.
Alone ==
  /\ \A p, q \in Active : p = q
  /\ \A p \in Active : command[p] \in Abstract!Commands
  /\ \A p \in Processes : pc[p] = "read" => table[p] = file
  /\ \A p \in Processes : pc[p] = "written" => table[p] = Abstract!After(file, command[p])

\* A command carried out on a whole table leaves a whole table.
LEMMA AfterIsContents ==
  ASSUME NEW c \in Contents, NEW k, k.runs \in SUBSET Runs, k.fetch \in 0..MaxFetch
  PROVE  Abstract!After(c, k) \in Contents
<1> USE CacheFileAssumption DEF Contents, Abstract!RunRows, Abstract!Absent
<1>1. Abstract!Merged(c, k.runs, k.fetch) \in Contents
  BY DEF Abstract!Merged
<1>2. Abstract!Pruned(c, k.runs) \in Contents
  BY DEF Abstract!Pruned
<1>3. Abstract!Repaired(c) \in Contents
  BY DEF Abstract!Repaired
<1> QED
  BY <1>1, <1>2, <1>3 DEF Abstract!After

\* Every file and table begins well-formed.
LEMMA TypeInit == Init => TypeOK
<1> SUFFICES ASSUME Init PROVE TypeOK
  OBVIOUS
<1> USE CacheFileAssumption
<1>1. file \in Contents
  <2>0. Abstract!Absent \in Abstract!RunRows
    BY DEF Abstract!RunRows, Abstract!Absent
  <2>1. Abstract!Legacy \in Abstract!RunRows
    BY <2>0 DEF Abstract!RunRows, Abstract!Legacy
  <2>2. file \in [Runs -> {Abstract!Absent, Abstract!Legacy}]
    BY DEF Init
  <2> QED
    BY <2>0, <2>1, <2>2 DEF Contents
<1>2. table \in [Processes -> Contents]
  BY DEF Init, NoTable, Contents, Abstract!RunRows, Abstract!Absent
<1>3. command \in [Processes -> [name: Names \cup {"none"}, runs: SUBSET Runs,
                                 fetch: 0..MaxFetch]]
  BY DEF Init, NoCommand
<1>4. pc \in [Processes -> {"idle", "started", "read", "written"}]
  BY DEF Init
<1>5. fetches \in 0..MaxFetch
  BY DEF Init
<1> QED
  BY <1>1, <1>2, <1>3, <1>4, <1>5 DEF TypeOK

\* A step of a process keeps every file and table well-formed.
LEMMA TypeStep == TypeOK /\ [Next]_vars => TypeOK'
<1> SUFFICES ASSUME TypeOK, [Next]_vars PROVE TypeOK'
  OBVIOUS
<1> USE CacheFileAssumption DEF TypeOK
<1>0. NoTable \in Contents
  BY DEF NoTable, Contents, Abstract!RunRows, Abstract!Absent
<1>1. ASSUME NEW p \in Processes, NEW name \in Names, NEW S \in SUBSET Runs,
             Start(p, name, S)
      PROVE  TypeOK'
  <2>1. fetches' \in 0..MaxFetch
    BY <1>1 DEF Start
  <2> QED
    BY <1>1, <2>1 DEF Start
<1>2. ASSUME NEW p \in Processes, Read(p)
      PROVE  TypeOK'
  BY <1>2 DEF Read
<1>3. ASSUME NEW p \in Processes, WriteTemporary(p)
      PROVE  TypeOK'
  <2>1. NewTable(p) \in Contents
    BY AfterIsContents DEF NewTable
  <2> QED
    BY <1>3, <2>1 DEF WriteTemporary
<1>4. ASSUME NEW p \in Processes, NothingToWrite(p) \/ Replace(p) \/ Die(p)
      PROVE  TypeOK'
  <2>1. Idle(p) /\ UNCHANGED fetches /\ (file' = file \/ file' = table[p])
    BY <1>4 DEF NothingToWrite, Replace, Die
  <2> QED
    BY <1>0, <2>1 DEF Idle, NoCommand
<1>5. CASE UNCHANGED vars
  BY <1>5 DEF vars
<1> QED
  BY <1>1, <1>2, <1>3, <1>4, <1>5 DEF Next, ProcessStep

\* The cache file always holds a whole table, and so does every process.
THEOREM TypeCorrect == Spec => []TypeOK
<1> QED
  BY TypeInit, TypeStep, PTL DEF Spec

\* No process holds a table at the start.
LEMMA AloneInit == Init => Alone
BY DEF Init, Alone, Active

\* While commands run one at a time, a table held is not stale.
LEMMA AloneStep ==
  ASSUME OneAtATime
  PROVE  TypeOK /\ Alone /\ [Next]_vars => Alone'
<1> SUFFICES ASSUME TypeOK, Alone, [Next]_vars PROVE Alone'
  OBVIOUS
<1> USE CacheFileAssumption DEF TypeOK, Alone, Active
<1>1. ASSUME NEW p \in Processes, NEW name \in Names, NEW S \in SUBSET Runs,
             Start(p, name, S)
      PROVE  Alone'
  <2>1. \A q \in Processes : q # p => pc'[q] = "idle"
    BY <1>1 DEF Start
  <2>2. pc'[p] = "started"
    BY <1>1 DEF Start
  <2>3. command'[p] \in Abstract!Commands
    BY <1>1 DEF Start, Abstract!Commands, Names
  <2> QED
    BY <2>1, <2>2, <2>3
<1>2. ASSUME NEW p \in Processes, Read(p)
      PROVE  Alone'
  <2>1. pc' = [pc EXCEPT ![p] = "read"] /\ pc[p] = "started"
        /\ table'[p] = file' /\ command' = command
    BY <1>2 DEF Read
  <2>2. \A q \in Processes : q # p => pc'[q] = "idle"
    BY <2>1
  <2> QED
    BY <2>1, <2>2
<1>3. ASSUME NEW p \in Processes, WriteTemporary(p)
      PROVE  Alone'
  <2>1. pc' = [pc EXCEPT ![p] = "written"] /\ pc[p] = "read"
        /\ table'[p] = NewTable(p) /\ command' = command /\ file' = file
    BY <1>3 DEF WriteTemporary
  <2>2. \A q \in Processes : q # p => pc'[q] = "idle"
    BY <2>1
  <2>3. table'[p] = Abstract!After(file', command'[p])
    BY <2>1 DEF NewTable
  <2> QED
    BY <2>1, <2>2, <2>3
<1>4. ASSUME NEW p \in Processes, NothingToWrite(p) \/ Replace(p) \/ Die(p)
      PROVE  Alone'
  <2>1. Idle(p) /\ pc[p] # "idle"
    BY <1>4 DEF NothingToWrite, Replace, Die
  <2>2. \A q \in Processes : pc'[q] = "idle"
    BY <2>1 DEF Idle
  <2> QED
    BY <2>2
<1>5. CASE UNCHANGED vars
  BY <1>5 DEF vars
<1> QED
  BY <1>1, <1>2, <1>3, <1>4, <1>5 DEF Next, ProcessStep

\* The commands being carried out, as CacheStore sees them.
Asked == {command[p] : p \in Active}

\* Every step of a process is a step of CacheStore or changes nothing of it.
LEMMA StepImplements ==
  ASSUME OneAtATime
  PROVE  TypeOK /\ Alone /\ [Next]_vars => [Abstract!Next]_<<file, Asked>>
<1> SUFFICES ASSUME TypeOK, Alone, [Next]_vars
             PROVE  Abstract!Next \/ (file' = file /\ Asked' = Asked)
  BY DEF Asked
<1> USE DEF TypeOK, Asked, Active
<1>1. ASSUME NEW p \in Processes, NEW name \in Names, NEW S \in SUBSET Runs,
             Start(p, name, S)
      PROVE  Abstract!Next
  <2>1. Active' = {p} /\ Active = {} /\ file' = file
    BY <1>1 DEF Start
  <2>2. Asked' = {command'[p]} /\ Asked = {}
    BY <2>1
  <2>3. command'[p] \in Abstract!Commands
    BY <1>1, CacheFileAssumption DEF Start, Abstract!Commands, Names
  <2>4. Asked' = Asked \cup {command'[p]} /\ file' = file
    BY <2>1, <2>2
  <2> QED
    BY <2>3, <2>4 DEF Abstract!Next, Abstract!Ask
<1>2. ASSUME NEW p \in Processes, Read(p) \/ WriteTemporary(p)
      PROVE  file' = file /\ Asked' = Asked
  <2>1. Active' = Active /\ file' = file /\ command' = command
    BY <1>2 DEF Read, WriteTemporary
  <2> QED
    BY <2>1
<1>3. ASSUME NEW p \in Processes, NothingToWrite(p) \/ Replace(p) \/ Die(p)
      PROVE  Abstract!Next
  <2>1. Idle(p) /\ pc[p] # "idle"
    BY <1>3 DEF NothingToWrite, Replace, Die
  <2>2. Active = {p} /\ Active' = {}
    BY <2>1 DEF Idle, Alone
  <2>3. Asked = {command[p]} /\ Asked' = {} /\ command[p] \in Abstract!Commands
    BY <2>2 DEF Alone
  <2>4. CASE Replace(p)
    <3>1. file' = Abstract!After(file, command[p])
      BY <2>4 DEF Replace, Alone
    <3> QED
      BY <2>3, <3>1 DEF Abstract!Next, Abstract!CarryOut
  <2>5. CASE NothingToWrite(p) \/ Die(p)
    <3>1. file' = file
      BY <2>5 DEF NothingToWrite, Die
    <3> QED
      BY <2>3, <3>1 DEF Abstract!Next, Abstract!GiveUp
  <2> QED
    BY <1>3, <2>4, <2>5
<1>4. CASE UNCHANGED vars
  BY <1>4 DEF vars
<1> QED
  BY <1>1, <1>2, <1>3, <1>4 DEF Next, ProcessStep

\* With one command at a time the file behaves as a store that every command
\* updates in one step or not at all, wherever processes die.
THEOREM AtomicWhenAlone == ASSUME OneAtATime PROVE Spec => ActsAtomically
<1>1. Init => Abstract!Init
  BY DEF Init, Abstract!Init, Active
<1>2. Spec => [](TypeOK /\ Alone)
  BY TypeInit, TypeStep, AloneInit, AloneStep, PTL DEF Spec
<1>3. TypeOK /\ Alone /\ [Next]_vars
      => [Abstract!Next]_<<file, {command[p] : p \in Active}>>
  BY StepImplements DEF Asked
<1> QED
  BY <1>1, <1>2, <1>3, PTL DEF Spec, ActsAtomically, Abstract!Spec

-----------------------------------------------------------------------------
(* The durations of a job, of any times and any clock.                     *)

AnyTime == Nat \cup {D!Null}
AnyJob ==
  [started: AnyTime, completed: AnyTime, status: {"queued", "in_progress", "completed"}]

\* Rows with whatever durations, right or wrong; only a completed job has a
\* completion time.
AnyRow == {row \in [job: AnyJob, duration: Int, active: Int] :
             row.job.completed # D!Null => row.job.status = "completed"}

\* A job seen twice after it has started.
AnyObservation ==
  {o \in [started: Nat, completed: AnyTime, seen: [1..2 -> Nat], skew: Int] :
     o.started <= o.seen[1] /\ o.seen[1] <= o.seen[2]}

\* A duration is a length of time, so it cannot be mistaken for a missing one.
LEMMA DurationIsNotNull ==
  ASSUME NEW s \in AnyTime, NEW c \in AnyTime
  PROVE  D!_duration_seconds(s, c)
           = IF s # D!Null /\ c # D!Null /\ s <= c THEN c - s ELSE D!Null
BY DEF AnyTime, D!_duration_seconds, D!Null

\* The active duration of a job that has a duration, has none any more or has
\* none yet.
LEMMA ActiveDuration ==
  ASSUME NEW job \in AnyJob, NEW as_of,
         job.completed # D!Null => job.status = "completed"
  PROVE  D!calculate_job_active_duration_in_seconds(job, as_of)
           = IF job.status = "completed" \/ job.started = D!Null
             THEN D!_duration_seconds(job.started, job.completed)
             ELSE as_of - job.started
<1> DEFINE d == D!_duration_seconds(job.started, job.completed)
<1>1. d # D!Null => job.status = "completed" /\ job.started # D!Null
  BY DurationIsNotNull DEF AnyJob
<1> HIDE DEF d
<1>2. D!calculate_job_active_duration_in_seconds(job, as_of)
        = IF d # D!Null THEN d
          ELSE IF job.started = D!Null \/ job.status = "completed" THEN D!Null
          ELSE as_of - job.started
  BY DEF d, D!calculate_job_active_duration_in_seconds
<1>3. D!calculate_job_active_duration_in_seconds(job, as_of)
        = IF job.status = "completed" \/ job.started = D!Null THEN d
          ELSE as_of - job.started
  BY <1>1, <1>2
<1> QED
  BY <1>3 DEF d

\* repair-cache gives every row the durations a sync at any time would give
\* it, but for the time of a job that still runs.
THEOREM RepairIsLikeSync ==
  ASSUME NEW row \in AnyRow, NEW now \in Nat
  PROVE  D!RepairAgreesWithSync(row, now)
<1> DEFINE job == row.job
           runs == job.status # "completed" /\ job.started # D!Null
           d == D!_duration_seconds(job.started, job.completed)
           fresh == D!FreshRow(job, now)
           Repaired(r) == D!repair_job_durations(r)
<1>1. /\ row = [job |-> job, duration |-> row.duration, active |-> row.active]
      /\ job \in AnyJob
      /\ job.completed # D!Null => job.status = "completed"
  BY DEF AnyRow
<1>2. d # D!Null => job.status = "completed" /\ job.started # D!Null
  BY <1>1, DurationIsNotNull DEF AnyJob
<1>3. fresh = [job |-> job, duration |-> d, active |-> IF runs THEN now - job.started ELSE d]
  BY <1>1, ActiveDuration DEF D!FreshRow
<1> HIDE DEF d
<1>4. ASSUME NEW r, NEW x, NEW y, r = [job |-> job, duration |-> x, active |-> y]
      PROVE  Repaired(r) = [job |-> job, duration |-> d, active |-> IF runs THEN y ELSE d]
  <2>1. Repaired(r) = [r EXCEPT !.duration = d,
                                !.active = IF d # D!Null THEN d
                                           ELSE IF runs THEN @ ELSE D!Null]
    BY <1>4 DEF d, D!repair_job_durations
  <2>2. r.active = y
    BY <1>4
  <2>3. Repaired(r) = [job |-> job, duration |-> d,
                       active |-> IF d # D!Null THEN d
                                  ELSE IF runs THEN y ELSE D!Null]
    BY <1>4, <2>1
  <2> QED
    BY <1>2, <2>3
<1>5. Repaired(row) = IF runs THEN [fresh EXCEPT !.active = row.active] ELSE fresh
  <2>1. Repaired(row) = [job |-> job, duration |-> d,
                         active |-> IF runs THEN row.active ELSE d]
    BY <1>1, <1>4
  <2> QED
    BY <1>3, <2>1
<1>6. Repaired(fresh) = fresh
  BY <1>3, <1>4
<1> QED
  BY <1>5, <1>6 DEF D!RepairAgreesWithSync

\* The time a wrong clock gives a running job is right once it is completed.
THEOREM ClockErrorsEnd ==
  ASSUME NEW o \in AnyObservation
  PROVE  D!ClockErrorsDoNotLast(o)
<1> DEFINE Done(t) == o.completed # D!Null /\ o.completed <= t
           Seen(t) == [started |-> o.started,
                       completed |-> IF Done(t) THEN o.completed ELSE D!Null,
                       status |-> IF Done(t) THEN "completed" ELSE "in_progress"]
           Time(t) ==
             D!calculate_job_active_duration_in_seconds(Seen(t), t + o.skew)
           a == o.seen[1]
           b == o.seen[2]
<1>1. /\ o.started \in Nat /\ o.completed \in AnyTime /\ o.skew \in Int
      /\ a \in Nat /\ b \in Nat /\ o.started <= a /\ a <= b
  BY DEF AnyObservation
<1>2. ASSUME NEW t \in Nat
      PROVE  Time(t) = IF ~Done(t) THEN t + o.skew - o.started
                         ELSE IF o.started <= o.completed THEN o.completed - o.started
                         ELSE D!Null
  <2>1. /\ Seen(t) \in AnyJob
        /\ Seen(t).completed # D!Null => Seen(t).status = "completed"
    BY <1>1 DEF AnyJob, AnyTime
  <2>2. o.started # D!Null
    BY <1>1 DEF D!Null
  <2>3. CASE Done(t)
    <3>1. Time(t) = D!_duration_seconds(o.started, o.completed)
      BY <2>1, <2>3, ActiveDuration
    <3> QED
      BY <1>1, <2>2, <2>3, <3>1, DurationIsNotNull DEF AnyTime
  <2>4. CASE ~Done(t)
    <3>1. Seen(t).status = "in_progress" /\ Seen(t).started = o.started
      BY <2>4
    <3> DEFINE as_of == t + o.skew
    <3>2. Time(t) = D!calculate_job_active_duration_in_seconds(Seen(t), as_of)
      OBVIOUS
    <3> HIDE DEF Seen, as_of, Time
    <3>3. Time(t) = as_of - o.started
      BY <2>1, <2>2, <3>1, <3>2, ActiveDuration
    <3> QED
      BY <1>1, <2>4, <3>3 DEF as_of
  <2> QED
    BY <2>3, <2>4
<1> HIDE DEF Time
<1>3. ~Done(b) => Time(b) - Time(a) = b - a
  BY <1>1, <1>2 DEF AnyTime, D!Null
<1>4. Done(a) => Time(b) = Time(a)
  BY <1>1, <1>2 DEF AnyTime, D!Null
<1>5. Done(b) => Time(b) = IF o.completed < o.started THEN D!Null
                             ELSE o.completed - o.started
  BY <1>1, <1>2 DEF AnyTime, D!Null
<1>6. ~Done(a) /\ Done(b) => Time(b) >= Time(a) - o.skew
  BY <1>1, <1>2 DEF AnyTime, D!Null
<1> QED
  BY <1>3, <1>4, <1>5, <1>6 DEF D!ClockErrorsDoNotLast, Time

-----------------------------------------------------------------------------
(* The timelines: the union of spans, and the stages of a run.             *)
\* The least of a set of naturals, and the induction that follows from it.
LEMMA LeastNat ==
  ASSUME NEW T \in SUBSET Nat, T # {}
  PROVE  \E n \in T : \A m \in T : n <= m
<1> DEFINE Ord == {ss \in Nat \X Nat : ss[1] < ss[2]}
<1>1. IsWellFoundedOn(Ord, Nat)
  BY NatLessThanWellFounded DEF OpToRel
<1>2. PICK n \in T : \A m \in T : <<m, n>> \notin Ord
  BY <1>1, WFMin
<1>3. \A m \in T : ~(m < n)
  BY <1>2
<1> QED
  BY <1>3

\* A set of numbers up to n with 0 and the successor of each has them all.
LEMMA InductionUpTo ==
  ASSUME NEW n \in Nat, NEW P \in SUBSET (0..n), 0 \in P,
         \A k \in P : k < n => k + 1 \in P
  PROVE  P = 0..n
<1> SUFFICES ASSUME (0..n) \ P # {} PROVE FALSE
  OBVIOUS
<1>1. PICK k \in (0..n) \ P : \A m \in (0..n) \ P : k <= m
  <2>1. (0..n) \ P \in SUBSET Nat
    OBVIOUS
  <2> QED
    BY <2>1, LeastNat
<1>2. k - 1 \in 0..n /\ k - 1 < k /\ (k - 1) + 1 = k /\ k - 1 < n
  BY <1>1
<1> QED
  BY <1>1, <1>2

\* The numbers up to k are among those up to n.
LEMMA NumbersUpTo ==
  ASSUME NEW n \in Nat, NEW k \in 1..n
  PROVE  1..k \in SUBSET (1..n) /\ 1..k # {}
OBVIOUS

\* Max of some numbers is one of them, and none is above it.
LEMMA LargestOfRange ==
  ASSUME NEW n \in Nat, NEW S \in SUBSET (1..n), S # {}
  PROVE  Max(S) \in S /\ \A x \in S : x <= Max(S)
<1> DEFINE T == {n - x : x \in S}
<1>1. T \in SUBSET Nat /\ T # {}
  <2>1. \A x \in S : n - x \in Nat
    OBVIOUS
  <2> QED
    BY <2>1
<1>2. PICK t \in T : \A u \in T : t <= u
  BY <1>1, LeastNat
<1>3. PICK x \in S : t = n - x
  BY <1>2
<1>4. \A y \in S : x >= y
  <2> SUFFICES ASSUME NEW y \in S PROVE x >= y
    OBVIOUS
  <2>1. n - y \in T
    OBVIOUS
  <2>2. n - x <= n - y
    BY <1>2, <1>3, <2>1
  <2> QED
    BY <2>2
<1> QED
  BY <1>4 DEF Max

\* A fold exists: the function that MapThenFoldSet defines by recursion.
FoldOver(n, base, Step, g) ==
  \A s \in SUBSET (1..n) :
    g[s] = IF s = {} THEN base ELSE Step[<<Max(s), g[s \ {Max(s)}]>>]

HasFold(n, S, base, Step) ==
  \E g \in [SUBSET (1..n) -> S] : FoldOver(n, base, Step, g)

\* A fold over 1..n has a value after each turn.
LEMMA FoldExists ==
  ASSUME NEW n \in Nat, NEW S, NEW base \in S, NEW Step \in [(1..n) \X S -> S]
  PROVE  HasFold(n, S, base, Step)
<1> DEFINE P == {m \in 0..n : HasFold(m, S, base, Step)}
<1>1. 0 \in P
  <2>1. SUBSET (1..0) = {{}}
    OBVIOUS
  <2> DEFINE g == [s \in SUBSET (1..0) |-> base]
  <2>2. g \in [SUBSET (1..0) -> S] /\ FoldOver(0, base, Step, g)
    BY <2>1 DEF FoldOver
  <2> QED
    BY <2>2 DEF HasFold
<1>2. ASSUME NEW m \in P, m < n
      PROVE  m + 1 \in P
  <2>1. PICK g \in [SUBSET (1..m) -> S] : FoldOver(m, base, Step, g)
    BY DEF HasFold
  <2>0. m \in Nat /\ m + 1 \in 0..n /\ m + 1 \in 1..n
    BY <1>2
  <2> DEFINE h == [s \in SUBSET (1..(m + 1)) |->
                     IF m + 1 \in s THEN Step[<<m + 1, g[s \ {m + 1}]>>] ELSE g[s]]
  <2>2. ASSUME NEW s \in SUBSET (1..(m + 1))
        PROVE  /\ s \ {m + 1} \in SUBSET (1..m)
               /\ m + 1 \in s => Max(s) = m + 1
               /\ m + 1 \notin s => s \in SUBSET (1..m)
    <3>1. m + 1 \in s => Max(s) = m + 1
      <4> SUFFICES ASSUME m + 1 \in s PROVE Max(s) = m + 1
        OBVIOUS
      <4>1. m + 1 \in Nat /\ s # {}
        OBVIOUS
      <4>2. Max(s) \in s /\ m + 1 <= Max(s)
        BY <4>1, LargestOfRange
      <4>3. Max(s) \in 1..(m + 1)
        BY <4>2
      <4> QED
        BY <4>2, <4>3
    <3> QED
      BY <3>1
  <2>3. h \in [SUBSET (1..(m + 1)) -> S]
    <3> SUFFICES ASSUME NEW s \in SUBSET (1..(m + 1))
                 PROVE  (IF m + 1 \in s THEN Step[<<m + 1, g[s \ {m + 1}]>>] ELSE g[s]) \in S
      OBVIOUS
    <3>1. CASE m + 1 \in s
      <4>1. g[s \ {m + 1}] \in S
        BY <2>2
      <4>2. <<m + 1, g[s \ {m + 1}]>> \in (1..n) \X S
        BY <2>0, <4>1
      <4> QED
        BY <3>1, <4>2
    <3>2. CASE m + 1 \notin s
      BY <2>2, <3>2
    <3> QED
      BY <3>1, <3>2
  <2>4. ASSUME NEW s \in SUBSET (1..(m + 1))
        PROVE  h[s] = IF s = {} THEN base ELSE Step[<<Max(s), h[s \ {Max(s)}]>>]
    <3>1. CASE m + 1 \in s
      <4>1. h[s] = Step[<<m + 1, g[s \ {m + 1}]>>] /\ Max(s) = m + 1
        BY <2>2, <3>1
      <4>2. h[s \ {m + 1}] = g[s \ {m + 1}]
        BY <2>2
      <4> QED
        BY <3>1, <4>1, <4>2
    <3>2. CASE m + 1 \notin s
      <4>1. s \in SUBSET (1..m) /\ h[s] = g[s]
        BY <2>2, <3>2
      <4>2. g[s] = IF s = {} THEN base ELSE Step[<<Max(s), g[s \ {Max(s)}]>>]
        BY <2>1, <4>1 DEF FoldOver
      <4>3. h[s \ {Max(s)}] = g[s \ {Max(s)}]
        BY <3>2
      <4> QED
        BY <4>1, <4>2, <4>3
    <3> QED
      BY <3>1, <3>2
  <2> HIDE DEF h
  <2> QED
    BY <2>0, <2>3, <2>4 DEF FoldOver, HasFold
<1>3. P \in SUBSET (0..n) /\ \A k \in P : k < n => k + 1 \in P
  BY <1>2
<1> HIDE DEF P
<1>4. n \in P
  BY <1>1, <1>3, InductionUpTo
<1> QED
  BY <1>4 DEF P

-----------------------------------------------------------------------------
(* Sorting.                                                                *)

\* R is a strict order of S, and the rank of an element the number of smaller ones.
IsOrder(S, Ord) ==
  \A x, y, z \in S : /\ <<x, x>> \notin Ord
                     /\ <<x, y>> \in Ord /\ <<y, z>> \in Ord => <<x, z>> \in Ord
                     /\ x # y => <<x, y>> \in Ord \/ <<y, x>> \in Ord
Smaller(S, Ord, x) == {y \in S : <<y, x>> \in Ord}
Rank(S, Ord, x) == Cardinality(Smaller(S, Ord, x))

\* A rank in a finite order is a number below the size of the set.
LEMMA RankType ==
  ASSUME NEW S, IsFiniteSet(S), NEW Ord, IsOrder(S, Ord), NEW x \in S
  PROVE  /\ IsFiniteSet(Smaller(S, Ord, x))
         /\ Rank(S, Ord, x) \in Nat /\ Cardinality(S) \in Nat
         /\ Rank(S, Ord, x) < Cardinality(S)
<1>1. Smaller(S, Ord, x) \in SUBSET S /\ Smaller(S, Ord, x) # S
  BY DEF Smaller, IsOrder
<1>2. /\ IsFiniteSet(Smaller(S, Ord, x))
      /\ Rank(S, Ord, x) <= Cardinality(S)
      /\ Rank(S, Ord, x) # Cardinality(S)
  BY <1>1, FS_Subset DEF Rank
<1>3. Rank(S, Ord, x) \in Nat /\ Cardinality(S) \in Nat
  BY <1>2, FS_CardinalityType DEF Rank
<1> QED
  BY <1>2, <1>3

\* What comes later in an order has a greater rank.
LEMMA RankGrows ==
  ASSUME NEW S, IsFiniteSet(S), NEW Ord, IsOrder(S, Ord), NEW x \in S, NEW y \in S, <<x, y>> \in Ord
  PROVE  Rank(S, Ord, x) < Rank(S, Ord, y)
<1>1. /\ Smaller(S, Ord, x) \in SUBSET Smaller(S, Ord, y)
      /\ x \in Smaller(S, Ord, y) /\ x \notin Smaller(S, Ord, x)
  BY DEF Smaller, IsOrder
<1>2. IsFiniteSet(Smaller(S, Ord, y))
  BY RankType
<1>3. /\ Rank(S, Ord, x) <= Rank(S, Ord, y)
      /\ Rank(S, Ord, x) # Rank(S, Ord, y)
  BY <1>1, <1>2, FS_Subset DEF Rank
<1>4. Rank(S, Ord, x) \in Nat /\ Rank(S, Ord, y) \in Nat
  BY RankType
<1> QED
  BY <1>3, <1>4

\* Every rank is that of one element.
LEMMA RanksAreTaken ==
  ASSUME NEW S, IsFiniteSet(S), NEW Ord, IsOrder(S, Ord)
  PROVE  /\ \A k \in 1..Cardinality(S) : \E x \in S : Rank(S, Ord, x) = k - 1
         /\ \A x, y \in S : Rank(S, Ord, x) = Rank(S, Ord, y) => x = y
         /\ \A x \in S : Rank(S, Ord, x) + 1 \in 1..Cardinality(S)
<1> DEFINE n == Cardinality(S)
           place == [x \in S |-> Rank(S, Ord, x) + 1]
<1>1. n \in Nat
  BY FS_CardinalityType
<1>2. \A x \in S : Rank(S, Ord, x) \in Nat /\ Rank(S, Ord, x) < n
  BY RankType
<1>3. ASSUME NEW x \in S, NEW y \in S, x # y
      PROVE  Rank(S, Ord, x) # Rank(S, Ord, y)
  <2>1. <<x, y>> \in Ord \/ <<y, x>> \in Ord
    BY <1>3 DEF IsOrder
  <2> QED
    BY <1>2, <2>1, RankGrows
<1> HIDE DEF n
<1>4. place \in Injection(S, 1..n)
  <2>1. place \in [S -> 1..n]
    BY <1>1, <1>2
  <2>2. \A x, y \in S : place[x] = place[y] => x = y
    BY <1>2, <1>3
  <2> QED
    BY <2>1, <2>2 DEF Injection, IsInjective
<1>5. IsFiniteSet(1..n) /\ Cardinality(1..n) = n
  BY <1>1, FS_Interval
<1>6. place \in Surjection(S, 1..n)
  BY <1>4, <1>5, FS_Injection DEF n
<1>7. ASSUME NEW k \in 1..n
      PROVE  \E x \in S : Rank(S, Ord, x) = k - 1
  <2>1. PICK x \in S : place[x] = k
    BY <1>6 DEF Surjection
  <2> QED
    BY <1>1, <1>2, <2>1
<1>8. \A x \in S : Rank(S, Ord, x) + 1 \in 1..n
  BY <1>1, <1>2
<1> QED
  BY <1>3, <1>7, <1>8 DEF n

Spans == Times \X Times

\* sorted puts each span once, and none after one it comes before.
LEMMA SortedSpans ==
  ASSUME NEW spans \in SUBSET Spans
  PROVE  /\ IsFiniteSet(spans) /\ Cardinality(spans) \in Nat
         /\ sorted(spans) \in [1..Cardinality(spans) -> spans]
         /\ \A s \in spans : \E k \in 1..Cardinality(spans) : sorted(spans)[k] = s
         /\ \A j, k \in 1..Cardinality(spans) :
              j < k => Before(sorted(spans)[j], sorted(spans)[k])
<1> DEFINE n == Cardinality(spans)
           Ord == {p \in spans \X spans : Before(p[1], p[2])}
           nth(k) == CHOOSE s \in spans : Cardinality({x \in spans : Before(x, s)}) = k - 1
<1>1. IsFiniteSet(spans)
  <2>1. IsFiniteSet(Times)
    BY RunTimelineAssumption, FS_Interval DEF Times
  <2>2. IsFiniteSet(Spans)
    BY <2>1, FS_Product DEF Spans
  <2> QED
    BY <2>2, FS_Subset
<1>2. n \in Nat
  BY <1>1, FS_CardinalityType
<1>3. \A s \in spans : s[1] \in Int /\ s[2] \in Int /\ s = <<s[1], s[2]>>
  BY DEF Spans, Times
<1>4. IsOrder(spans, Ord)
  BY <1>3 DEF IsOrder, Before
<1>5. \A s \in spans : Cardinality({x \in spans : Before(x, s)}) = Rank(spans, Ord, s)
  <2> SUFFICES ASSUME NEW s \in spans
               PROVE  {x \in spans : Before(x, s)} = Smaller(spans, Ord, s)
    BY DEF Rank
  <2> QED
    BY DEF Smaller
<1> HIDE DEF Ord
<1>6. ASSUME NEW k \in 1..n
      PROVE  nth(k) \in spans /\ Rank(spans, Ord, nth(k)) = k - 1
  <2>1. \E s \in spans : Cardinality({x \in spans : Before(x, s)}) = k - 1
    BY <1>1, <1>4, <1>5, RanksAreTaken
  <2>2. nth(k) \in spans /\ Cardinality({x \in spans : Before(x, nth(k))}) = k - 1
    BY <2>1
  <2> QED
    BY <1>5, <2>2
<1>7. sorted(spans) = [k \in 1..n |-> nth(k)]
  BY DEF sorted
<1> HIDE DEF nth
<1>8. ASSUME NEW s \in spans
      PROVE  \E k \in 1..n : nth(k) = s
  <2>1. Rank(spans, Ord, s) + 1 \in 1..n /\ Rank(spans, Ord, s) \in Nat
    BY <1>1, <1>4, RanksAreTaken, RankType
  <2>2. Rank(spans, Ord, nth(Rank(spans, Ord, s) + 1)) = Rank(spans, Ord, s)
    BY <1>6, <2>1
  <2> QED
    BY <1>1, <1>4, <1>6, <2>1, <2>2, RanksAreTaken
<1>9. ASSUME NEW j \in 1..n, NEW k \in 1..n, j < k
      PROVE  Before(nth(j), nth(k))
  <2>1. nth(j) # nth(k) /\ ~(Rank(spans, Ord, nth(k)) < Rank(spans, Ord, nth(j)))
    BY <1>2, <1>6, <1>9
  <2>2. <<nth(j), nth(k)>> \in Ord
    BY <1>1, <1>4, <1>6, <2>1, RankGrows DEF IsOrder
  <2> QED
    BY <2>2 DEF Ord
<1> HIDE DEF n
<1> QED
  BY <1>1, <1>2, <1>6, <1>7, <1>8, <1>9 DEF n

-----------------------------------------------------------------------------
(* union_minutes                                                           *)

\* Max of two times.
LEMMA MaxOfTwo ==
  ASSUME NEW a \in Int, NEW b \in Int
  PROVE  Max({a, b}) = IF a >= b THEN a ELSE b
<1> DEFINE m == IF a >= b THEN a ELSE b
<1>1. m \in {a, b} /\ \A y \in {a, b} : m >= y
  OBVIOUS
<1>2. \A x \in {a, b} : (\A y \in {a, b} : x >= y) => x = m
  OBVIOUS
<1> HIDE DEF m
<1>3. Max({a, b}) = m
  BY <1>1, <1>2 DEF Max
<1> QED
  BY <1>3 DEF m

Sums == [total: Int, end: Int]
NoSum == [total |-> 0, end |-> NaT]

\* A turn of union_minutes leaves a total and an end.
LEMMA AddSpanType ==
  ASSUME NEW sum \in Sums, NEW span \in Spans
  PROVE  AddSpan(sum, span) \in Sums
<1>1. span[1] \in Int /\ span[2] \in Int /\ sum.total \in Int /\ sum.end \in Int
  BY DEF Spans, Times, Sums
<1>2. Max({span[2] - sum.end, 0}) \in Int /\ Max({span[2], sum.end}) \in Int
  BY <1>1, MaxOfTwo
<1> QED
  BY <1>1, <1>2 DEF AddSpan, Sums

\* The loop: one turn per span, in their order.
LEMMA UnionLoop ==
  ASSUME NEW n \in Nat, NEW seq \in [1..n -> Spans]
  PROVE  \E f \in [0..n -> Sums] :
           /\ f[0] = NoSum
           /\ \A k \in 1..n : f[k] = AddSpan(f[k - 1], seq[k])
           /\ FoldLeft(AddSpan, NoSum, seq) = f[n]
<1> DEFINE Step == [p \in (1..n) \X Sums |-> AddSpan(p[2], seq[p[1]])]
           Body(h) == [s \in SUBSET (1..n) |->
                         IF s = {} THEN NoSum
                         ELSE AddSpan(h[s \ {Max(s)}], seq[Max(s)])]
           iter == CHOOSE h : h = Body(h)
           f == [k \in 0..n |-> iter[1..k]]
<1>1. NoSum \in Sums
  BY DEF NoSum, Sums, NaT
<1>2. Step \in [(1..n) \X Sums -> Sums]
  BY AddSpanType
<1>3. PICK g \in [SUBSET (1..n) -> Sums] : FoldOver(n, NoSum, Step, g)
  BY <1>1, <1>2, FoldExists DEF HasFold
<1>4. g = Body(g)
  <2> SUFFICES ASSUME NEW s \in SUBSET (1..n), s # {}
               PROVE  g[s] = AddSpan(g[s \ {Max(s)}], seq[Max(s)])
    BY <1>3 DEF FoldOver
  <2>1. Max(s) \in 1..n
    BY LargestOfRange
  <2>2. g[s \ {Max(s)}] \in Sums
    OBVIOUS
  <2> QED
    BY <1>3, <2>1, <2>2 DEF FoldOver
<1>5. iter = Body(iter)
  BY <1>4
<1>6. FoldLeft(AddSpan, NoSum, seq) = iter[1..n]
  BY DEF FoldLeft, MapThenFoldSet
<1> HIDE DEF iter
<1>7. iter[1..0] = NoSum
  BY <1>5
<1>8. ASSUME NEW k \in 1..n
      PROVE  iter[1..k] = AddSpan(iter[1..(k - 1)], seq[k])
  <2>1. 1..k \in SUBSET (1..n) /\ 1..k # {}
    BY NumbersUpTo
  <2>2. Max(1..k) = k
    <3>0. k \in Nat /\ k \in 1..k /\ 1..k \in SUBSET (1..k)
      OBVIOUS
    <3>1. Max(1..k) \in 1..k /\ k <= Max(1..k)
      BY <3>0, LargestOfRange
    <3> QED
      BY <3>1
  <2>3. (1..k) \ {k} = 1..(k - 1)
    OBVIOUS
  <2> QED
    BY <1>5, <2>1, <2>2, <2>3
<1> DEFINE P == {k \in 0..n : iter[1..k] \in Sums}
<1>9. 0 \in P
  BY <1>1, <1>7
<1>10. ASSUME NEW k \in P, k < n
       PROVE  k + 1 \in P
  <2>1. k + 1 \in 1..n /\ (k + 1) - 1 = k /\ iter[1..k] \in Sums
    BY <1>10
  <2>2. iter[1..(k + 1)] = AddSpan(iter[1..k], seq[k + 1])
    BY <1>8, <2>1
  <2> QED
    BY <2>1, <2>2, AddSpanType
<1>11. P \in SUBSET (0..n) /\ \A k \in P : k < n => k + 1 \in P
  BY <1>10
<1> HIDE DEF P
<1>12. P = 0..n
  BY <1>9, <1>11, InductionUpTo
<1>13. f \in [0..n -> Sums]
  BY <1>12 DEF P
<1>14. f[0] = NoSum /\ f[n] = iter[1..n]
  BY <1>7
<1>15. \A k \in 1..n : f[k] = AddSpan(f[k - 1], seq[k])
  BY <1>8
<1> QED
  BY <1>6, <1>13, <1>14, <1>15

\* The minutes of the first k spans.
Minutes(seq, k) == {t \in Times : \E i \in 1..k : seq[i][1] <= t /\ t < seq[i][2]}

\* The minutes of the first spans are finitely many.
LEMMA MinutesAreFinite ==
  ASSUME NEW seq, NEW k
  PROVE  IsFiniteSet(Minutes(seq, k)) /\ Cardinality(Minutes(seq, k)) \in Nat
<1>1. IsFiniteSet(Times)
  BY RunTimelineAssumption, FS_Interval DEF Times
<1>2. Minutes(seq, k) \in SUBSET Times
  BY DEF Minutes
<1>3. IsFiniteSet(Minutes(seq, k))
  BY <1>1, <1>2, FS_Subset
<1> QED
  BY <1>3, FS_CardinalityType

\* What a span adds to the minutes of the spans before it.
LEMMA MinutesGrow ==
  ASSUME NEW n \in Nat, NEW seq \in [1..n -> Spans], NEW k \in 0..n, k < n,
         \A i, j \in 1..n : i < j => Before(seq[i], seq[j]),
         NEW e \in Int,
         k = 0 => e = NaT,
         k > 0 => (\A i \in 1..k : seq[i][2] <= e) /\ (\E i \in 1..k : seq[i][2] = e),
         seq[k + 1][1] <= seq[k + 1][2]
  PROVE  LET a == IF seq[k + 1][1] > e THEN seq[k + 1][1] ELSE e
             b == seq[k + 1][2]
         IN Cardinality(Minutes(seq, k + 1))
              = Cardinality(Minutes(seq, k)) + (IF b > a THEN b - a ELSE 0)
<1> DEFINE a == IF seq[k + 1][1] > e THEN seq[k + 1][1] ELSE e
           b == seq[k + 1][2]
<1>1. \A i \in 1..n : seq[i][1] \in Times /\ seq[i][2] \in Times
  BY DEF Spans
<1>2. k \in Nat /\ k + 1 \in 1..n /\ a \in Int /\ b \in Times /\ seq[k + 1][1] \in Times
  <2>1. k \in Nat /\ k + 1 \in 1..n
    OBVIOUS
  <2>2. b \in Times /\ seq[k + 1][1] \in Times
    BY <1>1, <2>1
  <2>3. seq[k + 1][1] \in Int
    BY <2>2 DEF Times
  <2> QED
    BY <2>1, <2>2, <2>3
<1>3. \A i \in 1..k : i \in 1..n /\ seq[i][1] <= seq[k + 1][1]
  BY <1>1, <1>2 DEF Before, Times
<1>4. ASSUME NEW t \in Times
      PROVE  t \in Minutes(seq, k + 1) <=> t \in Minutes(seq, k) \/ t \in a..(b - 1)
  <2>1. t \in Minutes(seq, k + 1)
          <=> t \in Minutes(seq, k) \/ (seq[k + 1][1] <= t /\ t < b)
    BY <1>2 DEF Minutes
  <2>2. t \in a..(b - 1) => seq[k + 1][1] <= t /\ t < b
    BY <1>2 DEF Times
  <2>3. seq[k + 1][1] <= t /\ t < b /\ t \notin a..(b - 1) => t \in Minutes(seq, k)
    <3> SUFFICES ASSUME seq[k + 1][1] <= t, t < e PROVE t \in Minutes(seq, k)
      BY <1>2 DEF Times
    <3>1. k > 0
      BY <1>2 DEF NaT, Times
    <3>2. PICK i \in 1..k : seq[i][2] = e
      BY <3>1
    <3> QED
      BY <1>1, <1>2, <1>3, <3>2 DEF Minutes, Times
  <2> QED
    BY <2>1, <2>2, <2>3
<1>5. \A t \in Minutes(seq, k) : t \notin a..(b - 1)
  BY <1>1, <1>2, <1>3 DEF Minutes, Times
<1>6. a..(b - 1) \subseteq Times
  <2>1. a >= 0
    BY <1>2 DEF Times
  <2> QED
    BY <1>2, <2>1, RunTimelineAssumption DEF Times
<1>7. /\ Minutes(seq, k + 1) = Minutes(seq, k) \cup (a..(b - 1))
      /\ Minutes(seq, k) \cap (a..(b - 1)) = {}
  BY <1>4, <1>5, <1>6 DEF Minutes
<1>8. /\ IsFiniteSet(a..(b - 1))
      /\ Cardinality(a..(b - 1)) = IF b > a THEN b - a ELSE 0
  <2>1. b - 1 \in Int /\ (a > b - 1 <=> ~(b > a)) /\ b - 1 - a + 1 = b - a
    BY <1>2 DEF Times
  <2> QED
    BY <1>2, <2>1, FS_Interval
<1>9. Cardinality({}) = 0
  BY FS_EmptySet
<1>10. Cardinality(Minutes(seq, k)) \in Nat /\ IsFiniteSet(Minutes(seq, k))
  BY MinutesAreFinite
<1> DEFINE old == Minutes(seq, k)
           new == a..(b - 1)
<1>11. IsFiniteSet(old) /\ IsFiniteSet(new) /\ old \cap new = {}
  BY <1>7, <1>8, <1>10
<1>12. Cardinality(new) \in Nat
  BY <1>11, FS_CardinalityType
<1> HIDE DEF old, new
<1>13. Cardinality(old \cup new)
         = Cardinality(old) + Cardinality(new) - Cardinality(old \cap new)
  BY <1>11, FS_Union
<1>14. Cardinality(old \cup new) = Cardinality(old) + Cardinality(new)
  <2>1. Cardinality(old) \in Nat
    BY <1>11, FS_CardinalityType
  <2>2. Cardinality(old \cap new) = 0
    BY <1>9, <1>11
  <2> DEFINE x == Cardinality(old)
             y == Cardinality(new)
             z == Cardinality(old \cap new)
  <2>3. x \in Nat /\ y \in Nat /\ z = 0
    BY <1>12, <2>1, <2>2
  <2>4. Cardinality(old \cup new) = x + y - z
    BY <1>13
  <2> HIDE DEF x, y, z
  <2>5. Cardinality(old \cup new) = x + y
    BY <2>3, <2>4
  <2> QED
    BY <2>5 DEF x, y
<1>15. Cardinality(Minutes(seq, k + 1)) = Cardinality(Minutes(seq, k)) + Cardinality(a..(b - 1))
  BY <1>7, <1>14 DEF old, new
<1> QED
  BY <1>8, <1>15

\* The loop's invariant.  current_end is the end of one of the spans so far,
\* and total is no more than the time from the first start to it; when no span
\* ends before it starts, current_end is the latest end and total is the
\* minutes that the spans cover.
LoopInv(seq, k, sum) ==
  /\ k = 0 => sum = NoSum
  /\ k > 0 => /\ \E i \in 1..k : seq[i][2] = sum.end
              /\ sum.total <= sum.end - seq[1][1]
  /\ (\A i \in 1..k : seq[i][1] <= seq[i][2]) =>
       /\ \A i \in 1..k : seq[i][2] <= sum.end
       /\ sum.total = Cardinality(Minutes(seq, k))

\* The loop of union_minutes begins with no minute and no end.
LEMMA LoopInvHoldsFirst ==
  ASSUME NEW seq
  PROVE  LoopInv(seq, 0, NoSum)
<1>1. Minutes(seq, 0) = {}
  BY DEF Minutes
<1>2. Cardinality(Minutes(seq, 0)) = 0
  BY <1>1, FS_EmptySet
<1> QED
  BY <1>2 DEF LoopInv, NoSum

\* A turn of union_minutes adds the minutes of its span that are new.
LEMMA LoopInvIsKept ==
  ASSUME NEW n \in Nat, NEW seq \in [1..n -> Spans], NEW k \in 0..n, k < n,
         \A i, j \in 1..n : i < j => Before(seq[i], seq[j]),
         NEW sum \in Sums, LoopInv(seq, k, sum)
  PROVE  LoopInv(seq, k + 1, AddSpan(sum, seq[k + 1]))
<1> DEFINE s == seq[k + 1]
           next == AddSpan(sum, s)
           e == sum.end
<1>1. \A i \in 1..n : seq[i][1] \in Times /\ seq[i][2] \in Times
  BY DEF Spans
<1>2. k \in Nat /\ k + 1 \in 1..n /\ s \in Spans
  OBVIOUS
<1>3. s[1] \in Nat /\ s[2] \in Nat
  BY <1>1, <1>2 DEF Times
<1>4. e \in Int /\ sum.total \in Int
  BY DEF Sums
<1>5. k = 0 => e = NaT
  BY DEF LoopInv, NoSum
<1>6. k > 0 => e \in Nat
  <2> SUFFICES ASSUME k > 0 PROVE e \in Nat
    OBVIOUS
  <2>1. PICK i \in 1..k : seq[i][2] = e
    BY DEF LoopInv
  <2> QED
    BY <1>1, <1>2, <2>1 DEF Times
<1>7. e = NaT <=> k = 0
  BY <1>2, <1>5, <1>6 DEF NaT
<1> DEFINE fresh == e = NaT \/ s[1] > e
<1>8. /\ fresh => next.total = sum.total + s[2] - s[1] /\ next.end = s[2]
      /\ ~fresh => /\ next.total = sum.total + (IF s[2] >= e THEN s[2] - e ELSE 0)
                   /\ next.end = IF s[2] >= e THEN s[2] ELSE e
  <2>1. fresh => next.total = sum.total + s[2] - s[1] /\ next.end = s[2]
    BY DEF AddSpan
  <2>2. ~fresh => next.total = sum.total + Max({s[2] - e, 0}) /\ next.end = Max({s[2], e})
    BY DEF AddSpan
  <2>3. Max({s[2], e}) = IF s[2] >= e THEN s[2] ELSE e
    BY <1>3, <1>4, MaxOfTwo
  <2>4. s[2] - e \in Int
    BY <1>3, <1>4
  <2>5. Max({s[2] - e, 0}) = IF s[2] - e >= 0 THEN s[2] - e ELSE 0
    BY <2>4, MaxOfTwo
  <2>6. (IF s[2] - e >= 0 THEN s[2] - e ELSE 0) = IF s[2] >= e THEN s[2] - e ELSE 0
    BY <1>3, <1>4
  <2> QED
    BY <2>1, <2>2, <2>3, <2>5, <2>6
<1> HIDE DEF next, e
<1>9. \E i \in 1..(k + 1) : seq[i][2] = next.end
  <2>1. k + 1 \in 1..(k + 1) /\ seq[k + 1][2] = s[2]
    BY <1>2
  <2>2. ~fresh /\ ~(s[2] >= e) => \E i \in 1..(k + 1) : seq[i][2] = e
    <3> SUFFICES ASSUME ~fresh PROVE \E i \in 1..(k + 1) : seq[i][2] = e
      OBVIOUS
    <3>1. PICK i \in 1..k : seq[i][2] = e
      BY <1>2, <1>7 DEF LoopInv, e
    <3>2. i \in 1..(k + 1)
      BY <1>2
    <3> QED
      BY <3>1, <3>2
  <2> QED
    BY <1>8, <2>1, <2>2
<1>10. next.total <= next.end - seq[1][1]
  <2>1. seq[1][1] \in Nat
    BY <1>1, <1>2 DEF Times
  <2>2. CASE k = 0
    <3>1. fresh /\ sum.total = 0 /\ s = seq[1]
      BY <1>7, <2>2 DEF LoopInv, NoSum
    <3> QED
      BY <1>3, <1>8, <3>1
  <2>3. CASE k > 0
    <3>1. sum.total <= e - seq[1][1] /\ e # NaT
      BY <1>7, <2>3 DEF LoopInv, e
    <3> HIDE DEF s
    <3>2. CASE fresh
      BY <1>3, <1>4, <1>8, <2>1, <3>1, <3>2
    <3>3. CASE ~fresh
      BY <1>3, <1>4, <1>8, <2>1, <3>1, <3>3
    <3> QED
      BY <3>2, <3>3
  <2> QED
    BY <1>2, <2>2, <2>3
<1>11. ASSUME \A i \in 1..(k + 1) : seq[i][1] <= seq[i][2]
       PROVE  /\ \A i \in 1..(k + 1) : seq[i][2] <= next.end
              /\ next.total = Cardinality(Minutes(seq, k + 1))
  <2>1. s[1] <= s[2]
    BY <1>2, <1>11
  <2>2. /\ \A i \in 1..k : seq[i][2] <= e
        /\ sum.total = Cardinality(Minutes(seq, k))
    BY <1>2, <1>11 DEF LoopInv, e
  <2>3. \A i \in 1..k : i \in 1..n /\ seq[i][2] \in Nat
    BY <1>1, <1>2 DEF Times
  <2>4. /\ next.end = s[2] \/ next.end = e
        /\ next.end >= s[2] /\ next.end \in Int
        /\ k > 0 => next.end >= e
    <3> HIDE DEF s
    <3> QED
      BY <1>3, <1>4, <1>7, <1>8, <2>1
  <2>5. ASSUME NEW i \in 1..(k + 1)
        PROVE  seq[i][2] <= next.end
    <3>1. CASE i = k + 1
      BY <2>4, <3>1
    <3>2. CASE i # k + 1
      <4>1. i \in 1..k /\ k > 0
        BY <1>2, <3>2
      <4> QED
        BY <1>4, <2>2, <2>3, <2>4, <4>1
    <3> QED
      BY <3>1, <3>2
  <2> DEFINE a == IF s[1] > e THEN s[1] ELSE e
  <2>6. Cardinality(Minutes(seq, k + 1))
          = Cardinality(Minutes(seq, k)) + (IF s[2] > a THEN s[2] - a ELSE 0)
    <3>1. k > 0 => (\A i \in 1..k : seq[i][2] <= e) /\ (\E i \in 1..k : seq[i][2] = e)
      BY <2>2 DEF LoopInv, e
    <3> QED
      BY <1>4, <1>5, <2>1, <3>1, MinutesGrow
  <2>7. next.total = sum.total + (IF s[2] > a THEN s[2] - a ELSE 0)
    <3>1. k = 0 => e < s[1]
      BY <1>3, <1>7 DEF NaT
    <3> HIDE DEF s
    <3> QED
      BY <1>2, <1>3, <1>4, <1>7, <1>8, <2>1, <3>1
  <2> QED
    BY <2>2, <2>5, <2>6, <2>7
<1> QED
  BY <1>2, <1>9, <1>10, <1>11 DEF LoopInv, next

\* The minutes of the union are those the spans cover, and are no more than lie
\* between the start of one of them and the end of one.
LEMMA UnionOfSpans ==
  ASSUME NEW spans \in SUBSET Spans
  PROVE  /\ union_minutes(spans) \in Int
         /\ InOrder(spans) => union_minutes(spans) = Cardinality(CoveredMinutes(spans))
         /\ spans # {} => \E s, u \in spans : union_minutes(spans) <= u[2] - s[1]
<1> DEFINE n == Cardinality(spans)
           seq == sorted(spans)
<1>1. /\ IsFiniteSet(spans) /\ n \in Nat
      /\ seq \in [1..n -> spans]
      /\ \A s \in spans : \E k \in 1..n : seq[k] = s
      /\ \A j, k \in 1..n : j < k => Before(seq[j], seq[k])
  BY SortedSpans
<1> HIDE DEF n, seq
<1>2. seq \in [1..n -> Spans]
  BY <1>1
<1>3. PICK f \in [0..n -> Sums] :
        /\ f[0] = NoSum
        /\ \A k \in 1..n : f[k] = AddSpan(f[k - 1], seq[k])
        /\ FoldLeft(AddSpan, NoSum, seq) = f[n]
  BY <1>1, <1>2, UnionLoop
<1> DEFINE P == {k \in 0..n : LoopInv(seq, k, f[k])}
<1>4. 0 \in P
  BY <1>1, <1>3, LoopInvHoldsFirst
<1>5. ASSUME NEW k \in P, k < n
      PROVE  k + 1 \in P
  <2>1. k \in 0..n /\ k + 1 \in 1..n /\ k + 1 \in 0..n /\ (k + 1) - 1 = k
    BY <1>1, <1>5
  <2>2. LoopInv(seq, k, f[k]) /\ f[k] \in Sums
    BY <2>1
  <2>3. f[k + 1] = AddSpan(f[k], seq[k + 1])
    BY <1>3, <2>1
  <2>4. LoopInv(seq, k + 1, AddSpan(f[k], seq[k + 1]))
    BY <1>1, <1>2, <1>5, <2>1, <2>2, LoopInvIsKept
  <2> QED
    BY <2>1, <2>3, <2>4
<1>6. P \in SUBSET (0..n) /\ \A k \in P : k < n => k + 1 \in P
  BY <1>5
<1> HIDE DEF P
<1>7. P = 0..n
  BY <1>1, <1>4, <1>6, InductionUpTo
<1>8. LoopInv(seq, n, f[n])
  BY <1>1, <1>7 DEF P
<1>9. union_minutes(spans) = f[n].total
  BY <1>3 DEF union_minutes, NoSum, seq
<1>10. InOrder(spans) => union_minutes(spans) = Cardinality(CoveredMinutes(spans))
  <2> SUFFICES ASSUME InOrder(spans)
               PROVE  union_minutes(spans) = Cardinality(CoveredMinutes(spans))
    OBVIOUS
  <2>1. Minutes(seq, n) = CoveredMinutes(spans)
    BY <1>1 DEF Minutes, CoveredMinutes
  <2>2. \A i \in 1..n : seq[i][1] <= seq[i][2]
    BY <1>1 DEF InOrder
  <2> QED
    BY <1>8, <1>9, <2>1, <2>2 DEF LoopInv
<1>11. spans # {} => \E s, u \in spans : union_minutes(spans) <= u[2] - s[1]
  <2> SUFFICES ASSUME spans # {} PROVE \E s, u \in spans : f[n].total <= u[2] - s[1]
    BY <1>9
  <2>1. n > 0 /\ 1 \in 1..n
    BY <1>1
  <2>2. PICK i \in 1..n : seq[i][2] = f[n].end
    BY <1>8, <2>1 DEF LoopInv
  <2>3. f[n].total <= seq[i][2] - seq[1][1]
    BY <1>8, <2>1, <2>2 DEF LoopInv
  <2>4. seq[i] \in spans /\ seq[1] \in spans
    BY <1>1, <2>1
  <2> QED
    BY <2>3, <2>4
<1>12. union_minutes(spans) \in Int
  BY <1>1, <1>3, <1>9 DEF Sums
<1> QED
  BY <1>10, <1>11, <1>12

-----------------------------------------------------------------------------
(* The times of a stage.                                                   *)

\* Max of some times is one of them, and none is above it.
LEMMA LargestTime ==
  ASSUME NEW S \in SUBSET Times, S # {}
  PROVE  Max(S) \in S /\ \A x \in S : x <= Max(S)
<1> DEFINE T == {Snapshot - x : x \in S}
<1>1. T \in SUBSET Nat /\ T # {}
  <2>1. \A x \in S : Snapshot - x \in Nat
    BY RunTimelineAssumption DEF Times
  <2> QED
    BY <2>1
<1>2. PICK t \in T : \A u \in T : t <= u
  BY <1>1, LeastNat
<1>3. PICK x \in S : t = Snapshot - x
  BY <1>2
<1>4. \A y \in S : x >= y
  <2> SUFFICES ASSUME NEW y \in S PROVE x >= y
    OBVIOUS
  <2>1. Snapshot - y \in T
    OBVIOUS
  <2>2. Snapshot - x <= Snapshot - y
    BY <1>2, <1>3, <2>1
  <2> QED
    BY <2>2, RunTimelineAssumption DEF Times
<1>5. \A y \in S : y \in Int
  BY DEF Times
<1> HIDE DEF T
<1> QED
  BY <1>4, <1>5 DEF Max

\* Min of some times is one of them, and none is below it.
LEMMA SmallestTime ==
  ASSUME NEW S \in SUBSET Times, S # {}
  PROVE  Min(S) \in S /\ \A x \in S : Min(S) <= x
<1>1. S \in SUBSET Nat
  BY DEF Times
<1>2. PICK t \in S : \A u \in S : t <= u
  BY <1>1, LeastNat
<1> QED
  BY <1>1, <1>2 DEF Min

PreparedJobs == {Prepared(r) : r \in Reported}

\* What render makes of the times GitHub reports: no job ends more than a
\* minute before it starts.
LEMMA PreparedType ==
  ASSUME NEW job \in PreparedJobs
  PROVE  /\ job.eligible \in Times /\ job.start \in Times /\ job.end \in Times
         /\ job.end >= job.start - 1
<1>1. PICK r \in Reported : job = Prepared(r)
  BY DEF PreparedJobs
<1>2. Snapshot \in Times /\ \A t \in Times : t <= Snapshot /\ t \in Int
  BY RunTimelineAssumption DEF Times
<1>3. /\ r.created \in Times \cup {NaT} /\ r.started \in Times /\ r.completed \in Times \cup {NaT}
      /\ r.status = "queued" => r.created \in {r.started, NaT}
      /\ IF r.status = "completed" THEN r.completed # NaT /\ r.completed >= r.started - 1
         ELSE r.completed = NaT
  BY DEF Reported
<1> QED
  BY <1>1, <1>2, <1>3 DEF Prepared

\* Those of them that start when they are eligible, or later.
TimelyJobs == {job \in PreparedJobs : job.eligible <= job.start}

LEMMA TimelyType ==
  ASSUME NEW job \in TimelyJobs
  PROVE  /\ job.eligible \in Times /\ job.start \in Times /\ job.end \in Times
         /\ job.eligible <= job.start
         /\ job.end >= job.start - 1
BY PreparedType DEF TimelyJobs

\* A table of a run in which no job was created after its start.
LEMMA TimelyTable ==
  ASSUME NEW m \in Nat, NEW jobs \in [1..m -> PreparedJobs], InOrder(Waiting(jobs))
  PROVE  jobs \in [1..m -> TimelyJobs]
<1>1. ASSUME NEW j \in 1..m
      PROVE  jobs[j].eligible <= jobs[j].start
  <2>1. <<jobs[j].eligible, jobs[j].start>> \in Waiting(jobs)
    BY DEF Waiting
  <2> QED
    BY <2>1 DEF InOrder
<1> QED
  BY <1>1 DEF TimelyJobs

\* StageTimesAreCovered for a table of jobs of any size.
LEMMA StageTimes ==
  ASSUME NEW m \in Nat \ {0}, NEW jobs \in [1..m -> PreparedJobs],
         NEW S \in (SUBSET DOMAIN jobs) \ {{}}, NEW attempt \in {1, 2},
         NEW created \in 0..Min({jobs[j].eligible : j \in DOMAIN jobs})
  PROVE  LET stage == stage_contribution(jobs, S, wall_minutes(jobs, attempt, created))
             group == [j \in S |-> jobs[j]]
             Covered(total, spans) ==
               InOrder(spans) => total = Cardinality(CoveredMinutes(spans))
         IN /\ Covered(stage.wall, Running(group))
            /\ Covered(stage.queue_wall, Waiting(group))
            /\ InOrder(Waiting(jobs)) => stage.wall <= stage.of
            /\ InOrder(Running(jobs)) => stage.queue_wall <= stage.of
<1> DEFINE group == [j \in S |-> jobs[j]]
           wall == wall_minutes(jobs, attempt, created)
           Ends == {jobs[j].end : j \in DOMAIN jobs}
           Eligibles == {jobs[j].eligible : j \in DOMAIN jobs}
<1>1. \A j \in 1..m : /\ jobs[j].eligible \in Times /\ jobs[j].start \in Times
                      /\ jobs[j].end \in Times
  BY PreparedType
<1>2. DOMAIN jobs = 1..m /\ 1 \in 1..m /\ S \in SUBSET (1..m) /\ S # {}
  OBVIOUS
<1>3. Ends \in SUBSET Times /\ Ends # {} /\ Eligibles \in SUBSET Times /\ Eligibles # {}
  BY <1>1, <1>2
<1>4. /\ Max(Ends) \in Times /\ \A x \in Ends : x <= Max(Ends)
      /\ Min(Eligibles) \in Times /\ \A x \in Eligibles : Min(Eligibles) <= x
  BY <1>3, LargestTime, SmallestTime
<1>5. \A j \in 1..m : jobs[j].end <= Max(Ends) /\ Min(Eligibles) <= jobs[j].eligible
  BY <1>2, <1>4
<1>6. /\ Running(group) \in SUBSET Spans /\ Running(group) # {}
      /\ Waiting(group) \in SUBSET Spans /\ Waiting(group) # {}
      /\ \A s \in Running(group) : \E j \in 1..m : s = <<jobs[j].start, jobs[j].end>>
      /\ \A s \in Waiting(group) : \E j \in 1..m : s = <<jobs[j].eligible, jobs[j].start>>
  <2>1. /\ Running(group) = {<<jobs[j].start, jobs[j].end>> : j \in S}
        /\ Waiting(group) = {<<jobs[j].eligible, jobs[j].start>> : j \in S}
    BY <1>2 DEF Running, Waiting
  <2> HIDE DEF group
  <2>2. \A j \in S : j \in 1..m
    BY <1>2
  <2>3. \A j \in S : /\ <<jobs[j].start, jobs[j].end>> \in Spans
                     /\ <<jobs[j].eligible, jobs[j].start>> \in Spans
    BY <1>1, <2>2 DEF Spans
  <2>4. Running(group) \in SUBSET Spans /\ Waiting(group) \in SUBSET Spans
    BY <2>1, <2>3
  <2>5. Running(group) # {} /\ Waiting(group) # {}
    <3>1. PICK j \in S : TRUE
      BY <1>2
    <3>2. /\ <<jobs[j].start, jobs[j].end>> \in Running(group)
          /\ <<jobs[j].eligible, jobs[j].start>> \in Waiting(group)
      BY <2>1
    <3> QED
      BY <3>2
  <2>6. \A s \in Running(group) : \E j \in 1..m : s = <<jobs[j].start, jobs[j].end>>
    BY <2>1, <2>2
  <2>7. \A s \in Waiting(group) : \E j \in 1..m : s = <<jobs[j].eligible, jobs[j].start>>
    BY <2>1, <2>2
  <2> QED
    BY <2>4, <2>5, <2>6, <2>7
<1>7. wall = IF attempt = 1 THEN Max(Ends) - created ELSE Max(Ends) - Min(Eligibles)
  BY DEF wall_minutes
<1>8. \A j, k \in 1..m : jobs[k].end - jobs[j].eligible <= wall
  <2> SUFFICES ASSUME NEW j \in 1..m, NEW k \in 1..m
               PROVE  jobs[k].end - jobs[j].eligible <= wall
    OBVIOUS
  <2> DEFINE x == jobs[k].end
             y == jobs[j].eligible
             l == Max(Ends)
             f == Min(Eligibles)
  <2>1. x \in Int /\ y \in Int /\ l \in Int /\ f \in Int /\ x <= l /\ f <= y
    <3>1. x \in Times /\ y \in Times /\ l \in Times /\ f \in Times /\ x <= l /\ f <= y
      BY <1>1, <1>4, <1>5
    <3> HIDE DEF x, y, l, f
    <3> QED
      BY <3>1 DEF Times
  <2>2. created \in Int /\ created <= f
    <3>1. created \in 0..f
      OBVIOUS
    <3> HIDE DEF f
    <3> QED
      BY <2>1, <3>1
  <2> HIDE DEF x, y, l, f
  <2>3. x - y <= l - f /\ x - y <= l - created
    BY <2>1, <2>2
  <2> QED
    BY <1>7, <2>3 DEF x, y, l, f
<1> HIDE DEF wall, group
<1>9. wall \in Int
  BY <1>4, <1>7 DEF Times
<1>10. InOrder(Waiting(jobs)) => union_minutes(Running(group)) <= wall
  <2> SUFFICES ASSUME InOrder(Waiting(jobs)) PROVE union_minutes(Running(group)) <= wall
    OBVIOUS
  <2>1. PICK s \in Running(group), u \in Running(group) :
               union_minutes(Running(group)) <= u[2] - s[1]
    BY <1>6, UnionOfSpans
  <2>2. PICK j \in 1..m : s = <<jobs[j].start, jobs[j].end>>
    BY <1>6
  <2>3. PICK k \in 1..m : u = <<jobs[k].start, jobs[k].end>>
    BY <1>6
  <2>4. jobs[k].end - jobs[j].eligible <= wall
    BY <1>8
  <2>5. /\ jobs[k].end \in Int /\ jobs[j].eligible \in Int /\ jobs[j].start \in Int
        /\ jobs[j].eligible <= jobs[j].start
    <3>1. jobs[j] \in TimelyJobs
      BY TimelyTable
    <3> QED
      BY <1>1, <3>1, TimelyType DEF Times
  <2>6. union_minutes(Running(group)) <= jobs[k].end - jobs[j].start
    BY <2>1, <2>2, <2>3
  <2>7. union_minutes(Running(group)) \in Int
    BY <1>6, UnionOfSpans
  <2> QED
    BY <1>9, <2>4, <2>5, <2>6, <2>7
<1>11. InOrder(Running(jobs)) => union_minutes(Waiting(group)) <= wall
  <2> SUFFICES ASSUME InOrder(Running(jobs)) PROVE union_minutes(Waiting(group)) <= wall
    OBVIOUS
  <2>1. PICK s \in Waiting(group), u \in Waiting(group) :
               union_minutes(Waiting(group)) <= u[2] - s[1]
    BY <1>6, UnionOfSpans
  <2>2. PICK j \in 1..m : s = <<jobs[j].eligible, jobs[j].start>>
    BY <1>6
  <2>3. PICK k \in 1..m : u = <<jobs[k].eligible, jobs[k].start>>
    BY <1>6
  <2>4. jobs[k].end - jobs[j].eligible <= wall
    BY <1>8
  <2>5. /\ jobs[k].end \in Int /\ jobs[j].eligible \in Int /\ jobs[k].start \in Int
        /\ jobs[k].start <= jobs[k].end
    <3>1. <<jobs[k].start, jobs[k].end>> \in Running(jobs)
      BY DEF Running
    <3>2. jobs[k].start <= jobs[k].end
      BY <3>1 DEF InOrder
    <3>3. \A x \in Times : x \in Int
      BY DEF Times
    <3>4. jobs[k].end \in Times /\ jobs[k].start \in Times /\ jobs[j].eligible \in Times
      BY <1>1, Zenon
    <3> QED
      BY <3>2, <3>3, <3>4, Zenon
  <2>6. union_minutes(Waiting(group)) <= jobs[k].start - jobs[j].eligible
    BY <2>1, <2>2, <2>3
  <2>7. union_minutes(Waiting(group)) \in Int
    BY <1>6, UnionOfSpans
  <2> QED
    BY <1>9, <2>4, <2>5, <2>6, <2>7
<1>12. \A spans \in {Running(group), Waiting(group)} :
         InOrder(spans) => union_minutes(spans) = Cardinality(CoveredMinutes(spans))
  BY <1>6, UnionOfSpans
<1>13. stage_contribution(jobs, S, wall)
         = [wall |-> union_minutes(Running(group)), queue_wall |-> union_minutes(Waiting(group)),
            of |-> wall]
  BY DEF stage_contribution, group
<1> QED
  BY <1>10, <1>11, <1>12, <1>13 DEF wall, group

-----------------------------------------------------------------------------
(* The calls.                                                              *)

\* Every call is of one of the functions, with one of its inputs.
InputOK ==
  /\ input.of = "render" => input.arg \in JobTables
  /\ input.of = "repair_job_durations" => input.arg \in StoredRows
  /\ input.of = "calculate_job_active_duration_in_seconds" => input.arg \in Observations
  /\ input.of = "render_hit_rate_trend" => input.arg \in BuildLists
  /\ input.of = "visualize" => input.arg \in Visualizations
  /\ input.of = "parse_log" => input.arg \in BoundedSeq(L!LineKinds, MaxLines)
  /\ input.of = "parse_bazel_build_args" => input.arg \in BoundedSeq(L!ArgKinds, MaxArgs)
  /\ input.of = "download_logs" => input.arg \in LogTables
  /\ input.of = "build_markdown" => input.arg \in DiskReports
  /\ input.of = "build_expression" => input.arg \in Specs
  /\ input.of = "job_durations" => input.arg \in JobRows

\* An input is one of those the functions are called with.
LEMMA InputIsOK == SpecPure => []InputOK
<1>1. InitPure => InputOK
  BY DEF InitPure, InputOK
<1>2. InputOK /\ [NextPure]_input => InputOK'
  BY DEF InputOK, NextPure, Call, CallTimeline, CallParseLog, CallParseArgs, CallRepair,
         CallObserve, CallTrend, CallDiskReport, CallDownloadLogs, CallVisualize,
         CallQuery, CallDrawJobs
<1> QED
  BY <1>1, <1>2, PTL DEF SpecPure

\* The minutes a stage of a run ran and waited are those its jobs cover
\* (StageTimesAreCovered), in a run of any number of jobs.
THEOREM StageTimesSpec == SpecPure => []StageTimesAreCovered
<1>1. InputOK => StageTimesAreCovered
  <2> SUFFICES ASSUME InputOK, input.of = "render" PROVE StageTimesAreCovered
    BY DEF StageTimesAreCovered
  <2>1. PICK m \in 1..MaxJobs : input.arg \in [1..m -> PreparedJobs]
    BY DEF InputOK, JobTables, PreparedJobs
  <2>2. m \in Nat \ {0}
    BY BoundsAssumption
  <2> QED
    BY <2>1, <2>2, StageTimes DEF StageTimesAreCovered
<1> QED
  BY <1>1, InputIsOK, PTL

-----------------------------------------------------------------------------
(* The durations of a row, on every input.                                 *)

\* repair-cache gives a row the durations a sync would (RepairAgreesWithSync).
THEOREM RepairSpec == SpecPure => []RepairAgreesWithSync
<1>1. InputOK => RepairAgreesWithSync
  <2> SUFFICES ASSUME InputOK, input.of = "repair_job_durations", NEW now \in 0..MaxTime
               PROVE  D!RepairAgreesWithSync(input.arg, now)
    BY DEF RepairAgreesWithSync
  <2>1. input.arg \in StoredRows
    BY DEF InputOK
  <2>2. RawTimes \subseteq AnyTime /\ OldDurations \subseteq Int /\ now \in Nat
    BY BoundsAssumption DEF RawTimes, OldDurations, AnyTime, D!Null
  <2>3. input.arg \in AnyRow
    BY <2>1, <2>2 DEF StoredRows, RawJobs, AnyRow, AnyJob
  <2> QED
    BY <2>2, <2>3, RepairIsLikeSync
<1> QED
  BY <1>1, InputIsOK, PTL

\* The active time a wrong clock gives is right once the job is completed
\* (ClockErrorsDoNotLast).
THEOREM ClockSpec == SpecPure => []ClockErrorsDoNotLast
<1>1. InputOK => ClockErrorsDoNotLast
  <2> SUFFICES ASSUME InputOK, input.of = "calculate_job_active_duration_in_seconds"
               PROVE  D!ClockErrorsDoNotLast(input.arg)
    BY DEF ClockErrorsDoNotLast
  <2>1. input.arg \in Observations
    BY DEF InputOK
  <2>2. RawTimes \subseteq AnyTime /\ 0..MaxTime \subseteq Nat /\ -MaxTime..MaxTime \subseteq Int
    BY BoundsAssumption DEF RawTimes, AnyTime
  <2>3. input.arg \in AnyObservation
    BY <2>1, <2>2 DEF Observations, AnyObservation
  <2> QED
    BY <2>3, ClockErrorsEnd
<1> QED
  BY <1>1, InputIsOK, PTL

-----------------------------------------------------------------------------
(* critical_path.                                                          *)

\* A function defined by recursion exists.
IsLoop(f, n, base, Step) ==
  f[1] = base /\ \A k \in 1..n : k > 1 => f[k] = Step[f[k - 1]]

HasLoop(n, S, base, Step) == \E f \in [1..n -> S] : IsLoop(f, n, base, Step)

\* A loop of any number of turns has a value after each.
LEMMA LoopExists ==
  ASSUME NEW n \in Nat \ {0}, NEW S, NEW base \in S, NEW Step \in [S -> S]
  PROVE  HasLoop(n, S, base, Step)
<1> DEFINE P == {m \in 0..(n - 1) : HasLoop(m + 1, S, base, Step)}
<1>1. 0 \in P
  <2> DEFINE g == [k \in 1..1 |-> base]
  <2>1. g \in [1..1 -> S] /\ IsLoop(g, 1, base, Step)
    BY DEF IsLoop
  <2>2. HasLoop(1, S, base, Step)
    BY <2>1 DEF HasLoop
  <2> QED
    BY <2>2
<1>2. ASSUME NEW m \in P, m < n - 1
      PROVE  m + 1 \in P
  <2>1. PICK g \in [1..(m + 1) -> S] : IsLoop(g, m + 1, base, Step)
    BY DEF HasLoop
  <2>2. m \in Nat /\ m + 1 \in 0..(n - 1)
    BY <1>2
  <2> DEFINE h == [k \in 1..((m + 1) + 1) |-> IF k = m + 2 THEN Step[g[m + 1]] ELSE g[k]]
  <2>3. \A k \in 1..((m + 1) + 1) : k # m + 2 => k \in 1..(m + 1)
    BY <2>2
  <2>4. m + 1 \in 1..(m + 1) /\ g[m + 1] \in S
    BY <2>2
  <2>5. h \in [1..((m + 1) + 1) -> S]
    BY <2>3, <2>4
  <2>6. ASSUME NEW k \in 1..((m + 1) + 1), k > 1
        PROVE  h[k] = Step[h[k - 1]]
    <3>1. k - 1 \in 1..(m + 1) /\ h[k - 1] = g[k - 1]
      BY <2>2, <2>6
    <3>2. CASE k = m + 2
      <4>1. k - 1 = m + 1
        BY <2>2, <3>2
      <4> QED
        BY <3>1, <3>2, <4>1
    <3>3. CASE k # m + 2
      <4>1. k \in 1..(m + 1) /\ g[k] = Step[g[k - 1]]
        BY <2>1, <2>3, <2>6, <3>3 DEF IsLoop
      <4> QED
        BY <3>1, <3>3, <4>1
    <3> QED
      BY <3>2, <3>3
  <2>7. h[1] = base
    BY <2>1, <2>2 DEF IsLoop
  <2> HIDE DEF h
  <2>8. IsLoop(h, (m + 1) + 1, base, Step)
    BY <2>6, <2>7 DEF IsLoop
  <2> QED
    BY <2>2, <2>5, <2>8 DEF HasLoop
<1>3. P \in SUBSET (0..(n - 1)) /\ \A k \in P : k < n - 1 => k + 1 \in P
  BY <1>2
<1>4. n - 1 \in Nat /\ n - 1 \in 0..(n - 1) /\ (n - 1) + 1 = n
  OBVIOUS
<1> HIDE DEF P
<1>5. n - 1 \in P
  BY <1>1, <1>3, <1>4, InductionUpTo
<1> QED
  BY <1>4, <1>5 DEF P

\* Some job is the last to end.
LEMMA LastToEndExists ==
  ASSUME NEW m \in Nat, NEW jobs \in [1..m -> TimelyJobs],
         NEW K \in SUBSET (1..m), K # {}
  PROVE  LastToEnd(jobs, K) \in K
<1> DEFINE Ends == {jobs[k].end : k \in K}
           Latest == {k \in K : jobs[k].end = Max(Ends)}
<1>1. \A k \in K : k \in 1..m /\ jobs[k].end \in Times
  BY TimelyType
<1>2. Ends \in SUBSET Times /\ Ends # {}
  <2>1. PICK k \in K : TRUE
    OBVIOUS
  <2>2. jobs[k].end \in Ends
    OBVIOUS
  <2> QED
    BY <1>1, <2>2
<1>3. Max(Ends) \in Ends /\ \A x \in Ends : x <= Max(Ends)
  BY <1>2, LargestTime
<1>4. Latest \in SUBSET Nat /\ Latest # {}
  <2>0. Latest \in SUBSET Nat
    BY <1>1
  <2>1. PICK k \in K : jobs[k].end = Max(Ends)
    BY <1>3
  <2> QED
    BY <2>0, <2>1
<1>5. PICK k \in Latest : \A l \in Latest : k <= l
  BY <1>4, LeastNat
<1>6. ASSUME NEW l \in K
      PROVE  \/ jobs[k].end > jobs[l].end
             \/ jobs[k].end = jobs[l].end /\ k <= l
  <2>1. jobs[k].end \in Int /\ jobs[l].end \in Int /\ jobs[l].end <= jobs[k].end
    BY <1>1, <1>3 DEF Times
  <2>2. jobs[l].end = jobs[k].end => k <= l
    BY <1>5
  <2> QED
    BY <2>1, <2>2
<1>7. k \in K
  OBVIOUS
<1> QED
  BY <1>6, <1>7 DEF LastToEnd
Paths(m) == {p \in Seq(1..m) : Len(p) > 0}

\* One turn of the loop of critical_path.
StepBack(jobs, p) ==
  IF Candidates(jobs, Last(p)) = {} THEN p
  ELSE Append(p, LastToEnd(jobs, Candidates(jobs, Last(p))))

\* A turn of critical_path leaves the path or adds one job that can precede
\* its earliest.
LEMMA StepBackType ==
  ASSUME NEW m \in Nat, NEW jobs \in [1..m -> TimelyJobs], NEW p \in Paths(m)
  PROVE  /\ Last(p) \in 1..m
         /\ Candidates(jobs, Last(p)) \in SUBSET (1..m)
         /\ StepBack(jobs, p) \in Paths(m)
         /\ Candidates(jobs, Last(p)) # {} =>
              \E k \in Candidates(jobs, Last(p)) :
                StepBack(jobs, p) = Append(p, k)
<1>1. p \in Seq(1..m) /\ Len(p) > 0 /\ Len(p) \in Nat
  BY DEF Paths
<1>2. Last(p) \in 1..m
  BY <1>1 DEF Last
<1>3. Candidates(jobs, Last(p)) \in SUBSET (1..m)
  BY DEF Candidates
<1>4. ASSUME Candidates(jobs, Last(p)) # {}
      PROVE  /\ StepBack(jobs, p) = Append(p, LastToEnd(jobs, Candidates(jobs, Last(p))))
             /\ LastToEnd(jobs, Candidates(jobs, Last(p))) \in Candidates(jobs, Last(p))
  BY <1>3, <1>4, LastToEndExists DEF StepBack
<1>5. ASSUME NEW k \in 1..m
      PROVE  Append(p, k) \in Paths(m)
  BY <1>1 DEF Paths
<1>6. StepBack(jobs, p) \in Paths(m)
  BY <1>3, <1>4, <1>5 DEF StepBack
<1> QED
  BY <1>2, <1>3, <1>4, <1>6

\* The loop of critical_path: one job to begin with, then one turn after the
\* other.
LEMMA PathTurns ==
  ASSUME NEW m \in Nat \ {0}, NEW jobs \in [1..m -> TimelyJobs]
  PROVE  \E f \in [1..m -> Paths(m)] :
           /\ f[1] = <<LastToEnd(jobs, 1..m)>>
           /\ \A n \in 1..m : n > 1 => f[n] = StepBack(jobs, f[n - 1])
           /\ PathAfter(jobs, m) = f[m]
<1> DEFINE base == <<LastToEnd(jobs, 1..m)>>
           Step == [p \in Paths(m) |-> StepBack(jobs, p)]
           Body(h) == [n \in 1..m |->
                         IF n = 1 THEN base
                         ELSE IF Candidates(jobs, Last(h[n - 1])) = {} THEN h[n - 1]
                         ELSE Append(h[n - 1],
                                     LastToEnd(jobs, Candidates(jobs, Last(h[n - 1]))))]
           path == CHOOSE h : h = Body(h)
<1>1. base \in Paths(m)
  <2>1. 1..m \in SUBSET (1..m) /\ 1..m # {} /\ m \in Nat
    <3>1. m \in Nat /\ m \in 1..m
      OBVIOUS
    <3> QED
      BY <3>1, NumbersUpTo
  <2>2. LastToEnd(jobs, 1..m) \in 1..m
    BY <2>1, LastToEndExists
  <2> QED
    BY <2>2 DEF Paths
<1>2. Step \in [Paths(m) -> Paths(m)]
  BY StepBackType
<1> HIDE DEF base
<1>3. PICK g \in [1..m -> Paths(m)] : IsLoop(g, m, base, Step)
  BY <1>1, <1>2, LoopExists DEF HasLoop
<1>4. g = Body(g)
  <2> SUFFICES ASSUME NEW n \in 1..m, n # 1
               PROVE  g[n] = StepBack(jobs, g[n - 1])
    BY <1>3 DEF IsLoop, StepBack
  <2>1. n > 1 /\ n - 1 \in 1..m
    OBVIOUS
  <2> QED
    BY <1>3, <2>1 DEF IsLoop
<1>5. path = Body(path)
  BY <1>4
<1>6. PathAfter(jobs, m) = path[m]
  BY DEF PathAfter, base
<1> HIDE DEF path
<1>7. /\ path[1] = base
      /\ \A n \in 1..m : n > 1 => path[n] = StepBack(jobs, path[n - 1])
  <2>1. path[1] = base
    BY <1>5
  <2>2. ASSUME NEW n \in 1..m, n > 1
        PROVE  path[n] = StepBack(jobs, path[n - 1])
    <3>1. path[n] = Body(path)[n]
      BY <1>5
    <3> QED
      BY <2>2, <3>1 DEF StepBack
  <2> QED
    BY <2>1, <2>2
<1> DEFINE P == {n \in 0..(m - 1) : path[n + 1] \in Paths(m)}
<1>8. 0 \in P
  BY <1>1, <1>7
<1>9. ASSUME NEW n \in P, n < m - 1
      PROVE  n + 1 \in P
  <2>1. (n + 1) + 1 \in 1..m /\ (n + 1) + 1 > 1 /\ ((n + 1) + 1) - 1 = n + 1
    BY <1>9
  <2>2. path[(n + 1) + 1] = StepBack(jobs, path[n + 1])
    BY <1>7, <2>1
  <2>3. path[(n + 1) + 1] \in Paths(m)
    BY <2>2, StepBackType
  <2> QED
    BY <1>9, <2>3
<1>10. P \in SUBSET (0..(m - 1)) /\ \A n \in P : n < m - 1 => n + 1 \in P
  BY <1>9
<1>11. m - 1 \in Nat
  OBVIOUS
<1> HIDE DEF P
<1>12. P = 0..(m - 1)
  BY <1>8, <1>10, <1>11, InductionUpTo
<1>13. ASSUME NEW n \in 1..m
       PROVE  path[n] \in Paths(m)
  <2>1. n - 1 \in P /\ (n - 1) + 1 = n
    BY <1>12
  <2> QED
    BY <2>1 DEF P
<1>14. path = [n \in 1..m |-> path[n]]
  BY <1>5
<1>15. path \in [1..m -> Paths(m)]
  BY <1>13, <1>14
<1> QED
  BY <1>6, <1>7, <1>15 DEF base

\* Each job of a path could be stepped back to from the one before it, and
\* starts before all of those.
IsChain(jobs, p) ==
  /\ \A i \in 1..Len(p) : i > 1 => p[i] \in Candidates(jobs, p[i - 1])
  /\ \A i, k \in 1..Len(p) : i < k => jobs[p[k]].start < jobs[p[i]].start

\* A turn of critical_path keeps the path a chain.
LEMMA ChainGrows ==
  ASSUME NEW m \in Nat, NEW jobs \in [1..m -> TimelyJobs], NEW p \in Paths(m),
         IsChain(jobs, p), Candidates(jobs, Last(p)) # {}
  PROVE  IsChain(jobs, StepBack(jobs, p)) /\ Len(StepBack(jobs, p)) = Len(p) + 1
<1>1. p \in Seq(1..m) /\ Len(p) > 0 /\ Len(p) \in Nat
  BY DEF Paths
<1>2. PICK k \in Candidates(jobs, Last(p)) : StepBack(jobs, p) = Append(p, k)
  BY StepBackType
<1>3. k \in 1..m /\ Last(p) \in 1..m
  BY StepBackType
<1> DEFINE q == Append(p, k)
           n == Len(p)
<1>4. /\ Len(q) = n + 1 /\ q[n + 1] = k
      /\ \A i \in 1..n : q[i] = p[i] /\ p[i] \in 1..m
  BY <1>1, <1>3
<1>5. /\ n \in Nat /\ n > 0 /\ Last(p) = p[n]
  BY <1>1 DEF Last
<1> HIDE DEF q, n
<1>6. \A j \in 1..m : /\ jobs[j].eligible \in Int /\ jobs[j].start \in Int
                      /\ jobs[j].eligible <= jobs[j].start
  BY TimelyType DEF Times
<1>7. jobs[k].start < jobs[p[n]].start
  <2>1. jobs[k].start < jobs[p[n]].eligible
    BY <1>3, <1>5 DEF Candidates
  <2> QED
    BY <1>3, <1>5, <1>6, <2>1
<1>8. ASSUME NEW i \in 1..Len(q), i > 1
      PROVE  q[i] \in Candidates(jobs, q[i - 1])
  <2>1. CASE i = n + 1
    <3>1. i - 1 = n /\ i - 1 \in 1..n
      BY <1>5, <2>1
    <3> QED
      BY <1>4, <1>5, <2>1, <3>1
  <2>2. CASE i # n + 1
    <3>1. i \in 1..n /\ i - 1 \in 1..n
      BY <1>4, <1>5, <1>8, <2>2
    <3> QED
      BY <1>4, <1>8, <3>1 DEF IsChain, n
  <2> QED
    BY <2>1, <2>2
<1>9. ASSUME NEW i \in 1..Len(q), NEW l \in 1..Len(q), i < l
      PROVE  jobs[q[l]].start < jobs[q[i]].start
  <2>0. i \in 1..n
    BY <1>4, <1>5, <1>9
  <2>1. CASE l = n + 1
    <3>1. q[l] = k /\ q[i] = p[i] /\ n \in 1..n /\ p[n] \in 1..m /\ p[i] \in 1..m
      BY <1>4, <1>5, <2>0, <2>1
    <3>2. i # n => jobs[p[n]].start < jobs[p[i]].start
      BY <1>5, <2>0, <3>1 DEF IsChain, n
    <3>3. i = n => jobs[p[n]].start = jobs[p[i]].start
      OBVIOUS
    <3>4. jobs[k].start \in Int /\ jobs[p[n]].start \in Int /\ jobs[p[i]].start \in Int
      BY <1>3, <1>6, <3>1
    <3> QED
      BY <1>7, <3>1, <3>2, <3>3, <3>4
  <2>2. CASE l # n + 1
    <3>1. l \in 1..n
      BY <1>4, <1>5, <2>2
    <3> QED
      BY <1>4, <1>9, <2>0, <3>1 DEF IsChain, n
  <2> QED
    BY <2>1, <2>2
<1>10. IsChain(jobs, q) /\ Len(q) = Len(p) + 1
  BY <1>4, <1>8, <1>9 DEF IsChain, n
<1> QED
  BY <1>2, <1>10 DEF q

\* critical_path ends before it runs out of turns.
LEMMA PathEnds ==
  ASSUME NEW m \in Nat \ {0}, NEW jobs \in [1..m -> TimelyJobs]
  PROVE  /\ PathAfter(jobs, m) \in Paths(m)
         /\ IsChain(jobs, PathAfter(jobs, m))
         /\ IsInjective(PathAfter(jobs, m))
         /\ Candidates(jobs, Last(PathAfter(jobs, m))) = {}
<1>1. PICK f \in [1..m -> Paths(m)] :
        /\ f[1] = <<LastToEnd(jobs, 1..m)>>
        /\ \A n \in 1..m : n > 1 => f[n] = StepBack(jobs, f[n - 1])
        /\ PathAfter(jobs, m) = f[m]
  BY PathTurns
<1> DEFINE Inv(n) == /\ IsChain(jobs, f[n])
                     /\ Candidates(jobs, Last(f[n])) = {} \/ Len(f[n]) = n
           P == {n \in 0..(m - 1) : Inv(n + 1)}
<1>2. 0 \in P
  <2>1. Len(f[1]) = 1
    BY <1>1
  <2>2. IsChain(jobs, f[1])
    BY <2>1 DEF IsChain
  <2> QED
    BY <2>1, <2>2
<1>3. ASSUME NEW n \in P, n < m - 1
      PROVE  n + 1 \in P
  <2>1. /\ (n + 1) + 1 \in 1..m /\ (n + 1) + 1 > 1 /\ ((n + 1) + 1) - 1 = n + 1
        /\ n + 1 \in 1..m /\ n + 1 \in 0..(m - 1)
    BY <1>3
  <2>2. f[(n + 1) + 1] = StepBack(jobs, f[n + 1]) /\ f[n + 1] \in Paths(m)
    BY <1>1, <2>1
  <2>3. Inv(n + 1)
    OBVIOUS
  <2>4. Inv((n + 1) + 1)
    <3>1. CASE Candidates(jobs, Last(f[n + 1])) = {}
      BY <2>2, <2>3, <3>1 DEF StepBack
    <3>2. CASE Candidates(jobs, Last(f[n + 1])) # {}
      <4>1. /\ IsChain(jobs, StepBack(jobs, f[n + 1]))
            /\ Len(StepBack(jobs, f[n + 1])) = Len(f[n + 1]) + 1
        BY <2>2, <2>3, <3>2, ChainGrows
      <4> QED
        BY <2>2, <2>3, <3>2, <4>1
    <3> QED
      BY <3>1, <3>2
  <2> QED
    BY <2>1, <2>4
<1>4. P \in SUBSET (0..(m - 1)) /\ \A n \in P : n < m - 1 => n + 1 \in P
  BY <1>3
<1>5. m - 1 \in Nat /\ m - 1 \in 0..(m - 1) /\ (m - 1) + 1 = m /\ m \in 1..m
  OBVIOUS
<1> HIDE DEF P
<1>6. m - 1 \in P
  BY <1>2, <1>4, <1>5, InductionUpTo
<1>7. Inv(m)
  BY <1>5, <1>6 DEF P
<1> DEFINE p == f[m]
<1>8. p \in Paths(m) /\ p \in Seq(1..m) /\ Len(p) \in Nat /\ Len(p) > 0
  BY <1>5 DEF Paths
<1>9. \A i, k \in 1..Len(p) : i < k => jobs[p[k]].start < jobs[p[i]].start
  BY <1>7 DEF IsChain
<1> HIDE DEF p
<1>10. \A i \in 1..Len(p) : p[i] \in 1..m /\ jobs[p[i]].start \in Int
  BY <1>8, TimelyType DEF Times
<1>11. IsInjective(p)
  <2>1. DOMAIN p = 1..Len(p)
    BY <1>8
  <2>2. ASSUME NEW i \in 1..Len(p), NEW k \in 1..Len(p), p[i] = p[k]
        PROVE  i = k
    BY <1>9, <1>10, <2>2
  <2> QED
    BY <2>1, <2>2 DEF IsInjective
<1>12. Candidates(jobs, Last(p)) = {}
  <2> SUFFICES ASSUME NEW k \in Candidates(jobs, Last(p)) PROVE FALSE
    OBVIOUS
  <2>1. Len(p) = m
    BY <1>7 DEF p
  <2>2. p \in Injection(1..m, 1..m)
    <3>1. p \in [1..m -> 1..m]
      BY <1>8, <2>1
    <3> QED
      BY <1>11, <3>1 DEF Injection, IsInjective
  <2>3. IsFiniteSet(1..m)
    BY <1>5, FS_Interval
  <2>4. p \in Surjection(1..m, 1..m)
    BY <2>2, <2>3, FS_Injection
  <2>5. k \in 1..m /\ Last(p) \in 1..m /\ Last(p) = p[m]
    BY <1>8, <2>1, StepBackType DEF Last
  <2>6. PICK i \in 1..m : p[i] = k
    BY <2>4, <2>5 DEF Surjection
  <2>7. jobs[k].start < jobs[p[m]].start
    <3>1. jobs[k].start < jobs[p[m]].eligible
      BY <2>5 DEF Candidates
    <3>2. /\ jobs[p[m]].eligible \in Int /\ jobs[p[m]].start \in Int /\ jobs[k].start \in Int
          /\ jobs[p[m]].eligible <= jobs[p[m]].start
      BY <2>5, TimelyType DEF Times
    <3> QED
      BY <3>1, <3>2
  <2>8. i < m => jobs[p[m]].start < jobs[p[i]].start
    BY <1>9, <2>1
  <2>9. jobs[k].start \in Int /\ jobs[p[m]].start \in Int
    BY <2>5, TimelyType DEF Times
  <2> QED
    BY <2>1, <2>6, <2>7, <2>8, <2>9
<1> QED
  BY <1>1, <1>7, <1>8, <1>11, <1>12 DEF p

\* The turns of a fold, given its function over the sets of places.
IsFold(n, S, base, Step, iter) ==
  /\ iter[{}] = base
  /\ \A s \in SUBSET (1..n) :
       s # {} /\ iter[s \ {Max(s)}] \in S => iter[s] = Step[<<Max(s), iter[s \ {Max(s)}]>>]

HasTurns(n, S, base, Step, result) ==
  \E f \in [0..n -> S] : /\ f[0] = base /\ f[n] = result
                         /\ \A k \in 1..n : f[k] = Step[<<k, f[k - 1]>>]

\* The turns of a fold over 1..n, one after the other.
LEMMA FoldTurns ==
  ASSUME NEW n \in Nat, NEW S, NEW base \in S, NEW Step \in [(1..n) \X S -> S],
         NEW iter, IsFold(n, S, base, Step, iter)
  PROVE  HasTurns(n, S, base, Step, iter[1..n])
<1> DEFINE f == [k \in 0..n |-> iter[1..k]]
           P == {k \in 0..n : iter[1..k] \in S}
<1>1. iter[1..0] = base
  <2>1. 1..0 = {}
    OBVIOUS
  <2> QED
    BY <2>1 DEF IsFold
<1>2. ASSUME NEW k \in 1..n, iter[1..(k - 1)] \in S
      PROVE  iter[1..k] = Step[<<k, iter[1..(k - 1)]>>]
  <2>1. 1..k \in SUBSET (1..n) /\ 1..k # {} /\ 1..k \in SUBSET (1..k) /\ k \in Nat
    OBVIOUS
  <2>2. Max(1..k) \in 1..k /\ \A x \in 1..k : x <= Max(1..k)
    BY <2>1, LargestOfRange
  <2>3. Max(1..k) = k
    BY <2>2
  <2>4. (1..k) \ {k} = 1..(k - 1)
    OBVIOUS
  <2> QED
    BY <1>2, <2>1, <2>3, <2>4 DEF IsFold
<1>3. 0 \in P
  BY <1>1
<1>4. ASSUME NEW k \in P, k < n
      PROVE  k + 1 \in P
  <2>1. k + 1 \in 1..n /\ (k + 1) - 1 = k /\ k + 1 \in 0..n
    BY <1>4
  <2>2. iter[1..(k + 1)] = Step[<<k + 1, iter[1..k]>>]
    BY <1>2, <2>1
  <2>3. <<k + 1, iter[1..k]>> \in (1..n) \X S
    BY <2>1
  <2> QED
    BY <2>1, <2>2, <2>3
<1>5. P \in SUBSET (0..n) /\ \A k \in P : k < n => k + 1 \in P
  BY <1>4
<1> HIDE DEF P
<1>6. P = 0..n
  BY <1>3, <1>5, InductionUpTo
<1>7. f \in [0..n -> S]
  BY <1>6 DEF P
<1>8. f[0] = base /\ f[n] = iter[1..n]
  BY <1>1
<1>9. ASSUME NEW k \in 1..n
      PROVE  f[k] = Step[<<k, f[k - 1]>>]
  <2>1. k - 1 \in 0..n /\ k - 1 \in P
    BY <1>6
  <2> QED
    BY <1>2, <2>1 DEF P
<1> QED
  BY <1>7, <1>8, <1>9 DEF HasTurns

\* The waiting and running time of a job, from its prepared times.
LEMMA JobMinutes ==
  ASSUME NEW job \in TimelyJobs
  PROVE  /\ Queue(job) = job.start - job.eligible
         /\ Duration(job) = IF job.end >= job.start THEN job.end - job.start ELSE 0
<1> DEFINE a == job.eligible
           b == job.start
           c == job.end
<1>1. a \in Int /\ b \in Int /\ c \in Int /\ a <= b
  BY TimelyType DEF Times
<1> HIDE DEF a, b, c
<1>2. b - a \in Int /\ c - b \in Int
  BY <1>1
<1>3. /\ Max({b - a, 0}) = IF b - a >= 0 THEN b - a ELSE 0
      /\ Max({c - b, 0}) = IF c - b >= 0 THEN c - b ELSE 0
  BY <1>2, MaxOfTwo
<1>4. /\ Max({b - a, 0}) = b - a
      /\ Max({c - b, 0}) = IF c >= b THEN c - b ELSE 0
  BY <1>1, <1>3
<1> QED
  BY <1>4 DEF Queue, Duration, a, b, c

\* The sum of PathLength, job by job.
LEMMA PathSum ==
  ASSUME NEW m \in Nat, NEW jobs \in [1..m -> TimelyJobs], NEW p \in Paths(m)
  PROVE  \E f \in [0..Len(p) -> Int] :
           /\ f[0] = 0 /\ PathLength(jobs, p) = f[Len(p)]
           /\ \A k \in 1..Len(p) :
                f[k] = f[k - 1] + Queue(jobs[p[k]]) + Duration(jobs[p[k]])
<1> DEFINE n == Len(p)
           Step == [x \in (1..n) \X Int |-> x[2] + Queue(jobs[p[x[1]]]) + Duration(jobs[p[x[1]]])]
           Body(h) == [s \in SUBSET (1..n) |->
                         IF s = {} THEN 0
                         ELSE h[s \ {Max(s)}] + Queue(jobs[p[Max(s)]]) + Duration(jobs[p[Max(s)]])]
           iter == CHOOSE h : h = Body(h)
<1>1. p \in Seq(1..m) /\ n \in Nat /\ n > 0
  BY DEF Paths
<1>2. \A k \in 1..n : Queue(jobs[p[k]]) \in Int /\ Duration(jobs[p[k]]) \in Int
  <2> SUFFICES ASSUME NEW k \in 1..n
               PROVE  Queue(jobs[p[k]]) \in Int /\ Duration(jobs[p[k]]) \in Int
    OBVIOUS
  <2> DEFINE job == jobs[p[k]]
  <2>1. job \in TimelyJobs
    BY <1>1
  <2> HIDE DEF job
  <2>2. job.eligible \in Int /\ job.start \in Int /\ job.end \in Int
    BY <2>1, TimelyType DEF Times
  <2>3. Queue(job) \in Int /\ Duration(job) \in Int
    BY <2>1, <2>2, JobMinutes
  <2> QED
    BY <2>3 DEF job
<1> HIDE DEF n
<1>3. Step \in [(1..n) \X Int -> Int]
  BY <1>2
<1>4. PICK g \in [SUBSET (1..n) -> Int] : FoldOver(n, 0, Step, g)
  <2>1. 0 \in Int
    OBVIOUS
  <2> QED
    BY <1>1, <1>3, <2>1, FoldExists DEF HasFold
<1>5. g = Body(g)
  <2> SUFFICES ASSUME NEW s \in SUBSET (1..n), s # {}
               PROVE  g[s] = g[s \ {Max(s)}] + Queue(jobs[p[Max(s)]]) + Duration(jobs[p[Max(s)]])
    BY <1>4 DEF FoldOver
  <2>1. Max(s) \in 1..n
    BY <1>1, LargestOfRange
  <2>2. g[s \ {Max(s)}] \in Int
    OBVIOUS
  <2> QED
    BY <1>4, <2>1, <2>2 DEF FoldOver
<1>6. iter = Body(iter)
  BY <1>5
<1>7. PathLength(jobs, p) = iter[1..n]
  <2>1. DOMAIN p = 1..n
    BY <1>1 DEF n
  <2> QED
    BY <2>1 DEF PathLength, FoldLeft, MapThenFoldSet, n
<1> HIDE DEF iter
<1>8. iter[{}] = 0
  BY <1>6
<1>9. ASSUME NEW s \in SUBSET (1..n), s # {}, iter[s \ {Max(s)}] \in Int
      PROVE  iter[s] = Step[<<Max(s), iter[s \ {Max(s)}]>>]
  <2>1. Max(s) \in 1..n
    BY <1>1, <1>9, LargestOfRange
  <2>2. iter[s] = iter[s \ {Max(s)}] + Queue(jobs[p[Max(s)]]) + Duration(jobs[p[Max(s)]])
    BY <1>6, <1>9
  <2> QED
    BY <1>9, <2>1, <2>2
<1>10. PICK f \in [0..n -> Int] : /\ f[0] = 0 /\ f[n] = iter[1..n]
                                  /\ \A k \in 1..n : f[k] = Step[<<k, f[k - 1]>>]
  <2>1. IsFold(n, Int, 0, Step, iter)
    BY <1>8, <1>9 DEF IsFold
  <2>2. 0 \in Int
    OBVIOUS
  <2> HIDE DEF Step
  <2>3. HasTurns(n, Int, 0, Step, iter[1..n])
    BY <1>1, <1>3, <2>1, <2>2, FoldTurns
  <2> QED
    BY <2>3 DEF HasTurns
<1>11. ASSUME NEW k \in 1..n
       PROVE  f[k] = f[k - 1] + Queue(jobs[p[k]]) + Duration(jobs[p[k]])
  <2>1. k - 1 \in 0..n /\ f[k - 1] \in Int
    BY <1>1
  <2> QED
    BY <1>10, <2>1
<1> QED
  BY <1>7, <1>10, <1>11 DEF n

\* The jobs of a path fit one after the other, up to the gap.
LEMMA PathFits ==
  ASSUME NEW m \in Nat, NEW jobs \in [1..m -> TimelyJobs], NEW p \in Paths(m),
         IsChain(jobs, p)
  PROVE  PathLength(jobs, p)
           <= Max({jobs[p[1]].start, jobs[p[1]].end}) - jobs[Last(p)].eligible
                + Gap * (Len(p) - 1)
<1> DEFINE n == Len(p)
           elig(k) == jobs[p[k]].eligible
           start(k) == jobs[p[k]].start
           end(k) == jobs[p[k]].end
           latest == Max({start(1), end(1)})
<1>1. p \in Seq(1..m) /\ n \in Nat /\ n > 0 /\ Last(p) = p[n] /\ 1 \in 1..n /\ n \in 1..n
  BY DEF Paths, Last
<1>2. PICK f \in [0..n -> Int] :
        /\ f[0] = 0 /\ PathLength(jobs, p) = f[n]
        /\ \A k \in 1..n : f[k] = f[k - 1] + Queue(jobs[p[k]]) + Duration(jobs[p[k]])
  BY PathSum
<1>3. ASSUME NEW k \in 1..n
      PROVE  /\ elig(k) \in Int /\ start(k) \in Int /\ end(k) \in Int /\ elig(k) <= start(k)
             /\ Queue(jobs[p[k]]) = start(k) - elig(k)
             /\ Duration(jobs[p[k]]) = IF end(k) >= start(k) THEN end(k) - start(k) ELSE 0
  <2> DEFINE job == jobs[p[k]]
  <2>1. job \in TimelyJobs
    BY <1>1
  <2> HIDE DEF job
  <2>2. /\ job.eligible \in Int /\ job.start \in Int /\ job.end \in Int
        /\ job.eligible <= job.start
        /\ Queue(job) = job.start - job.eligible
        /\ Duration(job) = IF job.end >= job.start THEN job.end - job.start ELSE 0
    BY <2>1, TimelyType, JobMinutes DEF Times
  <2> QED
    BY <2>2 DEF job
<1>4. latest = IF start(1) >= end(1) THEN start(1) ELSE end(1)
  BY <1>1, <1>3, MaxOfTwo
<1>5. latest \in Int
  BY <1>1, <1>3, <1>4
<1>6. ASSUME NEW k \in 1..n, k > 1
      PROVE  /\ end(k) <= elig(k - 1) + Gap /\ Duration(jobs[p[k]]) = end(k) - start(k)
  <2>1. p[k] \in Candidates(jobs, p[k - 1])
    BY <1>6 DEF IsChain
  <2>2. end(k) <= elig(k - 1) + Gap /\ Duration(jobs[p[k]]) >= MinLength
    BY <2>1 DEF Candidates
  <2>3. MinLength \in Nat /\ MinLength > 0
    BY RunTimelineAssumption
  <2> DEFINE d == Duration(jobs[p[k]])
  <2>4. d = (IF end(k) >= start(k) THEN end(k) - start(k) ELSE 0) /\ d >= MinLength
    BY <1>3, <2>2
  <2> HIDE DEF d
  <2>5. d = end(k) - start(k)
    BY <2>3, <2>4
  <2> QED
    BY <2>2, <2>5 DEF d
<1> HIDE DEF n, elig, start, end, latest
<1> DEFINE P == {k \in 0..(n - 1) : f[k + 1] <= latest - elig(k + 1) + Gap * k}
<1>7. 0 \in P
  <2>1. f[1] = f[0] + Queue(jobs[p[1]]) + Duration(jobs[p[1]])
    <3>1. 1 - 1 = 0
      OBVIOUS
    <3> QED
      BY <1>1, <1>2, <3>1
  <2>2. Gap * 0 = 0
    BY RunTimelineAssumption
  <2>3. f[1] = 0 + (start(1) - elig(1)) + (IF end(1) >= start(1) THEN end(1) - start(1) ELSE 0)
    BY <1>1, <1>2, <1>3, <2>1
  <2>4. f[1] = latest - elig(1)
    BY <1>1, <1>3, <1>4, <2>3
  <2>5. latest - elig(1) \in Int
    BY <1>1, <1>3, <1>5
  <2>6. f[0 + 1] <= latest - elig(0 + 1) + Gap * 0
    BY <2>2, <2>4, <2>5
  <2> QED
    BY <1>1, <2>6
<1>8. ASSUME NEW k \in P, k < n - 1
      PROVE  k + 1 \in P
  <2>1. /\ k \in Nat /\ k + 1 \in 1..n /\ k + 1 \in 0..(n - 1) /\ k + 1 \in 0..n
        /\ (k + 1) + 1 \in 1..n /\ (k + 1) + 1 > 1 /\ ((k + 1) + 1) - 1 = k + 1
    BY <1>1, <1>8
  <2> DEFINE l == (k + 1) + 1
             g == Gap * k
  <2>2. f[k + 1] <= latest - elig(k + 1) + g
    OBVIOUS
  <2>3. f[l] = f[k + 1] + (start(l) - elig(l)) + (end(l) - start(l))
    BY <1>2, <1>3, <1>6, <2>1
  <2>4. end(l) <= elig(k + 1) + Gap
    BY <1>6, <2>1
  <2>5. /\ f[k + 1] \in Int /\ elig(k + 1) \in Int /\ start(l) \in Int /\ end(l) \in Int
        /\ elig(l) \in Int /\ Gap \in Int /\ g \in Int /\ f[l] \in Int
    <3>1. Gap \in Int /\ g \in Int
      BY <2>1, RunTimelineAssumption
    <3>2. elig(k + 1) \in Int /\ elig(l) \in Int /\ start(l) \in Int /\ end(l) \in Int
      BY <1>3, <2>1
    <3>3. l \in 0..n
      BY <2>1
    <3>4. f[k + 1] \in Int /\ f[l] \in Int
      <4> HIDE DEF l
      <4> QED
        BY <1>2, <2>1, <3>3
    <3> QED
      BY <3>1, <3>2, <3>4
  <2>6. Gap * (k + 1) = g + Gap
    BY <2>1, RunTimelineAssumption
  <2> HIDE DEF l, g
  <2>7. f[l] <= latest - elig(l) + (g + Gap)
    <3> DEFINE a == f[k + 1]
               b == elig(k + 1)
               c == start(l)
               d == end(l)
               e == elig(l)
               h == f[l]
    <3>1. /\ a \in Int /\ b \in Int /\ c \in Int /\ d \in Int /\ e \in Int /\ g \in Int /\ h \in Int
          /\ Gap \in Int /\ a <= latest - b + g /\ h = a + (c - e) + (d - c) /\ d <= b + Gap
      BY <2>2, <2>3, <2>4, <2>5
    <3> HIDE DEF a, b, c, d, e, h
    <3>2. h <= latest - e + (g + Gap)
      BY <1>5, <3>1
    <3> QED
      BY <3>2 DEF h, e
  <2>8. f[l] <= latest - elig(l) + Gap * (k + 1)
    BY <2>6, <2>7
  <2> QED
    BY <2>1, <2>8 DEF l
<1>9. P \in SUBSET (0..(n - 1)) /\ \A k \in P : k < n - 1 => k + 1 \in P
  BY <1>8
<1>10. n - 1 \in Nat /\ n - 1 \in 0..(n - 1) /\ (n - 1) + 1 = n
  BY <1>1
<1> HIDE DEF P
<1>11. n - 1 \in P
  BY <1>7, <1>9, <1>10, InductionUpTo
<1>12. f[n] <= latest - elig(n) + Gap * (n - 1)
  BY <1>10, <1>11 DEF P
<1> QED
  BY <1>1, <1>2, <1>12 DEF n, latest, elig, start, end

\* critical_path ends, takes no job twice, and its jobs fit into the time of
\* the run (PathIsAChain), in a run of any number of jobs of which none was
\* created after its start.
THEOREM PathSpec == SpecPure => []PathIsAChain
<1>1. InputOK => PathIsAChain
  <2> SUFFICES ASSUME InputOK, input.of = "render", InOrder(Waiting(input.arg))
               PROVE  PathIsAChain
    BY DEF PathIsAChain
  <2> DEFINE jobs == input.arg
  <2>0. PICK m \in 1..MaxJobs : jobs \in [1..m -> PreparedJobs]
    BY DEF InputOK, JobTables, PreparedJobs
  <2>2. m \in Nat \ {0}
    BY BoundsAssumption
  <2>1. jobs \in [1..m -> TimelyJobs]
    BY <2>0, <2>2, TimelyTable
  <2>3. Len(jobs) = m
    BY <2>1, <2>2
  <2> DEFINE path == PathAfter(jobs, m)
  <2>4. /\ path \in Paths(m) /\ IsChain(jobs, path) /\ IsInjective(path)
        /\ Candidates(jobs, Last(path)) = {}
    BY <2>1, <2>2, PathEnds
  <2>5. PathLength(jobs, path)
          <= Max({jobs[path[1]].start, jobs[path[1]].end}) - jobs[Last(path)].eligible
               + Gap * (Len(path) - 1)
    BY <2>1, <2>2, <2>4, PathFits
  <2> QED
    BY <2>3, <2>4, <2>5 DEF PathIsAChain
<1> QED
  BY <1>1, InputIsOK, PTL

-----------------------------------------------------------------------------
(* The charts of build-metrics.                                            *)

\* The rows of the entries at the places E, and the points of some jobs.
RowsOf(entries, builds, E) ==
  UNION {B!flatten_metric_rows(entries[e], builds[entries[e].job]) : e \in E}
Rate(builds, j, k) == IF builds[j][k].info_missing THEN 0 ELSE k
Point(builds, j, k) ==
  [job |-> j, start |-> k, targets |-> B!ToSet(builds[j][k].targets),
   rates |-> {Rate(builds, j, k)}]
Row(entries, builds, e, k, t) ==
  [job_run_url |-> entries[e].job, runner_name |-> entries[e].runner, start_ts |-> k,
   target |-> t, config |-> builds[entries[e].job][k].config,
   rates |-> Rate(builds, entries[e].job, k)]
Places(entries, builds, e) == DOMAIN builds[entries[e].job]
Targets(entries, builds, e, k) == B!ToSet(builds[entries[e].job][k].targets)

\* The rows of some entries, one by one.
LEMMA RowIsOfBuild ==
  ASSUME NEW entries, NEW builds, NEW E
  PROVE  \A r : r \in RowsOf(entries, builds, E) <=>
           \E e \in E : \E k \in Places(entries, builds, e) :
             \E t \in Targets(entries, builds, e, k) : r = Row(entries, builds, e, k, t)
<1> DEFINE Of(e, k) == {Row(entries, builds, e, k, t) : t \in Targets(entries, builds, e, k)}
<1>1. ASSUME NEW e \in E
      PROVE  B!flatten_metric_rows(entries[e], builds[entries[e].job])
               = UNION {Of(e, k) : k \in Places(entries, builds, e)}
  BY DEF B!flatten_metric_rows, Row, Rate, Places, Targets
<1>2. ASSUME NEW r
      PROVE  r \in RowsOf(entries, builds, E) <=>
               \E e \in E : r \in B!flatten_metric_rows(entries[e], builds[entries[e].job])
  BY DEF RowsOf
<1>3. ASSUME NEW r, NEW e \in E
      PROVE  r \in UNION {Of(e, k) : k \in Places(entries, builds, e)} <=>
               \E k \in Places(entries, builds, e) :
                 \E t \in Targets(entries, builds, e, k) : r = Row(entries, builds, e, k, t)
  OBVIOUS
<1> QED
  BY <1>1, <1>2, <1>3

\* An element of a sequence over X is in X.
LEMMA ElementOfSeq ==
  ASSUME NEW X, NEW s \in Seq(X), NEW i \in DOMAIN s
  PROVE  s[i] \in X
<1>1. DOMAIN s = 1..Len(s) /\ Len(s) \in Nat
  OBVIOUS
<1> QED
  BY <1>1

\* The rows of one build have all its targets, and its figures.
LEMMA RowsOfBuild ==
  ASSUME NEW entries, NEW builds, NEW E, NEW e \in E, NEW k \in Places(entries, builds, e),
         NEW t \in Targets(entries, builds, e, k)
  PROVE  LET Flat == RowsOf(entries, builds, E)
             Key(r) == <<r.job_run_url, r.start_ts, r.config>>
             key == Key(Row(entries, builds, e, k, t))
         IN [job |-> key[1], start |-> key[2],
             targets |-> {r.target : r \in {q \in Flat : Key(q) = key}},
             rates |-> {r.rates : r \in {q \in Flat : Key(q) = key}}]
              = Point(builds, entries[e].job, k)
<1> DEFINE Flat == RowsOf(entries, builds, E)
           Key(r) == <<r.job_run_url, r.start_ts, r.config>>
           key == Key(Row(entries, builds, e, k, t))
           j == entries[e].job
<1>1. key = <<j, k, builds[j][k].config>>
  BY DEF Row
<1>2. ASSUME NEW q \in Flat, Key(q) = key
      PROVE  q.target \in B!ToSet(builds[j][k].targets) /\ q.rates = Rate(builds, j, k)
  <2>1. PICK f \in E : \E l \in Places(entries, builds, f) :
               \E u \in Targets(entries, builds, f, l) : q = Row(entries, builds, f, l, u)
    BY RowIsOfBuild
  <2>0. PICK l \in Places(entries, builds, f) :
               \E u \in Targets(entries, builds, f, l) : q = Row(entries, builds, f, l, u)
    BY <2>1
  <2>2. PICK u \in Targets(entries, builds, f, l) : q = Row(entries, builds, f, l, u)
    BY <2>0
  <2>3. entries[f].job = j /\ l = k
    BY <1>1, <1>2, <2>2 DEF Row
  <2> QED
    BY <2>2, <2>3 DEF Row, Targets
<1>3. ASSUME NEW u \in B!ToSet(builds[j][k].targets)
      PROVE  \E q \in Flat : Key(q) = key /\ q.target = u /\ q.rates = Rate(builds, j, k)
  <2>1. Row(entries, builds, e, k, u) \in Flat
    BY RowIsOfBuild DEF Targets
  <2>2. /\ Key(Row(entries, builds, e, k, u)) = key
        /\ Row(entries, builds, e, k, u).target = u
        /\ Row(entries, builds, e, k, u).rates = Rate(builds, j, k)
    BY <1>1 DEF Row
  <2> QED
    BY <2>1, <2>2
<1> HIDE DEF Flat, key
<1>4. {r.target : r \in {q \in Flat : Key(q) = key}} = B!ToSet(builds[j][k].targets)
  BY <1>2, <1>3
<1>5. {r.rates : r \in {q \in Flat : Key(q) = key}} = {Rate(builds, j, k)}
  <2>1. t \in B!ToSet(builds[j][k].targets)
    BY DEF Targets
  <2> QED
    BY <1>2, <1>3, <2>1
<1>6. key[1] = j /\ key[2] = k
  BY <1>1
<1> QED
  BY <1>4, <1>5, <1>6 DEF Flat, key, Point

\* The points drawn from the rows are the builds with targets.
LEMMA PointsOfRows ==
  ASSUME NEW entries, NEW builds, NEW E,
         \A e \in E : \A k \in Places(entries, builds, e) :
           builds[entries[e].job][k].targets = <<>> <=> Targets(entries, builds, e, k) = {}
  PROVE  B!TrendPoints(RowsOf(entries, builds, E))
           = UNION {{Point(builds, j, k) : k \in {n \in DOMAIN builds[j] :
                                                    builds[j][n].targets # <<>>}}
                    : j \in {entries[e].job : e \in E}}
<1> DEFINE Flat == RowsOf(entries, builds, E)
           Key(r) == <<r.job_run_url, r.start_ts, r.config>>
           At(key) == [job |-> key[1], start |-> key[2],
                       targets |-> {r.target : r \in {q \in Flat : Key(q) = key}},
                       rates |-> {r.rates : r \in {q \in Flat : Key(q) = key}}]
           All == UNION {{Point(builds, j, k) : k \in {n \in DOMAIN builds[j] :
                                                         builds[j][n].targets # <<>>}}
                         : j \in {entries[e].job : e \in E}}
<1>1. B!TrendPoints(Flat) = {At(key) : key \in {Key(r) : r \in Flat}}
  BY DEF B!TrendPoints
<1>2. ASSUME NEW e \in E, NEW k \in Places(entries, builds, e),
             NEW t \in Targets(entries, builds, e, k)
      PROVE  At(Key(Row(entries, builds, e, k, t))) = Point(builds, entries[e].job, k)
  BY RowsOfBuild
<1> HIDE DEF Flat, Key, At
<1>3. ASSUME NEW r \in Flat
      PROVE  At(Key(r)) \in All
  <2>0. PICK e \in E : \E k \in Places(entries, builds, e) :
               \E t \in Targets(entries, builds, e, k) : r = Row(entries, builds, e, k, t)
    BY RowIsOfBuild DEF Flat
  <2>9. PICK k \in Places(entries, builds, e) :
               \E t \in Targets(entries, builds, e, k) : r = Row(entries, builds, e, k, t)
    BY <2>0
  <2>1. PICK t \in Targets(entries, builds, e, k) : r = Row(entries, builds, e, k, t)
    BY <2>9
  <2>2. At(Key(r)) = Point(builds, entries[e].job, k)
    BY <1>2, <2>1
  <2>3. builds[entries[e].job][k].targets # <<>> /\ k \in DOMAIN builds[entries[e].job]
    BY DEF Places
  <2> QED
    BY <2>2, <2>3
<1>4. ASSUME NEW x \in All
      PROVE  \E r \in Flat : x = At(Key(r))
  <2>1. PICK e \in E : \E k \in {n \in DOMAIN builds[entries[e].job] :
                                   builds[entries[e].job][n].targets # <<>>} :
                         x = Point(builds, entries[e].job, k)
    OBVIOUS
  <2>2. PICK k \in Places(entries, builds, e) :
               /\ builds[entries[e].job][k].targets # <<>>
               /\ x = Point(builds, entries[e].job, k)
    BY <2>1 DEF Places
  <2>3. PICK t \in Targets(entries, builds, e, k) : TRUE
    BY <2>2
  <2>4. Row(entries, builds, e, k, t) \in Flat
    BY RowIsOfBuild DEF Flat
  <2> QED
    BY <1>2, <2>2, <2>4
<1> HIDE DEF All
<1>5. {At(key) : key \in {Key(r) : r \in Flat}} = All
  BY <1>3, <1>4
<1> QED
  BY <1>1, <1>5 DEF Flat, All

\* The charts of build-metrics, for any jobs and builds.
THEOREM PointsOfCharts ==
  ASSUME NEW J, NEW T, NEW C, NEW runners,
         NEW entries \in Seq([job: J, runner: runners]),
         NEW builds \in [J -> Seq([targets: Seq(T), config: C, info_missing: BOOLEAN])]
  PROVE  B!OnePointPerInvocation(entries, builds, runners)
<1> DEFINE Points(jobs) ==
             UNION {{[job |-> j, start |-> k, targets |-> B!ToSet(builds[j][k].targets),
                      rates |-> {IF builds[j][k].info_missing THEN 0 ELSE k}]
                     : k \in {n \in DOMAIN builds[j] : builds[j][n].targets # <<>>}} : j \in jobs}
           On(runner) == {x \in DOMAIN entries : entries[x].runner = runner}
<1>0. \A e \in DOMAIN entries : entries[e] \in [job: J, runner: runners]
  <2> DEFINE X == [job: J, runner: runners]
  <2>1. entries \in Seq(X)
    OBVIOUS
  <2> HIDE DEF X
  <2>2. \A e \in DOMAIN entries : entries[e] \in X
    BY <2>1, ElementOfSeq
  <2> QED
    BY <2>2 DEF X
<1>1. ASSUME NEW e \in DOMAIN entries, NEW k \in Places(entries, builds, e)
      PROVE  builds[entries[e].job][k].targets = <<>> <=> Targets(entries, builds, e, k) = {}
  <2> DEFINE s == builds[entries[e].job][k].targets
  <2>1. entries[e].job \in J
    BY <1>0
  <2>2. s \in Seq(T)
    <3> DEFINE b == builds[entries[e].job]
    <3> DEFINE X == [targets: Seq(T), config: C, info_missing: BOOLEAN]
    <3>1. b \in Seq(X) /\ k \in DOMAIN b
      BY <2>1 DEF Places
    <3> HIDE DEF b, X
    <3>2. b[k] \in X
      BY <3>1, ElementOfSeq
    <3> QED
      BY <3>2 DEF b, X
  <2> HIDE DEF s
  <2>3. s = <<>> <=> B!ToSet(s) = {}
    <3>1. s # <<>> => 1 \in DOMAIN s
      BY <2>2
    <3>2. s = <<>> => DOMAIN s = {}
      OBVIOUS
    <3> QED
      BY <3>1, <3>2 DEF B!ToSet
  <2> QED
    BY <2>3 DEF s, Targets
<1>2. ASSUME NEW E \in SUBSET DOMAIN entries
      PROVE  B!TrendPoints(RowsOf(entries, builds, E)) = Points({entries[e].job : e \in E})
  BY <1>1, PointsOfRows DEF Point, Rate
<1>3. B!rows(entries, builds) = RowsOf(entries, builds, DOMAIN entries)
  BY DEF B!rows, RowsOf
<1>4. ASSUME NEW runner \in runners
      PROVE  {r \in B!rows(entries, builds) : r.runner_name = runner}
               = RowsOf(entries, builds, On(runner))
  <2>1. ASSUME NEW r
        PROVE  r \in RowsOf(entries, builds, DOMAIN entries) /\ r.runner_name = runner
                 <=> r \in RowsOf(entries, builds, On(runner))
    <3> DEFINE IsOf(e) == \E k \in Places(entries, builds, e) :
                            \E t \in Targets(entries, builds, e, k) :
                              r = Row(entries, builds, e, k, t)
    <3>1. ASSUME NEW e, IsOf(e)
          PROVE  r.runner_name = entries[e].runner
      BY <3>1 DEF Row
    <3>2. r \in RowsOf(entries, builds, DOMAIN entries) <=> \E e \in DOMAIN entries : IsOf(e)
      BY RowIsOfBuild
    <3>3. r \in RowsOf(entries, builds, On(runner)) <=> \E e \in On(runner) : IsOf(e)
      BY RowIsOfBuild
    <3> HIDE DEF IsOf
    <3> QED
      BY <3>1, <3>2, <3>3
  <2> QED
    BY <1>3, <2>1
<1> HIDE DEF Points
<1>5. \A runner \in runners :
        B!RunnerPoints(B!rows(entries, builds), runner)
          = Points({entries[e].job : e \in On(runner)})
  <2> SUFFICES ASSUME NEW runner \in runners
               PROVE  B!RunnerPoints(B!rows(entries, builds), runner)
                        = Points({entries[e].job : e \in On(runner)})
    OBVIOUS
  <2>1. On(runner) \in SUBSET DOMAIN entries
    OBVIOUS
  <2> QED
    BY <1>2, <1>4, <2>1 DEF B!RunnerPoints
<1>6. B!TrendPoints(B!rows(entries, builds)) = Points({entries[e].job : e \in DOMAIN entries})
  BY <1>2, <1>3
<1> QED
  BY <1>5, <1>6 DEF B!OnePointPerInvocation, Points

-----------------------------------------------------------------------------
(* Numbers in their order.                                                 *)

RankIn(S, b) == Cardinality({m \in S : m < b})

HasRanks(S, Ord) == \A k \in 1..Cardinality(S) : \E x \in S : Rank(S, Ord, x) = k - 1

\* Every rank is taken, with the elements hidden.
LEMMA RanksOf ==
  ASSUME NEW S, IsFiniteSet(S), NEW Ord, IsOrder(S, Ord)
  PROVE  HasRanks(S, Ord)
BY RanksAreTaken DEF HasRanks

\* Sorted has each number of its set at its rank.
LEMMA SortedNumbers ==
  ASSUME NEW n \in Nat, NEW S \in SUBSET (1..n)
  PROVE  /\ IsFiniteSet(S) /\ Cardinality(S) \in Nat
         /\ \A b \in S : RankIn(S, b) \in Nat /\ RankIn(S, b) + 1 \in 1..Cardinality(S)
         /\ \A a, b \in S : a < b => RankIn(S, a) < RankIn(S, b)
         /\ \A k \in 1..Cardinality(S) : Sorted(S)[k] \in S /\ RankIn(S, Sorted(S)[k]) = k - 1
<1> DEFINE Ord == {p \in S \X S : p[1] < p[2]}
<1>1. IsFiniteSet(S) /\ Cardinality(S) \in Nat
  <2>1. IsFiniteSet(1..n)
    BY FS_Interval
  <2>2. IsFiniteSet(S)
    BY <2>1, FS_Subset
  <2> QED
    BY <2>2, FS_CardinalityType
<1>2. \A b \in S : b \in Int
  OBVIOUS
<1>3. IsOrder(S, Ord)
  BY <1>2 DEF IsOrder
<1>4. \A b \in S : RankIn(S, b) = Rank(S, Ord, b)
  <2> SUFFICES ASSUME NEW b \in S PROVE {m \in S : m < b} = Smaller(S, Ord, b)
    BY DEF RankIn, Rank
  <2> QED
    BY DEF Smaller
<1>5. ASSUME NEW a \in S, NEW b \in S, a < b
      PROVE  <<a, b>> \in Ord
  BY <1>5
<1> HIDE DEF Ord
<1>6. \A b \in S : RankIn(S, b) \in Nat /\ RankIn(S, b) + 1 \in 1..Cardinality(S)
  BY <1>1, <1>3, <1>4, RanksAreTaken, RankType
<1>7. \A a, b \in S : a < b => RankIn(S, a) < RankIn(S, b)
  <2> SUFFICES ASSUME NEW a \in S, NEW b \in S, a < b PROVE RankIn(S, a) < RankIn(S, b)
    OBVIOUS
  <2>1. Rank(S, Ord, a) < Rank(S, Ord, b)
    BY <1>1, <1>3, <1>5, RankGrows
  <2> QED
    BY <1>4, <2>1
<1>9. \A k \in 1..Cardinality(S) : \E x \in S : Rank(S, Ord, x) = k - 1
  <2>1. HasRanks(S, Ord)
    BY <1>1, <1>3, RanksOf
  <2> QED
    BY <2>1 DEF HasRanks
<1>8. ASSUME NEW k \in 1..Cardinality(S)
      PROVE  Sorted(S)[k] \in S /\ RankIn(S, Sorted(S)[k]) = k - 1
  <2> DEFINE nth == CHOOSE b \in S : Cardinality({m \in S : m < b}) = k - 1
  <2>0. PICK b \in S : Rank(S, Ord, b) = k - 1
    BY <1>9
  <2>1. \E x \in S : Cardinality({m \in S : m < x}) = k - 1
    BY <1>4, <2>0 DEF RankIn
  <2>2. nth \in S /\ RankIn(S, nth) = k - 1
    BY <2>1 DEF RankIn
  <2>3. Sorted(S)[k] = nth
    BY DEF Sorted
  <2> QED
    BY <2>2, <2>3
<1> QED
  BY <1>1, <1>6, <1>7, <1>8

\* Max of some numbers and 0.
LEMMA LargestOrZero ==
  ASSUME NEW n \in Nat, NEW S \in SUBSET (1..n)
  PROVE  /\ S = {} => L!Max(S \cup {0}) = 0
         /\ \A k \in S : (\A m \in S : m <= k) => L!Max(S \cup {0}) = k
         /\ L!Max(S \cup {0}) \in Nat
<1>1. \A k \in S \cup {0} : (\A m \in S \cup {0} : m <= k) => L!Max(S \cup {0}) = k
  <2> SUFFICES ASSUME NEW k \in S \cup {0}, \A m \in S \cup {0} : m <= k
               PROVE  L!Max(S \cup {0}) = k
    OBVIOUS
  <2>1. \A m \in S \cup {0} : m \in Int
    OBVIOUS
  <2>2. \A x \in S \cup {0} : (\A y \in S \cup {0} : x >= y) => x = k
    BY <2>1
  <2> QED
    BY <2>1, <2>2 DEF L!Max
<1>2. S # {} => Max(S) \in S /\ \A x \in S : x <= Max(S)
  BY LargestOfRange
<1>3. ASSUME NEW k \in S, \A m \in S : m <= k
      PROVE  L!Max(S \cup {0}) = k
  <2>1. \A m \in S \cup {0} : m <= k
    BY <1>3
  <2> QED
    BY <1>1, <2>1
<1>4. S # {} => L!Max(S \cup {0}) \in S
  <2> SUFFICES ASSUME S # {} PROVE L!Max(S \cup {0}) \in S
    OBVIOUS
  <2> DEFINE k == Max(S)
  <2>1. k \in S /\ \A m \in S : m <= k
    BY <1>2
  <2> HIDE DEF k
  <2> QED
    BY <1>3, <2>1
<1>5. S = {} => L!Max(S \cup {0}) = 0
  <2>1. S = {} => 0 \in S \cup {0} /\ \A m \in S \cup {0} : m <= 0
    OBVIOUS
  <2> QED
    BY <1>1, <2>1
<1>6. L!Max(S \cup {0}) \in Nat
  <2>1. S # {} => L!Max(S \cup {0}) \in 1..n
    BY <1>4
  <2> QED
    BY <1>5, <2>1
<1> QED
  BY <1>3, <1>5, <1>6

-----------------------------------------------------------------------------
(* parse_log.                                                              *)

BuildLines(log, k) == {n \in 1..k : log[n] = "build"}

\* The lines of a build, and its entry, as far as line k.
LinesUpTo(log, b, k) == {n \in b..k : \A i \in (b + 1)..n : log[i] # "build"}
PlacesUpTo(log, b, k, kind) == {n \in LinesUpTo(log, b, k) : log[n] = kind}
EntryUpTo(log, b, k) ==
  [build |-> b, link |-> L!Max(PlacesUpTo(log, b, k, "link") \cup {0}),
   info |-> L!Max(PlacesUpTo(log, b, k, "info") \cup {0})]

LogEntries == [build: Nat, link: Nat, info: Nat]

\* An entry is made of line numbers.
LEMMA EntryType ==
  ASSUME NEW log, NEW k \in Nat, NEW b \in 1..k
  PROVE  EntryUpTo(log, b, k) \in LogEntries
<1>1. \A kind \in {"link", "info"} : PlacesUpTo(log, b, k, kind) \in SUBSET (1..k)
  BY DEF PlacesUpTo, LinesUpTo
<1>2. \A kind \in {"link", "info"} : L!Max(PlacesUpTo(log, b, k, kind) \cup {0}) \in Nat
  BY <1>1, LargestOrZero
<1> QED
  BY <1>2 DEF EntryUpTo, LogEntries

\* What line k + 1 changes in the entry of a build before it.
LEMMA EntryGrows ==
  ASSUME NEW log, NEW k \in Nat, NEW b \in BuildLines(log, k)
  PROVE  LET n == k + 1
             open == \A i \in (b + 1)..n : log[i] # "build"
             old == EntryUpTo(log, b, k)
         IN EntryUpTo(log, b, n) = [build |-> b,
              link |-> IF open /\ log[n] = "link" THEN n ELSE old.link,
              info |-> IF open /\ log[n] = "info" THEN n ELSE old.info]
<1> DEFINE n == k + 1
           open == \A i \in (b + 1)..n : log[i] # "build"
<1>1. b \in 1..k /\ n \in Nat /\ b < n
  BY DEF BuildLines
<1>2. LinesUpTo(log, b, n) = LinesUpTo(log, b, k) \cup (IF open THEN {n} ELSE {})
  <2>1. \A i \in b..n : i \in b..k \/ i = n
    BY <1>1
  <2>2. n \in b..n /\ \A i \in b..k : i \in b..n
    BY <1>1
  <2> HIDE DEF n
  <2> QED
    BY <2>1, <2>2 DEF LinesUpTo
<1>3. ASSUME NEW kind \in {"link", "info"}
      PROVE  L!Max(PlacesUpTo(log, b, n, kind) \cup {0})
               = IF open /\ log[n] = kind THEN n ELSE L!Max(PlacesUpTo(log, b, k, kind) \cup {0})
  <2> DEFINE S == PlacesUpTo(log, b, n, kind)
  <2>1. S = PlacesUpTo(log, b, k, kind) \cup (IF open /\ log[n] = kind THEN {n} ELSE {})
    BY <1>2 DEF PlacesUpTo
  <2>2. S \in SUBSET (1..n) /\ \A m \in S : m <= n
    BY <1>1 DEF PlacesUpTo, LinesUpTo
  <2> HIDE DEF S
  <2>3. n \in S => L!Max(S \cup {0}) = n
    BY <1>1, <2>2, LargestOrZero
  <2>4. CASE open /\ log[n] = kind
    BY <2>1, <2>3, <2>4 DEF S
  <2>5. CASE ~(open /\ log[n] = kind)
    BY <2>1, <2>5 DEF S
  <2> QED
    BY <2>4, <2>5
<1> HIDE DEF n, open
<1>4. /\ L!Max(PlacesUpTo(log, b, n, "link") \cup {0})
           = IF open /\ log[n] = "link" THEN n ELSE L!Max(PlacesUpTo(log, b, k, "link") \cup {0})
      /\ L!Max(PlacesUpTo(log, b, n, "info") \cup {0})
           = IF open /\ log[n] = "info" THEN n ELSE L!Max(PlacesUpTo(log, b, k, "info") \cup {0})
  BY <1>3
<1>5. /\ EntryUpTo(log, b, k).link = L!Max(PlacesUpTo(log, b, k, "link") \cup {0})
      /\ EntryUpTo(log, b, k).info = L!Max(PlacesUpTo(log, b, k, "info") \cup {0})
  BY DEF EntryUpTo
<1>6. EntryUpTo(log, b, n) = [build |-> b,
        link |-> IF open /\ log[n] = "link" THEN n ELSE EntryUpTo(log, b, k).link,
        info |-> IF open /\ log[n] = "info" THEN n ELSE EntryUpTo(log, b, k).info]
  BY <1>4, <1>5 DEF EntryUpTo
<1> QED
  BY <1>6 DEF n, open

\* A build line begins an entry.
LEMMA EntryBegins ==
  ASSUME NEW log, NEW n \in Nat \ {0}, log[n] = "build"
  PROVE  EntryUpTo(log, n, n) = [build |-> n, link |-> 0, info |-> 0]
<1>1. ASSUME NEW kind \in {"link", "info"}
      PROVE  L!Max(PlacesUpTo(log, n, n, kind) \cup {0}) = 0
  <2>1. PlacesUpTo(log, n, n, kind) = {}
    BY DEF PlacesUpTo, LinesUpTo
  <2>2. {} \in SUBSET (1..n) /\ n \in Nat
    OBVIOUS
  <2> QED
    BY <2>1, <2>2, LargestOrZero
<1>2. /\ L!Max(PlacesUpTo(log, n, n, "link") \cup {0}) = 0
      /\ L!Max(PlacesUpTo(log, n, n, "info") \cup {0}) = 0
  BY <1>1
<1> QED
  BY <1>2 DEF EntryUpTo

\* One turn of the loop, kind by kind.
LogStates == [builds: Seq(LogEntries), current: LogEntries]

\* The branches of the loop over the lines of a log.
LEMMA ReadLineCases ==
  ASSUME NEW log, NEW acc \in LogStates, NEW n \in Nat \ {0}
  PROVE  LET c == acc.current
             next == L!ReadLine(log, acc, n)
         IN /\ next \in LogStates
            /\ log[n] = "build" =>
                 next = [builds |-> IF c.build = 0 THEN acc.builds ELSE Append(acc.builds, c),
                         current |-> [build |-> n, link |-> 0, info |-> 0]]
            /\ log[n] # "build" =>
                 next = [builds |-> acc.builds, current |->
                           [build |-> c.build,
                            link |-> IF c.build # 0 /\ log[n] = "link" THEN n ELSE c.link,
                            info |-> IF c.build # 0 /\ log[n] = "info" THEN n ELSE c.info]]
<1> DEFINE c == acc.current
           next == L!ReadLine(log, acc, n)
<1>1. /\ c \in LogEntries /\ acc.builds \in Seq(LogEntries)
      /\ acc = [builds |-> acc.builds, current |-> c]
      /\ c = [build |-> c.build, link |-> c.link, info |-> c.info]
      /\ c.build \in Nat /\ c.link \in Nat /\ c.info \in Nat
  BY DEF LogStates, LogEntries
<1>2. log[n] = "build" =>
        next = [builds |-> IF c.build = 0 THEN acc.builds ELSE Append(acc.builds, c),
                current |-> [build |-> n, link |-> 0, info |-> 0]]
  BY DEF L!ReadLine, L!Finalized, L!none
<1>3. log[n] = "link" =>
        next = [builds |-> acc.builds, current |->
                  [build |-> c.build, link |-> IF c.build # 0 THEN n ELSE c.link, info |-> c.info]]
  BY <1>1 DEF L!ReadLine, L!Collect
<1>4. log[n] = "info" =>
        next = [builds |-> acc.builds, current |->
                  [build |-> c.build, link |-> c.link, info |-> IF c.build # 0 THEN n ELSE c.info]]
  BY <1>1 DEF L!ReadLine, L!Collect
<1>5. log[n] \notin {"build", "link", "info"} => next = acc
  BY DEF L!ReadLine
<1>6. log[n] # "build" =>
        next = [builds |-> acc.builds, current |->
                  [build |-> c.build,
                   link |-> IF c.build # 0 /\ log[n] = "link" THEN n ELSE c.link,
                   info |-> IF c.build # 0 /\ log[n] = "info" THEN n ELSE c.info]]
  <2>1. CASE log[n] = "link"
    BY <1>3, <2>1
  <2>2. CASE log[n] = "info"
    BY <1>4, <2>2
  <2>3. CASE log[n] \notin {"link", "info", "build"}
    BY <1>1, <1>5, <2>3
  <2> QED
    BY <2>1, <2>2, <2>3
<1>7. next \in LogStates
  <2>1. CASE log[n] = "build"
    <3> DEFINE bs == IF c.build = 0 THEN acc.builds ELSE Append(acc.builds, c)
               new == [build |-> n, link |-> 0, info |-> 0]
    <3>1. bs \in Seq(LogEntries)
      BY <1>1
    <3>2. new \in LogEntries
      BY DEF LogEntries
    <3>3. next = [builds |-> bs, current |-> new]
      BY <1>2, <2>1
    <3> HIDE DEF bs, new
    <3> QED
      BY <3>1, <3>2, <3>3 DEF LogStates
  <2>2. CASE log[n] # "build"
    <3> DEFINE new == [build |-> c.build,
                       link |-> IF c.build # 0 /\ log[n] = "link" THEN n ELSE c.link,
                       info |-> IF c.build # 0 /\ log[n] = "info" THEN n ELSE c.info]
    <3>1. new \in LogEntries
      BY <1>1 DEF LogEntries
    <3>2. next = [builds |-> acc.builds, current |-> new]
      BY <1>6, <2>2
    <3> QED
      BY <1>1, <3>1, <3>2 DEF LogStates
  <2> QED
    BY <2>1, <2>2
<1> QED
  BY <1>2, <1>6, <1>7

\* The loop's invariant: the entries of all builds but the last are finalized,
\* at their places, and the last one's is current.
LogInv(log, k, acc) ==
  LET Bs == BuildLines(log, k)
      c == acc.current
  IN IF Bs = {} THEN acc = [builds |-> <<>>, current |-> L!none]
     ELSE /\ c.build \in Bs /\ \A b \in Bs : b <= c.build
          /\ c = EntryUpTo(log, c.build, k)
          /\ Len(acc.builds) + 1 = Cardinality(Bs)
          /\ \A b \in Bs : b < c.build => acc.builds[RankIn(Bs, b) + 1] = EntryUpTo(log, b, k)

\* A build line comes after all those before it.
LEMMA BuildLinesGrow ==
  ASSUME NEW log, NEW k \in Nat
  PROVE  LET n == k + 1
             Bs == BuildLines(log, k)
         IN /\ BuildLines(log, n) = Bs \cup (IF log[n] = "build" THEN {n} ELSE {})
            /\ Bs \in SUBSET (1..k) /\ n \notin Bs /\ IsFiniteSet(Bs) /\ Cardinality(Bs) \in Nat
            /\ log[n] = "build" => Cardinality(BuildLines(log, n)) = Cardinality(Bs) + 1
            /\ \A b \in Bs : RankIn(BuildLines(log, n), b) = RankIn(Bs, b)
<1> DEFINE n == k + 1
           Bs == BuildLines(log, k)
<1>1. Bs \in SUBSET (1..k) /\ n \notin Bs
  BY DEF BuildLines
<1>2. BuildLines(log, n) = Bs \cup (IF log[n] = "build" THEN {n} ELSE {})
  <2>1. \A i \in 1..n : i \in 1..k \/ i = n
    OBVIOUS
  <2>2. n \in 1..n /\ \A i \in 1..k : i \in 1..n
    OBVIOUS
  <2> HIDE DEF n
  <2> QED
    BY <2>1, <2>2 DEF BuildLines
<1>3. IsFiniteSet(Bs) /\ Cardinality(Bs) \in Nat
  BY <1>1, SortedNumbers
<1>4. log[n] = "build" => Cardinality(BuildLines(log, n)) = Cardinality(Bs) + 1
  BY <1>1, <1>2, <1>3, FS_AddElement
<1>5. ASSUME NEW b \in Bs
      PROVE  RankIn(BuildLines(log, n), b) = RankIn(Bs, b)
  <2>1. \A m \in BuildLines(log, n) : m < b => m \in Bs
    BY <1>1, <1>2
  <2>2. {m \in BuildLines(log, n) : m < b} = {m \in Bs : m < b}
    BY <1>2, <2>1
  <2> QED
    BY <2>2 DEF RankIn
<1> QED
  BY <1>1, <1>2, <1>3, <1>4, <1>5

\* The last of some numbers has all the others before it.
LEMMA RankOfLast ==
  ASSUME NEW n \in Nat, NEW S \in SUBSET (1..n), NEW c \in S, \A b \in S : b <= c
  PROVE  RankIn(S, c) + 1 = Cardinality(S)
<1>1. \A b \in S : b \in Int
  OBVIOUS
<1>2. {m \in S : m < c} = S \ {c}
  <2>1. \A m \in S : m < c <=> m # c
    BY <1>1
  <2> QED
    BY <2>1
<1>3. IsFiniteSet(S) /\ Cardinality(S) \in Nat
  BY SortedNumbers
<1>4. Cardinality(S \ {c}) = Cardinality(S) - 1
  BY <1>3, FS_RemoveElement
<1> QED
  BY <1>2, <1>3, <1>4 DEF RankIn

\* A turn of the loop over the lines keeps its invariant.
LEMMA LogInvIsKept ==
  ASSUME NEW log, NEW k \in Nat, NEW acc \in LogStates, LogInv(log, k, acc)
  PROVE  LogInv(log, k + 1, L!ReadLine(log, acc, k + 1))
<1> DEFINE n == k + 1
           Bs == BuildLines(log, k)
           D1 == BuildLines(log, n)
           c == acc.current
           next == L!ReadLine(log, acc, n)
<1>1. /\ D1 = Bs \cup (IF log[n] = "build" THEN {n} ELSE {})
      /\ Bs \in SUBSET (1..k) /\ n \notin Bs /\ IsFiniteSet(Bs) /\ Cardinality(Bs) \in Nat
      /\ log[n] = "build" => Cardinality(D1) = Cardinality(Bs) + 1
      /\ \A b \in Bs : RankIn(D1, b) = RankIn(Bs, b)
  BY BuildLinesGrow
<1>2. n \in Nat \ {0} /\ \A b \in Bs : b \in Nat /\ b < n /\ b # 0
  BY <1>1
<1>3. /\ next \in LogStates
      /\ log[n] = "build" =>
           next = [builds |-> IF c.build = 0 THEN acc.builds ELSE Append(acc.builds, c),
                   current |-> [build |-> n, link |-> 0, info |-> 0]]
      /\ log[n] # "build" =>
           next = [builds |-> acc.builds, current |->
                     [build |-> c.build,
                      link |-> IF c.build # 0 /\ log[n] = "link" THEN n ELSE c.link,
                      info |-> IF c.build # 0 /\ log[n] = "info" THEN n ELSE c.info]]
  BY <1>2, ReadLineCases
<1>4. acc.builds \in Seq(LogEntries) /\ Len(acc.builds) \in Nat /\ c \in LogEntries
  BY DEF LogStates
<1>5. Bs # {} => /\ c.build \in Bs /\ \A b \in Bs : b <= c.build
                /\ c = EntryUpTo(log, c.build, k)
                /\ Len(acc.builds) + 1 = Cardinality(Bs)
                /\ \A b \in Bs : b < c.build =>
                     acc.builds[RankIn(Bs, b) + 1] = EntryUpTo(log, b, k)
  BY DEF LogInv
<1>6. Bs = {} => acc.builds = <<>> /\ c.build = 0 /\ c.link = 0 /\ c.info = 0
  BY DEF LogInv, L!none
<1>7. \A b \in Bs : /\ RankIn(Bs, b) \in Nat /\ RankIn(Bs, b) + 1 \in 1..Cardinality(Bs)
                   /\ \A a \in Bs : a < b => RankIn(Bs, a) < RankIn(Bs, b)
  BY <1>1, SortedNumbers
\* The entries of the builds before line n, after it.
<1>8. ASSUME NEW b \in Bs
      PROVE  /\ log[n] = "build" \/ b < c.build => EntryUpTo(log, b, n) = EntryUpTo(log, b, k)
             /\ log[n] # "build" /\ b = c.build => EntryUpTo(log, b, n) = next.current
  <2> DEFINE open == \A i \in (b + 1)..n : log[i] # "build"
             old == EntryUpTo(log, b, k)
  <2>1. EntryUpTo(log, b, n) = [build |-> b,
              link |-> IF open /\ log[n] = "link" THEN n ELSE old.link,
              info |-> IF open /\ log[n] = "info" THEN n ELSE old.info]
    BY EntryGrows
  <2>2. old = [build |-> b, link |-> old.link, info |-> old.info]
    BY DEF EntryUpTo
  <2>3. log[n] = "build" \/ b < c.build => ~open
    <3>1. n \in (b + 1)..n
      BY <1>2
    <3>2. b < c.build => c.build \in (b + 1)..n /\ log[c.build] = "build"
      BY <1>2, <1>5 DEF BuildLines
    <3> QED
      BY <3>1, <3>2
  <2>4. log[n] # "build" /\ b = c.build => open
    <3> SUFFICES ASSUME log[n] # "build", b = c.build, NEW i \in (b + 1)..n, log[i] = "build"
                 PROVE  FALSE
      OBVIOUS
    <3>1. i # n /\ i \in 1..k
      BY <1>2
    <3>2. i \in Bs
      BY <3>1 DEF BuildLines
    <3> QED
      BY <1>2, <1>5, <3>2
  <2> HIDE DEF open, old
  <2>5. log[n] = "build" \/ b < c.build => EntryUpTo(log, b, n) = old
    BY <2>1, <2>2, <2>3
  <2>6. log[n] # "build" /\ b = c.build => EntryUpTo(log, b, n) = next.current
    <3> SUFFICES ASSUME log[n] # "build", b = c.build PROVE EntryUpTo(log, b, n) = next.current
      OBVIOUS
    <3>1. old = c /\ c.build # 0 /\ open
      BY <1>2, <1>5, <2>4 DEF old
    <3>2. next.current = [build |-> b,
                          link |-> IF log[n] = "link" THEN n ELSE old.link,
                          info |-> IF log[n] = "info" THEN n ELSE old.info]
      BY <1>3, <3>1
    <3> QED
      BY <2>1, <3>1, <3>2
  <2> QED
    BY <2>5, <2>6 DEF old
<1> HIDE DEF n, Bs, D1, c, next
<1>9. CASE log[n] = "build"
  <2>1. n \in D1 /\ D1 # {} /\ \A b \in D1 : b <= n
    BY <1>1, <1>2, <1>9
  <2>2. /\ next.current = [build |-> n, link |-> 0, info |-> 0] /\ next.current.build = n
        /\ next.builds = IF c.build = 0 THEN acc.builds ELSE Append(acc.builds, c)
    BY <1>3, <1>9
  <2>3. next.current = EntryUpTo(log, n, n)
    BY <1>2, <1>9, <2>2, EntryBegins
  <2>4. CASE Bs = {}
    <3>1. next.builds = <<>> /\ Cardinality(D1) = 1
      <4>1. Cardinality(Bs) = 0
        BY <2>4, FS_EmptySet
      <4> QED
        BY <1>1, <1>6, <1>9, <2>2, <2>4, <4>1
    <3>2. Len(next.builds) + 1 = Cardinality(D1)
      BY <3>1
    <3>3. \A b \in D1 : ~(b < n)
      BY <1>1, <1>2, <1>9, <2>4
    <3> QED
      BY <2>1, <2>2, <2>3, <3>2, <3>3 DEF LogInv, D1, n, next
  <2>5. CASE Bs # {}
    <3>1. c.build \in Bs /\ c.build # 0 /\ next.builds = Append(acc.builds, c)
      BY <1>2, <1>5, <2>2, <2>5
    <3>2. Len(next.builds) = Len(acc.builds) + 1
      BY <1>4, <3>1
    <3>3. Len(next.builds) + 1 = Cardinality(D1)
      BY <1>1, <1>4, <1>5, <1>9, <2>5, <3>2
    <3>4. ASSUME NEW b \in D1, b < n
          PROVE  next.builds[RankIn(D1, b) + 1] = EntryUpTo(log, b, n)
      <4>1. b \in Bs /\ RankIn(D1, b) = RankIn(Bs, b)
        BY <1>1, <1>2, <1>9, <3>4
      <4>2. EntryUpTo(log, b, n) = EntryUpTo(log, b, k)
        BY <1>8, <1>9, <4>1
      <4>3. CASE b = c.build
        <5>1. RankIn(Bs, c.build) + 1 = Cardinality(Bs)
          BY <1>1, <1>5, <3>1, RankOfLast
        <5>2. RankIn(D1, b) + 1 = Len(acc.builds) + 1
          BY <1>5, <2>5, <4>1, <4>3, <5>1
        <5>3. next.builds[Len(acc.builds) + 1] = c
          BY <1>4, <3>1
        <5> QED
          BY <1>5, <2>5, <4>2, <4>3, <5>2, <5>3
      <4>4. CASE b # c.build
        <5>1. b < c.build
          BY <1>2, <1>5, <2>5, <3>1, <4>1, <4>4
        <5>2. RankIn(Bs, b) + 1 \in 1..Len(acc.builds)
          <6>1. /\ RankIn(Bs, b) \in Nat /\ RankIn(Bs, c.build) \in Nat
                /\ RankIn(Bs, b) < RankIn(Bs, c.build)
                /\ RankIn(Bs, c.build) + 1 \in 1..Cardinality(Bs)
            BY <1>7, <3>1, <4>1, <5>1
          <6> QED
            BY <1>1, <1>4, <1>5, <2>5, <6>1
        <5>3. next.builds[RankIn(Bs, b) + 1] = acc.builds[RankIn(Bs, b) + 1]
          BY <1>4, <3>1, <5>2
        <5> QED
          BY <1>5, <2>5, <4>1, <4>2, <5>1, <5>3
      <4> QED
        BY <4>3, <4>4
    <3> QED
      BY <2>1, <2>2, <2>3, <3>3, <3>4 DEF LogInv, D1, n, next
  <2> QED
    BY <2>4, <2>5
<1>10. CASE log[n] # "build"
  <2>1. D1 = Bs /\ next.builds = acc.builds /\ next.current.build = c.build
    BY <1>1, <1>3, <1>10
  <2>2. CASE Bs = {}
    <3>1. /\ next = [builds |-> <<>>, current |-> [build |-> 0, link |-> 0, info |-> 0]]
      BY <1>3, <1>6, <1>10, <2>2
    <3> QED
      BY <2>1, <2>2, <3>1 DEF LogInv, L!none, D1, n, next
  <2>3. CASE Bs # {}
    <3>1. /\ next.current.build \in D1 /\ \A b \in D1 : b <= next.current.build
          /\ Len(next.builds) + 1 = Cardinality(D1)
      BY <1>5, <2>1, <2>3
    <3>2. next.current = EntryUpTo(log, next.current.build, n)
      BY <1>5, <1>8, <1>10, <2>1, <2>3
    <3>3. \A b \in D1 : b < next.current.build =>
            next.builds[RankIn(D1, b) + 1] = EntryUpTo(log, b, n)
      BY <1>1, <1>5, <1>8, <2>1, <2>3
    <3> QED
      BY <2>1, <2>3, <3>1, <3>2, <3>3 DEF LogInv, D1, n, next
  <2> QED
    BY <2>2, <2>3
<1> QED
  BY <1>9, <1>10 DEF n, next
NoLog == [builds |-> <<>>, current |-> L!none]

\* The states of the loop over the lines.
HasLogTurns(n, log) ==
  \E f \in [0..n -> LogStates] :
    /\ f[0] = NoLog
    /\ \A k \in 1..n : f[k] = L!ReadLine(log, f[k - 1], k)
    /\ L!parse_log(log) = L!Finalized(f[n].builds, f[n].current)

\* parse_log reads the lines one after the other, and ends the last entry.
LEMMA LogLoop ==
  ASSUME NEW n \in Nat, NEW log, Len(log) = n
  PROVE  HasLogTurns(n, log)
<1> DEFINE Step == [x \in (1..n) \X LogStates |-> L!ReadLine(log, x[2], x[1])]
           seq == [i \in 1..n |-> i]
           Body(h) == [s \in SUBSET (1..n) |->
                         IF s = {} THEN NoLog
                         ELSE L!ReadLine(log, h[s \ {L!Max(s)}], seq[L!Max(s)])]
           iter == CHOOSE h : h = Body(h)
<1>1. NoLog \in LogStates
  BY DEF NoLog, LogStates, LogEntries, L!none
<1>2. Step \in [(1..n) \X LogStates -> LogStates]
  <2> SUFFICES ASSUME NEW x \in (1..n) \X LogStates
               PROVE  L!ReadLine(log, x[2], x[1]) \in LogStates
    OBVIOUS
  <2>1. x[1] \in Nat \ {0} /\ x[2] \in LogStates
    OBVIOUS
  <2> QED
    BY <2>1, ReadLineCases
<1>3. PICK g \in [SUBSET (1..n) -> LogStates] : FoldOver(n, NoLog, Step, g)
  BY <1>1, <1>2, FoldExists DEF HasFold
<1>4. ASSUME NEW s
      PROVE  L!Max(s) = Max(s)
  BY DEF L!Max, Max
<1>5. ASSUME NEW s \in SUBSET (1..n), s # {}
      PROVE  Max(s) \in 1..n /\ seq[L!Max(s)] = Max(s)
  <2>1. Max(s) \in 1..n
    BY <1>5, LargestOfRange
  <2> QED
    BY <1>4, <2>1
<1>6. g = Body(g)
  <2> SUFFICES ASSUME NEW s \in SUBSET (1..n), s # {}
               PROVE  g[s] = L!ReadLine(log, g[s \ {L!Max(s)}], seq[L!Max(s)])
    BY <1>3 DEF FoldOver
  <2>1. Max(s) \in 1..n /\ seq[L!Max(s)] = Max(s) /\ L!Max(s) = Max(s)
    BY <1>4, <1>5
  <2>2. g[s \ {Max(s)}] \in LogStates
    OBVIOUS
  <2>3. g[s] = Step[<<Max(s), g[s \ {Max(s)}]>>]
    BY <1>3 DEF FoldOver
  <2> HIDE DEF seq
  <2> QED
    BY <2>1, <2>2, <2>3
<1>7. iter = Body(iter)
  BY <1>6
<1>8. L!parse_log(log) = L!Finalized(iter[1..n].builds, iter[1..n].current)
  <2>1. DOMAIN seq = 1..n
    OBVIOUS
  <2>2. L!FoldLeft(LAMBDA acc, i : L!ReadLine(log, acc, i), NoLog, seq) = iter[1..n]
    BY <2>1 DEF L!FoldLeft, L!MapThenFoldSet
  <2> HIDE DEF iter
  <2> QED
    BY <2>2 DEF L!parse_log, NoLog
<1> HIDE DEF iter
<1>9. IsFold(n, LogStates, NoLog, Step, iter)
  <2>1. iter[{}] = NoLog
    BY <1>7
  <2>2. ASSUME NEW s \in SUBSET (1..n), s # {}, iter[s \ {Max(s)}] \in LogStates
        PROVE  iter[s] = Step[<<Max(s), iter[s \ {Max(s)}]>>]
    <3>1. Max(s) \in 1..n /\ seq[L!Max(s)] = Max(s) /\ L!Max(s) = Max(s)
      BY <1>4, <1>5, <2>2
    <3>2. iter[s] = L!ReadLine(log, iter[s \ {L!Max(s)}], seq[L!Max(s)])
      BY <1>7, <2>2
    <3> HIDE DEF seq
    <3> QED
      BY <2>2, <3>1, <3>2
  <2> QED
    BY <2>1, <2>2 DEF IsFold
<1> HIDE DEF Step
<1>10. HasTurns(n, LogStates, NoLog, Step, iter[1..n])
  BY <1>1, <1>2, <1>9, FoldTurns
<1>11. PICK f \in [0..n -> LogStates] :
         /\ f[0] = NoLog /\ f[n] = iter[1..n]
         /\ \A k \in 1..n : f[k] = Step[<<k, f[k - 1]>>]
  BY <1>10 DEF HasTurns
<1>12. ASSUME NEW k \in 1..n
       PROVE  f[k] = L!ReadLine(log, f[k - 1], k)
  <2>1. k - 1 \in 0..n /\ f[k - 1] \in LogStates
    OBVIOUS
  <2> QED
    BY <1>11, <2>1 DEF Step
<1> QED
  BY <1>8, <1>11, <1>12 DEF HasLogTurns

\* EntriesMatchLog for a log of any length.
LEMMA EntriesOfLog ==
  ASSUME NEW n \in Nat, NEW log \in [1..n -> L!LineKinds]
  PROVE  LET Bs == {i \in DOMAIN log : log[i] = "build"}
         IN L!parse_log(log) =
              [k \in 1..Cardinality(Bs) |->
                 LET b == Sorted(Bs)[k] IN
                 [build |-> b, link |-> L!LastOfKind(log, b, "link"),
                  info |-> L!LastOfKind(log, b, "info")]]
<1> DEFINE Bs == {i \in DOMAIN log : log[i] = "build"}
<1>1. Len(log) = n /\ DOMAIN log = 1..n
  OBVIOUS
<1>2. Bs = BuildLines(log, n)
  BY <1>1 DEF BuildLines
<1>3. PICK f \in [0..n -> LogStates] :
        /\ f[0] = NoLog
        /\ \A k \in 1..n : f[k] = L!ReadLine(log, f[k - 1], k)
        /\ L!parse_log(log) = L!Finalized(f[n].builds, f[n].current)
  <2>1. HasLogTurns(n, log)
    BY <1>1, LogLoop
  <2> QED
    BY <2>1 DEF HasLogTurns
<1> DEFINE P == {k \in 0..n : LogInv(log, k, f[k])}
<1>4. 0 \in P
  <2>1. BuildLines(log, 0) = {}
    BY DEF BuildLines
  <2>2. LogInv(log, 0, NoLog)
    BY <2>1 DEF LogInv, NoLog
  <2>3. LogInv(log, 0, f[0]) /\ 0 \in 0..n
    BY <1>3, <2>2
  <2> QED
    BY <2>3
<1>5. ASSUME NEW k \in P, k < n
      PROVE  k + 1 \in P
  <2>1. k \in Nat /\ k + 1 \in 1..n /\ k + 1 \in 0..n /\ (k + 1) - 1 = k
    BY <1>5
  <2>2. LogInv(log, k, f[k]) /\ f[k] \in LogStates
    OBVIOUS
  <2>3. LogInv(log, k + 1, L!ReadLine(log, f[k], k + 1))
    BY <2>1, <2>2, LogInvIsKept
  <2>4. f[k + 1] = L!ReadLine(log, f[k], k + 1)
    BY <1>3, <2>1
  <2> QED
    BY <2>1, <2>3, <2>4
<1>6. P \in SUBSET (0..n) /\ \A k \in P : k < n => k + 1 \in P
  BY <1>5
<1> HIDE DEF P
<1>7. P = 0..n
  BY <1>4, <1>6, InductionUpTo
<1> DEFINE end == f[n]
           c == end.current
           result == L!Finalized(end.builds, c)
<1>8. LogInv(log, n, end) /\ end \in LogStates
  BY <1>7 DEF P
<1>9. L!parse_log(log) = result
  BY <1>3
<1>10. ASSUME NEW b \in Bs, NEW kind \in {"link", "info"}
       PROVE  L!LastOfKind(log, b, kind) = L!Max(PlacesUpTo(log, b, n, kind) \cup {0})
  BY <1>1 DEF L!LastOfKind, L!LinesOf, PlacesUpTo, LinesUpTo
<1>11. ASSUME NEW b \in Bs
       PROVE  EntryUpTo(log, b, n) = [build |-> b, link |-> L!LastOfKind(log, b, "link"),
                                      info |-> L!LastOfKind(log, b, "info")]
  BY <1>10 DEF EntryUpTo
<1>12. /\ Bs \in SUBSET (1..n) /\ IsFiniteSet(Bs) /\ Cardinality(Bs) \in Nat
       /\ \A b \in Bs : RankIn(Bs, b) \in Nat /\ RankIn(Bs, b) + 1 \in 1..Cardinality(Bs)
       /\ \A a, b \in Bs : a < b => RankIn(Bs, a) < RankIn(Bs, b)
       /\ \A k \in 1..Cardinality(Bs) : Sorted(Bs)[k] \in Bs /\ RankIn(Bs, Sorted(Bs)[k]) = k - 1
  <2>1. Bs \in SUBSET (1..n)
    OBVIOUS
  <2> HIDE DEF Bs
  <2> QED
    BY <2>1, SortedNumbers
<1> HIDE DEF Bs, end
<1>13. result \in Seq(LogEntries) /\ Len(result) = Cardinality(Bs)
       /\ \A b \in Bs : result[RankIn(Bs, b) + 1] = EntryUpTo(log, b, n)
  <2>1. end.builds \in Seq(LogEntries) /\ c \in LogEntries /\ Len(end.builds) \in Nat
    BY <1>8 DEF LogStates
  <2>2. CASE Bs = {}
    <3>1. end.builds = <<>> /\ c.build = 0
      BY <1>2, <1>8, <2>2 DEF LogInv, L!none
    <3>2. result = <<>> /\ Cardinality(Bs) = 0
      BY <2>2, <3>1, FS_EmptySet DEF L!Finalized
    <3>3. result \in Seq(LogEntries) /\ Len(result) = 0
      BY <3>2
    <3> QED
      BY <2>2, <3>2, <3>3
  <2>3. CASE Bs # {}
    <3>1. /\ c.build \in Bs /\ \A b \in Bs : b <= c.build
          /\ c = EntryUpTo(log, c.build, n)
          /\ Len(end.builds) + 1 = Cardinality(Bs)
          /\ \A b \in Bs : b < c.build =>
               end.builds[RankIn(Bs, b) + 1] = EntryUpTo(log, b, n)
      BY <1>2, <1>8, <2>3 DEF LogInv
    <3> HIDE DEF c
    <3>2. c.build # 0
      BY <1>12, <3>1
    <3>3. result = Append(end.builds, c)
      BY <3>2 DEF L!Finalized
    <3>4. RankIn(Bs, c.build) + 1 = Cardinality(Bs)
      BY <1>12, <3>1, RankOfLast
    <3>5. ASSUME NEW b \in Bs
          PROVE  result[RankIn(Bs, b) + 1] = EntryUpTo(log, b, n)
      <4>1. CASE b = c.build
        BY <2>1, <3>1, <3>3, <3>4, <4>1
      <4>2. CASE b # c.build
        <5>0. b \in Int /\ c.build \in Int /\ b <= c.build
          <6>1. Bs \in SUBSET (1..n)
            BY <1>12
          <6>2. c.build \in Bs /\ b <= c.build
            BY <3>1
          <6>3. \A x \in Bs : x \in Int
            BY <6>1
          <6> QED
            BY <6>2, <6>3, Zenon
        <5>1. b < c.build
          BY <4>2, <5>0
        <5>2. RankIn(Bs, b) + 1 \in 1..Len(end.builds)
          <6>1. /\ RankIn(Bs, b) \in Nat /\ RankIn(Bs, c.build) \in Nat
                /\ RankIn(Bs, b) < RankIn(Bs, c.build)
            BY <1>12, <3>1, <5>1
          <6> QED
            BY <2>1, <3>1, <3>4, <6>1
        <5>3. result[RankIn(Bs, b) + 1] = end.builds[RankIn(Bs, b) + 1]
          BY <2>1, <3>3, <5>2
        <5> QED
          BY <3>1, <5>1, <5>3
      <4> QED
        BY <4>1, <4>2
    <3>6. result \in Seq(LogEntries) /\ Len(result) = Len(end.builds) + 1
      BY <2>1, <3>3
    <3>7. Len(result) = Cardinality(Bs)
      BY <3>1, <3>6
    <3> QED
      BY <3>5, <3>6, <3>7
  <2> QED
    BY <2>2, <2>3
<1> HIDE DEF result
<1>14. ASSUME NEW k \in 1..Cardinality(Bs)
       PROVE  result[k] = [build |-> Sorted(Bs)[k],
                           link |-> L!LastOfKind(log, Sorted(Bs)[k], "link"),
                           info |-> L!LastOfKind(log, Sorted(Bs)[k], "info")]
  <2>1. Sorted(Bs)[k] \in Bs /\ RankIn(Bs, Sorted(Bs)[k]) + 1 = k
    BY <1>12
  <2>2. result[k] = EntryUpTo(log, Sorted(Bs)[k], n)
    BY <1>13, <2>1
  <2> QED
    BY <1>11, <2>1, <2>2
<1>15. result = [k \in 1..Cardinality(Bs) |-> result[k]]
  BY <1>12, <1>13
<1> QED
  BY <1>9, <1>14, <1>15 DEF Bs

\* The sequences up to some length.
LEMMA BoundedSequences ==
  ASSUME NEW S, NEW n \in Nat
  PROVE  \A s \in BoundedSeq(S, n) : s \in Seq(S) /\ Len(s) \in 0..n /\ s \in [1..Len(s) -> S]
<1> SUFFICES ASSUME NEW s \in BoundedSeq(S, n)
             PROVE  s \in Seq(S) /\ Len(s) \in 0..n /\ s \in [1..Len(s) -> S]
  OBVIOUS
<1>1. PICK m \in 0..n : s \in [1..m -> S]
  BY DEF BoundedSeq, SeqOf
<1>2. m \in Nat
  OBVIOUS
<1>3. s \in Seq(S) /\ Len(s) = m
  BY <1>1, <1>2
<1> QED
  BY <1>1, <1>3

\* A chart has one point for every build with targets (OnePointPerInvocation),
\* whatever entries and builds of the input it is drawn from.
THEOREM OnePointSpec == SpecPure => []OnePointPerInvocation
<1> DEFINE Lists == BoundedSeq({1, 2}, 2)
<1>1. InputOK => OnePointPerInvocation
  <2> SUFFICES ASSUME InputOK, input.of = "render_hit_rate_trend"
               PROVE  B!OnePointPerInvocation(input.arg.entries, input.arg.builds, {0, 1})
    BY DEF OnePointPerInvocation
  <2> DEFINE J == {1, 2}
             X == [targets: Seq(Nat), config: {1, 2}, info_missing: BOOLEAN]
  <2>1. /\ input.arg.entries \in Entries
        /\ input.arg.builds \in [J -> BoundedSeq(Builds, MaxBuilds)]
    BY DEF InputOK, BuildLists
  <2>2. MaxBuilds \in Nat
    BY BoundsAssumption
  <2>3. input.arg.entries \in Seq([job: J, runner: {0, 1}])
    BY <2>1, <2>2, BoundedSequences DEF Entries
  <2>4. Builds \subseteq X
    <3>1. <<>> \in Seq(Nat) /\ <<2, 1>> \in Seq(Nat)
      OBVIOUS
    <3> QED
      BY <3>1 DEF Builds
  <2>5. BoundedSeq(Builds, MaxBuilds) \subseteq Seq(X)
    <3> SUFFICES ASSUME NEW s \in BoundedSeq(Builds, MaxBuilds) PROVE s \in Seq(X)
      OBVIOUS
    <3>1. s \in Seq(Builds)
      BY <2>2, BoundedSequences
    <3> HIDE DEF X
    <3> QED
      BY <2>4, <3>1
  <2>6. input.arg.builds \in [J -> Seq(X)]
    <3> HIDE DEF X, J
    <3> QED
      BY <2>1, <2>5
  <2> QED
    BY <2>3, <2>6, PointsOfCharts
<1> QED
  BY <1>1, InputIsOK, PTL

\* parse_log returns an entry per build line with the last link and cache
\* line of its own (EntriesMatchLog), whatever the length of the log.
THEOREM EntriesSpec == SpecPure => []EntriesMatchLog
<1>1. InputOK => EntriesMatchLog
  <2> SUFFICES ASSUME InputOK, input.of = "parse_log" PROVE EntriesMatchLog
    BY DEF EntriesMatchLog
  <2> DEFINE log == input.arg
             n == Len(log)
  <2>1. log \in BoundedSeq(L!LineKinds, MaxLines) /\ MaxLines \in Nat
    BY BoundsAssumption DEF InputOK
  <2>2. n \in Nat /\ log \in [1..n -> L!LineKinds]
    BY <2>1, BoundedSequences
  <2> HIDE DEF n
  <2>3. L!parse_log(log) =
          [k \in 1..Cardinality({i \in DOMAIN log : log[i] = "build"}) |->
             LET b == Sorted({i \in DOMAIN log : log[i] = "build"})[k] IN
             [build |-> b, link |-> L!LastOfKind(log, b, "link"),
              info |-> L!LastOfKind(log, b, "info")]]
    BY <2>2, EntriesOfLog
  <2> QED
    BY <2>3 DEF EntriesMatchLog
<1> QED
  BY <1>1, InputIsOK, PTL

-----------------------------------------------------------------------------
(* The arguments of a command line.                                        *)
\* The numbers of a set in their order, and one above them all.
LEMMA SortedType ==
  ASSUME NEW n \in Nat, NEW S \in SUBSET (1..n)
  PROVE  Sorted(S) \in [1..Cardinality(S) -> 1..n] /\ Cardinality(S) \in Nat
         /\ Sorted(S) \in Seq(1..n) /\ Len(Sorted(S)) = Cardinality(S)
<1>1. Cardinality(S) \in Nat /\ \A k \in 1..Cardinality(S) : Sorted(S)[k] \in 1..n
  BY SortedNumbers
<1> DEFINE At(k) == CHOOSE b \in S : Cardinality({m \in S : m < b}) = k - 1
<1>2. Sorted(S) = [k \in 1..Cardinality(S) |-> At(k)]
  BY DEF Sorted
<1> HIDE DEF At
<1>3. Sorted(S) \in [1..Cardinality(S) -> 1..n]
  BY <1>1, <1>2
<1> QED
  BY <1>1, <1>3

\* A number is in Sorted at the place of its rank.
LEMMA OfRank ==
  ASSUME NEW n \in Nat, NEW S \in SUBSET (1..n), NEW b \in S
  PROVE  RankIn(S, b) + 1 \in 1..Cardinality(S) /\ Sorted(S)[RankIn(S, b) + 1] = b
<1>1. /\ RankIn(S, b) \in Nat /\ RankIn(S, b) + 1 \in 1..Cardinality(S)
      /\ \A x, y \in S : x < y => RankIn(S, x) < RankIn(S, y)
      /\ \A y \in S : RankIn(S, y) \in Nat
      /\ \A k \in 1..Cardinality(S) : Sorted(S)[k] \in S /\ RankIn(S, Sorted(S)[k]) = k - 1
  BY SortedNumbers
<1> DEFINE c == Sorted(S)[RankIn(S, b) + 1]
<1>2. c \in S /\ RankIn(S, c) = RankIn(S, b)
  BY <1>1
<1> HIDE DEF c
<1>3. b \in Int /\ c \in Int
  BY <1>2
<1>4. c = b
  BY <1>1, <1>2, <1>3
<1> QED
  BY <1>1, <1>4 DEF c

\* A number above all others goes to the end.
LEMMA SortedGrows ==
  ASSUME NEW n \in Nat, NEW S \in SUBSET (1..n), NEW x \in 1..n, \A b \in S : b < x
  PROVE  Sorted(S \cup {x}) = Append(Sorted(S), x)
<1> DEFINE T == S \cup {x}
<1>1. T \in SUBSET (1..n) /\ x \notin S /\ x \in T
  OBVIOUS
<1>2. IsFiniteSet(S) /\ Cardinality(S) \in Nat
  BY SortedNumbers
<1>3. Cardinality(T) = Cardinality(S) + 1
  BY <1>1, <1>2, FS_AddElement
<1>4. \A b \in S : RankIn(T, b) = RankIn(S, b)
  <2> SUFFICES ASSUME NEW b \in S PROVE RankIn(T, b) = RankIn(S, b)
    OBVIOUS
  <2>1. b \in Int /\ x \in Int /\ b < x
    OBVIOUS
  <2>2. {m \in T : m < b} = {m \in S : m < b}
    BY <2>1
  <2> QED
    BY <2>2 DEF RankIn
<1>5. RankIn(T, x) = Cardinality(S)
  <2>0. x \in Int /\ ~(x < x) /\ \A m \in S : m < x
    OBVIOUS
  <2>1. {m \in T : m < x} = S
    BY <2>0
  <2> QED
    BY <2>1 DEF RankIn
<1> HIDE DEF T
<1>6. /\ Sorted(S) \in [1..Cardinality(S) -> 1..n] /\ Len(Sorted(S)) = Cardinality(S)
      /\ Sorted(S) \in Seq(1..n) /\ Len(Sorted(T)) = Cardinality(T) /\ Sorted(T) \in Seq(1..n)
  BY <1>1, SortedType
<1>7. Sorted(T)[Cardinality(S) + 1] = x
  BY <1>1, <1>5, OfRank
<1>8. ASSUME NEW k \in 1..Cardinality(S)
      PROVE  Sorted(T)[k] = Sorted(S)[k]
  <2> DEFINE b == Sorted(S)[k]
  <2>1. b \in S /\ RankIn(S, b) = k - 1
    BY SortedNumbers
  <2> HIDE DEF b
  <2>2. b \in T /\ RankIn(T, b) + 1 = k
    BY <1>2, <1>4, <2>1 DEF T
  <2>3. Sorted(T)[k] = b
    BY <1>1, <2>2, OfRank
  <2> QED
    BY <2>3 DEF b
<1> DEFINE s == Sorted(S)
           t == Sorted(T)
           c == Cardinality(S)
<1>9. /\ c \in Nat /\ s \in Seq(1..n) /\ t \in Seq(1..n) /\ Len(s) = c /\ Len(t) = c + 1
      /\ t[c + 1] = x /\ \A k \in 1..c : t[k] = s[k]
  BY <1>2, <1>3, <1>6, <1>7, <1>8
<1> HIDE DEF s, t, c
<1>10. t = Append(s, x)
  BY <1>9
<1> QED
  BY <1>10 DEF s, t, T

\* The flags that take the next argument as their value; whether argument k,
\* or the end of the line, is such a value.
Flags == {"--config", "file"}
FollowsFlag(args, k) == k > 1 /\ args[k - 1] \in Flags /\ ~L!IsValue(args)[k - 1]

IsValueOf(args, n, f) ==
  f = [k \in 0..n |-> k > 1 /\ args[k - 1] \in Flags /\ ~f[k - 1]]

\* Which arguments are values of a flag is settled from left to right.
LEMMA ValuesExist ==
  ASSUME NEW n \in Nat, NEW args
  PROVE  \E f : IsValueOf(args, n, f)
<1> DEFINE Step == [x \in (1..n) \X BOOLEAN |->
                      x[1] > 1 /\ args[x[1] - 1] \in Flags /\ ~x[2]]
<1>1. Step \in [(1..n) \X BOOLEAN -> BOOLEAN]
  OBVIOUS
<1>0. \A k \in 1..n, v \in BOOLEAN :
        Step[<<k, v>>] = (k > 1 /\ args[k - 1] \in Flags /\ ~v)
  OBVIOUS
<1> HIDE DEF Step
<1>2. PICK g \in [SUBSET (1..n) -> BOOLEAN] : FoldOver(n, FALSE, Step, g)
  <2>1. HasFold(n, BOOLEAN, FALSE, Step)
    BY <1>1, FoldExists
  <2> QED
    BY <2>1 DEF HasFold
<1>3. IsFold(n, BOOLEAN, FALSE, Step, g)
  BY <1>2 DEF FoldOver, IsFold
<1>4. HasTurns(n, BOOLEAN, FALSE, Step, g[1..n])
  BY <1>1, <1>3, FoldTurns
<1>5. PICK f \in [0..n -> BOOLEAN] :
        f[0] = FALSE /\ \A k \in 1..n : f[k] = Step[<<k, f[k - 1]>>]
  BY <1>4 DEF HasTurns
<1>6. ASSUME NEW k \in 0..n
      PROVE  f[k] = (k > 1 /\ args[k - 1] \in Flags /\ ~f[k - 1])
  <2>1. CASE k = 0
    <3>1. ~(k > 1)
      BY <2>1
    <3> QED
      BY <1>5, <2>1, <3>1
  <2>2. CASE k # 0
    <3>1. k \in 1..n /\ k - 1 \in 0..n /\ f[k - 1] \in BOOLEAN
      BY <2>2
    <3> QED
      BY <1>0, <1>5, <3>1
  <2> QED
    BY <2>1, <2>2
<1>7. f = [k \in 0..n |-> k > 1 /\ args[k - 1] \in Flags /\ ~f[k - 1]]
  BY <1>6
<1> QED
  BY <1>7 DEF IsValueOf

\* An argument is a flag's value when it follows a flag that is none itself.
LEMMA ValuesOfLine ==
  ASSUME NEW n \in Nat, NEW args, Len(args) = n
  PROVE  \A k \in 0..n : L!IsValue(args)[k] <=> FollowsFlag(args, k)
<1> DEFINE Val == CHOOSE f : IsValueOf(args, n, f)
<1>1. IsValueOf(args, n, Val)
  BY ValuesExist
<1>2. L!IsValue(args) = Val
  BY DEF L!IsValue, IsValueOf, Flags
<1> HIDE DEF Val
<1>3. Val = [k \in 0..n |-> k > 1 /\ args[k - 1] \in Flags /\ ~Val[k - 1]]
  BY <1>1 DEF IsValueOf
<1>4. \A k \in 0..n : Val[k] = (k > 1 /\ args[k - 1] \in Flags /\ ~Val[k - 1])
  BY <1>3
<1> QED
  BY <1>2, <1>4 DEF FollowsFlag

\* What is taken from the places of a line.
Targets3(args) == L!OfKinds(args, {"target"})

\* The arguments Bazel takes for targets, configs and target files.
LEMMA Members ==
  ASSUME NEW n \in Nat, NEW args, Len(args) = n
  PROVE  /\ Targets3(args) \in SUBSET (1..n)
         /\ L!Configs(args) \in SUBSET (1..(n + 1))
         /\ L!Files(args) \in SUBSET (1..(n + 1))
         /\ \A m \in 1..n : m \in Targets3(args) <=> args[m] = "target" /\ ~FollowsFlag(args, m)
         /\ \A m \in 1..(n + 1) :
              /\ m \in L!Configs(args) <=>
                   \/ m <= n /\ args[m] = "--config=" /\ ~FollowsFlag(args, m)
                   \/ FollowsFlag(args, m) /\ args[m - 1] = "--config"
              /\ m \in L!Files(args) <=>
                   \/ m <= n /\ args[m] = "file=" /\ ~FollowsFlag(args, m)
                   \/ FollowsFlag(args, m) /\ args[m - 1] = "file"
<1>1. \A K, m : m \in L!OfKinds(args, K) <=>
                  m \in 1..n /\ args[m] \in K /\ ~L!IsValue(args)[m]
  BY DEF L!OfKinds
<1>2. ASSUME NEW flag \in Flags
      PROVE  /\ L!ValuesOf(args, flag) \in SUBSET (1..(n + 1))
             /\ \A m \in 1..(n + 1) :
                  m \in L!ValuesOf(args, flag) <=> FollowsFlag(args, m) /\ args[m - 1] = flag
  <2>1. \A k : k \in L!OfKinds(args, {flag}) <=>
                 k \in 1..n /\ args[k] = flag /\ ~L!IsValue(args)[k]
    BY <1>1
  <2> DEFINE O == L!OfKinds(args, {flag})
  <2>0. O \in SUBSET (1..n)
    BY <2>1
  <2>9. L!ValuesOf(args, flag) = {k + 1 : k \in O}
    BY DEF L!ValuesOf
  <2> HIDE DEF O
  <2>2. L!ValuesOf(args, flag) \in SUBSET (1..(n + 1))
    BY <2>0, <2>9
  <2>3. ASSUME NEW m \in 1..(n + 1)
        PROVE  m \in L!ValuesOf(args, flag) <=> FollowsFlag(args, m) /\ args[m - 1] = flag
    <3>1. m \in L!ValuesOf(args, flag) <=> \E k \in O : m = k + 1
      BY <2>9
    <3>2. (\E k \in O : m = k + 1) <=> (m - 1) \in O
      <4>1. \A k \in O : k \in Int /\ (m = k + 1 <=> k = m - 1)
        BY <2>0
      <4> QED
        BY <4>1
    <3>3. (m - 1) \in 1..n <=> m > 1
      OBVIOUS
    <3>4. m \in L!ValuesOf(args, flag) <=>
            m > 1 /\ args[m - 1] = flag /\ ~L!IsValue(args)[m - 1]
      BY <2>1, <3>1, <3>2, <3>3 DEF O
    <3> QED
      BY <3>4 DEF FollowsFlag
  <2> QED
    BY <2>2, <2>3
<1>3. \A K, m : m \in L!OfKinds(args, K) <=> m \in 1..n /\ args[m] \in K /\ ~FollowsFlag(args, m)
  BY <1>1, ValuesOfLine
<1>4. \A m \in 1..(n + 1) : m \in 1..n <=> m <= n
  OBVIOUS
<1>5. "--config" \in Flags /\ "file" \in Flags
  BY DEF Flags
<1>6. /\ L!Configs(args) = L!OfKinds(args, {"--config="}) \cup L!ValuesOf(args, "--config")
      /\ L!Files(args) = L!OfKinds(args, {"file="}) \cup L!ValuesOf(args, "file")
  BY DEF L!Configs, L!Files
<1>7. 1..n \subseteq 1..(n + 1)
  OBVIOUS
<1>8. /\ Targets3(args) \in SUBSET (1..n)
      /\ L!Configs(args) \in SUBSET (1..(n + 1)) /\ L!Files(args) \in SUBSET (1..(n + 1))
  BY <1>2, <1>3, <1>5, <1>6, <1>7 DEF Targets3
<1>9. ASSUME NEW m \in 1..(n + 1)
      PROVE  /\ m \in L!Configs(args) <=>
                   \/ m <= n /\ args[m] = "--config=" /\ ~FollowsFlag(args, m)
                   \/ FollowsFlag(args, m) /\ args[m - 1] = "--config"
             /\ m \in L!Files(args) <=>
                   \/ m <= n /\ args[m] = "file=" /\ ~FollowsFlag(args, m)
                   \/ FollowsFlag(args, m) /\ args[m - 1] = "file"
  <2>1. /\ m \in L!OfKinds(args, {"--config="}) <=>
             m <= n /\ args[m] = "--config=" /\ ~FollowsFlag(args, m)
        /\ m \in L!OfKinds(args, {"file="}) <=>
             m <= n /\ args[m] = "file=" /\ ~FollowsFlag(args, m)
    BY <1>3, <1>4
  <2>2. /\ m \in L!ValuesOf(args, "--config") <=> FollowsFlag(args, m) /\ args[m - 1] = "--config"
        /\ m \in L!ValuesOf(args, "file") <=> FollowsFlag(args, m) /\ args[m - 1] = "file"
    BY <1>2, <1>5
  <2> QED
    BY <1>6, <2>1, <2>2
<1>10. \A m \in 1..n : m \in Targets3(args) <=> args[m] = "target" /\ ~FollowsFlag(args, m)
  BY <1>3 DEF Targets3
<1> QED
  BY <1>8, <1>9, <1>10

PlacesBefore(S, i) == {m \in S : m < i}
GrowsAt(S, i) ==
  /\ i \notin S => PlacesBefore(S, i + 1) = PlacesBefore(S, i)
  /\ i \in S => Sorted(PlacesBefore(S, i + 1)) = Append(Sorted(PlacesBefore(S, i)), i)

\* The members before the next argument.
LEMMA BeforeGrows ==
  ASSUME NEW n \in Nat, NEW S \in SUBSET (1..n), NEW i \in Nat \ {0}
  PROVE  /\ PlacesBefore(S, i) \in SUBSET (1..n)
         /\ GrowsAt(S, i)
         /\ i > n => PlacesBefore(S, i) = S
<1>1. \A m \in S : m \in Int /\ (m < i + 1 <=> m < i \/ m = i)
  OBVIOUS
<1>2. PlacesBefore(S, i) \in SUBSET (1..n) /\ \A m \in PlacesBefore(S, i) : m < i
  BY DEF PlacesBefore
<1>3. i \notin S => PlacesBefore(S, i + 1) = PlacesBefore(S, i)
  BY <1>1 DEF PlacesBefore
<1>4. ASSUME i \in S
      PROVE  Sorted(PlacesBefore(S, i + 1)) = Append(Sorted(PlacesBefore(S, i)), i)
  <2>1. PlacesBefore(S, i + 1) = PlacesBefore(S, i) \cup {i}
    BY <1>1, <1>4 DEF PlacesBefore
  <2>2. i \in 1..n
    BY <1>4
  <2> QED
    BY <1>2, <2>1, <2>2, SortedGrows
<1>5. i > n => PlacesBefore(S, i) = S
  <2>1. i > n => \A m \in S : m < i
    OBVIOUS
  <2> QED
    BY <2>1 DEF PlacesBefore
<1> QED
  BY <1>2, <1>3, <1>4, <1>5 DEF GrowsAt

ArgStates ==
  [i: Nat \ {0}, targets: Seq(Nat), configs: Seq(Nat), pc: {"parsing", "returned", "refused"}]

\* The branches of the loop of parse_bazel_build_args.
LEMMA TurnCases ==
  ASSUME NEW n \in Nat, NEW args, Len(args) = n, NEW s \in ArgStates
  PROVE  LET next == L!Turn(args, s)
             i == s.i
         IN /\ next \in ArgStates
            /\ s.pc # "parsing" => next = s
            /\ s.pc = "parsing" /\ i > n =>
                 next = [i |-> i, targets |-> s.targets, configs |-> s.configs, pc |-> "returned"]
            /\ s.pc = "parsing" /\ i <= n =>
                 /\ args[i] = "file=" =>
                      next = [i |-> i, targets |-> <<i>>, configs |-> s.configs, pc |-> "returned"]
                 /\ args[i] = "file" =>
                      next = IF i < n THEN [i |-> i, targets |-> <<i + 1>>, configs |-> s.configs,
                                            pc |-> "returned"]
                             ELSE [i |-> i, targets |-> s.targets, configs |-> s.configs,
                                   pc |-> "refused"]
                 /\ args[i] = "--config" =>
                      next = IF i = n THEN [i |-> i, targets |-> s.targets,
                                            configs |-> s.configs, pc |-> "refused"]
                             ELSE [i |-> i + 2, targets |-> s.targets,
                                   configs |-> Append(s.configs, i + 1), pc |-> "parsing"]
                 /\ args[i] = "--config=" =>
                      next = [i |-> i + 1, targets |-> s.targets,
                              configs |-> Append(s.configs, i), pc |-> "parsing"]
                 /\ args[i] = "target" =>
                      next = [i |-> i + 1, targets |-> Append(s.targets, i),
                              configs |-> s.configs, pc |-> "parsing"]
                 /\ args[i] \notin {"file=", "file", "--config", "--config=", "target"} =>
                      next = [i |-> i + 1, targets |-> s.targets, configs |-> s.configs,
                              pc |-> "parsing"]
<1> DEFINE next == L!Turn(args, s)
           i == s.i
<1>1. /\ i \in Nat \ {0} /\ s.targets \in Seq(Nat) /\ s.configs \in Seq(Nat)
      /\ s.pc \in {"parsing", "returned", "refused"}
      /\ s = [i |-> i, targets |-> s.targets, configs |-> s.configs, pc |-> s.pc]
  BY DEF ArgStates
<1>2. s.pc # "parsing" => next = s
  BY DEF L!Turn
<1>3. CASE s.pc = "parsing" /\ i > n
  <2>1. next = [i |-> i, targets |-> s.targets, configs |-> s.configs, pc |-> "returned"]
    BY <1>1, <1>3 DEF L!Turn
  <2>2. next \in ArgStates
    BY <1>1, <2>1 DEF ArgStates
  <2>3. ~(i <= n)
    BY <1>1, <1>3
  <2> QED
    BY <1>3, <2>1, <2>2, <2>3
<1>4. CASE s.pc = "parsing" /\ i <= n
  <2>0. ~(i > n) /\ (i < n <=> i # n)
    BY <1>1, <1>4
  <2>1. args[i] = "file=" =>
          next = [i |-> i, targets |-> <<i>>, configs |-> s.configs, pc |-> "returned"]
    BY <1>1, <1>4, <2>0 DEF L!Turn, L!TakeFile
  <2>2. args[i] = "file" =>
          next = IF i < n THEN [i |-> i, targets |-> <<i + 1>>, configs |-> s.configs,
                                pc |-> "returned"]
                 ELSE [i |-> i, targets |-> s.targets, configs |-> s.configs, pc |-> "refused"]
    <3>1. args[i] = "file" => next = L!TakeFile(args, s)
      BY <1>4, <2>0 DEF L!Turn
    <3>2. args[i] # "file=" => L!TakeFile(args, s) =
            IF i < n THEN [s EXCEPT !.targets = <<i + 1>>, !.pc = "returned"]
            ELSE [s EXCEPT !.pc = "refused"]
      BY DEF L!TakeFile
    <3>3. [s EXCEPT !.targets = <<i + 1>>, !.pc = "returned"] =
            [i |-> i, targets |-> <<i + 1>>, configs |-> s.configs, pc |-> "returned"]
      <4> DEFINE t == <<i + 1>>
      <4> SUFFICES [s EXCEPT !.targets = t, !.pc = "returned"] =
                     [i |-> i, targets |-> t, configs |-> s.configs, pc |-> "returned"]
        OBVIOUS
      <4> HIDE DEF t
      <4>1. [s EXCEPT !.targets = t] =
              [i |-> i, targets |-> t, configs |-> s.configs, pc |-> s.pc]
        BY <1>1
      <4>2. \A r : r = [i |-> i, targets |-> t, configs |-> s.configs, pc |-> s.pc] =>
              [r EXCEPT !.pc = "returned"] =
                [i |-> i, targets |-> t, configs |-> s.configs, pc |-> "returned"]
        OBVIOUS
      <4>3. [s EXCEPT !.targets = t, !.pc = "returned"] =
              [[s EXCEPT !.targets = t] EXCEPT !.pc = "returned"]
        OBVIOUS
      <4> QED
        BY <4>1, <4>2, <4>3
    <3>4. [s EXCEPT !.pc = "refused"] =
            [i |-> i, targets |-> s.targets, configs |-> s.configs, pc |-> "refused"]
      BY <1>1
    <3> QED
      BY <3>1, <3>2, <3>3, <3>4
  <2>3. args[i] = "--config" =>
          next = IF i = n THEN [i |-> i, targets |-> s.targets, configs |-> s.configs,
                                pc |-> "refused"]
                 ELSE [i |-> i + 2, targets |-> s.targets, configs |-> Append(s.configs, i + 1),
                       pc |-> "parsing"]
    <3>1. args[i] = "--config" => next = L!TakeConfig(args, s)
      BY <1>4, <2>0 DEF L!Turn
    <3>2. L!TakeConfig(args, s) =
            IF i = n THEN [s EXCEPT !.pc = "refused"]
            ELSE [s EXCEPT !.configs = Append(@, i + 1), !.i = @ + 2]
      BY DEF L!TakeConfig
    <3>3. [s EXCEPT !.configs = Append(@, i + 1), !.i = @ + 2] =
            [i |-> i + 2, targets |-> s.targets, configs |-> Append(s.configs, i + 1),
             pc |-> s.pc]
      <4> DEFINE c == Append(s.configs, i + 1)
                 j == i + 2
      <4> SUFFICES [s EXCEPT !.configs = c, !.i = j] =
                     [i |-> j, targets |-> s.targets, configs |-> c, pc |-> s.pc]
        OBVIOUS
      <4> HIDE DEF c, j
      <4>1. [s EXCEPT !.configs = c] =
              [i |-> i, targets |-> s.targets, configs |-> c, pc |-> s.pc]
        BY <1>1
      <4>2. \A r : r = [i |-> i, targets |-> s.targets, configs |-> c, pc |-> s.pc] =>
              [r EXCEPT !.i = j] = [i |-> j, targets |-> s.targets, configs |-> c, pc |-> s.pc]
        OBVIOUS
      <4>3. [s EXCEPT !.configs = c, !.i = j] = [[s EXCEPT !.configs = c] EXCEPT !.i = j]
        OBVIOUS
      <4> QED
        BY <4>1, <4>2, <4>3
    <3>4. [s EXCEPT !.pc = "refused"] =
            [i |-> i, targets |-> s.targets, configs |-> s.configs, pc |-> "refused"]
      BY <1>1
    <3> QED
      BY <1>4, <3>1, <3>2, <3>3, <3>4
  <2>4. args[i] = "--config=" =>
          next = [i |-> i + 1, targets |-> s.targets, configs |-> Append(s.configs, i),
                  pc |-> "parsing"]
    BY <1>1, <1>4, <2>0 DEF L!Turn
  <2>5. args[i] = "target" =>
          next = [i |-> i + 1, targets |-> Append(s.targets, i), configs |-> s.configs,
                  pc |-> "parsing"]
    BY <1>1, <1>4, <2>0 DEF L!Turn
  <2>6. args[i] \notin {"file=", "file", "--config", "--config=", "target"} =>
          next = [i |-> i + 1, targets |-> s.targets, configs |-> s.configs, pc |-> "parsing"]
    BY <1>1, <1>4, <2>0 DEF L!Turn
  <2> HIDE DEF next
  <2>7. next \in ArgStates
    <3> DEFINE j == s.i
               c == s.configs
               t == s.targets
    <3>1. /\ j + 1 \in Nat \ {0} /\ j + 2 \in Nat \ {0} /\ <<j>> \in Seq(Nat)
          /\ <<j + 1>> \in Seq(Nat) /\ Append(c, j + 1) \in Seq(Nat)
          /\ Append(c, j) \in Seq(Nat) /\ Append(t, j) \in Seq(Nat)
      BY <1>1
    <3> DEFINE Is(a, b, d, p) == next = [i |-> a, targets |-> b, configs |-> d, pc |-> p]
    <3>2. \/ Is(i, <<i>>, s.configs, "returned")
          \/ Is(i, <<i + 1>>, s.configs, "returned")
          \/ Is(i, s.targets, s.configs, "refused")
          \/ Is(i + 2, s.targets, Append(s.configs, i + 1), "parsing")
          \/ Is(i + 1, s.targets, Append(s.configs, i), "parsing")
          \/ Is(i + 1, Append(s.targets, i), s.configs, "parsing")
          \/ Is(i + 1, s.targets, s.configs, "parsing")
      BY <2>1, <2>2, <2>3, <2>4, <2>5, <2>6
    <3>3. \A a \in Nat \ {0}, b \in Seq(Nat), d \in Seq(Nat),
             p \in {"parsing", "returned", "refused"} :
            Is(a, b, d, p) => next \in ArgStates
      BY DEF ArgStates
    <3> HIDE DEF Is
    <3> QED
      BY <1>1, <3>1, <3>2, <3>3
  <2> QED
    BY <1>4, <2>0, <2>1, <2>2, <2>3, <2>4, <2>5, <2>6, <2>7 DEF next
<1>5. CASE s.pc # "parsing"
  BY <1>2, <1>5
<1>6. i > n \/ i <= n
  BY <1>1
<1> QED
  BY <1>3, <1>4, <1>5, <1>6

\* An argument follows a flag unless the flag is a value.
LEMMA NextFollows ==
  ASSUME NEW n \in Nat, NEW args, Len(args) = n
  PROVE  \A m \in 1..n : FollowsFlag(args, m + 1) <=> args[m] \in Flags /\ ~FollowsFlag(args, m)
<1> SUFFICES ASSUME NEW m \in 1..n
             PROVE  FollowsFlag(args, m + 1) <=> args[m] \in Flags /\ ~FollowsFlag(args, m)
  OBVIOUS
<1>1. L!IsValue(args)[m] <=> FollowsFlag(args, m)
  BY ValuesOfLine
<1>2. (m + 1) - 1 = m /\ m + 1 > 1
  OBVIOUS
<1> QED
  BY <1>1, <1>2 DEF FollowsFlag

\* Min of some numbers, none of which is below x.
LEMMA LeastOf ==
  ASSUME NEW n \in Nat, NEW S \in SUBSET (1..n), NEW x \in S, \A y \in S : x <= y
  PROVE  Min(S) = x
<1>1. \A y \in S : y \in Int
  OBVIOUS
<1>2. \A z \in S : (\A y \in S : z <= y) => z = x
  BY <1>1
<1> QED
  BY <1>2 DEF Min

\* The loop's invariant.
ArgInv(args, n, k, s) ==
  /\ s.pc = "parsing" =>
       /\ k < s.i /\ s.i <= n + 1 /\ ~FollowsFlag(args, s.i)
       /\ s.targets = Sorted(PlacesBefore(Targets3(args), s.i))
       /\ s.configs = Sorted(PlacesBefore(L!Configs(args), s.i))
       /\ PlacesBefore(L!Files(args), s.i) = {}
  /\ s.pc = "returned" =>
       /\ s.targets = IF L!Files(args) = {} THEN Sorted(Targets3(args)) ELSE <<Min(L!Files(args))>>
       /\ L!Files(args) = {} => s.configs = Sorted(L!Configs(args))

\* A turn of the loop of parse_bazel_build_args keeps its invariant.
LEMMA ArgInvIsKept ==
  ASSUME NEW n \in Nat, NEW args, Len(args) = n, NEW k \in Nat, NEW s \in ArgStates,
         ArgInv(args, n, k, s)
  PROVE  ArgInv(args, n, k + 1, L!Turn(args, s))
<1> DEFINE next == L!Turn(args, s)
           i == s.i
           T == Targets3(args)
           C == L!Configs(args)
           Fi == L!Files(args)
<1>0. /\ i \in Nat \ {0} /\ s.targets \in Seq(Nat) /\ s.configs \in Seq(Nat)
      /\ s.pc \in {"parsing", "returned", "refused"} /\ n + 1 \in Nat
  BY DEF ArgStates
<1>1. /\ T \in SUBSET (1..n) /\ C \in SUBSET (1..(n + 1)) /\ Fi \in SUBSET (1..(n + 1))
      /\ \A m \in 1..n : m \in T <=> args[m] = "target" /\ ~FollowsFlag(args, m)
      /\ \A m \in 1..(n + 1) :
           /\ m \in C <=> \/ m <= n /\ args[m] = "--config=" /\ ~FollowsFlag(args, m)
                          \/ FollowsFlag(args, m) /\ args[m - 1] = "--config"
           /\ m \in Fi <=> \/ m <= n /\ args[m] = "file=" /\ ~FollowsFlag(args, m)
                           \/ FollowsFlag(args, m) /\ args[m - 1] = "file"
  BY Members
<1>9. ASSUME NEW j \in Nat \ {0}
      PROVE  /\ j \notin T => PlacesBefore(T, j + 1) = PlacesBefore(T, j)
             /\ j \in T => Sorted(PlacesBefore(T, j + 1)) = Append(Sorted(PlacesBefore(T, j)), j)
             /\ j \notin C => PlacesBefore(C, j + 1) = PlacesBefore(C, j)
             /\ j \in C => Sorted(PlacesBefore(C, j + 1)) = Append(Sorted(PlacesBefore(C, j)), j)
             /\ j \notin Fi => PlacesBefore(Fi, j + 1) = PlacesBefore(Fi, j)
  <2> DEFINE m == n + 1
  <2>0. T \in SUBSET (1..n)
    BY <1>1
  <2>1. m \in Nat /\ C \in SUBSET (1..m) /\ Fi \in SUBSET (1..m)
    BY <1>1
  <2> HIDE DEF m, T, C, Fi
  <2>2. GrowsAt(T, j)
    BY <2>0, BeforeGrows
  <2>3. GrowsAt(C, j)
    BY <2>1, BeforeGrows
  <2>4. GrowsAt(Fi, j)
    BY <2>1, BeforeGrows
  <2> QED
    BY <2>2, <2>3, <2>4 DEF GrowsAt
<1>2. s.pc # "parsing" => next = s
  BY TurnCases
<1> HIDE DEF T, C, Fi
<1>3. CASE s.pc # "parsing"
  BY <1>2, <1>3 DEF ArgInv
<1>4. CASE s.pc = "parsing"
  <2>1. /\ k < i /\ i <= n + 1 /\ ~FollowsFlag(args, i)
        /\ s.targets = Sorted(PlacesBefore(T, i))
        /\ s.configs = Sorted(PlacesBefore(C, i))
        /\ PlacesBefore(Fi, i) = {}
    BY <1>4 DEF ArgInv, T, C, Fi
  <2>2. i \in 1..(n + 1) /\ (i > n => i = n + 1 /\ ~(i <= n)) /\ (i <= n => i \in 1..n)
    BY <1>0, <2>1
  <2>3. \A m \in Fi : m >= i
    BY <1>1, <2>1, <2>2 DEF PlacesBefore
  <2>4. CASE i > n
    <3>1. next = [i |-> i, targets |-> s.targets, configs |-> s.configs, pc |-> "returned"]
      BY <1>4, <2>4, TurnCases
    <3>2. i \notin C /\ i \notin Fi
      BY <1>1, <2>1, <2>2, <2>4
    <3>3. C \in SUBSET (1..n) /\ Fi \in SUBSET (1..n)
      <4>1. \A m \in 1..(n + 1) : m # n + 1 => m \in 1..n
        OBVIOUS
      <4> QED
        BY <1>1, <2>2, <2>4, <3>2, <4>1
    <3>4. PlacesBefore(T, i) = T /\ PlacesBefore(C, i) = C /\ PlacesBefore(Fi, i) = Fi
      BY <1>0, <1>1, <2>4, <3>3, BeforeGrows
    <3> HIDE DEF next
    <3>5. /\ next.pc = "returned" /\ next.targets = Sorted(T) /\ next.configs = Sorted(C)
          /\ Fi = {}
      BY <2>1, <3>1, <3>4
    <3> QED
      BY <3>5 DEF ArgInv, T, C, Fi, next
  <2>5. CASE i <= n
    <3>1. i \in 1..n /\ i + 1 \in 1..(n + 1) /\ (i + 1) - 1 = i /\ i + 1 \in Nat \ {0}
      BY <2>2, <2>5
    <3>2. /\ i \in T <=> args[i] = "target"
          /\ i \in C <=> args[i] = "--config="
          /\ i \in Fi <=> args[i] = "file="
      BY <1>1, <2>1, <2>2, <2>5
    <3>3. FollowsFlag(args, i + 1) <=> args[i] \in Flags
      BY <2>1, <3>1, NextFollows
    <3>4. args[i] \in Flags =>
            /\ i + 1 \notin T
            /\ i + 1 \in C <=> args[i] = "--config"
            /\ i + 1 \in Fi <=> args[i] = "file"
      <4>1. \A m \in T : ~FollowsFlag(args, m)
        BY <1>1
      <4> QED
        BY <1>1, <3>1, <3>3, <4>1
    <3>5. /\ i \notin T => PlacesBefore(T, i + 1) = PlacesBefore(T, i)
          /\ i \in T => Sorted(PlacesBefore(T, i + 1)) = Append(Sorted(PlacesBefore(T, i)), i)
          /\ i \notin C => PlacesBefore(C, i + 1) = PlacesBefore(C, i)
          /\ i \in C => Sorted(PlacesBefore(C, i + 1)) = Append(Sorted(PlacesBefore(C, i)), i)
          /\ i \notin Fi => PlacesBefore(Fi, i + 1) = PlacesBefore(Fi, i)
      BY <1>0, <1>9
    <3>6. CASE args[i] = "file="
      <4>1. next = [i |-> i, targets |-> <<i>>, configs |-> s.configs, pc |-> "returned"]
        BY <1>4, <2>5, <3>6, TurnCases
      <4>2. Fi # {} /\ Min(Fi) = i
        <5>1. i \in Fi /\ \A y \in Fi : i <= y
          BY <1>0, <1>1, <2>3, <3>2, <3>6
        <5> QED
          BY <1>0, <1>1, <5>1, LeastOf
      <4> HIDE DEF next
      <4>3. next.pc = "returned" /\ next.targets = <<Min(Fi)>>
        BY <4>1, <4>2
      <4> QED
        BY <4>2, <4>3 DEF ArgInv, Fi, next
    <3>7. CASE args[i] = "file"
      <4>1. next = IF i < n THEN [i |-> i, targets |-> <<i + 1>>, configs |-> s.configs,
                                  pc |-> "returned"]
                   ELSE [i |-> i, targets |-> s.targets, configs |-> s.configs, pc |-> "refused"]
        BY <1>4, <2>5, <3>7, TurnCases
      <4>2. Fi # {} /\ Min(Fi) = i + 1
        <5>1. i + 1 \in Fi /\ i \notin Fi
          BY <3>2, <3>4, <3>7 DEF Flags
        <5>2. \A y \in Fi : i + 1 <= y
          <6>1. \A y \in Fi : y \in Int /\ y >= i /\ y # i
            BY <1>1, <2>3, <5>1
          <6> QED
            BY <1>0, <6>1
        <5> QED
          BY <1>0, <1>1, <5>1, <5>2, LeastOf
      <4> HIDE DEF next
      <4>3. next.pc # "parsing" /\ (next.pc = "returned" => next.targets = <<Min(Fi)>>)
        BY <4>1, <4>2
      <4> QED
        BY <4>2, <4>3 DEF ArgInv, Fi, next
    <3>8. CASE args[i] = "--config"
      <4>1. next = IF i = n THEN [i |-> i, targets |-> s.targets, configs |-> s.configs,
                                  pc |-> "refused"]
                   ELSE [i |-> i + 2, targets |-> s.targets, configs |-> Append(s.configs, i + 1),
                         pc |-> "parsing"]
        BY <1>4, <2>5, <3>8, TurnCases
      <4> HIDE DEF next
      <4>2. CASE i = n
        <5>1. next.pc = "refused"
          BY <4>1, <4>2
        <5> QED
          BY <5>1 DEF ArgInv, next
      <4>3. CASE i # n
        <5>1. /\ next.pc = "parsing" /\ next.i = (i + 1) + 1 /\ next.targets = s.targets
              /\ next.configs = Append(s.configs, i + 1)
          BY <1>0, <4>1, <4>3
        <5>2. /\ i \notin T /\ i + 1 \notin T /\ i \notin C /\ i + 1 \in C
              /\ i \notin Fi /\ i + 1 \notin Fi /\ FollowsFlag(args, i + 1)
          BY <3>2, <3>3, <3>4, <3>8 DEF Flags
        <5>3. /\ PlacesBefore(T, (i + 1) + 1) = PlacesBefore(T, i + 1)
              /\ Sorted(PlacesBefore(C, (i + 1) + 1))
                   = Append(Sorted(PlacesBefore(C, i + 1)), i + 1)
              /\ PlacesBefore(Fi, (i + 1) + 1) = PlacesBefore(Fi, i + 1)
          <6> DEFINE j == i + 1
          <6>1. j \in Nat \ {0} /\ j \notin T /\ j \in C /\ j \notin Fi
            BY <3>1, <5>2
          <6> HIDE DEF j
          <6>2. /\ PlacesBefore(T, j + 1) = PlacesBefore(T, j)
                /\ Sorted(PlacesBefore(C, j + 1)) = Append(Sorted(PlacesBefore(C, j)), j)
                /\ PlacesBefore(Fi, j + 1) = PlacesBefore(Fi, j)
            BY <1>9, <6>1
          <6> QED
            BY <6>2 DEF j
        <5>4. i + 1 \in 1..n /\ k + 1 < (i + 1) + 1 /\ (i + 1) + 1 <= n + 1
          BY <2>1, <3>1, <4>3
        <5>5. ~FollowsFlag(args, (i + 1) + 1)
          BY <5>2, <5>4, NextFollows
        <5>6. /\ k + 1 < next.i /\ next.i <= n + 1 /\ ~FollowsFlag(args, next.i)
              /\ next.targets = Sorted(PlacesBefore(T, next.i))
              /\ next.configs = Sorted(PlacesBefore(C, next.i))
              /\ PlacesBefore(Fi, next.i) = {}
          BY <2>1, <3>5, <5>1, <5>2, <5>3, <5>4, <5>5
        <5> QED
          BY <5>1, <5>6 DEF ArgInv, T, C, Fi, next
      <4> QED
        BY <4>2, <4>3
    <3>9. CASE args[i] \notin {"file=", "file", "--config"}
      <4> DEFINE c == IF args[i] = "--config=" THEN Append(s.configs, i) ELSE s.configs
                 t == IF args[i] = "target" THEN Append(s.targets, i) ELSE s.targets
      <4>1. next = [i |-> i + 1, targets |-> t, configs |-> c, pc |-> "parsing"]
        <5>1. CASE args[i] = "--config="
          BY <1>4, <2>5, <5>1, TurnCases
        <5>2. CASE args[i] = "target"
          BY <1>4, <2>5, <5>2, TurnCases
        <5>3. CASE args[i] \notin {"--config=", "target"}
          BY <1>4, <2>5, <3>9, <5>3, TurnCases
        <5> QED
          BY <5>1, <5>2, <5>3
      <4> HIDE DEF next
      <4>2. ~FollowsFlag(args, i + 1) /\ k + 1 < i + 1 /\ i + 1 <= n + 1
        BY <1>0, <2>1, <2>5, <3>3, <3>9 DEF Flags
      <4>3. t = Sorted(PlacesBefore(T, i + 1)) /\ c = Sorted(PlacesBefore(C, i + 1))
        BY <2>1, <3>2, <3>5
      <4>4. PlacesBefore(Fi, i + 1) = {}
        BY <2>1, <3>2, <3>5, <3>9
      <4> HIDE DEF c, t
      <4>5. next.pc = "parsing" /\ next.i = i + 1 /\ next.targets = t /\ next.configs = c
        BY <4>1
      <4> QED
        BY <4>2, <4>3, <4>4, <4>5 DEF ArgInv, T, C, Fi, next
    <3> QED
      BY <3>6, <3>7, <3>8, <3>9
  <2>6. i > n \/ i <= n
    BY <1>0
  <2> QED
    BY <2>4, <2>5, <2>6
<1> QED
  BY <1>3, <1>4
NoArgs == [i |-> 1, targets |-> <<>>, configs |-> <<>>, pc |-> "parsing"]

\* The states of the loop over the arguments.
HasArgTurns(n, args) ==
  \E f \in [0..(n + 1) -> ArgStates] :
    /\ f[0] = NoArgs
    /\ \A k \in 1..(n + 1) : f[k] = L!Turn(args, f[k - 1])
    /\ L!parse_bazel_build_args(args) = f[n + 1]

\* parse_bazel_build_args takes at most one turn per argument and one more.
LEMMA ArgLoop ==
  ASSUME NEW n \in Nat, NEW args, Len(args) = n
  PROVE  HasArgTurns(n, args)
<1> DEFINE N == n + 1
           Step == [x \in (1..N) \X ArgStates |-> L!Turn(args, x[2])]
           seq == [i \in 1..N |-> i]
           Body(h) == [s \in SUBSET (1..N) |->
                         IF s = {} THEN NoArgs ELSE L!Turn(args, h[s \ {L!Max(s)}])]
           iter == CHOOSE h : h = Body(h)
<1>1. NoArgs \in ArgStates /\ N \in Nat
  BY DEF NoArgs, ArgStates
<1> HIDE DEF N
<1>2. Step \in [(1..N) \X ArgStates -> ArgStates]
  <2> SUFFICES ASSUME NEW x \in (1..N) \X ArgStates PROVE L!Turn(args, x[2]) \in ArgStates
    OBVIOUS
  <2>1. x[2] \in ArgStates
    OBVIOUS
  <2> QED
    BY <2>1, TurnCases
<1>3. PICK g \in [SUBSET (1..N) -> ArgStates] : FoldOver(N, NoArgs, Step, g)
  BY <1>1, <1>2, FoldExists DEF HasFold
<1>4. ASSUME NEW s
      PROVE  L!Max(s) = Max(s)
  BY DEF L!Max, Max
<1>5. ASSUME NEW s \in SUBSET (1..N), s # {}
      PROVE  Max(s) \in 1..N
  BY <1>1, <1>5, LargestOfRange
<1>6. g = Body(g)
  <2> SUFFICES ASSUME NEW s \in SUBSET (1..N), s # {}
               PROVE  g[s] = L!Turn(args, g[s \ {L!Max(s)}])
    BY <1>3 DEF FoldOver
  <2>1. Max(s) \in 1..N /\ L!Max(s) = Max(s)
    BY <1>4, <1>5
  <2>2. g[s \ {Max(s)}] \in ArgStates
    OBVIOUS
  <2>3. g[s] = Step[<<Max(s), g[s \ {Max(s)}]>>]
    BY <1>3 DEF FoldOver
  <2> QED
    BY <2>1, <2>2, <2>3
<1>7. iter = Body(iter)
  BY <1>6
<1>8. L!parse_bazel_build_args(args) = iter[1..N]
  <2>1. DOMAIN seq = 1..N
    OBVIOUS
  <2>2. L!FoldLeft(LAMBDA s, i : L!Turn(args, s), NoArgs, seq) = iter[1..N]
    BY <2>1 DEF L!FoldLeft, L!MapThenFoldSet
  <2> HIDE DEF iter
  <2> QED
    BY <2>2 DEF L!parse_bazel_build_args, NoArgs, N
<1> HIDE DEF iter
<1>9. IsFold(N, ArgStates, NoArgs, Step, iter)
  <2>1. iter[{}] = NoArgs
    BY <1>7
  <2>2. ASSUME NEW s \in SUBSET (1..N), s # {}, iter[s \ {Max(s)}] \in ArgStates
        PROVE  iter[s] = Step[<<Max(s), iter[s \ {Max(s)}]>>]
    <3>1. Max(s) \in 1..N /\ L!Max(s) = Max(s)
      BY <1>4, <1>5, <2>2
    <3>2. iter[s] = L!Turn(args, iter[s \ {L!Max(s)}])
      BY <1>7, <2>2
    <3> QED
      BY <2>2, <3>1, <3>2
  <2> QED
    BY <2>1, <2>2 DEF IsFold
<1> HIDE DEF Step
<1>10. HasTurns(N, ArgStates, NoArgs, Step, iter[1..N])
  BY <1>1, <1>2, <1>9, FoldTurns
<1>11. PICK f \in [0..N -> ArgStates] :
         /\ f[0] = NoArgs /\ f[N] = iter[1..N]
         /\ \A k \in 1..N : f[k] = Step[<<k, f[k - 1]>>]
  BY <1>10 DEF HasTurns
<1>12. ASSUME NEW k \in 1..N
       PROVE  f[k] = L!Turn(args, f[k - 1])
  <2>1. k - 1 \in 0..N /\ f[k - 1] \in ArgStates
    BY <1>1
  <2> QED
    BY <1>11, <2>1 DEF Step
<1> QED
  BY <1>8, <1>11, <1>12 DEF HasArgTurns, N

\* Command lines of any length.
THEOREM ArgsOfLine ==
  ASSUME NEW n \in Nat, NEW args, Len(args) = n
  PROVE  LET end == L!parse_bazel_build_args(args)
             files == L!Files(args)
         IN /\ end.pc # "parsing"
            /\ end.pc = "returned" =>
                 /\ end.targets = IF files = {} THEN Sorted(L!OfKinds(args, {"target"}))
                                  ELSE <<Min(files)>>
                 /\ files = {} => end.configs = Sorted(L!Configs(args))
<1>1. PICK f \in [0..(n + 1) -> ArgStates] :
        /\ f[0] = NoArgs
        /\ \A k \in 1..(n + 1) : f[k] = L!Turn(args, f[k - 1])
        /\ L!parse_bazel_build_args(args) = f[n + 1]
  <2>1. HasArgTurns(n, args)
    BY ArgLoop
  <2> QED
    BY <2>1 DEF HasArgTurns
<1> DEFINE P == {k \in 0..(n + 1) : ArgInv(args, n, k, f[k])}
<1>2. 0 \in P
  <2>1. ASSUME NEW m \in Nat, NEW S \in SUBSET (1..m)
        PROVE  PlacesBefore(S, 1) = {}
    <3>1. \A x \in S : ~(x < 1)
      OBVIOUS
    <3> QED
      BY <3>1 DEF PlacesBefore
  <2>2. /\ Targets3(args) \in SUBSET (1..n) /\ L!Configs(args) \in SUBSET (1..(n + 1))
        /\ L!Files(args) \in SUBSET (1..(n + 1)) /\ n + 1 \in Nat
    BY Members
  <2>3. /\ PlacesBefore(Targets3(args), 1) = {} /\ PlacesBefore(L!Configs(args), 1) = {}
        /\ PlacesBefore(L!Files(args), 1) = {}
    BY <2>1, <2>2
  <2>4. Sorted({}) = <<>>
    <3>1. {} \in SUBSET (1..0) /\ 0 \in Nat
      OBVIOUS
    <3>2. Sorted({}) \in Seq(1..0) /\ Len(Sorted({})) = Cardinality({})
      BY <3>1, SortedType
    <3>3. Cardinality({}) = 0
      BY FS_EmptySet
    <3> QED
      BY <3>2, <3>3
  <2>5. ~FollowsFlag(args, 1) /\ 0 < 1 /\ 1 <= n + 1
    BY DEF FollowsFlag
  <2>6. ArgInv(args, n, 0, NoArgs)
    BY <2>3, <2>4, <2>5 DEF ArgInv, NoArgs
  <2> QED
    BY <1>1, <2>6
<1>3. ASSUME NEW k \in P, k < n + 1
      PROVE  k + 1 \in P
  <2>1. k \in Nat /\ k + 1 \in 1..(n + 1) /\ k + 1 \in 0..(n + 1) /\ (k + 1) - 1 = k
    BY <1>3
  <2>2. ArgInv(args, n, k, f[k]) /\ f[k] \in ArgStates
    OBVIOUS
  <2>3. ArgInv(args, n, k + 1, L!Turn(args, f[k]))
    BY <2>1, <2>2, ArgInvIsKept
  <2>4. f[k + 1] = L!Turn(args, f[k])
    BY <1>1, <2>1
  <2> QED
    BY <2>1, <2>3, <2>4
<1>4. P \in SUBSET (0..(n + 1)) /\ n + 1 \in Nat /\ \A k \in P : k < n + 1 => k + 1 \in P
  BY <1>3
<1> HIDE DEF P
<1>5. P = 0..(n + 1)
  <2> DEFINE N == n + 1
  <2>1. P \in SUBSET (0..N) /\ N \in Nat /\ \A k \in P : k < N => k + 1 \in P
    BY <1>4
  <2> HIDE DEF N
  <2>2. P = 0..N
    BY <1>2, <2>1, InductionUpTo
  <2> QED
    BY <2>2 DEF N
<1> DEFINE end == L!parse_bazel_build_args(args)
<1>6. ArgInv(args, n, n + 1, end) /\ end \in ArgStates
  <2>1. n + 1 \in 0..(n + 1)
    OBVIOUS
  <2> QED
    BY <1>1, <1>5, <2>1 DEF P
<1> HIDE DEF end
<1>7. end.pc # "parsing"
  <2>1. end.i \in Nat
    BY <1>6 DEF ArgStates
  <2> QED
    BY <1>6, <2>1 DEF ArgInv
<1> QED
  BY <1>6, <1>7 DEF ArgInv, Targets3, end

\* The targets and configs read off a `bazel build' line are those Bazel
\* takes (ArgsAreReadAsBazelDoes), whatever the length of the line.
THEOREM ArgsSpec == SpecPure => []ArgsAreReadAsBazelDoes
<1>1. InputOK => ArgsAreReadAsBazelDoes
  <2> SUFFICES ASSUME InputOK, input.of = "parse_bazel_build_args" PROVE ArgsAreReadAsBazelDoes
    BY DEF ArgsAreReadAsBazelDoes
  <2> DEFINE args == input.arg
  <2>1. args \in BoundedSeq(L!ArgKinds, MaxArgs) /\ MaxArgs \in Nat
    BY BoundsAssumption DEF InputOK
  <2>2. Len(args) \in Nat
    BY <2>1, BoundedSequences
  <2> HIDE DEF args
  <2>3. LET end == L!parse_bazel_build_args(args)
            files == L!Files(args)
        IN /\ end.pc # "parsing"
           /\ end.pc = "returned" =>
                /\ end.targets = IF files = {} THEN Sorted(L!OfKinds(args, {"target"}))
                                 ELSE <<Min(files)>>
                /\ files = {} => end.configs = Sorted(L!Configs(args))
    BY <2>2, ArgsOfLine
  <2> QED
    BY <2>3 DEF ArgsAreReadAsBazelDoes, args
<1> QED
  BY <1>1, InputIsOK, PTL

-----------------------------------------------------------------------------
(* visualize.                                                              *)
WJD == "workflow-job-durations"
Outcomes == {"done", "UsageError", "ClickException", "Traceback"}
VizFiles == [name: V!Names, kind: {"rows", "page"}, attempts: SUBSET (V!Runs \X V!Attempts)]
VizStates == [outcome: Outcomes, files: SUBSET VizFiles]

\* The attempt a page of a run shows.
IsAttempt(shown, params, cache) ==
  \E n \in V!Attempts :
    /\ shown = {<<params.run, n>>}
    /\ params.attempt \in {n, 0}
    /\ cache[params.run, n] = "plotted"
    /\ params.attempt = 0 => \A m \in V!Attempts : m > n => cache[params.run, m] = "nothing"

\* The latest of some attempts.
LEMMA LatestOfTwo ==
  ASSUME NEW S \in SUBSET {1, 2}, S # {}
  PROVE  V!Max(S) \in S /\ \A y \in S : y <= V!Max(S)
<1>1. \E x \in S : \A y \in S : x >= y
  <2>1. S = {1} \/ S = {2} \/ S = {1, 2}
    OBVIOUS
  <2> QED
    BY <2>1
<1>2. V!Max(S) \in S /\ \A y \in S : V!Max(S) >= y
  BY <1>1 DEF V!Max
<1>3. \A x, y \in S : x >= y => y <= x
  BY DEF V!Max
<1> QED
  BY <1>2, <1>3

\* The page of a run shows one attempt of it, the one asked for or the latest.
LEMMA PageOfRun ==
  ASSUME NEW params \in V!Params, NEW cache \in V!Caches, NEW viz \in BOOLEAN,
         V!Refusal(WJD, params, cache) = "none",
         V!Render(WJD, params, cache, viz).outcome = "done"
  PROVE  LET shown == V!Render(WJD, params, cache, viz).shown
         IN IsAttempt(shown, params, cache) /\ shown \subseteq V!Selected(WJD, params, cache)
<1> DEFINE sel == V!Selected(WJD, params, cache)
           latest == V!LatestAttempt(sel)
           shown == V!Render(WJD, params, cache, viz).shown
           A == {y[2] : y \in sel}
<1>1. sel = {x \in V!Runs \X V!Attempts :
               cache[x] # "nothing" /\ x[1] = params.run /\ params.attempt \in {0, x[2]}}
  BY DEF V!Selected, V!Attempted, WJD
<1>2. sel # {}
  BY DEF V!Refusal, WJD
<1>3. /\ shown = latest
      /\ ~ \A x \in latest : cache[x] = "waiting"
  BY DEF V!Render, WJD
<1> HIDE DEF sel
<1>4. A \in SUBSET {1, 2} /\ A # {}
  BY <1>1, <1>2 DEF V!Attempts
<1> DEFINE n == V!Max(A)
<1>5. n \in A /\ \A y \in A : y <= n
  BY <1>4, LatestOfTwo
<1>6. latest = {x \in sel : x[2] = n}
  BY DEF V!LatestAttempt
<1> HIDE DEF n, A, shown
<1>7. PICK x \in latest : cache[x] # "waiting"
  BY <1>3
<1>8. x \in V!Runs \X V!Attempts /\ cache[x] # "nothing" /\ x = <<params.run, n>>
      /\ n \in V!Attempts /\ params.attempt \in {0, n}
  BY <1>1, <1>6, <1>7
<1>9. latest = {<<params.run, n>>}
  BY <1>1, <1>6, <1>7, <1>8
<1>10. cache[params.run, n] = "plotted"
  BY <1>7, <1>8 DEF V!Caches
<1>11. ASSUME params.attempt = 0, NEW m \in V!Attempts, m > n, cache[params.run, m] # "nothing"
       PROVE  FALSE
  <2>1. params.run \in V!Runs
    BY <1>8
  <2>2. <<params.run, m>> \in sel
    BY <1>1, <1>11, <2>1
  <2>3. m \in A
    BY <2>2 DEF A
  <2>4. m <= n
    BY <1>5, <2>3
  <2>5. m \in {1, 2} /\ n \in {1, 2} /\ m > n
    BY <1>8, <1>11 DEF V!Attempts
  <2> QED
    BY <2>4, <2>5
<1>12. latest \subseteq sel
  BY <1>6
<1> QED
  BY <1>3, <1>8, <1>9, <1>10, <1>11, <1>12 DEF IsAttempt, sel, shown

\* The names are drawn one after the other.
Draw(names, params, cache, viz, s, k) ==
  IF s.outcome = "done" THEN V!run(s, names[k], params, cache, viz) ELSE s

HasPage(s, name) == \E f \in s.files : f.name = name /\ f.kind = "page"

VizInv(names, params, cache, k, s) ==
  /\ s.outcome = "done" => \A n \in 1..k : HasPage(s, names[n])
  /\ \A f \in s.files : \E n \in 1..k :
       f.name = names[n] /\ \A m \in 1..(n - 1) : HasPage(s, names[m])
  /\ \A f \in s.files : f.kind = "page" /\ f.name = WJD =>
       /\ IsAttempt(f.attempts, params, cache)
       /\ \E g \in s.files : g.name = f.name /\ g.kind = "rows" /\ f.attempts \subseteq g.attempts

\* What drawing one visualization may end in, show and leave.
LEMMA RenderType ==
  ASSUME NEW params \in V!Params, NEW cache \in V!Caches, NEW viz \in BOOLEAN,
         NEW name \in V!Names
  PROVE  LET rendered == V!Render(name, params, cache, viz)
         IN /\ rendered.outcome \in Outcomes
            /\ rendered.shown \in SUBSET V!Selected(name, params, cache)
            /\ V!Selected(name, params, cache) \in SUBSET (V!Runs \X V!Attempts)
            /\ V!Refusal(name, params, cache) \in {"none", "UsageError", "ClickException"}
<1>1. V!Selected(name, params, cache) \in SUBSET (V!Runs \X V!Attempts)
  BY DEF V!Selected, V!Attempted
<1>2. V!LatestAttempt(V!Selected(name, params, cache))
        \in SUBSET V!Selected(name, params, cache)
  BY DEF V!LatestAttempt
<1>3. V!Refusal(name, params, cache) \in {"none", "UsageError", "ClickException"}
  BY DEF V!Refusal
<1>4. /\ V!Render(name, params, cache, viz).outcome \in Outcomes
      /\ V!Render(name, params, cache, viz).shown \in SUBSET V!Selected(name, params, cache)
  <2> DEFINE sel == V!Selected(name, params, cache)
             latest == V!LatestAttempt(sel)
             all == \A x \in latest : cache[x] = "waiting"
  <2>1. V!Render(name, params, cache, viz) =
          IF name = "job-durations"
          THEN IF viz THEN [outcome |-> "done", shown |-> sel]
               ELSE [outcome |-> "Traceback", shown |-> {}]
          ELSE IF params.gap = "bad" THEN [outcome |-> "ClickException", shown |-> {}]
          ELSE IF params.tz = "bad" THEN [outcome |-> "UsageError", shown |-> {}]
          ELSE IF all THEN [outcome |-> "ClickException", shown |-> {}]
          ELSE [outcome |-> "done", shown |-> latest]
    BY DEF V!Render
  <2>2. latest \in SUBSET sel
    BY <1>2
  <2> HIDE DEF sel, latest, all
  <2>3. /\ V!Render(name, params, cache, viz).outcome \in Outcomes
        /\ V!Render(name, params, cache, viz).shown \in SUBSET sel
    BY <2>1, <2>2 DEF Outcomes
  <2> QED
    BY <2>3 DEF sel
<1> QED
  BY <1>1, <1>3, <1>4

\* One name.
LEMMA DrawCases ==
  ASSUME NEW params \in V!Params, NEW cache \in V!Caches, NEW viz \in BOOLEAN,
         NEW name \in V!Names, NEW s \in VizStates
  PROVE  LET next == V!run(s, name, params, cache, viz)
             refused == V!Refusal(name, params, cache) # "none"
             rendered == V!Render(name, params, cache, viz)
             rows == [name |-> name, kind |-> "rows",
                      attempts |-> V!Selected(name, params, cache)]
             page == [name |-> name, kind |-> "page", attempts |-> rendered.shown]
         IN /\ next \in VizStates
            /\ refused => next.outcome # "done" /\ next.files = s.files
            /\ ~refused =>
                 /\ next.outcome = rendered.outcome
                 /\ next.files = s.files \cup {rows}
                                   \cup (IF rendered.outcome = "done" THEN {page} ELSE {})
<1> DEFINE next == V!run(s, name, params, cache, viz)
           why == V!Refusal(name, params, cache)
           outcome == V!Render(name, params, cache, viz).outcome
           shown == V!Render(name, params, cache, viz).shown
           sel == V!Selected(name, params, cache)
           rows == [name |-> name, kind |-> "rows", attempts |-> sel]
           page == [name |-> name, kind |-> "page", attempts |-> shown]
           new == s.files \cup {rows} \cup (IF outcome = "done" THEN {page} ELSE {})
<1>1. /\ outcome \in Outcomes /\ shown \in SUBSET sel /\ sel \in SUBSET (V!Runs \X V!Attempts)
      /\ why \in {"none", "UsageError", "ClickException"}
  BY RenderType
<1>2. s.outcome \in Outcomes /\ s.files \in SUBSET VizFiles
      /\ s = [outcome |-> s.outcome, files |-> s.files]
  BY DEF VizStates
<1>3. why # "none" => next = [s EXCEPT !.outcome = why]
  BY DEF V!run
<1>4. why = "none" => next = [outcome |-> outcome, files |-> new]
  BY DEF V!run
<1> HIDE DEF why, outcome, shown, sel, next
<1>5. rows \in VizFiles /\ page \in VizFiles
  BY <1>1 DEF VizFiles
<1> HIDE DEF rows, page
<1>6. new \in SUBSET VizFiles
  BY <1>2, <1>5
<1> HIDE DEF new
<1>7. why # "none" => next = [outcome |-> why, files |-> s.files]
  BY <1>2, <1>3
<1>8. CASE why # "none"
  <2>1. next \in VizStates /\ next.outcome # "done" /\ next.files = s.files
    BY <1>1, <1>2, <1>7, <1>8 DEF VizStates, Outcomes
  <2> QED
    BY <1>8, <2>1 DEF why, next
<1>9. CASE why = "none"
  <2>1. next \in VizStates /\ next.outcome = outcome /\ next.files = new
    BY <1>1, <1>4, <1>6, <1>9 DEF VizStates
  <2> QED
    BY <1>9, <2>1 DEF why, outcome, shown, sel, rows, page, new, next
<1> QED
  BY <1>8, <1>9

\* Drawing the next name keeps what is true of those before it.
LEMMA VizInvIsKept ==
  ASSUME NEW params \in V!Params, NEW cache \in V!Caches, NEW viz \in BOOLEAN,
         NEW n \in Nat, NEW names \in [1..n -> V!Names],
         NEW k \in Nat, k < n, NEW s \in VizStates, VizInv(names, params, cache, k, s)
  PROVE  LET next == Draw(names, params, cache, viz, s, k + 1)
         IN next \in VizStates /\ VizInv(names, params, cache, k + 1, next)
<1> DEFINE next == Draw(names, params, cache, viz, s, k + 1)
           name == names[k + 1]
           page == [name |-> name, kind |-> "page",
                    attempts |-> V!Render(name, params, cache, viz).shown]
           rows == [name |-> name, kind |-> "rows",
                    attempts |-> V!Selected(name, params, cache)]
           outcome == V!Render(name, params, cache, viz).outcome
           refused == V!Refusal(name, params, cache) # "none"
           new == {rows} \cup (IF outcome = "done" THEN {page} ELSE {})
           HasRows(t, f) == \E g \in t.files : /\ g.name = f.name /\ g.kind = "rows"
                                            /\ f.attempts \subseteq g.attempts
\* What holds before.
<1>1. k + 1 \in 1..n /\ name \in V!Names /\ \A m \in 1..(k + 1) : m \in 1..k \/ m = k + 1
  OBVIOUS
<1>2. \A m \in 1..k : m \in 1..(k + 1)
  OBVIOUS
<1>3. /\ s.outcome = "done" => \A m \in 1..k : HasPage(s, names[m])
      /\ \A f \in s.files : \E m \in 1..k :
           f.name = names[m] /\ \A j \in 1..(m - 1) : HasPage(s, names[j])
      /\ \A f \in s.files : f.kind = "page" /\ f.name = WJD =>
           IsAttempt(f.attempts, params, cache) /\ HasRows(s, f)
  BY DEF VizInv
<1>4. ASSUME NEW t, s.files \subseteq t.files, NEW x
      PROVE  HasPage(s, x) => HasPage(t, x)
  BY <1>4 DEF HasPage
<1>5. ASSUME NEW t, s.files \subseteq t.files, NEW f, HasRows(s, f)
      PROVE  HasRows(t, f)
  BY <1>5
\* A state in which no file is new.
<1>6. ASSUME NEW t, t.files = s.files, t.outcome # "done"
      PROVE  VizInv(names, params, cache, k + 1, t)
  <2>1. \A f \in t.files : \E m \in 1..(k + 1) :
          f.name = names[m] /\ \A j \in 1..(m - 1) : HasPage(t, names[j])
    BY <1>2, <1>3, <1>4, <1>6
  <2>2. \A f \in t.files : f.kind = "page" /\ f.name = WJD =>
          IsAttempt(f.attempts, params, cache) /\ HasRows(t, f)
    BY <1>3, <1>5, <1>6
  <2> QED
    BY <1>6, <2>1, <2>2 DEF VizInv
<1>7. CASE s.outcome # "done"
  <2>1. next = s
    BY <1>7 DEF Draw
  <2> QED
    BY <1>6, <1>7, <2>1
<1>8. CASE s.outcome = "done"
  <2>0. next = V!run(s, name, params, cache, viz)
    BY <1>8 DEF Draw
  <2>1. /\ next \in VizStates
        /\ refused => next.outcome # "done" /\ next.files = s.files
        /\ ~refused => /\ next.outcome = outcome
                       /\ next.files = s.files \cup {rows}
                                          \cup (IF outcome = "done" THEN {page} ELSE {})
    BY <1>1, <2>0, DrawCases
  <2>2. CASE refused
    BY <1>6, <2>1, <2>2
  <2>3. CASE ~refused
    <3> HIDE DEF next
    <3>1. next.outcome = outcome /\ next.files = s.files \cup new
      BY <2>1, <2>3
    <3>2. s.files \subseteq next.files /\ \A f \in next.files : f \in s.files \/ f \in new
      BY <3>1
    <3>3. \A f \in new : f.name = name
      OBVIOUS
    <3>4. \A m \in 1..k : HasPage(next, names[m])
      BY <1>3, <1>4, <1>8, <3>2
    <3>5. next.outcome = "done" => \A m \in 1..(k + 1) : HasPage(next, names[m])
      <4>1. next.outcome = "done" => page \in next.files /\ page.name = name /\ page.kind = "page"
        BY <3>1
      <4> HIDE DEF page
      <4>2. next.outcome = "done" => HasPage(next, name)
        BY <4>1 DEF HasPage
      <4> QED
        BY <1>1, <3>4, <4>2
    <3>6. ASSUME NEW f \in next.files
          PROVE  \E m \in 1..(k + 1) :
                   f.name = names[m] /\ \A j \in 1..(m - 1) : HasPage(next, names[j])
      <4>1. CASE f \in s.files
        BY <1>2, <1>3, <1>4, <3>2, <4>1
      <4>2. CASE f \in new
        <5>1. f.name = names[k + 1]
          BY <3>3, <4>2
        <5>2. \A j \in 1..((k + 1) - 1) : j \in 1..k
          OBVIOUS
        <5>3. k + 1 \in 1..(k + 1)
          OBVIOUS
        <5> HIDE DEF name, new
        <5> QED
          BY <3>4, <5>1, <5>2, <5>3
      <4> QED
        BY <3>2, <4>1, <4>2
    <3>7. ASSUME NEW f \in next.files, f.kind = "page", f.name = WJD
          PROVE  IsAttempt(f.attempts, params, cache) /\ HasRows(next, f)
      <4>1. CASE f \in s.files
        BY <1>3, <1>5, <3>2, <3>7, <4>1
      <4>2. CASE f \in new
        <5>1. f = page /\ outcome = "done" /\ name = WJD
          BY <3>7, <4>2
        <5>2. /\ IsAttempt(V!Render(WJD, params, cache, viz).shown, params, cache)
              /\ V!Render(WJD, params, cache, viz).shown \subseteq V!Selected(WJD, params, cache)
          BY <2>3, <5>1, PageOfRun
        <5>3. rows \in next.files
          BY <3>1
        <5>4. f.attempts = V!Render(WJD, params, cache, viz).shown
          BY <5>1
        <5>5. rows.name = f.name /\ rows.kind = "rows"
              /\ rows.attempts = V!Selected(WJD, params, cache)
          BY <5>1
        <5> HIDE DEF rows
        <5> QED
          BY <5>2, <5>3, <5>4, <5>5
      <4> QED
        BY <3>2, <4>1, <4>2
    <3>8. VizInv(names, params, cache, k + 1, next)
      BY <3>5, <3>6, <3>7 DEF VizInv
    <3> QED
      BY <2>1, <3>8 DEF next
  <2> QED
    BY <2>2, <2>3
<1> QED
  BY <1>7, <1>8

NothingDrawn == [outcome |-> "done", files |-> {}]

HasDrawTurns(n, names, params, cache, viz) ==
  \E f \in [0..n -> VizStates] :
    /\ f[0] = NothingDrawn
    /\ \A k \in 1..n : f[k] = Draw(names, params, cache, viz, f[k - 1], k)
    /\ V!visualize(names, params, cache, viz) = f[n]

\* Drawing a name leaves an outcome and files.
LEMMA DrawType ==
  ASSUME NEW params \in V!Params, NEW cache \in V!Caches, NEW viz \in BOOLEAN,
         NEW n \in Nat, NEW names \in [1..n -> V!Names], NEW k \in 1..n, NEW s \in VizStates
  PROVE  Draw(names, params, cache, viz, s, k) \in VizStates
<1>1. names[k] \in V!Names
  OBVIOUS
<1>2. V!run(s, names[k], params, cache, viz) \in VizStates
  BY <1>1, DrawCases
<1> QED
  BY <1>2 DEF Draw

\* visualize draws the names one after the other.
LEMMA DrawLoop ==
  ASSUME NEW params \in V!Params, NEW cache \in V!Caches, NEW viz \in BOOLEAN,
         NEW n \in Nat, NEW names \in [1..n -> V!Names]
  PROVE  HasDrawTurns(n, names, params, cache, viz)
<1> DEFINE Step == [x \in (1..n) \X VizStates |-> Draw(names, params, cache, viz, x[2], x[1])]
           One(before, name) ==
             IF before.outcome = "done" THEN V!run(before, name, params, cache, viz) ELSE before
           Body(h) == [s \in SUBSET (1..n) |->
                         IF s = {} THEN NothingDrawn
                         ELSE One(h[s \ {V!Max(s)}], names[V!Max(s)])]
           iter == CHOOSE h : h = Body(h)
<1>1. NothingDrawn \in VizStates
  BY DEF NothingDrawn, VizStates, Outcomes
<1>2. Step \in [(1..n) \X VizStates -> VizStates]
  <2> SUFFICES ASSUME NEW x \in (1..n) \X VizStates
               PROVE  Draw(names, params, cache, viz, x[2], x[1]) \in VizStates
    OBVIOUS
  <2>1. x[1] \in 1..n /\ x[2] \in VizStates
    OBVIOUS
  <2> QED
    BY <2>1, DrawType
<1>3. PICK g \in [SUBSET (1..n) -> VizStates] : FoldOver(n, NothingDrawn, Step, g)
  BY <1>1, <1>2, FoldExists DEF HasFold
<1>4. ASSUME NEW s
      PROVE  V!Max(s) = Max(s)
  BY DEF V!Max, Max
<1>5. ASSUME NEW s \in SUBSET (1..n), s # {}
      PROVE  Max(s) \in 1..n
  BY <1>5, LargestOfRange
<1>0. \A t, k : One(t, names[k]) = Draw(names, params, cache, viz, t, k)
  BY DEF Draw
<1> HIDE DEF One
<1>6. g = Body(g)
  <2> SUFFICES ASSUME NEW s \in SUBSET (1..n), s # {}
               PROVE  g[s] = One(g[s \ {V!Max(s)}], names[V!Max(s)])
    BY <1>3 DEF FoldOver
  <2>1. Max(s) \in 1..n /\ V!Max(s) = Max(s)
    BY <1>4, <1>5
  <2>2. g[s \ {Max(s)}] \in VizStates
    OBVIOUS
  <2>3. g[s] = Step[<<Max(s), g[s \ {Max(s)}]>>]
    BY <1>3 DEF FoldOver
  <2>4. g[s] = Draw(names, params, cache, viz, g[s \ {Max(s)}], Max(s))
    BY <2>1, <2>2, <2>3
  <2> QED
    BY <1>0, <2>1, <2>4
<1>7. iter = Body(iter)
  BY <1>6
<1>8. V!visualize(names, params, cache, viz) = iter[1..n]
  <2>1. DOMAIN names = 1..n
    OBVIOUS
  <2>2. V!FoldLeft(LAMBDA before, name :
                     IF before.outcome = "done" THEN V!run(before, name, params, cache, viz)
                     ELSE before, NothingDrawn, names) = iter[1..n]
    BY <2>1 DEF V!FoldLeft, V!MapThenFoldSet, One
  <2> HIDE DEF iter
  <2> QED
    BY <2>2 DEF V!visualize, NothingDrawn
<1> HIDE DEF iter
<1>9. IsFold(n, VizStates, NothingDrawn, Step, iter)
  <2>1. iter[{}] = NothingDrawn
    BY <1>7
  <2>2. ASSUME NEW s \in SUBSET (1..n), s # {}, iter[s \ {Max(s)}] \in VizStates
        PROVE  iter[s] = Step[<<Max(s), iter[s \ {Max(s)}]>>]
    <3>1. Max(s) \in 1..n /\ V!Max(s) = Max(s)
      BY <1>4, <1>5, <2>2
    <3>2. iter[s] = One(iter[s \ {V!Max(s)}], names[V!Max(s)])
      BY <1>7, <2>2
    <3>3. iter[s] = Draw(names, params, cache, viz, iter[s \ {Max(s)}], Max(s))
      BY <1>0, <3>1, <3>2
    <3> QED
      BY <2>2, <3>1, <3>3
  <2> QED
    BY <2>1, <2>2 DEF IsFold
<1> HIDE DEF Step
<1>10. HasTurns(n, VizStates, NothingDrawn, Step, iter[1..n])
  BY <1>1, <1>2, <1>9, FoldTurns
<1>11. PICK f \in [0..n -> VizStates] :
         /\ f[0] = NothingDrawn /\ f[n] = iter[1..n]
         /\ \A k \in 1..n : f[k] = Step[<<k, f[k - 1]>>]
  BY <1>10 DEF HasTurns
<1>12. ASSUME NEW k \in 1..n
       PROVE  f[k] = Draw(names, params, cache, viz, f[k - 1], k)
  <2>1. k - 1 \in 0..n /\ f[k - 1] \in VizStates
    OBVIOUS
  <2> QED
    BY <1>11, <2>1 DEF Step
<1> QED
  BY <1>8, <1>11, <1>12 DEF HasDrawTurns

\* Any number of names, with any parameters and any cache.
THEOREM PagesOfNames ==
  ASSUME NEW params \in V!Params, NEW cache \in V!Caches, NEW viz \in BOOLEAN,
         NEW n \in Nat, NEW names \in [1..n -> V!Names]
  PROVE  V!PagesAreAsAsked(names, params, cache, viz)
<1>1. PICK t \in [0..n -> VizStates] :
        /\ t[0] = NothingDrawn
        /\ \A k \in 1..n : t[k] = Draw(names, params, cache, viz, t[k - 1], k)
        /\ V!visualize(names, params, cache, viz) = t[n]
  <2>1. HasDrawTurns(n, names, params, cache, viz)
    BY DrawLoop
  <2> QED
    BY <2>1 DEF HasDrawTurns
<1> DEFINE P == {k \in 0..n : VizInv(names, params, cache, k, t[k])}
<1>2. 0 \in P
  <2>1. VizInv(names, params, cache, 0, NothingDrawn)
    BY DEF VizInv, NothingDrawn
  <2> QED
    BY <1>1, <2>1
<1>3. ASSUME NEW k \in P, k < n
      PROVE  k + 1 \in P
  <2>1. k \in Nat /\ k + 1 \in 1..n /\ k + 1 \in 0..n /\ (k + 1) - 1 = k
    BY <1>3
  <2>2. VizInv(names, params, cache, k, t[k]) /\ t[k] \in VizStates
    OBVIOUS
  <2>3. VizInv(names, params, cache, k + 1, Draw(names, params, cache, viz, t[k], k + 1))
    BY <1>3, <2>1, <2>2, VizInvIsKept
  <2>4. t[k + 1] = Draw(names, params, cache, viz, t[k], k + 1)
    BY <1>1, <2>1
  <2> QED
    BY <2>1, <2>3, <2>4
<1>4. P \in SUBSET (0..n) /\ \A k \in P : k < n => k + 1 \in P
  BY <1>3
<1> HIDE DEF P
<1>5. P = 0..n
  BY <1>2, <1>4, InductionUpTo
<1> DEFINE end == V!visualize(names, params, cache, viz)
<1>6. VizInv(names, params, cache, n, end)
  BY <1>1, <1>5 DEF P
<1> HIDE DEF end
<1>7. DOMAIN names = 1..n
  OBVIOUS
<1>8. ASSUME NEW f \in end.files, NEW k \in 1..n, f.name = names[k]
      PROVE  \/ \A m \in 1..(k - 1) : HasPage(end, names[m])
             \/ \E m \in 1..(k - 1) : names[m] = names[k]
  <2>1. PICK m \in 1..n : f.name = names[m] /\ \A j \in 1..(m - 1) : HasPage(end, names[j])
    BY <1>6 DEF VizInv
  <2>2. CASE m < k
    <3>1. m \in 1..(k - 1)
      BY <2>2
    <3> QED
      BY <1>8, <2>1, <3>1
  <2>3. CASE ~(m < k)
    <3>1. \A j \in 1..(k - 1) : j \in 1..(m - 1)
      BY <2>3
    <3> QED
      BY <2>1, <3>1
  <2> QED
    BY <2>2, <2>3
<1>9. ASSUME NEW f \in end.files, f.kind = "page", f.name = WJD
      PROVE  /\ IsAttempt(f.attempts, params, cache)
             /\ \E g \in end.files : /\ g.name = f.name /\ g.kind = "rows"
                                     /\ f.attempts \subseteq g.attempts
  BY <1>6, <1>9 DEF VizInv
<1>10. end.outcome = "done" => \A k \in 1..n : HasPage(end, names[k])
  BY <1>6 DEF VizInv
<1> DEFINE Drawn(k) == \E f \in end.files : f.name = names[k] /\ f.kind = "page"
           IsOfRun(f) ==
             /\ \E k \in V!Attempts :
                  /\ f.attempts = {<<params.run, k>>}
                  /\ params.attempt \in {k, 0}
                  /\ cache[params.run, k] = "plotted"
                  /\ params.attempt = 0 =>
                       \A m \in V!Attempts : m > k => cache[params.run, m] = "nothing"
             /\ \E g \in end.files : /\ g.name = f.name /\ g.kind = "rows"
                                    /\ f.attempts \subseteq g.attempts
<1>11. \A k : HasPage(end, names[k]) <=> Drawn(k)
  BY DEF HasPage
<1>12. \A f \in end.files : f.kind = "page" /\ f.name = "workflow-job-durations" => IsOfRun(f)
  BY <1>9 DEF IsAttempt, WJD
<1> HIDE DEF Drawn, IsOfRun
<1>13. /\ end.outcome = "done" => \A k \in DOMAIN names : Drawn(k)
       /\ \A f \in end.files :
            /\ f.kind = "page" /\ f.name = "workflow-job-durations" => IsOfRun(f)
            /\ \A k \in DOMAIN names : f.name = names[k] =>
                 \/ \A m \in 1..(k - 1) : Drawn(m)
                 \/ \E m \in 1..(k - 1) : names[m] = names[k]
  BY <1>7, <1>8, <1>10, <1>11, <1>12
<1> QED
  BY <1>13, Zenon DEF V!PagesAreAsAsked, Drawn, IsOfRun, end

\* visualize shows and leaves what was asked for (PagesAreAsAsked).
THEOREM PagesSpec == SpecPure => []PagesAreAsAsked
<1>1. InputOK => PagesAreAsAsked
  <2> SUFFICES ASSUME InputOK, input.of = "visualize"
               PROVE  V!PagesAreAsAsked(input.arg.names, input.arg.params, input.arg.cache,
                                        input.arg.viz)
    BY DEF PagesAreAsAsked
  <2> DEFINE names == input.arg.names
  <2>1. /\ names \in BoundedSeq(V!Names, 2) /\ input.arg.cache \in V!Caches
        /\ input.arg.viz \in BOOLEAN /\ input.arg.params \in V!Params
    BY DEF InputOK, Visualizations
  <2>2. Len(names) \in Nat /\ names \in [1..Len(names) -> V!Names]
    BY <2>1, BoundedSequences
  <2> QED
    BY <2>1, <2>2, PagesOfNames
<1> QED
  BY <1>1, InputIsOK, PTL

-----------------------------------------------------------------------------
(* download-logs.                                                          *)

RowStates == [log_paths: SUBSET Nat, matched_indices: Seq(Nat)]
NoRows == [log_paths |-> {}, matched_indices |-> <<>>]

\* The states of the loop over the rows.
HasRowTurns(n, rows, logs) ==
  \E f \in [0..n -> RowStates] :
    /\ f[0] = NoRows
    /\ \A k \in 1..n : f[k] = M!ReadRow(rows, logs, f[k - 1], k)
    /\ M!ReadRows(rows, logs) = f[n]

\* A row leaves the rows read and the matches.
LEMMA RowType ==
  ASSUME NEW rows, NEW logs, NEW acc \in RowStates, NEW k \in Nat
  PROVE  M!ReadRow(rows, logs, acc, k) \in RowStates
<1>1. acc.log_paths \cup {k} \in SUBSET Nat /\ acc.log_paths \in SUBSET Nat
  BY DEF RowStates
<1>2. acc.matched_indices \in Seq(Nat) /\ Append(acc.matched_indices, k) \in Seq(Nat)
  BY DEF RowStates
<1> QED
  BY <1>1, <1>2 DEF M!ReadRow, RowStates

\* run reads the rows one after the other.
LEMMA RowLoop ==
  ASSUME NEW n \in Nat, NEW rows, Len(rows) = n, NEW logs
  PROVE  HasRowTurns(n, rows, logs)
<1> DEFINE Step == [x \in (1..n) \X RowStates |-> M!ReadRow(rows, logs, x[2], x[1])]
           seq == [i \in 1..n |-> i]
           Body(h) == [s \in SUBSET (1..n) |->
                         IF s = {} THEN NoRows
                         ELSE M!ReadRow(rows, logs, h[s \ {M!Max(s)}], seq[M!Max(s)])]
           iter == CHOOSE h : h = Body(h)
<1>1. NoRows \in RowStates
  BY DEF NoRows, RowStates
<1>2. Step \in [(1..n) \X RowStates -> RowStates]
  <2> SUFFICES ASSUME NEW x \in (1..n) \X RowStates
               PROVE  M!ReadRow(rows, logs, x[2], x[1]) \in RowStates
    OBVIOUS
  <2>1. x[1] \in Nat /\ x[2] \in RowStates
    OBVIOUS
  <2> QED
    BY <2>1, RowType
<1>3. PICK g \in [SUBSET (1..n) -> RowStates] : FoldOver(n, NoRows, Step, g)
  BY <1>1, <1>2, FoldExists DEF HasFold
<1>4. ASSUME NEW s
      PROVE  M!Max(s) = Max(s)
  BY DEF M!Max, Max
<1>5. ASSUME NEW s \in SUBSET (1..n), s # {}
      PROVE  Max(s) \in 1..n /\ seq[M!Max(s)] = Max(s)
  <2>1. Max(s) \in 1..n
    BY <1>5, LargestOfRange
  <2> QED
    BY <1>4, <2>1
<1>6. g = Body(g)
  <2> SUFFICES ASSUME NEW s \in SUBSET (1..n), s # {}
               PROVE  g[s] = M!ReadRow(rows, logs, g[s \ {M!Max(s)}], seq[M!Max(s)])
    BY <1>3 DEF FoldOver
  <2>1. Max(s) \in 1..n /\ seq[M!Max(s)] = Max(s) /\ M!Max(s) = Max(s)
    BY <1>4, <1>5
  <2>2. g[s \ {Max(s)}] \in RowStates
    OBVIOUS
  <2>3. g[s] = Step[<<Max(s), g[s \ {Max(s)}]>>]
    BY <1>3 DEF FoldOver
  <2> HIDE DEF seq
  <2> QED
    BY <2>1, <2>2, <2>3
<1>7. iter = Body(iter)
  BY <1>6
<1>8. M!ReadRows(rows, logs) = iter[1..n]
  <2>1. DOMAIN seq = 1..n
    OBVIOUS
  <2>2. M!FoldLeft(LAMBDA acc, i : M!ReadRow(rows, logs, acc, i), NoRows, seq) = iter[1..n]
    BY <2>1 DEF M!FoldLeft, M!MapThenFoldSet
  <2> HIDE DEF iter
  <2> QED
    BY <2>2 DEF M!ReadRows, NoRows
<1> HIDE DEF iter
<1>9. IsFold(n, RowStates, NoRows, Step, iter)
  <2>1. iter[{}] = NoRows
    BY <1>7
  <2>2. ASSUME NEW s \in SUBSET (1..n), s # {}, iter[s \ {Max(s)}] \in RowStates
        PROVE  iter[s] = Step[<<Max(s), iter[s \ {Max(s)}]>>]
    <3>1. Max(s) \in 1..n /\ seq[M!Max(s)] = Max(s) /\ M!Max(s) = Max(s)
      BY <1>4, <1>5, <2>2
    <3>2. iter[s] = M!ReadRow(rows, logs, iter[s \ {M!Max(s)}], seq[M!Max(s)])
      BY <1>7, <2>2
    <3> HIDE DEF seq
    <3> QED
      BY <2>2, <3>1, <3>2
  <2> QED
    BY <2>1, <2>2 DEF IsFold
<1> HIDE DEF Step
<1>10. HasTurns(n, RowStates, NoRows, Step, iter[1..n])
  BY <1>1, <1>2, <1>9, FoldTurns
<1>11. PICK f \in [0..n -> RowStates] :
         /\ f[0] = NoRows /\ f[n] = iter[1..n]
         /\ \A k \in 1..n : f[k] = Step[<<k, f[k - 1]>>]
  BY <1>10 DEF HasTurns
<1>12. ASSUME NEW k \in 1..n
       PROVE  f[k] = M!ReadRow(rows, logs, f[k - 1], k)
  <2>1. k - 1 \in 0..n /\ f[k - 1] \in RowStates
    OBVIOUS
  <2> QED
    BY <1>11, <2>1 DEF Step
<1> QED
  BY <1>8, <1>11, <1>12 DEF HasRowTurns

\* The instance's Cardinality is the one the theorems about it are of.
LEMMA SameCard ==
  ASSUME NEW S
  PROVE  M!Cardinality(S) = Cardinality(S)
BY DEF M!Cardinality, Cardinality, M!IsFiniteSet, IsFiniteSet

\* The rows up to k that have a log, and that have one that matches.
HasLog(rows, logs, k) ==
  {i \in 1..k : /\ rows[i].job \in DOMAIN logs
                /\ logs[rows[i].job].kept \/ ~logs[rows[i].job].expired}
Matching(rows, logs, k) == {i \in HasLog(rows, logs, k) : logs[rows[i].job].matches}

\* The loop's invariant.
RowInv(rows, logs, k, s) ==
  /\ s.log_paths = HasLog(rows, logs, k)
  /\ s.matched_indices = Sorted(Matching(rows, logs, k))

\* A turn of the loop over the rows keeps its invariant.
LEMMA RowInvIsKept ==
  ASSUME NEW rows, NEW J, 0 \notin J, NEW logs \in [J -> M!Logs],
         NEW k \in Nat, rows[k + 1].job \in J \cup {0}, NEW s, RowInv(rows, logs, k, s)
  PROVE  RowInv(rows, logs, k + 1, M!ReadRow(rows, logs, s, k + 1))
<1> DEFINE n == k + 1
           next == M!ReadRow(rows, logs, s, n)
           job == rows[n].job
           log == logs[job]
           Had == HasLog(rows, logs, k)
           Mat == Matching(rows, logs, k)
<1>1. n \in Nat /\ n \in 1..n /\ \A i : i \in 1..n <=> i \in 1..k \/ i = n
  OBVIOUS
<1>2. Mat \in SUBSET (1..n) /\ n \notin Had /\ \A i \in Mat : i < n
  <2>1. \A i \in 1..k : i \in 1..n /\ i < n /\ i # n
    OBVIOUS
  <2>2. Mat \subseteq 1..k /\ Had \subseteq 1..k
    BY DEF Matching, HasLog
  <2> HIDE DEF Mat, Had
  <2> QED
    BY <2>1, <2>2
<1>3. s.log_paths = Had /\ s.matched_indices = Sorted(Mat)
  BY DEF RowInv
<1>4. job \in J \cup {0} /\ DOMAIN logs = J
  OBVIOUS
<1>7. ASSUME NEW i
      PROVE  i \in HasLog(rows, logs, n) <=>
               i \in Had \/ (i = n /\ job \in J /\ (log.kept \/ ~log.expired))
  <2>1. i \in Had <=> /\ i \in 1..k /\ rows[i].job \in J
                      /\ logs[rows[i].job].kept \/ ~logs[rows[i].job].expired
    BY <1>4 DEF HasLog
  <2>2. i \in HasLog(rows, logs, n) <=>
              /\ i \in 1..n /\ rows[i].job \in J
              /\ logs[rows[i].job].kept \/ ~logs[rows[i].job].expired
    BY <1>4 DEF HasLog
  <2> HIDE DEF n, Had
  <2> QED
    BY <1>1, <2>1, <2>2
<1>8. ASSUME NEW i
      PROVE  i \in Matching(rows, logs, n) <=>
               i \in Mat \/ (i = n /\ i \in HasLog(rows, logs, n) /\ log.matches)
  <2>1. i \in Mat <=> i \in Had /\ logs[rows[i].job].matches
    BY DEF Matching
  <2>2. i \in Matching(rows, logs, n) <=> i \in HasLog(rows, logs, n) /\ logs[rows[i].job].matches
    BY DEF Matching
  <2> HIDE DEF Had, Mat, n
  <2> QED
    BY <1>7, <2>1, <2>2
<1> HIDE DEF Had, Mat, n
<1>5. CASE job = 0 \/ ~(log.kept \/ ~log.expired)
  <2>1. next = s
    BY <1>5 DEF M!ReadRow
  <2>2. ~(job \in J /\ (log.kept \/ ~log.expired))
    BY <1>5
  <2>3. HasLog(rows, logs, n) = Had
    BY <1>7, <2>2
  <2>4. Matching(rows, logs, n) = Mat
    BY <1>2, <1>8, <2>3
  <2> QED
    BY <1>3, <2>1, <2>3, <2>4 DEF RowInv, n
<1>6. CASE job # 0 /\ (log.kept \/ ~log.expired)
  <2>1. next = [log_paths |-> s.log_paths \cup {n},
                matched_indices |-> IF log.matches THEN Append(s.matched_indices, n)
                                    ELSE s.matched_indices]
    BY <1>6 DEF M!ReadRow
  <2>2. job \in J /\ (log.kept \/ ~log.expired)
    BY <1>4, <1>6
  <2>3. HasLog(rows, logs, n) = Had \cup {n}
    <3>1. \A i : i \in HasLog(rows, logs, n) <=> i \in Had \cup {n}
      BY <1>7, <2>2
    <3> QED
      BY <3>1, Zenon
  <2>4. Matching(rows, logs, n) = IF log.matches THEN Mat \cup {n} ELSE Mat
    BY <1>8, <2>3
  <2>5. Sorted(Mat \cup {n}) = Append(Sorted(Mat), n)
    BY <1>1, <1>2, SortedGrows
  <2>6. next.log_paths = Had \cup {n}
        /\ next.matched_indices = IF log.matches THEN Append(Sorted(Mat), n) ELSE Sorted(Mat)
    BY <1>3, <2>1
  <2> HIDE DEF next
  <2>7. next.log_paths = HasLog(rows, logs, n)
        /\ next.matched_indices = Sorted(Matching(rows, logs, n))
    BY <2>3, <2>4, <2>5, <2>6
  <2> QED
    BY <2>7 DEF RowInv, n, next
<1> QED
  BY <1>5, <1>6

\* The table and the logs of a call, for any rows and any logs.
THEOREM LogsOfRows ==
  ASSUME NEW J, 0 \notin J, NEW logs \in [J -> M!Logs],
         NEW rows \in Seq([job: J \cup {0}]), NEW clear \in BOOLEAN
  PROVE  M!MatchesAndLogsAgree(rows, logs, clear)
<1> DEFINE n == Len(rows)
           had == {j \in DOMAIN logs : logs[j].kept \/ ~logs[j].expired}
           matching == {k \in DOMAIN rows : rows[k].job \in had /\ logs[rows[k].job].matches}
           asked == {rows[k].job : k \in DOMAIN rows}
           end == M!run(rows, logs, clear)
           Had == HasLog(rows, logs, n)
           taken == Sorted(matching)
<1>1. n \in Nat /\ DOMAIN rows = 1..n /\ \A k \in 1..n : rows[k].job \in J \cup {0}
  <2>1. n \in Nat /\ DOMAIN rows = 1..n
    OBVIOUS
  <2>2. \A k \in DOMAIN rows : rows[k] \in [job: J \cup {0}]
    <3> DEFINE X == [job: J \cup {0}]
    <3>1. rows \in Seq(X)
      OBVIOUS
    <3> HIDE DEF X
    <3>2. \A k \in DOMAIN rows : rows[k] \in X
      BY <3>1, ElementOfSeq
    <3> QED
      BY <3>2 DEF X
  <2> QED
    BY <2>1, <2>2
<1>2. PICK f \in [0..n -> RowStates] :
         /\ f[0] = NoRows
         /\ \A k \in 1..n : f[k] = M!ReadRow(rows, logs, f[k - 1], k)
         /\ M!ReadRows(rows, logs) = f[n]
  <2>1. HasRowTurns(n, rows, logs)
    BY <1>1, RowLoop
  <2> QED
    BY <2>1 DEF HasRowTurns
<1>3. matching = Matching(rows, logs, n)
  <2>1. \A k : k \in matching <=> k \in Matching(rows, logs, n)
    BY <1>1 DEF Matching, HasLog
  <2> QED
    BY <2>1, Zenon
<1> DEFINE P == {k \in 0..n : RowInv(rows, logs, k, f[k])}
<1>4. 0 \in P
  <2>1. 1..0 = {}
    OBVIOUS
  <2>2. HasLog(rows, logs, 0) = {}
    BY <2>1 DEF HasLog
  <2>3. Matching(rows, logs, 0) = {}
    BY <2>2 DEF Matching
  <2>4. Sorted({}) = <<>>
    BY <2>1, FS_EmptySet DEF Sorted
  <2>5. f[0].log_paths = {} /\ f[0].matched_indices = <<>>
    BY <1>2 DEF NoRows
  <2>6. RowInv(rows, logs, 0, f[0])
    BY <2>2, <2>3, <2>4, <2>5 DEF RowInv
  <2> QED
    BY <1>1, <2>6
<1>5. ASSUME NEW k \in P, k < n
      PROVE  k + 1 \in P
  <2>1. k \in Nat /\ k + 1 \in 1..n /\ k + 1 \in 0..n /\ (k + 1) - 1 = k
    BY <1>1, <1>5
  <2>2. f[k + 1] = M!ReadRow(rows, logs, f[k], k + 1)
    BY <1>2, <2>1
  <2>3. rows[k + 1].job \in J \cup {0}
    BY <1>1, <2>1
  <2>4. RowInv(rows, logs, k, f[k])
    OBVIOUS
  <2>5. RowInv(rows, logs, k + 1, f[k + 1])
    BY <2>1, <2>2, <2>3, <2>4, RowInvIsKept
  <2> QED
    BY <2>1, <2>5
<1>6. P = 0..n
  <2>1. P \in SUBSET (0..n)
    OBVIOUS
  <2> HIDE DEF P
  <2> QED
    BY <1>1, <1>4, <1>5, <2>1, InductionUpTo
<1>7. f[n].log_paths = Had /\ f[n].matched_indices = taken
  <2>1. n \in P
    BY <1>1, <1>6
  <2>2. RowInv(rows, logs, n, f[n])
    BY <2>1
  <2> QED
    BY <1>3, <2>2 DEF RowInv
<1> DEFINE C == Cardinality(matching)
<1>8. matching \in SUBSET (1..n)
  BY <1>1
<1> HIDE DEF matching
<1>9. /\ taken \in [1..C -> 1..n] /\ C \in Nat /\ taken \in Seq(1..n) /\ DOMAIN taken = 1..C
  BY <1>1, <1>8, SortedType
<1>10. /\ \A k \in matching : RankIn(matching, k) + 1 \in 1..C
                              /\ taken[RankIn(matching, k) + 1] = k
       /\ \A i \in 1..C : taken[i] \in matching
  BY <1>1, <1>8, OfRank, SortedNumbers
<1>11. M!ToSet(taken) = matching
  BY <1>9, <1>10 DEF M!ToSet
<1> HIDE DEF taken
<1>12. end.table = [i \in 1..C |-> rows[taken[i]]]
  BY <1>2, <1>7, <1>9 DEF M!run
<1> DEFINE deleted == IF clear THEN {rows[k].job : k \in Had \ matching} ELSE {}
<1>13. end.logs = ({j \in DOMAIN logs : logs[j].kept} \cup {rows[k].job : k \in Had}) \ deleted
  BY <1>2, <1>7, <1>11 DEF M!run
<1> HIDE DEF end
<1>14. Len(end.table) = C
  BY <1>9, <1>12
<1>15. \A k \in matching : end.table[RankIn(matching, k) + 1] = rows[k]
  BY <1>10, <1>12
<1>16. ASSUME clear
       PROVE  end.logs \cap asked = {rows[k].job : k \in matching}
  <2>1. \A k \in 1..n : k \in Had <=> rows[k].job \in had
    BY DEF HasLog
  <2>2. Had \subseteq 1..n
    BY DEF HasLog
  <2>3. \A k \in 1..n : k \in matching <=> rows[k].job \in had /\ logs[rows[k].job].matches
    BY <1>1 DEF matching
  <2>4. deleted = {rows[k].job : k \in Had \ matching}
    BY <1>16
  <2>5. \A j \in DOMAIN logs : logs[j].kept => j \in had
    OBVIOUS
  <2> HIDE DEF Had, had, deleted
  <2>6. ASSUME NEW x \in end.logs, x \in asked
        PROVE  x \in {rows[k].job : k \in matching}
    <3>1. PICK k \in 1..n : x = rows[k].job
      BY <1>1, <2>6
    <3>2. k \in Had
      BY <1>13, <2>1, <2>2, <2>5, <3>1
    <3>3. k \in matching
      BY <1>13, <2>4, <3>1, <3>2
    <3> QED
      BY <3>1, <3>3
  <2>7. ASSUME NEW k \in matching
        PROVE  rows[k].job \in end.logs /\ rows[k].job \in asked
    <3>1. k \in 1..n /\ k \in Had
      BY <1>8, <2>1, <2>3
    <3>2. ASSUME NEW m \in Had \ matching
          PROVE  rows[m].job # rows[k].job
      BY <2>1, <2>2, <2>3, <3>1, <3>2
    <3> QED
      BY <1>1, <1>13, <2>4, <3>1, <3>2
  <2> QED
    BY <2>6, <2>7
<1>17. M!Cardinality(matching) = C
       /\ \A k \in matching : M!Cardinality({m \in matching : m < k}) = RankIn(matching, k)
  BY SameCard DEF RankIn
<1>18. /\ Len(end.table) = M!Cardinality(matching)
       /\ \A k \in matching : end.table[M!Cardinality({m \in matching : m < k}) + 1] = rows[k]
       /\ clear => end.logs \cap asked = {rows[k].job : k \in matching}
  BY <1>14, <1>15, <1>16, <1>17
<1> QED
  BY <1>18 DEF M!MatchesAndLogsAgree, end, matching

\* The table and the logs of download-logs agree (MatchesAndLogsAgree),
\* whatever the bounds.
THEOREM MatchesSpec == SpecPure => []MatchesAndLogsAgree
<1>1. InputOK => MatchesAndLogsAgree
  <2> SUFFICES ASSUME InputOK, input.of = "download_logs"
               PROVE  M!MatchesAndLogsAgree(input.arg.rows, input.arg.logs, input.arg.clear_logs)
    BY DEF MatchesAndLogsAgree
  <2> DEFINE J == {1, 2}
             T == [job: 0..2]
             rows == input.arg.rows
  <2>1. /\ rows \in BoundedSeq(T, 4) /\ input.arg.logs \in [J -> M!Logs]
        /\ input.arg.clear_logs \in BOOLEAN
    BY DEF InputOK, LogTables
  <2>2. T = [job: J \cup {0}] /\ 0 \notin J
    <3>1. \A i : i \in 0..2 <=> i \in {1, 2} \/ i \in {0}
      OBVIOUS
    <3>2. 0..2 = {1, 2} \cup {0}
      BY <3>1
    <3>3. 0 \notin {1, 2}
      OBVIOUS
    <3> QED
      BY <3>2, <3>3
  <2> HIDE DEF T, J, rows
  <2>3. rows \in Seq(T)
    BY <2>1, BoundedSequences
  <2>4. rows \in Seq([job: J \cup {0}])
    BY <2>2, <2>3
  <2>5. M!MatchesAndLogsAgree(rows, input.arg.logs, input.arg.clear_logs)
    BY <2>1, <2>2, <2>4, LogsOfRows
  <2> QED
    BY <2>5 DEF rows
<1> QED
  BY <1>1, InputIsOK, PTL

-----------------------------------------------------------------------------
(* The disk report.                                                        *)

\* The lines of interest of the logs of runners with these names.
DiskLines(N) == [kind: {"runner"}, value: N] \cup [kind: {"df"}, value: Nat]
                  \cup [kind: {"other"}, value: {"text"}]

LineStates(N) == [runner_name: N \cup {"none"}, disk_samples: Seq(Nat)]
NoLines == [runner_name |-> "none", disk_samples |-> <<>>]

\* The states of the loop over the lines.
HasLineTurns(n, N, log) ==
  \E f \in [0..n -> LineStates(N)] :
    /\ f[0] = NoLines
    /\ \A k \in 1..n : f[k] = R!ReadLine(log, f[k - 1], k)
    /\ R!ReadLog(log) = f[n]

\* A line leaves a name and the samples.
LEMMA LineType ==
  ASSUME NEW n \in Nat, NEW N, NEW log, log.lines \in [1..n -> DiskLines(N)],
         NEW acc \in LineStates(N), NEW k \in 1..n
  PROVE  R!ReadLine(log, acc, k) \in LineStates(N)
<1>1. log.lines[k].kind = "runner" => log.lines[k].value \in N
  BY DEF DiskLines
<1>2. acc.runner_name \in N \cup {"none"}
  BY DEF LineStates
<1>3. acc.disk_samples \in Seq(Nat) /\ Append(acc.disk_samples, k) \in Seq(Nat)
  BY DEF LineStates
<1> QED
  BY <1>1, <1>2, <1>3 DEF R!ReadLine, LineStates

\* parse_log_file reads the lines one after the other.
LEMMA LineLoop ==
  ASSUME NEW n \in Nat, NEW N, "none" \notin N, NEW log, log.lines \in [1..n -> DiskLines(N)]
  PROVE  HasLineTurns(n, N, log)
<1> DEFINE Step == [x \in (1..n) \X LineStates(N) |-> R!ReadLine(log, x[2], x[1])]
           seq == [i \in 1..n |-> i]
           Body(h) == [s \in SUBSET (1..n) |->
                         IF s = {} THEN NoLines
                         ELSE R!ReadLine(log, h[s \ {R!Max(s)}], seq[R!Max(s)])]
           iter == CHOOSE h : h = Body(h)
<1>1. NoLines \in LineStates(N)
  BY DEF NoLines, LineStates
<1>2. Step \in [(1..n) \X LineStates(N) -> LineStates(N)]
  <2> SUFFICES ASSUME NEW x \in (1..n) \X LineStates(N)
               PROVE  R!ReadLine(log, x[2], x[1]) \in LineStates(N)
    OBVIOUS
  <2>1. x[1] \in 1..n /\ x[2] \in LineStates(N)
    OBVIOUS
  <2> QED
    BY <2>1, LineType
<1>3. PICK g \in [SUBSET (1..n) -> LineStates(N)] : FoldOver(n, NoLines, Step, g)
  BY <1>1, <1>2, FoldExists DEF HasFold
<1>4. ASSUME NEW s
      PROVE  R!Max(s) = Max(s)
  BY DEF R!Max, Max
<1>5. ASSUME NEW s \in SUBSET (1..n), s # {}
      PROVE  Max(s) \in 1..n /\ seq[R!Max(s)] = Max(s)
  <2>1. Max(s) \in 1..n
    BY <1>5, LargestOfRange
  <2> QED
    BY <1>4, <2>1
<1>6. g = Body(g)
  <2> SUFFICES ASSUME NEW s \in SUBSET (1..n), s # {}
               PROVE  g[s] = R!ReadLine(log, g[s \ {R!Max(s)}], seq[R!Max(s)])
    BY <1>3 DEF FoldOver
  <2>1. Max(s) \in 1..n /\ seq[R!Max(s)] = Max(s) /\ R!Max(s) = Max(s)
    BY <1>4, <1>5
  <2>2. g[s \ {Max(s)}] \in LineStates(N)
    OBVIOUS
  <2>3. g[s] = Step[<<Max(s), g[s \ {Max(s)}]>>]
    BY <1>3 DEF FoldOver
  <2> HIDE DEF seq
  <2> QED
    BY <2>1, <2>2, <2>3
<1>7. iter = Body(iter)
  BY <1>6
<1>8. R!ReadLog(log) = iter[1..n]
  <2>1. DOMAIN seq = 1..n
    OBVIOUS
  <2>2. R!FoldLeft(LAMBDA acc, i : R!ReadLine(log, acc, i), NoLines, seq) = iter[1..n]
    BY <2>1 DEF R!FoldLeft, R!MapThenFoldSet
  <2>3. Len(log.lines) = n
    OBVIOUS
  <2> HIDE DEF iter
  <2> QED
    BY <2>2, <2>3 DEF R!ReadLog, NoLines
<1> HIDE DEF iter
<1>9. IsFold(n, LineStates(N), NoLines, Step, iter)
  <2>1. iter[{}] = NoLines
    BY <1>7
  <2>2. ASSUME NEW s \in SUBSET (1..n), s # {}, iter[s \ {Max(s)}] \in LineStates(N)
        PROVE  iter[s] = Step[<<Max(s), iter[s \ {Max(s)}]>>]
    <3>1. Max(s) \in 1..n /\ seq[R!Max(s)] = Max(s) /\ R!Max(s) = Max(s)
      BY <1>4, <1>5, <2>2
    <3>2. iter[s] = R!ReadLine(log, iter[s \ {R!Max(s)}], seq[R!Max(s)])
      BY <1>7, <2>2
    <3> HIDE DEF seq
    <3> QED
      BY <2>2, <3>1, <3>2
  <2> QED
    BY <2>1, <2>2 DEF IsFold
<1> HIDE DEF Step
<1>10. HasTurns(n, LineStates(N), NoLines, Step, iter[1..n])
  BY <1>1, <1>2, <1>9, FoldTurns
<1>11. PICK f \in [0..n -> LineStates(N)] :
         /\ f[0] = NoLines /\ f[n] = iter[1..n]
         /\ \A k \in 1..n : f[k] = Step[<<k, f[k - 1]>>]
  BY <1>10 DEF HasTurns
<1>12. ASSUME NEW k \in 1..n
       PROVE  f[k] = R!ReadLine(log, f[k - 1], k)
  <2>1. k - 1 \in 0..n /\ f[k - 1] \in LineStates(N)
    OBVIOUS
  <2> QED
    BY <1>11, <2>1 DEF Step
<1> QED
  BY <1>8, <1>11, <1>12 DEF HasLineTurns

\* Sorted begins with the least and ends with the largest.
LEMMA SortedEnds ==
  ASSUME NEW n \in Nat, NEW S \in SUBSET (1..n), S # {}
  PROVE  /\ Cardinality(S) \in Nat /\ Cardinality(S) >= 1
         /\ Sorted(S)[1] = Min(S) /\ Min(S) \in S /\ \A y \in S : Min(S) <= y
         /\ Sorted(S)[Cardinality(S)] = Max(S) /\ Max(S) \in S /\ \A y \in S : y <= Max(S)
<1> DEFINE C == Cardinality(S)
<1>1. /\ IsFiniteSet(S) /\ C \in Nat
      /\ \A b \in S : RankIn(S, b) \in Nat /\ RankIn(S, b) + 1 \in 1..C
      /\ \A a, b \in S : a < b => RankIn(S, a) < RankIn(S, b)
      /\ \A k \in 1..C : Sorted(S)[k] \in S /\ RankIn(S, Sorted(S)[k]) = k - 1
  BY SortedNumbers
<1>2. C # 0
  BY <1>1, FS_EmptySet
<1>3. \A k \in 1..C : Sorted(S)[k] \in S /\ RankIn(S, Sorted(S)[k]) = k - 1
  BY SortedNumbers
<1>4. C \in Nat
  BY <1>1, Zenon
<1> HIDE DEF C
<1>5. C >= 1 /\ 1 \in 1..C /\ C \in 1..C
  BY <1>4, <1>2
<1> DEFINE a == Sorted(S)[1]
           z == Sorted(S)[C]
<1>6. a \in S /\ z \in S /\ RankIn(S, a) = 0 /\ RankIn(S, z) = C - 1
  <2>1. a \in S /\ RankIn(S, a) = 1 - 1
    BY <1>5, <1>3, Zenon
  <2>2. z \in S /\ RankIn(S, z) = C - 1
    BY <1>5, <1>3, Zenon
  <2>3. 1 - 1 = 0
    OBVIOUS
  <2> HIDE DEF a, z
  <2> QED
    BY <2>1, <2>2, <2>3
<1> HIDE DEF a, z
<1>7. \A y \in S : y \in Int
  OBVIOUS
<1>8. ASSUME NEW y \in S
      PROVE  a <= y /\ y <= z
  <2>1. ~(y < a)
    BY <1>1, <1>6, <1>8
  <2>2. ~(z < y)
    BY <1>1, <1>6, <1>8
  <2> QED
    BY <1>6, <1>7, <2>1, <2>2
<1>9. Min(S) = a
  BY <1>6, <1>8, LeastOf
<1>10. Max(S) \in S /\ \A x \in S : x <= Max(S)
  BY LargestOfRange
<1>11. Max(S) = z
  <2> DEFINE m == Max(S)
  <2>1. m \in S /\ m \in Int /\ z \in Int
    BY <1>6, <1>7, <1>10
  <2>2. z <= m /\ m <= z
    BY <1>6, <1>8, <1>10, <2>1
  <2> HIDE DEF m
  <2>3. m = z
    BY <2>1, <2>2
  <2> QED
    BY <2>3 DEF m
<1> QED
  BY <1>1, <1>5, <1>6, <1>8, <1>9, <1>11 DEF a, z, C

\* The first lines of a log that are of one kind.
PlacesIn(log, kind, k) == {n \in 1..k : log.lines[n].kind = kind}

\* The loop's invariant: the name is the one on the first line that has one.
LineInv(log, k, s) ==
  /\ s.disk_samples = Sorted(PlacesIn(log, "df", k))
  /\ IF PlacesIn(log, "runner", k) = {} THEN s.runner_name = "none"
     ELSE \E m \in PlacesIn(log, "runner", k) :
            /\ \A j \in PlacesIn(log, "runner", k) : m <= j
            /\ s.runner_name = log.lines[m].value

\* A turn of the loop over the lines keeps its invariant.
LEMMA LineInvIsKept ==
  ASSUME NEW N, "none" \notin N, NEW n \in Nat, NEW log, log.lines \in [1..n -> DiskLines(N)],
         NEW k \in Nat, k < n, NEW s, LineInv(log, k, s)
  PROVE  LineInv(log, k + 1, R!ReadLine(log, s, k + 1))
<1> DEFINE l == k + 1
           next == R!ReadLine(log, s, l)
           kind == log.lines[l].kind
           Df == PlacesIn(log, "df", k)
           Named == PlacesIn(log, "runner", k)
<1>1. l \in Nat /\ l \in 1..n /\ l \in 1..l /\ \A i : i \in 1..l <=> i \in 1..k \/ i = l
  OBVIOUS
<1>2. /\ next.disk_samples = IF kind = "df" THEN Append(s.disk_samples, l) ELSE s.disk_samples
      /\ next.runner_name = IF s.runner_name = "none" /\ kind = "runner" THEN log.lines[l].value
                            ELSE s.runner_name
  BY DEF R!ReadLine
<1>3. Df \in SUBSET (1..l) /\ \A i \in Df : i < l
  <2>1. \A i \in 1..k : i \in 1..l /\ i < l
    OBVIOUS
  <2>2. Df \subseteq 1..k
    BY DEF PlacesIn
  <2> HIDE DEF Df
  <2> QED
    BY <2>1, <2>2
<1>4. \A i \in Named : i \in Nat /\ i <= l /\ i \in 1..n
  <2>1. \A i \in 1..k : i \in Nat /\ i <= l /\ i \in 1..n
    OBVIOUS
  <2>2. Named \subseteq 1..k
    BY DEF PlacesIn
  <2> HIDE DEF Named
  <2> QED
    BY <2>1, <2>2
<1>5. ASSUME NEW w
      PROVE  PlacesIn(log, w, l) = IF kind = w THEN PlacesIn(log, w, k) \cup {l}
                                   ELSE PlacesIn(log, w, k)
  <2>1. \A i : i \in PlacesIn(log, w, l) <=> i \in PlacesIn(log, w, k) \/ (i = l /\ kind = w)
    <3> HIDE DEF l
    <3> QED
      BY <1>1 DEF PlacesIn
  <2> QED
    BY <2>1
<1>6. next.disk_samples = Sorted(PlacesIn(log, "df", l))
  <2>1. s.disk_samples = Sorted(Df)
    BY DEF LineInv
  <2>2. Sorted(Df \cup {l}) = Append(Sorted(Df), l)
    <3> HIDE DEF Df, l
    <3> QED
      BY <1>1, <1>3, SortedGrows
  <2>3. PlacesIn(log, "df", l) = IF kind = "df" THEN Df \cup {l} ELSE Df
    BY <1>5
  <2> HIDE DEF Df, l, next, kind
  <2> QED
    BY <1>2, <2>1, <2>2, <2>3
<1>7. PlacesIn(log, "runner", l) = IF kind = "runner" THEN Named \cup {l} ELSE Named
  BY <1>5
<1>8. \A i \in 1..n : log.lines[i].kind = "runner" => log.lines[i].value # "none"
  BY DEF DiskLines
<1>9. IF Named = {} THEN s.runner_name = "none"
      ELSE \E m \in Named : (\A j \in Named : m <= j) /\ s.runner_name = log.lines[m].value
  BY DEF LineInv
<1>10. \A m \in Named : log.lines[m].kind = "runner"
  BY DEF PlacesIn
<1> HIDE DEF next, kind, Named, Df, l
<1>11. IF PlacesIn(log, "runner", l) = {} THEN next.runner_name = "none"
       ELSE \E m \in PlacesIn(log, "runner", l) :
              /\ \A j \in PlacesIn(log, "runner", l) : m <= j
              /\ next.runner_name = log.lines[m].value
  <2>1. CASE Named = {} /\ kind = "runner"
    <3>1. PlacesIn(log, "runner", l) = {l} /\ next.runner_name = log.lines[l].value
      BY <1>2, <1>7, <1>9, <2>1
    <3>2. l <= l
      BY <1>1
    <3> QED
      BY <3>1, <3>2
  <2>2. CASE Named = {} /\ kind # "runner"
    BY <1>2, <1>7, <1>9, <2>2
  <2>3. CASE Named # {}
    <3>1. PICK m \in Named : (\A j \in Named : m <= j) /\ s.runner_name = log.lines[m].value
      BY <1>9, <2>3
    <3>2. s.runner_name # "none"
      BY <1>4, <1>8, <1>10, <3>1
    <3>3. next.runner_name = log.lines[m].value
      BY <1>2, <3>1, <3>2
    <3>4. m \in PlacesIn(log, "runner", l) /\ \A j \in PlacesIn(log, "runner", l) : m <= j
      BY <1>4, <1>7, <3>1
    <3> QED
      BY <3>3, <3>4
  <2> QED
    BY <2>1, <2>2, <2>3
<1> QED
  BY <1>6, <1>11 DEF LineInv, l, next

\* The logs of runners with these names.
DiskLogs(N) == [lines: Seq(DiskLines(N)), at: Int]

\* The samples that parse_log_file finds are the `df' lines, and the name is on
\* the first line that has one.
LEMMA LogIsRead ==
  ASSUME NEW N, "none" \notin N, NEW log \in DiskLogs(N)
  PROVE  LET Df == R!PlacesOf(log, "df")
             Named == R!PlacesOf(log, "runner")
             read == R!ReadLog(log)
         IN /\ Df \in SUBSET (1..Len(log.lines)) /\ Named \in SUBSET (1..Len(log.lines))
            /\ read.disk_samples = Sorted(Df)
            /\ Named = {} => read.runner_name = "none"
            /\ Named # {} => /\ read.runner_name = log.lines[Min(Named)].value
                             /\ Min(Named) \in Named
<1> DEFINE n == Len(log.lines)
           Df == R!PlacesOf(log, "df")
           Named == R!PlacesOf(log, "runner")
           read == R!ReadLog(log)
<1>1. n \in Nat /\ log.lines \in [1..n -> DiskLines(N)] /\ DOMAIN log.lines = 1..n
  BY DEF DiskLogs
<1>2. \A w : R!PlacesOf(log, w) = PlacesIn(log, w, n)
  BY <1>1 DEF R!PlacesOf, PlacesIn
<1>3. HasLineTurns(n, N, log)
  BY <1>1, LineLoop
<1>4. PICK f \in [0..n -> LineStates(N)] :
        /\ f[0] = NoLines /\ read = f[n]
        /\ \A k \in 1..n : f[k] = R!ReadLine(log, f[k - 1], k)
  BY <1>3 DEF HasLineTurns
<1> HIDE DEF n, read
<1> DEFINE Done == {k \in 0..n : LineInv(log, k, f[k])}
<1>5. 0 \in Done
  <2>1. \A w : PlacesIn(log, w, 0) = {}
    <3>1. 1..0 = {}
      OBVIOUS
    <3> QED
      BY <3>1 DEF PlacesIn
  <2>2. Sorted({}) = <<>>
    <3>1. Cardinality({}) = 0 /\ 1..0 = {}
      BY FS_EmptySet
    <3> QED
      BY <3>1 DEF Sorted
  <2>3. 0 \in 0..n
    BY <1>1
  <2>4. LineInv(log, 0, NoLines)
    BY <2>1, <2>2 DEF LineInv, NoLines
  <2> QED
    BY <1>4, <2>3, <2>4
<1>6. ASSUME NEW k \in Done, k < n
      PROVE  k + 1 \in Done
  <2>1. k \in Nat /\ k + 1 \in 1..n /\ k + 1 \in 0..n /\ (k + 1) - 1 = k
    BY <1>1, <1>6
  <2>2. f[k + 1] = R!ReadLine(log, f[k], k + 1)
    BY <1>4, <2>1
  <2>3. LineInv(log, k, f[k])
    OBVIOUS
  <2>4. LineInv(log, k + 1, R!ReadLine(log, f[k], k + 1))
    BY <1>1, <1>6, <2>1, <2>3, LineInvIsKept
  <2> QED
    BY <2>1, <2>2, <2>4
<1>7. Done \in SUBSET (0..n)
  OBVIOUS
<1> HIDE DEF Done
<1>8. n \in Done
  BY <1>1, <1>5, <1>6, <1>7, InductionUpTo
<1>9. LineInv(log, n, read)
  BY <1>4, <1>8 DEF Done
<1>10. Df \in SUBSET (1..n) /\ Named \in SUBSET (1..n)
  BY <1>2 DEF PlacesIn
<1>11. ASSUME Named # {}
       PROVE  read.runner_name = log.lines[Min(Named)].value /\ Min(Named) \in Named
  <2>1. PlacesIn(log, "runner", n) = Named
    BY <1>2
  <2>2. PICK m \in Named : (\A j \in Named : m <= j) /\ read.runner_name = log.lines[m].value
    BY <1>9, <1>11, <2>1 DEF LineInv
  <2> HIDE DEF Named
  <2>3. Min(Named) = m
    BY <1>1, <1>10, <2>2, LeastOf
  <2> QED
    BY <2>2, <2>3
<1>12. Named = {} => read.runner_name = "none"
  BY <1>2, <1>9 DEF LineInv
<1>13. read.disk_samples = Sorted(Df)
  BY <1>2, <1>9 DEF LineInv
<1> QED
  BY <1>10, <1>11, <1>12, <1>13 DEF n, read

\* DiskReport's copies of the operators on sets.
LEMMA SameNumbers ==
  ASSUME NEW S
  PROVE  R!Cardinality(S) = Cardinality(S) /\ R!Min(S) = Min(S) /\ R!Max(S) = Max(S)
BY DEF R!Cardinality, Cardinality, R!Min, Min, R!Max, Max

\* Something can be learnt from a log; and the job that this is.
HasFigures(log) == Cardinality(R!PlacesOf(log, "df")) > 1 /\ R!PlacesOf(log, "runner") # {}
NameIn(log) == log.lines[Min(R!PlacesOf(log, "runner"))].value
IsJobOf(log, entry) ==
  /\ entry.runner_name = NameIn(log)
  /\ entry.timestamp = R!At(log) /\ entry.timestamp \in Int
  /\ R!Delta(entry) = R!Change(log)
  /\ entry.before \in Nat /\ entry.after \in Nat
  /\ entry.before = R!FirstSize(log) /\ entry.after = R!LastSize(log)

\* parse_log_file takes a log from which something can be learnt, and no other.
LEMMA JobOfLog ==
  ASSUME NEW N, "none" \notin N, NEW log \in DiskLogs(N)
  PROVE  /\ R!Usable(log) <=> HasFigures(log)
         /\ HasFigures(log) => IsJobOf(log, R!parse_log_file(log)) /\ NameIn(log) \in N
<1> DEFINE n == Len(log.lines)
           Df == R!PlacesOf(log, "df")
           Named == R!PlacesOf(log, "runner")
           read == R!ReadLog(log)
           entry == R!parse_log_file(log)
<1>1. n \in Nat /\ log.lines \in [1..n -> DiskLines(N)] /\ log.at \in Int
  BY DEF DiskLogs
<1>2. /\ Df \in SUBSET (1..n) /\ Named \in SUBSET (1..n)
      /\ read.disk_samples = Sorted(Df)
      /\ Named = {} => read.runner_name = "none"
      /\ Named # {} => read.runner_name = log.lines[Min(Named)].value /\ Min(Named) \in Named
  BY LogIsRead
<1>3. /\ \A k \in Named : log.lines[k].kind = "runner"
      /\ \A k \in Df : log.lines[k].kind = "df"
  BY DEF R!PlacesOf
<1> HIDE DEF n, Df, Named, read
<1>4. Named # {} => log.lines[Min(Named)].value \in N
  <2> SUFFICES ASSUME Named # {} PROVE log.lines[Min(Named)].value \in N
    OBVIOUS
  <2> DEFINE m == Min(Named)
  <2>1. m \in Named /\ m \in 1..n
    BY <1>2
  <2> HIDE DEF m
  <2>2. log.lines[m] \in DiskLines(N) /\ log.lines[m].kind = "runner"
    BY <1>1, <1>3, <2>1
  <2>3. log.lines[m].value \in N
    BY <2>2 DEF DiskLines
  <2> QED
    BY <2>3 DEF m
<1>5. Len(Sorted(Df)) = Cardinality(Df) /\ Cardinality(Df) \in Nat
  BY <1>1, <1>2, SortedType
<1>6. read.runner_name # "none" <=> Named # {}
  BY <1>2, <1>4
<1>7. R!Usable(log) <=> HasFigures(log)
  <2>1. Len(read.disk_samples) = Cardinality(Df)
    BY <1>2, <1>5
  <2>2. R!Usable(log) <=> read.runner_name # "none" /\ Len(read.disk_samples) >= 2
    BY DEF R!Usable, read
  <2>3. HasFigures(log) <=> Cardinality(Df) > 1 /\ Named # {}
    BY DEF HasFigures, Df, Named
  <2>4. Cardinality(Df) >= 2 <=> Cardinality(Df) > 1
    BY <1>5
  <2> QED
    BY <1>6, <2>1, <2>2, <2>3, <2>4
<1>8. ASSUME HasFigures(log)
      PROVE  IsJobOf(log, entry) /\ NameIn(log) \in N
  <2> DEFINE a == Min(Df)
             z == Max(Df)
  <2>1. Cardinality(Df) > 1 /\ Named # {}
    BY <1>8 DEF HasFigures, Df, Named
  <2>2. Df # {}
    BY <2>1, FS_EmptySet
  <2>3. /\ Sorted(Df)[1] = a /\ a \in Df /\ Sorted(Df)[Cardinality(Df)] = z /\ z \in Df
    BY <1>1, <1>2, <2>2, SortedEnds
  <2>4. /\ entry.runner_name = read.runner_name
        /\ entry.timestamp = log.at + read.disk_samples[1]
        /\ entry.before = log.lines[read.disk_samples[1]].value
        /\ entry.after = log.lines[read.disk_samples[Len(read.disk_samples)]].value
    BY DEF R!parse_log_file, read
  <2>5. read.disk_samples[1] = a /\ read.disk_samples[Len(read.disk_samples)] = z
    BY <1>2, <1>5, <2>3
  <2>6. R!At(log) = log.at + a /\ R!Change(log) = log.lines[z].value - log.lines[a].value
    BY SameNumbers DEF R!At, R!Change, R!FirstSize, R!LastSize, Df
  <2>12. R!FirstSize(log) = log.lines[a].value /\ R!LastSize(log) = log.lines[z].value
    BY SameNumbers DEF R!FirstSize, R!LastSize, Df
  <2> HIDE DEF a, z, entry
  <2>7. log.lines[a].value \in Nat /\ log.lines[z].value \in Nat /\ a \in Int
    <3>1. a \in 1..n /\ z \in 1..n
      BY <1>2, <2>3
    <3>2. log.lines[a] \in DiskLines(N) /\ log.lines[z] \in DiskLines(N)
      BY <1>1, <3>1
    <3>3. log.lines[a].kind = "df" /\ log.lines[z].kind = "df"
      BY <1>3, <2>3
    <3> QED
      BY <3>1, <3>2, <3>3 DEF DiskLines
  <2>8. entry.runner_name = NameIn(log) /\ NameIn(log) \in N
    BY <1>2, <1>4, <2>1, <2>4 DEF NameIn, Named
  <2>9. entry.timestamp = R!At(log) /\ entry.timestamp \in Int
    <3>1. log.at + a \in Int
      BY <1>1, <2>7
    <3> QED
      BY <2>4, <2>5, <2>6, <3>1
  <2>10. R!Delta(entry) = R!Change(log)
    BY <2>4, <2>5, <2>6 DEF R!Delta
  <2>11. entry.before \in Nat /\ entry.after \in Nat
    BY <2>4, <2>5, <2>7
  <2>13. entry.before = R!FirstSize(log) /\ entry.after = R!LastSize(log)
    BY <2>4, <2>5, <2>12
  <2> QED
    BY <2>8, <2>9, <2>10, <2>11, <2>13 DEF IsJobOf
<1> QED
  BY <1>7, <1>8 DEF entry

\* The first logs from which something can be learnt.
Kept(logs, k) == {i \in 1..k : HasFigures(logs[i])}

\* What the logs can say.
Said(logs, n) == {R!parse_log_file(logs[i]) : i \in 1..n}

\* The states of the loop over the logs.
HasCollectTurns(n, logs) ==
  \E f \in [0..n -> Seq(Said(logs, n))] :
    /\ f[0] = <<>>
    /\ \A k \in 1..n : f[k] = R!CollectLog(f[k - 1], logs[k])
    /\ R!collect_entries(logs) = f[n]

\* A log leaves a sequence of entries.
LEMMA CollectType ==
  ASSUME NEW n \in Nat, NEW logs, NEW acc \in Seq(Said(logs, n)), NEW k \in 1..n
  PROVE  R!CollectLog(acc, logs[k]) \in Seq(Said(logs, n))
<1> DEFINE entry == R!parse_log_file(logs[k])
<1>1. entry \in Said(logs, n)
  BY DEF Said
<1> HIDE DEF entry
<1>2. Append(acc, entry) \in Seq(Said(logs, n))
  BY <1>1
<1> QED
  BY <1>2 DEF R!CollectLog, entry

\* collect_entries takes the logs one after the other.
LEMMA CollectLoop ==
  ASSUME NEW n \in Nat, NEW logs, DOMAIN logs = 1..n
  PROVE  HasCollectTurns(n, logs)
<1> DEFINE S == Seq(Said(logs, n))
           Step == [x \in (1..n) \X S |-> R!CollectLog(x[2], logs[x[1]])]
           Body(h) == [s \in SUBSET (1..n) |->
                         IF s = {} THEN <<>>
                         ELSE R!CollectLog(h[s \ {R!Max(s)}], logs[R!Max(s)])]
           iter == CHOOSE h : h = Body(h)
<1>1. <<>> \in S
  OBVIOUS
<1>2. Step \in [(1..n) \X S -> S]
  <2> SUFFICES ASSUME NEW x \in (1..n) \X S
               PROVE  R!CollectLog(x[2], logs[x[1]]) \in S
    OBVIOUS
  <2>1. x[1] \in 1..n /\ x[2] \in S
    OBVIOUS
  <2> QED
    BY <2>1, CollectType
<1> HIDE DEF S
<1>3. PICK g \in [SUBSET (1..n) -> S] : FoldOver(n, <<>>, Step, g)
  BY <1>1, <1>2, FoldExists DEF HasFold
<1>4. ASSUME NEW s
      PROVE  R!Max(s) = Max(s)
  BY SameNumbers
<1>5. ASSUME NEW s \in SUBSET (1..n), s # {}
      PROVE  Max(s) \in 1..n
  BY <1>5, LargestOfRange
<1>6. g = Body(g)
  <2> SUFFICES ASSUME NEW s \in SUBSET (1..n), s # {}
               PROVE  g[s] = R!CollectLog(g[s \ {R!Max(s)}], logs[R!Max(s)])
    BY <1>3 DEF FoldOver
  <2>1. Max(s) \in 1..n /\ R!Max(s) = Max(s)
    BY <1>4, <1>5
  <2>2. g[s \ {Max(s)}] \in S
    OBVIOUS
  <2>3. g[s] = Step[<<Max(s), g[s \ {Max(s)}]>>]
    BY <1>3 DEF FoldOver
  <2> QED
    BY <2>1, <2>2, <2>3
<1>7. iter = Body(iter)
  BY <1>6
<1>8. R!collect_entries(logs) = iter[1..n]
  <2>1. R!FoldLeft(R!CollectLog, <<>>, logs) = iter[1..n]
    BY DEF R!FoldLeft, R!MapThenFoldSet
  <2> HIDE DEF iter
  <2> QED
    BY <2>1 DEF R!collect_entries
<1> HIDE DEF iter
<1>9. IsFold(n, S, <<>>, Step, iter)
  <2>1. iter[{}] = <<>>
    BY <1>7
  <2>2. ASSUME NEW s \in SUBSET (1..n), s # {}, iter[s \ {Max(s)}] \in S
        PROVE  iter[s] = Step[<<Max(s), iter[s \ {Max(s)}]>>]
    <3>1. Max(s) \in 1..n /\ R!Max(s) = Max(s)
      BY <1>4, <1>5, <2>2
    <3>2. iter[s] = R!CollectLog(iter[s \ {R!Max(s)}], logs[R!Max(s)])
      BY <1>7, <2>2
    <3> QED
      BY <2>2, <3>1, <3>2
  <2> QED
    BY <2>1, <2>2 DEF IsFold
<1> HIDE DEF Step
<1>10. HasTurns(n, S, <<>>, Step, iter[1..n])
  BY <1>1, <1>2, <1>9, FoldTurns
<1>11. PICK f \in [0..n -> S] :
         /\ f[0] = <<>> /\ f[n] = iter[1..n]
         /\ \A k \in 1..n : f[k] = Step[<<k, f[k - 1]>>]
  BY <1>10 DEF HasTurns
<1>12. ASSUME NEW k \in 1..n
       PROVE  f[k] = R!CollectLog(f[k - 1], logs[k])
  <2>1. k - 1 \in 0..n /\ f[k - 1] \in S
    OBVIOUS
  <2> QED
    BY <1>11, <2>1 DEF Step
<1> QED
  BY <1>8, <1>11, <1>12 DEF HasCollectTurns, S

\* The loop's invariant.
EntriesOf(logs, U, s) ==
  /\ Len(s) = Cardinality(U)
  /\ \A j \in 1..Cardinality(U) : s[j] = R!parse_log_file(logs[Sorted(U)[j]])

\* collect_entries has an entry for each log from which something can be learnt,
\* in their order.
LEMMA Collected ==
  ASSUME NEW N, "none" \notin N, NEW n \in Nat, NEW logs \in [1..n -> DiskLogs(N)]
  PROVE  /\ R!collect_entries(logs) \in Seq(Said(logs, n))
         /\ EntriesOf(logs, Kept(logs, n), R!collect_entries(logs))
<1> DEFINE S == Seq(Said(logs, n))
<1>1. HasCollectTurns(n, logs)
  BY CollectLoop
<1>2. PICK f \in [0..n -> S] :
        /\ f[0] = <<>> /\ R!collect_entries(logs) = f[n]
        /\ \A k \in 1..n : f[k] = R!CollectLog(f[k - 1], logs[k])
  BY <1>1 DEF HasCollectTurns
<1> DEFINE P == {k \in 0..n : EntriesOf(logs, Kept(logs, k), f[k])}
<1>3. 0 \in P
  <2>1. Kept(logs, 0) = {}
    <3>1. 1..0 = {}
      OBVIOUS
    <3> QED
      BY <3>1 DEF Kept
  <2>2. Cardinality({}) = 0 /\ 1..0 = {} /\ 0 \in 0..n
    BY FS_EmptySet
  <2> QED
    BY <1>2, <2>1, <2>2 DEF EntriesOf
<1>4. ASSUME NEW k \in P, k < n
      PROVE  k + 1 \in P
  <2> DEFINE l == k + 1
             U == Kept(logs, k)
             W == Kept(logs, l)
             s == f[k]
             t == f[l]
             entry == R!parse_log_file(logs[l])
  <2>1. k \in Nat /\ l \in 1..n /\ l \in 0..n /\ l - 1 = k /\ l \in 1..l
        /\ \A i : i \in 1..l <=> i \in 1..k \/ i = l
    BY <1>4
  <2>2. t = IF HasFigures(logs[l]) THEN Append(s, entry) ELSE s
    <3>1. t = R!CollectLog(s, logs[l])
      BY <1>2, <2>1
    <3>2. logs[l] \in DiskLogs(N)
      BY <2>1
    <3> HIDE DEF l, s, t
    <3>3. R!Usable(logs[l]) <=> HasFigures(logs[l])
      BY <3>2, JobOfLog
    <3> QED
      BY <3>1, <3>3 DEF R!CollectLog
  <2>3. s \in S /\ EntriesOf(logs, U, s)
    BY <2>1
  <2>4. U \in SUBSET (1..l) /\ \A i \in U : i < l
    <3>1. \A i \in 1..k : i \in 1..l /\ i < l
      BY <2>1
    <3> QED
      BY <3>1 DEF Kept
  <2>5. W = IF HasFigures(logs[l]) THEN U \cup {l} ELSE U
    <3>1. \A i : i \in W <=> i \in U \/ (i = l /\ HasFigures(logs[l]))
      <4> HIDE DEF l
      <4> QED
        BY <2>1 DEF Kept
    <3> HIDE DEF W, U, l
    <3> QED
      BY <3>1
  <2>6. l \in Nat
    BY <2>1
  <2> HIDE DEF l, U, W, s, t, entry, S
  <2>7. EntriesOf(logs, W, t)
    <3>1. CASE ~HasFigures(logs[l])
      BY <2>2, <2>3, <2>5, <3>1
    <3>2. CASE HasFigures(logs[l])
      <4>1. Sorted(W) = Append(Sorted(U), l)
        BY <2>1, <2>4, <2>5, <2>6, <3>2, SortedGrows
      <4>2. /\ Cardinality(U) \in Nat /\ Sorted(U) \in Seq(1..l) /\ Len(Sorted(U)) = Cardinality(U)
        BY <2>4, <2>6, SortedType
      <4>3. W \in SUBSET (1..l)
        BY <2>1, <2>4, <2>5
      <4>4. Len(Sorted(W)) = Cardinality(W)
        BY <2>6, <4>3, SortedType
      <4> DEFINE c == Cardinality(U)
      <4>6. Len(s) = c /\ \A j \in 1..c : s[j] = R!parse_log_file(logs[Sorted(U)[j]])
        BY <2>3 DEF EntriesOf
      <4>7. s \in Seq(Said(logs, n)) /\ t = Append(s, entry)
        BY <2>2, <2>3, <3>2 DEF S
      <4>8. c \in Nat
        BY <4>2
      <4> DEFINE seq == Sorted(U)
      <4>9. seq \in Seq(1..l) /\ Len(seq) = c /\ Sorted(W) = Append(seq, l)
        BY <4>1, <4>2
      <4> HIDE DEF c, seq
      <4>5. Cardinality(W) = c + 1
        BY <2>1, <4>4, <4>8, <4>9
      <4>10. Len(t) = c + 1
        BY <4>6, <4>7
      <4>11. ASSUME NEW j \in 1..(c + 1)
             PROVE  t[j] = R!parse_log_file(logs[Sorted(W)[j]])
        <5>1. CASE j = c + 1
          <6>1. Append(s, entry)[c + 1] = entry
            BY <4>6, <4>7, <4>8
          <6>2. Append(seq, l)[c + 1] = l
            BY <4>8, <4>9
          <6> QED
            BY <4>7, <4>9, <5>1, <6>1, <6>2 DEF entry
        <5>2. CASE j # c + 1
          <6>1. j \in 1..c
            BY <4>8, <5>2
          <6>2. Append(s, entry)[j] = s[j]
            BY <4>6, <4>7, <4>8, <6>1
          <6>3. Append(seq, l)[j] = seq[j]
            BY <4>8, <4>9, <6>1
          <6> QED
            BY <4>6, <4>7, <4>9, <6>1, <6>2, <6>3 DEF seq
        <5> QED
          BY <5>1, <5>2
      <4> QED
        BY <4>5, <4>10, <4>11 DEF EntriesOf
    <3> QED
      BY <3>1, <3>2
  <2> QED
    BY <2>1, <2>7 DEF l, W, t
<1>5. P \in SUBSET (0..n)
  OBVIOUS
<1> HIDE DEF P
<1>6. n \in P
  <2>1. \A k \in P : k < n => k + 1 \in P
    BY <1>4
  <2>2. P = 0..n
    BY <1>3, <1>5, <2>1, InductionUpTo
  <2> QED
    BY <2>2
<1> QED
  BY <1>2, <1>6 DEF P

\* A log says what an entry does.
SaysOf(log, entry) ==
  /\ entry.timestamp = R!At(log) /\ entry.timestamp \in Int
  /\ R!Delta(entry) = R!Change(log)
  /\ entry.before \in Nat /\ entry.after \in Nat

Own(entries, r) == {k \in DOMAIN entries : entries[k].runner_name = r}

\* Each job of a runner has one entry, and the entry is of that job.
IsAccount(logs, entries, r, h) ==
  /\ h \in [Own(entries, r) -> R!JobsOn(logs, r)]
  /\ \A i \in R!JobsOn(logs, r) : \E k \in Own(entries, r) : h[k] = i
  /\ \A k \in Own(entries, r) : SaysOf(logs[h[k]], entries[k])

HasAccount(logs, entries, r) == \E h : IsAccount(logs, entries, r, h)

\* The entries of a runner are of its jobs.
LEMMA EntriesOfRunner ==
  ASSUME NEW N, "none" \notin N, NEW n \in Nat, NEW logs \in [1..n -> DiskLogs(N)], NEW r
  PROVE  LET entries == R!collect_entries(logs)
             own == Own(entries, r)
             jobs == R!JobsOn(logs, r)
         IN /\ HasAccount(logs, entries, r)
            /\ IsFiniteSet(own) /\ Cardinality(own) = Cardinality(jobs)
            /\ DOMAIN entries = 1..Len(entries) /\ Len(entries) \in Nat
            /\ jobs \in SUBSET (1..n)
<1> DEFINE entries == R!collect_entries(logs)
           own == Own(entries, r)
           jobs == R!JobsOn(logs, r)
           U == Kept(logs, n)
           c == Cardinality(U)
<1>1. U \in SUBSET (1..n)
  BY DEF Kept
<1>2. /\ IsFiniteSet(U) /\ c \in Nat
      /\ \A b \in U : RankIn(U, b) \in Nat /\ RankIn(U, b) + 1 \in 1..c
      /\ \A k \in 1..c : Sorted(U)[k] \in U /\ RankIn(U, Sorted(U)[k]) = k - 1
  <2> HIDE DEF U
  <2> QED
    BY <1>1, SortedNumbers
<1>3. \A b \in U : Sorted(U)[RankIn(U, b) + 1] = b
  <2> HIDE DEF U
  <2> QED
    BY <1>1, OfRank
<1>4. /\ Len(entries) = c
      /\ \A k \in 1..c : entries[k] = R!parse_log_file(logs[Sorted(U)[k]])
      /\ entries \in Seq(Said(logs, n))
  BY Collected DEF EntriesOf
<1>5. DOMAIN entries = 1..c
  <2>1. DOMAIN entries = 1..Len(entries)
    BY <1>4
  <2> QED
    BY <1>4, <2>1
<1>6. jobs = {i \in U : NameIn(logs[i]) = r}
  <2>1. \A i : i \in jobs <=> i \in U /\ NameIn(logs[i]) = r
    <3>1. DOMAIN logs = 1..n
      OBVIOUS
    <3>2. \A i : i \in jobs <=> /\ i \in DOMAIN logs
                                /\ R!Cardinality(R!PlacesOf(logs[i], "df")) > 1
                                /\ R!PlacesOf(logs[i], "runner") # {}
                                /\ logs[i].lines[R!Min(R!PlacesOf(logs[i], "runner"))].value = r
      BY DEF R!JobsOn, R!UsefulLogs
    <3>3. \A i : i \in U <=> i \in 1..n /\ HasFigures(logs[i])
      BY DEF Kept
    <3> HIDE DEF jobs, U
    <3> QED
      BY <3>1, <3>2, <3>3, SameNumbers DEF HasFigures, NameIn
  <2> HIDE DEF jobs, U
  <2> QED
    BY <2>1
<1>7. \A i \in U : HasFigures(logs[i]) /\ logs[i] \in DiskLogs(N)
  BY DEF Kept
<1> DEFINE seq == Sorted(U)
<1>8. /\ \A k \in 1..c : seq[k] \in U /\ RankIn(U, seq[k]) = k - 1
      /\ \A k \in 1..c : entries[k] = R!parse_log_file(logs[seq[k]])
  BY <1>2, <1>4
<1>9. \A b \in U : RankIn(U, b) + 1 \in 1..c /\ seq[RankIn(U, b) + 1] = b
  BY <1>2, <1>3
<1>10. c \in Nat
  BY <1>2
<1> HIDE DEF entries, jobs, U, c, seq
<1>11. ASSUME NEW k \in 1..c
       PROVE  entries[k].runner_name = NameIn(logs[seq[k]]) /\ SaysOf(logs[seq[k]], entries[k])
  <2>1. seq[k] \in U /\ entries[k] = R!parse_log_file(logs[seq[k]])
    BY <1>8
  <2>2. HasFigures(logs[seq[k]]) /\ logs[seq[k]] \in DiskLogs(N)
    BY <1>7, <2>1
  <2> DEFINE log == logs[seq[k]]
  <2> HIDE DEF log
  <2>3. IsJobOf(log, R!parse_log_file(log))
    BY <2>2, JobOfLog DEF log
  <2> QED
    BY <2>1, <2>3 DEF IsJobOf, SaysOf, log
<1>12. \A k : k \in own <=> k \in 1..c /\ NameIn(logs[seq[k]]) = r
  BY <1>5, <1>11 DEF Own
<1>13. \A k \in own : seq[k] \in jobs /\ k \in 1..c
  BY <1>6, <1>8, <1>12
<1>14. ASSUME NEW i \in jobs
       PROVE  \E k \in own : seq[k] = i
  <2>1. i \in U /\ NameIn(logs[i]) = r
    BY <1>6
  <2>2. RankIn(U, i) + 1 \in 1..c /\ seq[RankIn(U, i) + 1] = i
    BY <1>9, <2>1
  <2>3. RankIn(U, i) + 1 \in own
    BY <1>12, <2>1, <2>2
  <2> QED
    BY <2>2, <2>3
<1>15. ASSUME NEW k \in own, NEW l \in own, seq[k] = seq[l]
       PROVE  k = l
  <2>1. k \in Int /\ l \in Int /\ k - 1 = l - 1
    BY <1>8, <1>10, <1>13, <1>15
  <2> QED
    BY <2>1
<1> DEFINE h == [k \in own |-> seq[k]]
<1>16. h \in [own -> jobs] /\ (\A i \in jobs : \E k \in own : h[k] = i)
       /\ \A k \in own : SaysOf(logs[h[k]], entries[k])
  <2>1. h \in [own -> jobs]
    BY <1>13
  <2>2. \A k \in own : h[k] = seq[k]
    OBVIOUS
  <2> HIDE DEF h, own
  <2> QED
    BY <1>11, <1>13, <1>14, <2>1, <2>2
<1>17. HasAccount(logs, entries, r)
  <2> HIDE DEF h
  <2>1. IsAccount(logs, entries, r, h)
    BY <1>16 DEF IsAccount, jobs
  <2> QED
    BY <2>1 DEF HasAccount
<1>18. IsFiniteSet(own)
  <2>1. IsFiniteSet(1..c)
    BY <1>10, FS_Interval
  <2>2. own \in SUBSET (1..c)
    BY <1>12
  <2> HIDE DEF own
  <2> QED
    BY <2>1, <2>2, FS_Subset
<1>19. Cardinality(own) = Cardinality(jobs)
  <2>1. \A k, l \in own : h[k] = h[l] => k = l
    BY <1>15
  <2> HIDE DEF h, own
  <2>2. h \in Bijection(own, jobs)
    BY <1>16, <2>1 DEF Bijection, Injection, Surjection, IsInjective
  <2>3. ExistsBijection(own, jobs)
    BY <2>2 DEF ExistsBijection
  <2> QED
    BY <1>18, <2>3, FS_Bijection
<1>20. jobs \in SUBSET (1..n)
  BY <1>1, <1>6
<1>21. DOMAIN entries = 1..Len(entries) /\ Len(entries) \in Nat
  BY <1>4, <1>5, <1>10 
<1> QED
  BY <1>17, <1>18, <1>19, <1>20, <1>21 DEF entries, jobs

\* The jobs of a runner in the order of a sequence of entries.
IsOrderOf(logs, r, seq, g) ==
  LET jobs == R!JobsOn(logs, r)
      places == 1..Cardinality(jobs)
  IN /\ Cardinality(jobs) \in Nat /\ Len(seq) = Cardinality(jobs) /\ DOMAIN seq = places
     /\ g \in [places -> jobs]
     /\ \A i \in jobs : \E k \in places : g[k] = i
     /\ \A k \in places : SaysOf(logs[g[k]], seq[k])
     /\ \A j, k \in places : j <= k => seq[j].timestamp <= seq[k].timestamp

HasOrder(logs, r, seq) == \E g : IsOrderOf(logs, r, seq, g)

\* The order of the sort is one.
LEMMA EarlierIsOrder ==
  ASSUME NEW entries, NEW own \in SUBSET Nat, \A k \in own : entries[k].timestamp \in Int
  PROVE  IsOrder(own, {p \in own \X own : R!Earlier(entries, p[1], p[2])})
<1> DEFINE Ord == {p \in own \X own : R!Earlier(entries, p[1], p[2])}
           at == [k \in own |-> entries[k].timestamp]
<1>1. \A x, y \in own : <<x, y>> \in Ord <=> at[x] < at[y] \/ (at[x] = at[y] /\ x < y)
  BY DEF R!Earlier
<1>2. \A x \in own : x \in Int /\ at[x] \in Int
  OBVIOUS
<1> HIDE DEF Ord, at
<1>3. /\ \A a \in Int : ~(a < a)
      /\ \A a, b, c, k, l, m \in Int :
           (a < b \/ (a = b /\ k < l)) /\ (b < c \/ (b = c /\ l < m)) => a < c \/ (a = c /\ k < m)
      /\ \A a, b, k, l \in Int : k # l => \/ a < b \/ (a = b /\ k < l)
                                         \/ b < a \/ (b = a /\ l < k)
  OBVIOUS
<1>4. ASSUME NEW x \in own, NEW y \in own, NEW z \in own
      PROVE  /\ <<x, x>> \notin Ord
             /\ <<x, y>> \in Ord /\ <<y, z>> \in Ord => <<x, z>> \in Ord
             /\ x # y => <<x, y>> \in Ord \/ <<y, x>> \in Ord
  <2>1. x \in Int /\ y \in Int /\ z \in Int /\ at[x] \in Int /\ at[y] \in Int /\ at[z] \in Int
    BY <1>2
  <2>2. <<x, x>> \in Ord <=> at[x] < at[x] \/ (at[x] = at[x] /\ x < x)
    BY <1>1
  <2>3. /\ <<x, y>> \in Ord <=> at[x] < at[y] \/ (at[x] = at[y] /\ x < y)
        /\ <<y, x>> \in Ord <=> at[y] < at[x] \/ (at[y] = at[x] /\ y < x)
        /\ <<y, z>> \in Ord <=> at[y] < at[z] \/ (at[y] = at[z] /\ y < z)
        /\ <<x, z>> \in Ord <=> at[x] < at[z] \/ (at[x] = at[z] /\ x < z)
    BY <1>1
  <2>4. <<x, x>> \notin Ord
    BY <1>3, <2>1, <2>2
  <2>5. <<x, y>> \in Ord /\ <<y, z>> \in Ord => <<x, z>> \in Ord
    BY <1>3, <2>1, <2>3
  <2>6. x # y => <<x, y>> \in Ord \/ <<y, x>> \in Ord
    BY <1>3, <2>1, <2>3
  <2> QED
    BY <2>4, <2>5, <2>6
<1> QED
  BY <1>4 DEF IsOrder, Ord

\* by_runner has the jobs of a runner in the order of their first samples.
LEMMA JobsInOrder ==
  ASSUME NEW N, "none" \notin N, NEW n \in Nat, NEW logs \in [1..n -> DiskLogs(N)], NEW r
  PROVE  HasOrder(logs, r, R!by_runner(R!collect_entries(logs), r))
<1> DEFINE entries == R!collect_entries(logs)
           own == Own(entries, r)
           jobs == R!JobsOn(logs, r)
           c == Cardinality(own)
           seq == R!by_runner(entries, r)
           Ord == {p \in own \X own : R!Earlier(entries, p[1], p[2])}
           Pick(m) == CHOOSE k \in own : R!Cardinality({j \in own : R!Earlier(entries, j, k)}) = m - 1
           q == [m \in 1..c |-> Pick(m)]
<1>1. /\ HasAccount(logs, entries, r)
      /\ IsFiniteSet(own) /\ c = Cardinality(jobs)
      /\ DOMAIN entries = 1..Len(entries) /\ Len(entries) \in Nat
  BY EntriesOfRunner
<1>2. PICK h : IsAccount(logs, entries, r, h)
  BY <1>1 DEF HasAccount
<1>3. own \in SUBSET Nat
  <2>1. own \in SUBSET DOMAIN entries
    BY DEF Own
  <2> HIDE DEF own, entries
  <2> QED
    BY <1>1, <2>1
<1>4. c \in Nat
  BY <1>1, FS_CardinalityType
<1>5. seq = [m \in 1..c |-> entries[Pick(m)]]
  <2>1. R!Cardinality(own) = c
    BY SameNumbers
  <2> HIDE DEF entries
  <2>2. seq = [m \in 1..R!Cardinality(own) |-> entries[Pick(m)]]
    BY DEF R!by_runner, Own
  <2> HIDE DEF own, seq, Pick, c
  <2> QED
    BY <2>1, <2>2
<1>6. /\ h \in [own -> jobs] /\ \A i \in jobs : \E k \in own : h[k] = i
      /\ \A k \in own : SaysOf(logs[h[k]], entries[k])
  BY <1>2 DEF IsAccount
<1> HIDE DEF entries, own, jobs, c, seq
<1>7. \A k \in own : entries[k].timestamp \in Int
  BY <1>6 DEF SaysOf
<1>8. IsOrder(own, Ord)
  BY <1>3, <1>7, EarlierIsOrder
<1>9. ASSUME NEW k \in own
      PROVE  Rank(own, Ord, k) = R!Cardinality({j \in own : R!Earlier(entries, j, k)})
  <2>1. Smaller(own, Ord, k) = {j \in own : R!Earlier(entries, j, k)}
    BY DEF Smaller
  <2> QED
    BY <2>1, SameNumbers DEF Rank
<1>10. \A j, k \in own : entries[j].timestamp < entries[k].timestamp => <<j, k>> \in Ord
  BY DEF R!Earlier
<1> HIDE DEF Ord
<1>11. /\ \A m \in 1..c : \E k \in own : Rank(own, Ord, k) = m - 1
       /\ \A j, k \in own : Rank(own, Ord, j) = Rank(own, Ord, k) => j = k
       /\ \A k \in own : Rank(own, Ord, k) + 1 \in 1..c
  BY <1>1, <1>8, RanksAreTaken DEF c
<1>12. \A k \in own : Rank(own, Ord, k) \in Nat
  BY <1>1, <1>8, RankType
<1>13. ASSUME NEW m \in 1..c
       PROVE  q[m] \in own /\ Rank(own, Ord, q[m]) = m - 1
  <2>1. \E k \in own : R!Cardinality({j \in own : R!Earlier(entries, j, k)}) = m - 1
    BY <1>9, <1>11
  <2>2. Pick(m) \in own /\ R!Cardinality({j \in own : R!Earlier(entries, j, Pick(m))}) = m - 1
    BY <2>1
  <2> HIDE DEF Pick
  <2> QED
    BY <1>9, <2>2
<1>14. \A m \in 1..c : seq[m] = entries[q[m]]
  <2> HIDE DEF Pick
  <2> QED
    BY <1>5
<1>15. DOMAIN seq = 1..c /\ Len(seq) = c
  <2> HIDE DEF Pick
  <2> QED
    BY <1>4, <1>5
<1> DEFINE g == [m \in 1..c |-> h[q[m]]]
<1> HIDE DEF q
<1>16. g \in [1..c -> jobs] /\ \A m \in 1..c : g[m] = h[q[m]]
  BY <1>6, <1>13
<1> HIDE DEF g
<1>17. ASSUME NEW i \in jobs
       PROVE  \E m \in 1..c : g[m] = i
  <2>1. PICK k \in own : h[k] = i
    BY <1>6
  <2> DEFINE m == Rank(own, Ord, k) + 1
  <2>2. m \in 1..c /\ m - 1 = Rank(own, Ord, k)
    BY <1>11, <1>12
  <2> HIDE DEF m
  <2>3. q[m] = k
    BY <1>11, <1>13, <2>2
  <2> QED
    BY <1>16, <2>1, <2>2, <2>3
<1>18. \A m \in 1..c : SaysOf(logs[g[m]], seq[m])
  BY <1>6, <1>13, <1>14, <1>16
<1>19. ASSUME NEW j \in 1..c, NEW k \in 1..c, j <= k
       PROVE  seq[j].timestamp <= seq[k].timestamp
  <2>1. seq[j] = entries[q[j]] /\ seq[k] = entries[q[k]] /\ q[j] \in own /\ q[k] \in own
    BY <1>13, <1>14
  <2>2. ~(entries[q[k]].timestamp < entries[q[j]].timestamp)
    <3> SUFFICES ASSUME entries[q[k]].timestamp < entries[q[j]].timestamp PROVE FALSE
      OBVIOUS
    <3>1. <<q[k], q[j]>> \in Ord
      BY <1>10, <2>1
    <3>2. Rank(own, Ord, q[k]) < Rank(own, Ord, q[j])
      BY <1>1, <1>8, <2>1, <3>1, RankGrows
    <3>3. Rank(own, Ord, q[k]) = k - 1 /\ Rank(own, Ord, q[j]) = j - 1
      BY <1>13
    <3> QED
      BY <1>4, <1>19, <3>2, <3>3
  <2>3. entries[q[j]].timestamp \in Int /\ entries[q[k]].timestamp \in Int
    BY <1>7, <2>1
  <2> QED
    BY <2>1, <2>2, <2>3
<1>20. IsOrderOf(logs, r, seq, g)
  <2>1. /\ c \in Nat /\ Len(seq) = c /\ DOMAIN seq = 1..c
        /\ g \in [1..c -> jobs]
        /\ \A i \in jobs : \E k \in 1..c : g[k] = i
        /\ \A k \in 1..c : SaysOf(logs[g[k]], seq[k])
        /\ \A j, k \in 1..c : j <= k => seq[j].timestamp <= seq[k].timestamp
    BY <1>4, <1>15, <1>16, <1>17, <1>18, <1>19
  <2> QED
    BY <1>1, <2>1, Zenon DEF IsOrderOf, jobs
<1> QED
  BY <1>20 DEF HasOrder, seq, entries

\* Min of some numbers that have a least one.
LEMMA LeastInt ==
  ASSUME NEW S \in SUBSET Int, NEW x \in S, \A y \in S : x <= y
  PROVE  Min(S) = x
<1>1. \A z \in S : (\A y \in S : z <= y) => z = x
  OBVIOUS
<1> QED
  BY <1>1 DEF Min

\* Max of some numbers that have a largest one.
LEMMA LargestInt ==
  ASSUME NEW S \in SUBSET Int, NEW x \in S, \A y \in S : y <= x
  PROVE  Max(S) = x
<1>1. \A z \in S : (\A y \in S : z >= y) => z = x
  OBVIOUS
<1>2. \A y \in S : x >= y
  OBVIOUS
<1> QED
  BY <1>1, <1>2 DEF Max

\* The first of the largest of some numbers in a row.
FirstLargest(size, k, m) ==
  /\ m \in 1..k
  /\ \A j \in 1..k : size[m] > size[j] \/ (size[m] = size[j] /\ m <= j)

\* Some numbers in a row have a first largest one.
LEMMA FirstLargestExists ==
  ASSUME NEW c \in Nat, c >= 1, NEW size \in [1..c -> Int]
  PROVE  \E m \in 1..c : FirstLargest(size, c, m)
<1> DEFINE P == {k \in 0..c : k >= 1 => \E m \in 1..k : FirstLargest(size, k, m)}
<1>1. 0 \in P
  OBVIOUS
<1>2. ASSUME NEW k \in P, k < c
      PROVE  k + 1 \in P
  <2> DEFINE l == k + 1
  <2>1. k \in Nat /\ l \in 0..c /\ l \in 1..c /\ l \in 1..l /\ l \in Nat
        /\ \A j : j \in 1..l <=> j \in 1..k \/ j = l
    BY <1>2
  <2>2. \A j \in 1..l : j \in Int /\ j <= l /\ size[j] \in Int
    BY <2>1
  <2>3. \E m \in 1..l : FirstLargest(size, l, m)
    <3>1. CASE k = 0
      <4>1. \A j \in 1..l : j = l
        BY <3>1
      <4> HIDE DEF l
      <4>2. FirstLargest(size, l, l)
        BY <2>1, <2>2, <4>1 DEF FirstLargest
      <4> QED
        BY <2>1, <4>2
    <3>2. CASE k # 0
      <4>1. PICK m \in 1..k : FirstLargest(size, k, m)
        BY <2>1, <3>2
      <4>2. \A j \in 1..k : j \in 1..l /\ (size[m] > size[j] \/ (size[m] = size[j] /\ m <= j))
        BY <2>1, <4>1 DEF FirstLargest
      <4>3. m \in 1..l /\ size[m] \in Int /\ size[l] \in Int /\ m \in Int /\ m <= l
        BY <2>1, <2>2
      <4> HIDE DEF l
      <4>4. CASE size[l] > size[m]
        <5>1. \A j \in 1..l : size[l] > size[j] \/ (size[l] = size[j] /\ l <= j)
          <6> SUFFICES ASSUME NEW j \in 1..l
                       PROVE  size[l] > size[j] \/ (size[l] = size[j] /\ l <= j)
            OBVIOUS
          <6>1. CASE j = l
            <7>1. \A a \in Int : a <= a
              OBVIOUS
            <7> QED
              BY <2>2, <6>1, <7>1
          <6>2. CASE j # l
            <7>1. size[j] \in Int /\ (size[m] > size[j] \/ size[m] = size[j])
              BY <2>1, <2>2, <4>2, <6>2
            <7>2. \A a, b, d \in Int : a > b /\ (b > d \/ b = d) => a > d
              OBVIOUS
            <7> QED
              BY <4>3, <4>4, <7>1, <7>2
          <6> QED
            BY <6>1, <6>2
        <5> QED
          BY <2>1, <5>1 DEF FirstLargest
      <4>5. CASE ~(size[l] > size[m])
        <5>1. \A j \in 1..l : size[m] > size[j] \/ (size[m] = size[j] /\ m <= j)
          <6> SUFFICES ASSUME NEW j \in 1..l
                       PROVE  size[m] > size[j] \/ (size[m] = size[j] /\ m <= j)
            OBVIOUS
          <6>1. CASE j = l
            <7>1. size[m] > size[l] \/ size[m] = size[l]
              BY <4>3, <4>5
            <7> QED
              BY <4>3, <6>1, <7>1
          <6>2. CASE j # l
            BY <2>1, <4>2, <6>2
          <6> QED
            BY <6>1, <6>2
        <5> QED
          BY <4>3, <5>1 DEF FirstLargest
      <4> QED
        BY <4>4, <4>5
    <3> QED
      BY <3>1, <3>2
  <2> QED
    BY <2>1, <2>3
<1>3. P \in SUBSET (0..c) /\ \A k \in P : k < c => k + 1 \in P
  BY <1>2
<1> HIDE DEF P
<1>4. P = 0..c
  BY <1>1, <1>3, InductionUpTo
<1>5. c \in P
  BY <1>4
<1> QED
  BY <1>5 DEF P

\* The times on a runner's line are those of its first and of its last job.
LEMMA TimesOnLine ==
  ASSUME NEW logs, NEW r, NEW seq, HasOrder(logs, r, seq), R!JobsOn(logs, r) # {}
  PROVE  /\ Len(seq) = Cardinality(R!JobsOn(logs, r))
         /\ seq[1].timestamp = Min({R!At(logs[k]) : k \in R!JobsOn(logs, r)})
         /\ seq[Len(seq)].timestamp = Max({R!At(logs[k]) : k \in R!JobsOn(logs, r)})
<1> DEFINE jobs == R!JobsOn(logs, r)
           c == Cardinality(jobs)
           S == {R!At(logs[k]) : k \in jobs}
<1>1. PICK g : IsOrderOf(logs, r, seq, g)
  BY DEF HasOrder
<1>2. /\ c \in Nat /\ Len(seq) = c /\ g \in [1..c -> jobs]
      /\ \A i \in jobs : \E k \in 1..c : g[k] = i
      /\ \A k \in 1..c : SaysOf(logs[g[k]], seq[k])
      /\ \A j, k \in 1..c : j <= k => seq[j].timestamp <= seq[k].timestamp
  BY <1>1 DEF IsOrderOf
<1> DEFINE at == [k \in jobs |-> R!At(logs[k])]
<1>3. \A x : x \in S <=> \E i \in jobs : x = at[i]
  OBVIOUS
<1>4. \A i \in jobs : at[i] = R!At(logs[i])
  OBVIOUS
<1> HIDE DEF jobs, c, S, at
<1>5. \A k \in 1..c : seq[k].timestamp = at[g[k]] /\ at[g[k]] \in Int /\ g[k] \in jobs
  BY <1>2, <1>4 DEF SaysOf
<1>6. 1 \in 1..c /\ c \in 1..c /\ \A k \in 1..c : 1 <= k /\ k <= c
  <2>1. 1..c # {}
    BY <1>2 DEF jobs
  <2> QED
    BY <1>2, <2>1
<1>7. \A x \in S : \E k \in 1..c : x = seq[k].timestamp
  BY <1>2, <1>3, <1>5
<1>8. \A k \in 1..c : seq[k].timestamp \in S /\ seq[k].timestamp \in Int
  BY <1>3, <1>5
<1>9. S \in SUBSET Int
  BY <1>7, <1>8
<1>10. Min(S) = seq[1].timestamp
  <2> DEFINE x == seq[1].timestamp
  <2>1. x \in S /\ \A y \in S : x <= y
    BY <1>2, <1>6, <1>7, <1>8
  <2> HIDE DEF x
  <2>2. Min(S) = x
    BY <1>9, <2>1, LeastInt
  <2> QED
    BY <2>2 DEF x
<1>11. Max(S) = seq[c].timestamp
  <2> DEFINE x == seq[c].timestamp
  <2>1. x \in S /\ \A y \in S : y <= x
    BY <1>2, <1>6, <1>7, <1>8
  <2> HIDE DEF x
  <2>2. Max(S) = x
    BY <1>9, <2>1, LargestInt
  <2> QED
    BY <2>2 DEF x
<1> QED
  BY <1>2, <1>10, <1>11 DEF c, jobs, S

\* The reference of the report's largest change.
LargestOf(logs, jobs) ==
  {k \in jobs : \A m \in jobs : R!Size(R!Change(logs[k])) >= R!Size(R!Change(logs[m]))}
EarliestOf(logs, jobs) == {k \in jobs : \A m \in jobs : R!At(logs[k]) <= R!At(logs[m])}

\* The change on a runner's line is that of the first of the jobs with the
\* largest one.
LEMMA ChangeOnLine ==
  ASSUME NEW logs, NEW r, NEW seq, HasOrder(logs, r, seq), R!JobsOn(logs, r) # {}
  PROVE  /\ R!LargestDelta(seq) \in {R!Change(logs[k]) :
                                        k \in EarliestOf(logs, LargestOf(logs, R!JobsOn(logs, r)))}
         /\ \E m \in DOMAIN seq : R!LargestDelta(seq) = R!Delta(seq[m])
<1> DEFINE jobs == R!JobsOn(logs, r)
           c == Cardinality(jobs)
           size == [k \in 1..c |-> R!Size(R!Delta(seq[k]))]
           First(j) == \A m \in 1..c : \/ R!Size(R!Delta(seq[j])) > R!Size(R!Delta(seq[m]))
                                       \/ R!Size(R!Delta(seq[j])) = R!Size(R!Delta(seq[m])) /\ j <= m
           f == CHOOSE j \in 1..c : First(j)
<1>1. PICK g : IsOrderOf(logs, r, seq, g)
  BY DEF HasOrder
<1>2. /\ c \in Nat /\ Len(seq) = c /\ DOMAIN seq = 1..c /\ g \in [1..c -> jobs]
      /\ \A i \in jobs : \E k \in 1..c : g[k] = i
      /\ \A k \in 1..c : SaysOf(logs[g[k]], seq[k])
      /\ \A j, k \in 1..c : j <= k => seq[j].timestamp <= seq[k].timestamp
  BY <1>1 DEF IsOrderOf
<1>3. R!LargestDelta(seq) = R!Delta(seq[f])
  <2> HIDE DEF c, jobs
  <2> QED
    BY <1>2 DEF R!LargestDelta
<1> HIDE DEF jobs, c
<1>4. c >= 1
  <2>1. 1..c # {}
    BY <1>2 DEF jobs
  <2> QED
    BY <1>2, <2>1
<1>5. \A k \in 1..c : /\ R!Delta(seq[k]) = R!Change(logs[g[k]]) /\ R!Delta(seq[k]) \in Int
                      /\ seq[k].timestamp = R!At(logs[g[k]])
                      /\ g[k] \in jobs
  <2>1. \A k \in 1..c : SaysOf(logs[g[k]], seq[k]) /\ g[k] \in jobs
    BY <1>2
  <2>2. ASSUME NEW k \in 1..c
        PROVE  R!Delta(seq[k]) \in Int
    <3>1. seq[k].after \in Nat /\ seq[k].before \in Nat
      BY <2>1 DEF SaysOf
    <3> QED
      BY <3>1 DEF R!Delta
  <2> QED
    BY <2>1, <2>2 DEF SaysOf
<1>6. size \in [1..c -> Int] /\ \A k \in 1..c : size[k] = R!Size(R!Delta(seq[k]))
  <2>1. \A x \in Int : R!Size(x) \in Int
    BY DEF R!Size
  <2> QED
    BY <1>5, <2>1
<1>7. f \in 1..c /\ First(f)
  <2> HIDE DEF size
  <2>1. PICK m \in 1..c : FirstLargest(size, c, m)
    BY <1>2, <1>4, <1>6, FirstLargestExists
  <2>2. First(m)
    BY <1>6, <2>1 DEF FirstLargest
  <2> HIDE DEF First
  <2> QED
    BY <2>2
<1>8. \A m \in 1..c : size[f] > size[m] \/ (size[f] = size[m] /\ f <= m)
  <2> HIDE DEF size, f
  <2> QED
    BY <1>6, <1>7
<1> HIDE DEF size, f, First
<1> DEFINE i == g[f]
           largest == LargestOf(logs, jobs)
<1>9. i \in jobs /\ R!Change(logs[i]) = R!Delta(seq[f])
  BY <1>5, <1>7
<1>10. \A k \in 1..c : size[k] = R!Size(R!Change(logs[g[k]])) /\ size[k] \in Int
  BY <1>5, <1>6
<1>11. i \in largest
  <2>1. ASSUME NEW m \in jobs
        PROVE  R!Size(R!Change(logs[i])) >= R!Size(R!Change(logs[m]))
    <3>1. PICK k \in 1..c : g[k] = m
      BY <1>2
    <3>2. size[f] >= size[k]
      BY <1>7, <1>8, <1>10
    <3> QED
      BY <1>7, <1>10, <3>1, <3>2
  <2> QED
    BY <1>9, <2>1 DEF LargestOf
<1>12. i \in EarliestOf(logs, largest)
  <2>1. ASSUME NEW m \in largest
        PROVE  R!At(logs[i]) <= R!At(logs[m])
    <3>1. m \in jobs /\ R!Size(R!Change(logs[m])) >= R!Size(R!Change(logs[i]))
      BY <1>9 DEF LargestOf
    <3>2. PICK k \in 1..c : g[k] = m
      BY <1>2, <3>1
    <3>3. size[k] >= size[f]
      BY <1>7, <1>10, <3>1, <3>2
    <3>4. f <= k
      BY <1>7, <1>8, <1>10, <3>3
    <3>5. seq[f].timestamp <= seq[k].timestamp
      BY <1>2, <1>7, <3>4
    <3> QED
      BY <1>5, <1>7, <3>2, <3>5
  <2> QED
    BY <1>11, <2>1 DEF EarliestOf
<1> HIDE DEF i, largest
<1>13. R!LargestDelta(seq) = R!Change(logs[i])
  BY <1>3, <1>9
<1> QED
  BY <1>2, <1>3, <1>7, <1>12, <1>13 DEF largest, jobs

\* No change is larger than the largest share of the disk.
LEMMA ShareOnLine ==
  ASSUME NEW logs, NEW r, NEW seq, HasOrder(logs, r, seq), NEW m \in DOMAIN seq
  PROVE  R!Max({seq[k].before : k \in DOMAIN seq} \cup {seq[k].after : k \in DOMAIN seq})
           >= R!Size(R!Delta(seq[m]))
<1> DEFINE c == Cardinality(R!JobsOn(logs, r))
           T == {seq[k].before : k \in DOMAIN seq} \cup {seq[k].after : k \in DOMAIN seq}
           top == [k \in 1..c |-> IF seq[k].before >= seq[k].after THEN seq[k].before ELSE seq[k].after]
<1>1. PICK g : IsOrderOf(logs, r, seq, g)
  BY DEF HasOrder
<1>2. c \in Nat /\ DOMAIN seq = 1..c /\ \A k \in 1..c : SaysOf(logs[g[k]], seq[k])
  BY <1>1 DEF IsOrderOf
<1> HIDE DEF c
<1>3. \A k \in 1..c : seq[k].before \in Nat /\ seq[k].after \in Nat
  BY <1>2 DEF SaysOf
<1>4. /\ top \in [1..c -> Int]
      /\ \A k \in 1..c : top[k] \in T /\ top[k] >= seq[k].before /\ top[k] >= seq[k].after
  <2>1. ASSUME NEW k \in 1..c
        PROVE  top[k] \in T /\ top[k] \in Int /\ top[k] >= seq[k].before /\ top[k] >= seq[k].after
    <3>1. seq[k].before \in T /\ seq[k].after \in T
      BY <1>2
    <3>2. top[k] = IF seq[k].before >= seq[k].after THEN seq[k].before ELSE seq[k].after
      OBVIOUS
    <3> HIDE DEF T, top
    <3> QED
      BY <1>3, <3>1, <3>2
  <2> QED
    BY <2>1
<1>5. \A x \in T : \E k \in 1..c : x = seq[k].before \/ x = seq[k].after
  BY <1>2
<1>6. c >= 1 /\ m \in 1..c
  BY <1>2
<1> HIDE DEF top, T
<1>7. PICK f \in 1..c : FirstLargest(top, c, f)
  BY <1>2, <1>4, <1>6, FirstLargestExists
<1> DEFINE x == top[f]
<1>8. x \in T /\ x \in Int /\ \A k \in 1..c : x >= top[k] /\ top[k] \in Int
  BY <1>4, <1>7 DEF FirstLargest
<1> HIDE DEF x
<1>9. \A k \in 1..c : x >= seq[k].before /\ x >= seq[k].after
  BY <1>3, <1>4, <1>8
<1>10. \A y \in T : y <= x /\ y \in Int
  BY <1>3, <1>5, <1>8, <1>9
<1>11. Max(T) = x
  <2>1. T \in SUBSET Int
    BY <1>10
  <2> QED
    BY <1>8, <1>10, <2>1, LargestInt
<1>12. x >= R!Size(R!Delta(seq[m]))
  <2> DEFINE a == seq[m].before
             z == seq[m].after
  <2>1. a \in Nat /\ z \in Nat /\ x >= a /\ x >= z /\ R!Delta(seq[m]) = z - a
    BY <1>3, <1>6, <1>9 DEF R!Delta
  <2> HIDE DEF a, z
  <2> QED
    BY <1>8, <2>1 DEF R!Size
<1> QED
  BY <1>11, <1>12, SameNumbers DEF T

\* There is a report unless no log is of use, or the size in the first or the
\* last sample of one that is cannot be read.
LEMMA WhenThereIsAReport ==
  ASSUME NEW N, "none" \notin N, NEW n \in Nat, NEW logs \in [1..n -> DiskLogs(N)]
  PROVE  R!HasReport(logs) <=>
           /\ R!UsefulLogs(logs) # {}
           /\ \A k \in R!UsefulLogs(logs) : /\ R!FirstSize(logs[k]) # R!Unreadable
                                          /\ R!LastSize(logs[k]) # R!Unreadable
<1> DEFINE entries == R!collect_entries(logs)
           U == Kept(logs, n)
           c == Cardinality(U)
           seq == Sorted(U)
           Reads(i) == R!FirstSize(logs[i]) # R!Unreadable /\ R!LastSize(logs[i]) # R!Unreadable
           Readable(k) == entries[k].before # R!Unreadable /\ entries[k].after # R!Unreadable
<1>1. U \in SUBSET (1..n)
  BY DEF Kept
<1>2. /\ c \in Nat /\ \A k \in 1..c : seq[k] \in U
      /\ \A b \in U : RankIn(U, b) + 1 \in 1..c /\ seq[RankIn(U, b) + 1] = b
  <2> HIDE DEF U
  <2> QED
    BY <1>1, SortedNumbers, OfRank
<1>3. /\ Len(entries) = c
      /\ \A k \in 1..c : entries[k] = R!parse_log_file(logs[seq[k]])
      /\ entries \in Seq(Said(logs, n))
  BY Collected DEF EntriesOf
<1>4. R!UsefulLogs(logs) = U
  <2>1. \A i : i \in R!UsefulLogs(logs) <=> i \in U
    BY SameNumbers DEF R!UsefulLogs, Kept, HasFigures
  <2> HIDE DEF U
  <2> QED
    BY <2>1
<1>5. \A i \in U : HasFigures(logs[i]) /\ logs[i] \in DiskLogs(N)
  BY DEF Kept
<1>6. R!HasReport(logs) <=> entries # <<>> /\ \A k \in DOMAIN entries : Readable(k)
  BY DEF R!HasReport
<1> HIDE DEF entries, U, c, seq
<1>7. DOMAIN entries = 1..c /\ (entries # <<>> <=> c # 0)
  BY <1>2, <1>3
<1>8. ASSUME NEW k \in 1..c
      PROVE  Readable(k) <=> Reads(seq[k])
  <2> DEFINE log == logs[seq[k]]
  <2>1. HasFigures(log) /\ log \in DiskLogs(N) /\ entries[k] = R!parse_log_file(log)
    BY <1>2, <1>3, <1>5
  <2> HIDE DEF log
  <2>2. IsJobOf(log, entries[k])
    BY <2>1, JobOfLog
  <2> QED
    BY <2>2 DEF IsJobOf, log
<1> HIDE DEF Reads, Readable
<1>9. U # {} <=> c # 0
  BY <1>2
<1>10. (\A k \in 1..c : Readable(k)) <=> \A i \in U : Reads(i)
  BY <1>2, <1>8
<1>11. R!HasReport(logs) <=> U # {} /\ \A i \in U : Reads(i)
  BY <1>6, <1>7, <1>9, <1>10
<1> QED
  BY <1>4, <1>11 DEF Reads

\* The lines of the disk report are true of the logs, whatever the names of
\* the runners and however many logs there are.
LEMMA LinesOfLogs ==
  ASSUME NEW N, "none" \notin N, NEW n \in Nat, NEW logs \in [1..n -> DiskLogs(N)], NEW runners
  PROVE  R!LinesAgreeWithLogs(logs, runners)
<1> DEFINE entries == R!collect_entries(logs)
           report == R!build_markdown(logs)
           names == {entries[k].runner_name : k \in DOMAIN entries}
           jobs(r) == R!JobsOn(logs, r)
           Largest(r) == {k \in jobs(r) : \A m \in jobs(r) :
                            R!Size(R!Change(logs[k])) >= R!Size(R!Change(logs[m]))}
           Earliest(r) == {k \in Largest(r) : \A m \in Largest(r) : R!At(logs[k]) <= R!At(logs[m])}
           Line(line, r) ==
             /\ line.jobs = R!Cardinality(jobs(r))
             /\ line.first = R!Min({R!At(logs[k]) : k \in jobs(r)})
             /\ line.last = R!Max({R!At(logs[k]) : k \in jobs(r)})
             /\ line.max_delta \in {R!Change(logs[k]) : k \in Earliest(r)}
             /\ line.max_pct >= R!Size(line.max_delta)
<1>1. report = [r \in names |-> R!overview(entries, r)]
  BY DEF R!build_markdown
<1>2. ASSUME NEW r
      PROVE  /\ r \in DOMAIN report <=> jobs(r) # {}
             /\ r \in DOMAIN report => Line(report[r], r)
  <2> DEFINE own == Own(entries, r)
             J == R!JobsOn(logs, r)
             seq == R!by_runner(entries, r)
  <2>1. HasAccount(logs, entries, r)
    BY EntriesOfRunner
  <2>2. PICK h : IsAccount(logs, entries, r, h)
    BY <2>1 DEF HasAccount
  <2>3. own # {} <=> J # {}
    <3> HIDE DEF entries
    <3>1. h \in [own -> J] /\ \A i \in J : \E k \in own : h[k] = i
      BY <2>2 DEF IsAccount
    <3> HIDE DEF own, J
    <3> QED
      BY <3>1
  <2>4. r \in names <=> own # {}
    <3> HIDE DEF entries
    <3> QED
      BY DEF Own
  <2>5. HasOrder(logs, r, seq)
    BY JobsInOrder
  <2> HIDE DEF seq, entries
  <2>6. DOMAIN report = names
    <3> HIDE DEF names, report
    <3> QED
      BY <1>1
  <2>7. ASSUME r \in names
        PROVE  Line(report[r], r)
    <3> DEFINE line == R!overview(entries, r)
    <3>1. report[r] = line
      <4> HIDE DEF names, report
      <4> QED
        BY <1>1, <2>7
    <3>2. /\ line.jobs = Len(seq) /\ line.first = seq[1].timestamp
          /\ line.last = seq[Len(seq)].timestamp
          /\ line.max_pct = R!Max({seq[k].before : k \in DOMAIN seq} \cup {seq[k].after : k \in DOMAIN seq})
          /\ line.max_delta = R!LargestDelta(seq)
      BY DEF R!overview, seq
    <3>3. J # {}
      BY <2>3, <2>4, <2>7
    <3> HIDE DEF line
    <3>4. /\ Len(seq) = Cardinality(J)
          /\ seq[1].timestamp = Min({R!At(logs[k]) : k \in J})
          /\ seq[Len(seq)].timestamp = Max({R!At(logs[k]) : k \in J})
      BY <2>5, <3>3, TimesOnLine
    <3>5. /\ R!LargestDelta(seq) \in {R!Change(logs[k]) : k \in EarliestOf(logs, LargestOf(logs, J))}
          /\ \E m \in DOMAIN seq : R!LargestDelta(seq) = R!Delta(seq[m])
      BY <2>5, <3>3, ChangeOnLine
    <3>6. PICK m \in DOMAIN seq : R!LargestDelta(seq) = R!Delta(seq[m])
      BY <3>5
    <3>7. line.max_pct >= R!Size(R!Delta(seq[m]))
      BY <2>5, <3>2, ShareOnLine
    <3>8. line.max_pct >= R!Size(line.max_delta)
      BY <3>2, <3>6, <3>7
    <3>9. EarliestOf(logs, LargestOf(logs, J)) = Earliest(r)
      BY DEF EarliestOf, LargestOf
    <3>10. line.max_delta \in {R!Change(logs[k]) : k \in Earliest(r)}
      <4> HIDE DEF Earliest, J
      <4> QED
        BY <3>2, <3>5, <3>9
    <3> DEFINE Ats == {R!At(logs[k]) : k \in J}
    <3>11. /\ line.jobs = R!Cardinality(J) /\ line.first = R!Min(Ats) /\ line.last = R!Max(Ats)
      <4>1. /\ line.jobs = Cardinality(J) /\ line.first = Min(Ats) /\ line.last = Max(Ats)
        BY <3>2, <3>4
      <4> HIDE DEF Ats, J
      <4> QED
        BY <4>1, SameNumbers
    <3>12. Line(line, r)
      <4> HIDE DEF Earliest
      <4> QED
        BY <3>8, <3>10, <3>11
    <3> HIDE DEF Line
    <3> QED
      BY <3>1, <3>12
  <2> HIDE DEF names, report, Line, own
  <2> QED
    BY <2>3, <2>4, <2>6, <2>7
<1> HIDE DEF report
<1>3. \A r \in runners : /\ r \in DOMAIN report <=> jobs(r) # {}
                         /\ r \in DOMAIN report => Line(report[r], r)
  <2> HIDE DEF Line, jobs
  <2> QED
    BY <1>2
<1> QED
  BY <1>3 DEF R!LinesAgreeWithLogs, report

\* There is a report unless the logs forbid it, and its lines are true of them,
\* whatever the names of the runners and however many logs there are.
THEOREM ReportOfLogs ==
  ASSUME NEW N, "none" \notin N, NEW n \in Nat, NEW logs \in [1..n -> DiskLogs(N)], NEW runners
  PROVE  R!ReportAgreesWithLogs(logs, runners)
<1>1. R!LinesAgreeWithLogs(logs, runners)
  BY LinesOfLogs
<1>2. R!HasReport(logs) <=>
        /\ R!UsefulLogs(logs) # {}
        /\ \A k \in R!UsefulLogs(logs) : /\ R!FirstSize(logs[k]) # R!Unreadable
                                       /\ R!LastSize(logs[k]) # R!Unreadable
  BY WhenThereIsAReport
<1> QED
  BY <1>1, <1>2 DEF R!ReportAgreesWithLogs

\* The lines of the disk report are true of the logs (ReportAgreesWithLogs),
\* whatever the bounds.
THEOREM ReportSpec == SpecPure => []ReportAgreesWithLogs
<1>1. InputOK => ReportAgreesWithLogs
  <2> SUFFICES ASSUME InputOK, input.of = "build_markdown"
               PROVE  R!ReportAgreesWithLogs(input.arg, {"r1", "r2"})
    BY DEF ReportAgreesWithLogs
  <2> DEFINE N == {"r1", "r2"}
             Some == [1..1 -> [lines: BoundedSeq(R!Lines, MaxDiskLines), at: {1}]]
             logs == input.arg
  <2>1. logs \in Some \/ logs \in BoundedSeq(PlainLogs, 3)
    BY DEF InputOK, DiskReports
  <2>2. "none" \notin N /\ MaxDiskLines \in Nat
    BY BoundsAssumption
  <2>3. \A line \in R!Lines : line \in DiskLines(N)
    <3>1. \A v \in {R!Unreadable, 1, 2, 3} : v \in Nat
      BY DEF R!Unreadable
    <3> QED
      BY <3>1 DEF R!Lines, DiskLines
  <2> HIDE DEF logs
  <2>4. ASSUME NEW log \in [lines: BoundedSeq(R!Lines, MaxDiskLines), at: {1}]
        PROVE  log \in DiskLogs(N)
    <3>1. log.lines \in Seq(R!Lines) /\ log.at = 1
      <4>1. log.lines \in BoundedSeq(R!Lines, MaxDiskLines)
        OBVIOUS
      <4> QED
        BY <2>2, <4>1, BoundedSequences
    <3>2. log.lines \in Seq(DiskLines(N))
      <4> DEFINE ls == log.lines
      <4>1. ls \in Seq(R!Lines)
        BY <3>1
      <4> HIDE DEF ls
      <4>2. ls \in Seq(DiskLines(N))
        BY <2>3, <4>1
      <4> QED
        BY <4>2 DEF ls
    <3>3. log = [lines |-> log.lines, at |-> log.at]
      OBVIOUS
    <3> QED
      BY <3>1, <3>2, <3>3 DEF DiskLogs
  <2>5. ASSUME NEW log \in PlainLogs
        PROVE  log \in DiskLogs(N)
    <3>1. PICK r \in N, b \in 0..3, a \in 0..3, t \in {1, 3} :
            log = [lines |-> <<[kind |-> "runner", value |-> r], [kind |-> "df", value |-> b],
                               [kind |-> "df", value |-> a]>>, at |-> t]
      <4>1. \E r \in N, b \in 0..3, a \in 0..3, t \in {1, 3} : log = TwoSamples(r, b, a, t)
        <5>1. CASE log = TwoSamples("r1", R!Unreadable, 1, 1)
          BY <5>1 DEF R!Unreadable
        <5>2. CASE log = TwoSamples("r2", 1, R!Unreadable, 1)
          BY <5>2 DEF R!Unreadable
        <5>3. CASE \E r \in {"r1", "r2"}, b \in 1..3, a \in 1..3, t \in {1, 3} :
                     log = TwoSamples(r, b, a, t)
          <6>1. \A b \in 1..3 : b \in 0..3
            OBVIOUS
          <6> QED
            BY <5>3, <6>1
        <5> QED
          BY <5>1, <5>2, <5>3 DEF PlainLogs
      <4> QED
        BY <4>1 DEF TwoSamples
    <3>2. /\ [kind |-> "runner", value |-> r] \in DiskLines(N)
          /\ [kind |-> "df", value |-> b] \in DiskLines(N)
          /\ [kind |-> "df", value |-> a] \in DiskLines(N)
      BY DEF DiskLines
    <3> HIDE DEF N
    <3>3. <<[kind |-> "runner", value |-> r], [kind |-> "df", value |-> b],
            [kind |-> "df", value |-> a]>> \in Seq(DiskLines(N))
      BY <3>2
    <3>4. t \in Int
      OBVIOUS
    <3> QED
      BY <3>1, <3>3, <3>4 DEF DiskLogs
  <2>6. \E n \in Nat : logs \in [1..n -> DiskLogs(N)]
    <3>1. CASE logs \in Some
      <4>1. logs \in [1..1 -> DiskLogs(N)]
        <5> HIDE DEF N
        <5> QED
          BY <2>4, <3>1
      <4> QED
        BY <4>1
    <3>2. CASE logs \in BoundedSeq(PlainLogs, 3)
      <4>1. logs \in Seq(PlainLogs) /\ Len(logs) \in 0..3 /\ logs \in [1..Len(logs) -> PlainLogs]
        BY <3>2, BoundedSequences
      <4> HIDE DEF N
      <4>2. logs \in [1..Len(logs) -> DiskLogs(N)] /\ Len(logs) \in Nat
        BY <2>5, <4>1
      <4> QED
        BY <4>2
    <3> QED
      BY <2>1, <3>1, <3>2
  <2>7. PICK n \in Nat : logs \in [1..n -> DiskLogs(N)]
    BY <2>6
  <2>8. R!ReportAgreesWithLogs(logs, N)
    <3> HIDE DEF N
    <3> QED
      BY <2>2, <2>7, ReportOfLogs
  <2> QED
    BY <2>8 DEF logs
<1> QED
  BY <1>1, InputIsOK, PTL

-----------------------------------------------------------------------------
(* Filter specs.                                                           *)

\* The specs one level above those of a set.
Wider(Inner) == [all: Q!Groups(Inner)] \cup [any: Q!Groups(Inner)] \cup [not: Inner] \cup Inner

IsNest(g, m, Conds) == g = [d \in 0..m |-> IF d = 0 THEN Conds ELSE Wider(g[d - 1])]

\* The levels of the specs over some conditions.
LEMMA NestExists ==
  ASSUME NEW Conds, NEW n \in Nat
  PROVE  \E g : IsNest(g, n, Conds)
<1> DEFINE P == {m \in 0..n : \E g : IsNest(g, m, Conds)}
<1>1. 0 \in P
  <2> DEFINE g == [d \in 0..0 |-> Conds]
  <2>1. \A d \in 0..0 : d = 0
    OBVIOUS
  <2>2. g = [d \in 0..0 |-> IF d = 0 THEN Conds ELSE Wider(g[d - 1])]
    BY <2>1
  <2> HIDE DEF g
  <2>3. IsNest(g, 0, Conds)
    BY <2>2 DEF IsNest
  <2> QED
    BY <2>3
<1>2. ASSUME NEW m \in P, m < n
      PROVE  m + 1 \in P
  <2>1. m \in Nat /\ m + 1 \in 0..n
    BY <1>2
  <2>2. PICK g : g = [d \in 0..m |-> IF d = 0 THEN Conds ELSE Wider(g[d - 1])]
    BY DEF IsNest
  <2> DEFINE l == m + 1
             h == [d \in 0..l |-> IF d = l THEN Wider(g[m]) ELSE g[d]]
  <2>3. ASSUME NEW d \in 0..l
        PROVE  h[d] = IF d = 0 THEN Conds ELSE Wider(h[d - 1])
    <3>1. CASE d = l
      <4>1. d # 0 /\ d - 1 = m /\ m \in 0..l /\ m # l
        BY <2>1, <3>1
      <4>2. h[d] = Wider(g[m]) /\ h[m] = g[m]
        BY <3>1, <4>1
      <4> HIDE DEF h
      <4> QED
        BY <4>1, <4>2
    <3>2. CASE d # l
      <4>1. d \in 0..m /\ (d # 0 => d - 1 \in 0..l /\ d - 1 # l)
        BY <2>1, <3>2
      <4>2. h[d] = g[d] /\ (d # 0 => h[d - 1] = g[d - 1])
        BY <3>2, <4>1
      <4>3. g[d] = IF d = 0 THEN Conds ELSE Wider(g[d - 1])
        BY <2>2, <4>1
      <4> HIDE DEF h
      <4> QED
        BY <4>2, <4>3
    <3> QED
      BY <3>1, <3>2
  <2>4. h = [d \in 0..l |-> IF d = 0 THEN Conds ELSE Wider(h[d - 1])]
    BY <2>3
  <2> HIDE DEF h
  <2>5. IsNest(h, m + 1, Conds)
    BY <2>4 DEF IsNest
  <2> QED
    BY <2>1, <2>5
<1>3. P \in SUBSET (0..n) /\ \A k \in P : k < n => k + 1 \in P
  BY <1>2
<1> HIDE DEF P
<1>4. P = 0..n
  BY <1>1, <1>3, InductionUpTo
<1>5. n \in P
  BY <1>4
<1> QED
  BY <1>5 DEF P

\* The specs of a level are those of the level below and the groups and the
\* negations of these.
LEMMA SpecsGrow ==
  ASSUME NEW Conds
  PROVE  /\ Q!SpecsOver(Conds, 0) = Conds
         /\ \A d \in 1..MaxDepth : Q!SpecsOver(Conds, d) = Wider(Q!SpecsOver(Conds, d - 1))
<1> DEFINE f == CHOOSE h : h = [d \in 0..MaxDepth |->
                  IF d = 0 THEN Conds
                  ELSE LET Inner == h[d - 1] IN
                       [all: Q!Groups(Inner)] \cup [any: Q!Groups(Inner)] \cup [not: Inner] \cup Inner]
<1>1. MaxDepth \in Nat
  BY BoundsAssumption
<1>2. PICK g : IsNest(g, MaxDepth, Conds)
  BY <1>1, NestExists
<1>3. f = [d \in 0..MaxDepth |-> IF d = 0 THEN Conds ELSE Wider(f[d - 1])]
  BY <1>2 DEF IsNest, Wider
<1>4. \A n : Q!SpecsOver(Conds, n) = f[n]
  BY DEF Q!SpecsOver
<1> HIDE DEF f
<1>5. 0 \in 0..MaxDepth /\ \A d \in 1..MaxDepth : d \in 0..MaxDepth /\ d # 0
  BY <1>1
<1> QED
  BY <1>3, <1>4, <1>5

Truths == {"true", "false", "unknown"}

Both(a, b, op) == IF op = "and" THEN Q!And(a, b) ELSE Q!Or(a, b)

HasCombineTurns(m, truths, op) ==
  \E f \in [0..m -> Truths] :
    /\ f[0] = truths[1] /\ Q!_combine(truths, op) = f[m]
    /\ \A k \in 1..m : f[k] = Both(f[k - 1], truths[k + 1], op)

\* Two truths give a truth.
LEMMA BothType ==
  ASSUME NEW a \in Truths, NEW b \in Truths, NEW op
  PROVE  Both(a, b, op) \in Truths
<1>1. \A x, y : Q!And(x, y) \in Truths
  BY DEF Q!And, Truths
<1>2. \A x \in Truths : Q!Not(x) \in Truths
  BY DEF Q!Not, Truths
<1> QED
  BY <1>1, <1>2 DEF Both, Q!Or

\* _combine takes the truths of a group one after the other.
LEMMA CombineLoop ==
  ASSUME NEW m \in Nat, NEW truths \in [1..(m + 1) -> Truths], NEW op
  PROVE  HasCombineTurns(m, truths, op)
<1> DEFINE tail == Tail(truths)
           Step == [x \in (1..m) \X Truths |-> Both(x[2], truths[x[1] + 1], op)]
           Body(h) == [s \in SUBSET (1..m) |->
                         IF s = {} THEN Head(truths)
                         ELSE Both(h[s \ {Q!Max(s)}], tail[Q!Max(s)], op)]
           iter == CHOOSE h : h = Body(h)
<1>0. /\ truths \in Seq(Truths) /\ Len(truths) = m + 1 /\ Head(truths) = truths[1]
      /\ truths[1] \in Truths
      /\ DOMAIN tail = 1..m /\ \A k \in 1..m : tail[k] = truths[k + 1]
  <2>1. truths \in Seq(Truths) /\ Len(truths) = m + 1 /\ 1 \in 1..(m + 1)
    OBVIOUS
  <2> QED
    BY <2>1
<1>2. Step \in [(1..m) \X Truths -> Truths]
  <2> SUFFICES ASSUME NEW x \in (1..m) \X Truths
               PROVE  Both(x[2], truths[x[1] + 1], op) \in Truths
    OBVIOUS
  <2>1. x[1] + 1 \in 1..(m + 1) /\ x[2] \in Truths
    OBVIOUS
  <2> QED
    BY <2>1, BothType
<1> HIDE DEF tail
<1>3. PICK g \in [SUBSET (1..m) -> Truths] : FoldOver(m, truths[1], Step, g)
  <2>1. HasFold(m, Truths, truths[1], Step)
    BY <1>0, <1>2, FoldExists
  <2> QED
    BY <2>1 DEF HasFold
<1>4. ASSUME NEW s
      PROVE  Q!Max(s) = Max(s)
  BY DEF Q!Max, Max
<1>5. ASSUME NEW s \in SUBSET (1..m), s # {}
      PROVE  Max(s) \in 1..m
  BY <1>5, LargestOfRange
<1>6. g = Body(g)
  <2> SUFFICES ASSUME NEW s \in SUBSET (1..m), s # {}
               PROVE  g[s] = Both(g[s \ {Q!Max(s)}], tail[Q!Max(s)], op)
    BY <1>0, <1>3 DEF FoldOver
  <2>1. Max(s) \in 1..m /\ Q!Max(s) = Max(s)
    BY <1>4, <1>5
  <2>2. g[s \ {Max(s)}] \in Truths
    OBVIOUS
  <2>3. g[s] = Step[<<Max(s), g[s \ {Max(s)}]>>]
    BY <1>3 DEF FoldOver
  <2>4. g[s] = Both(g[s \ {Max(s)}], truths[Max(s) + 1], op)
    BY <2>1, <2>2, <2>3
  <2> QED
    BY <1>0, <2>1, <2>4
<1>7. iter = Body(iter)
  BY <1>6
<1>8. Q!_combine(truths, op) = iter[1..m]
  <2>1. Q!FoldLeft(LAMBDA a, b : IF op = "and" THEN Q!And(a, b) ELSE Q!Or(a, b),
                   Head(truths), tail) = iter[1..m]
    BY <1>0 DEF Q!FoldLeft, Q!MapThenFoldSet, Both
  <2> HIDE DEF iter
  <2> QED
    BY <2>1 DEF Q!_combine, tail
<1> HIDE DEF iter
<1>9. IsFold(m, Truths, truths[1], Step, iter)
  <2>1. iter[{}] = truths[1]
    BY <1>0, <1>7
  <2>2. ASSUME NEW s \in SUBSET (1..m), s # {}, iter[s \ {Max(s)}] \in Truths
        PROVE  iter[s] = Step[<<Max(s), iter[s \ {Max(s)}]>>]
    <3>1. Max(s) \in 1..m /\ Q!Max(s) = Max(s)
      BY <1>4, <1>5, <2>2
    <3>2. iter[s] = Both(iter[s \ {Q!Max(s)}], tail[Q!Max(s)], op)
      BY <1>7, <2>2
    <3>3. iter[s] = Both(iter[s \ {Max(s)}], truths[Max(s) + 1], op)
      BY <1>0, <3>1, <3>2
    <3> QED
      BY <2>2, <3>1, <3>3
  <2> QED
    BY <2>1, <2>2 DEF IsFold
<1> HIDE DEF Step
<1>10. HasTurns(m, Truths, truths[1], Step, iter[1..m])
  BY <1>0, <1>2, <1>9, FoldTurns
<1>11. PICK f \in [0..m -> Truths] :
         /\ f[0] = truths[1] /\ f[m] = iter[1..m]
         /\ \A k \in 1..m : f[k] = Step[<<k, f[k - 1]>>]
  BY <1>10 DEF HasTurns
<1>12. ASSUME NEW k \in 1..m
       PROVE  f[k] = Both(f[k - 1], truths[k + 1], op)
  <2>1. k - 1 \in 0..m /\ f[k - 1] \in Truths
    OBVIOUS
  <2> QED
    BY <1>11, <2>1 DEF Step
<1> QED
  BY <1>8, <1>11, <1>12 DEF HasCombineTurns

-----------------------------------------------------------------------------
\* A three-valued truth is right about what holds.  Boolean functions h stand
\* for what the conditions of a group say.
Agrees(t, h) == (t = "true" => h) /\ (t = "false" => ~h)

TruthSets == {{"true", "false"}, Truths}

\* A group is right about what holds if its conditions are.
LEMMA BothAgree ==
  ASSUME NEW T \in TruthSets, NEW a \in T, NEW b \in T, NEW g \in BOOLEAN, NEW h \in BOOLEAN,
         Agrees(a, g), Agrees(b, h)
  PROVE  /\ Both(a, b, "and") \in T /\ Agrees(Both(a, b, "and"), g /\ h)
         /\ Both(a, b, "or") \in T /\ Agrees(Both(a, b, "or"), g \/ h)
         /\ Q!Not(a) \in T /\ Agrees(Q!Not(a), ~g)
  BY DEF TruthSets, Truths, Both, Q!And, Q!Or, Q!Not, Agrees

\* What all, or one, of the first conditions of a group say.
SaidBy(op, h, n) == IF op = "and" THEN \A i \in 1..n : h[i] ELSE \E i \in 1..n : h[i]

\* It is true or false.
LEMMA SaidByType ==
  ASSUME NEW op, NEW h, NEW n
  PROVE  SaidBy(op, h, n) \in BOOLEAN
  BY Zenon DEF SaidBy

\* The truth of a group is right about what holds if those of its conditions are.
LEMMA CombineAgrees ==
  ASSUME NEW T \in TruthSets, NEW n \in Nat \ {0}, NEW truths \in [1..n -> T],
         NEW h \in [1..n -> BOOLEAN], \A k \in 1..n : Agrees(truths[k], h[k]),
         NEW op \in {"and", "or"}
  PROVE  /\ Q!_combine(truths, op) \in T
         /\ Agrees(Q!_combine(truths, op), SaidBy(op, h, n))
<1> DEFINE m == n - 1
<1>1. m \in Nat /\ m + 1 = n /\ truths \in [1..(m + 1) -> Truths]
  BY DEF TruthSets, Truths
<1> HIDE DEF m
<1>2. HasCombineTurns(m, truths, op)
  BY <1>1, CombineLoop
<1>3. PICK f \in [0..m -> Truths] :
        /\ f[0] = truths[1] /\ Q!_combine(truths, op) = f[m]
        /\ \A k \in 1..m : f[k] = Both(f[k - 1], truths[k + 1], op)
  BY <1>2 DEF HasCombineTurns
<1> DEFINE P == {k \in 0..m : f[k] \in T /\ Agrees(f[k], SaidBy(op, h, k + 1))}
<1>4. 0 \in P
  <2>1. 1 \in 1..n /\ 0 \in 0..m /\ 1..(0 + 1) = {1}
    BY <1>1
  <2>2. SaidBy(op, h, 0 + 1) = h[1]
    BY <2>1 DEF SaidBy
  <2>3. truths[1] \in T /\ Agrees(truths[1], h[1])
    BY <2>1
  <2> QED
    BY <1>3, <2>1, <2>2, <2>3
<1>5. ASSUME NEW k \in P, k < m
      PROVE  k + 1 \in P
  <2> DEFINE l == k + 2
             said == SaidBy(op, h, k + 1)
  <2>1. /\ k + 1 \in 0..m /\ k + 1 \in 1..m /\ (k + 1) - 1 = k /\ (k + 1) + 1 = l
        /\ l \in 1..n /\ k \in 0..m /\ 1..l = (1..(k + 1)) \cup {l}
    BY <1>1, <1>5
  <2> HIDE DEF l
  <2>2. f[k + 1] = Both(f[k], truths[l], op)
    BY <1>3, <2>1
  <2>3. truths[l] \in T /\ h[l] \in BOOLEAN /\ Agrees(truths[l], h[l])
    BY <2>1
  <2>4. f[k] \in T /\ Agrees(f[k], said) /\ said \in BOOLEAN
    BY SaidByType
  <2> HIDE DEF said
  <2>5. CASE op = "and"
    <3>1. SaidBy(op, h, l) <=> said /\ h[l]
      BY <2>1, <2>5 DEF SaidBy, said
    <3>2. /\ Both(f[k], truths[l], "and") \in T
          /\ Agrees(Both(f[k], truths[l], "and"), said /\ h[l])
      BY <2>3, <2>4, BothAgree
    <3>3. Agrees(f[k + 1], SaidBy(op, h, l))
      BY <2>2, <2>5, <3>1, <3>2 DEF Agrees
    <3> QED
      BY <2>1, <2>2, <2>5, <3>2, <3>3
  <2>6. CASE op = "or"
    <3>1. SaidBy(op, h, l) <=> said \/ h[l]
      BY <2>1, <2>6 DEF SaidBy, said
    <3>2. /\ Both(f[k], truths[l], "or") \in T
          /\ Agrees(Both(f[k], truths[l], "or"), said \/ h[l])
      BY <2>3, <2>4, BothAgree
    <3>3. Agrees(f[k + 1], SaidBy(op, h, l))
      BY <2>2, <2>6, <3>1, <3>2 DEF Agrees
    <3> QED
      BY <2>1, <2>2, <2>6, <3>2, <3>3
  <2> QED
    BY <2>5, <2>6
<1>6. P \in SUBSET (0..m) /\ \A k \in P : k < m => k + 1 \in P
  BY <1>5
<1> HIDE DEF P
<1>7. P = 0..m
  BY <1>1, <1>4, <1>6, InductionUpTo
<1>8. m \in P
  <2>1. m \in 0..m
    BY <1>1
  <2> QED
    BY <1>7, <2>1
<1> QED
  BY <1>1, <1>3, <1>8 DEF P

-----------------------------------------------------------------------------
\* Specs that nest at most d deep are conditions, or groups and negations of
\* specs that nest less deep.
Shaped(s, Conds, Inner) ==
  s \in Conds \cup [all: Q!Groups(Inner)] \cup [any: Q!Groups(Inner)] \cup [not: Inner]

\* More specs have more groups.
LEMMA WiderGroups ==
  ASSUME NEW A, NEW B0, A \subseteq B0
  PROVE  Q!Groups(A) \subseteq Q!Groups(B0)
  BY DEF Q!Groups

\* A spec of a level has its shape.
LEMMA SpecShapes ==
  ASSUME NEW Conds, NEW d \in 1..MaxDepth, NEW s \in Q!SpecsOver(Conds, d)
  PROVE  Shaped(s, Conds, Q!SpecsOver(Conds, d - 1))
<1> DEFINE S(k) == Q!SpecsOver(Conds, k)
           OK(k) == \A x \in S(k + 1) : Shaped(x, Conds, S(k))
           n == MaxDepth - 1
           P == {k \in 0..n : OK(k)}
<1>0. MaxDepth \in Nat /\ n \in Nat /\ n + 1 = MaxDepth
  BY BoundsAssumption
<1>1. S(0) = Conds /\ \A k \in 1..MaxDepth : S(k) = Wider(S(k - 1))
  BY SpecsGrow
<1> HIDE DEF S
<1>2. 0 \in P
  <2>1. 0 \in 0..n /\ 1 \in 1..MaxDepth /\ 1 - 1 = 0 /\ 0 + 1 = 1
    BY <1>0
  <2>2. S(1) = Wider(Conds)
    BY <1>1, <2>1
  <2>3. OK(0)
    BY <1>1, <2>1, <2>2 DEF Wider, Shaped
  <2> QED
    BY <2>1, <2>3
<1>3. ASSUME NEW k \in P, k < n
      PROVE  k + 1 \in P
  <2> DEFINE l == k + 1
  <2>1. l \in 0..n /\ l + 1 \in 1..MaxDepth /\ (l + 1) - 1 = l /\ l \in 1..MaxDepth /\ l - 1 = k
    BY <1>0, <1>3
  <2> HIDE DEF l
  <2>2. S(l + 1) = Wider(S(l)) /\ S(l) = Wider(S(k))
    BY <1>1, <2>1
  <2>3. S(k) \subseteq S(l)
    BY <2>2 DEF Wider
  <2>4. Q!Groups(S(k)) \subseteq Q!Groups(S(l))
    BY <2>3, WiderGroups
  <2>5. ASSUME NEW x \in S(l + 1)
        PROVE  Shaped(x, Conds, S(l))
    <3>1. CASE x \in S(l)
      <4>1. Shaped(x, Conds, S(k))
        BY <3>1 DEF l
      <4> QED
        BY <2>3, <2>4, <4>1 DEF Shaped
    <3>2. CASE x \notin S(l)
      BY <2>2, <3>2 DEF Wider, Shaped
    <3> QED
      BY <3>1, <3>2
  <2> QED
    BY <2>1, <2>5 DEF l
<1>4. P \in SUBSET (0..n) /\ \A k \in P : k < n => k + 1 \in P
  BY <1>3
<1>5. d - 1 \in 0..n /\ (d - 1) + 1 = d
  BY <1>0
<1> HIDE DEF P, n
<1>6. P = 0..n
  BY <1>0, <1>2, <1>4, InductionUpTo
<1>7. OK(d - 1)
  BY <1>5, <1>6 DEF P
<1> QED
  BY <1>5, <1>7 DEF S

\* Specs of fewer conditions are fewer.
LEMMA SpecsOfMore ==
  ASSUME NEW A, NEW C, A \subseteq C, NEW d \in 0..MaxDepth
  PROVE  Q!SpecsOver(A, d) \subseteq Q!SpecsOver(C, d)
<1> DEFINE P == {k \in 0..MaxDepth : Q!SpecsOver(A, k) \subseteq Q!SpecsOver(C, k)}
<1>0. MaxDepth \in Nat
  BY BoundsAssumption
<1>1. 0 \in P
  BY <1>0, SpecsGrow
<1>2. ASSUME NEW k \in P, k < MaxDepth
      PROVE  k + 1 \in P
  <2> DEFINE S == Q!SpecsOver(A, k)
             U == Q!SpecsOver(C, k)
  <2>1. k + 1 \in 0..MaxDepth /\ k + 1 \in 1..MaxDepth /\ (k + 1) - 1 = k
    BY <1>0, <1>2
  <2>2. S \subseteq U
    OBVIOUS
  <2>3. Q!SpecsOver(A, k + 1) = Wider(S)
    BY <2>1, SpecsGrow
  <2>4. Q!SpecsOver(C, k + 1) = Wider(U)
    BY <2>1, SpecsGrow
  <2> HIDE DEF S, U
  <2>5. Q!Groups(S) \subseteq Q!Groups(U)
    BY <2>2, WiderGroups
  <2>6. Wider(S) \subseteq Wider(U)
    BY <2>2, <2>5 DEF Wider
  <2> QED
    BY <2>1, <2>3, <2>4, <2>6
<1>3. P \in SUBSET (0..MaxDepth) /\ \A k \in P : k < MaxDepth => k + 1 \in P
  BY <1>2
<1> HIDE DEF P
<1>4. P = 0..MaxDepth
  BY <1>0, <1>1, <1>3, InductionUpTo
<1> QED
  BY <1>4 DEF P

\* The truth of a spec, or what it says, given those of the specs below it.
Judged(kind, row, below, s) ==
  IF kind = "truth"
  THEN CASE "all" \in DOMAIN s -> Q!_combine([k \in DOMAIN s.all |-> below[s.all[k]]], "and")
         [] "any" \in DOMAIN s -> Q!_combine([k \in DOMAIN s.any |-> below[s.any[k]]], "or")
         [] "not" \in DOMAIN s -> Q!Not(below[s["not"]])
         [] OTHER -> Q!_OPS(s.op, row[s.column], s.args)
  ELSE CASE "all" \in DOMAIN s -> \A k \in DOMAIN s.all : below[s.all[k]]
         [] "any" \in DOMAIN s -> \E k \in DOMAIN s.any : below[s.any[k]]
         [] "not" \in DOMAIN s -> ~below[s["not"]]
         [] OTHER -> Q!Compare(s.op, row[s.column], s.args)

Level(kind, row, d, below) ==
  [s \in Q!SpecsOver(Q!Conditions, d) |-> Judged(kind, row, below, s)]

IsLevels(g, m, kind, row) == g = [d \in 0..m |-> Level(kind, row, d, g[d - 1])]

\* Nothing is below a condition.
LEMMA ConditionIsPlain ==
  ASSUME NEW s \in Q!Conditions
  PROVE  "all" \notin DOMAIN s /\ "any" \notin DOMAIN s /\ "not" \notin DOMAIN s
  BY DEF Q!Conditions

\* The truth of a condition depends on nothing below it.
LEMMA JudgedCondition ==
  ASSUME NEW kind, NEW row, NEW below, NEW s \in Q!Conditions
  PROVE  Judged(kind, row, below, s) = IF kind = "truth" THEN Q!_OPS(s.op, row[s.column], s.args)
                                       ELSE Q!Compare(s.op, row[s.column], s.args)
  BY ConditionIsPlain DEF Judged

\* Nor does that of any spec of the first level.
LEMMA FirstLevel ==
  ASSUME NEW kind, NEW row, NEW a, NEW b
  PROVE  Level(kind, row, 0, a) = Level(kind, row, 0, b)
<1>1. Q!SpecsOver(Q!Conditions, 0) = Q!Conditions
  BY SpecsGrow
<1>2. \A s \in Q!Conditions : Judged(kind, row, a, s) = Judged(kind, row, b, s)
  BY JudgedCondition
<1> QED
  BY <1>1, <1>2 DEF Level

\* The specs are judged level by level.
LEMMA LevelsExist ==
  ASSUME NEW kind, NEW row, NEW n \in Nat
  PROVE  \E g : IsLevels(g, n, kind, row)
<1> DEFINE P == {m \in 0..n : \E g : IsLevels(g, m, kind, row)}
<1>1. 0 \in P
  <2> DEFINE g == [d \in 0..0 |-> Level(kind, row, 0, 0)]
  <2>1. \A d \in 0..0 : d = 0 /\ Level(kind, row, d, g[d - 1]) = Level(kind, row, 0, 0)
    BY FirstLevel
  <2>2. g = [d \in 0..0 |-> Level(kind, row, d, g[d - 1])]
    BY <2>1, Zenon
  <2> HIDE DEF g
  <2>3. IsLevels(g, 0, kind, row)
    BY <2>2 DEF IsLevels
  <2> QED
    BY <2>3
<1>2. ASSUME NEW m \in P, m < n
      PROVE  m + 1 \in P
  <2>1. m \in Nat /\ m + 1 \in 0..n
    BY <1>2
  <2>2. PICK g : g = [d \in 0..m |-> Level(kind, row, d, g[d - 1])]
    BY DEF IsLevels
  <2> DEFINE l == m + 1
             h == [d \in 0..l |-> IF d = l THEN Level(kind, row, l, g[m]) ELSE g[d]]
  <2>3. ASSUME NEW d \in 0..l
        PROVE  h[d] = Level(kind, row, d, h[d - 1])
    <3>1. CASE d = l
      <4>1. d - 1 = m /\ m \in 0..l /\ m # l
        BY <2>1, <3>1
      <4>2. h[d] = Level(kind, row, l, g[m]) /\ h[m] = g[m]
        BY <3>1, <4>1
      <4> HIDE DEF h
      <4> QED
        BY <3>1, <4>1, <4>2
    <3>2. CASE d # l /\ d # 0
      <4>1. d \in 0..m /\ d - 1 \in 0..l /\ d - 1 # l
        BY <2>1, <3>2
      <4>2. h[d] = g[d] /\ h[d - 1] = g[d - 1]
        BY <3>2, <4>1
      <4>3. g[d] = Level(kind, row, d, g[d - 1])
        BY <2>2, <4>1
      <4> HIDE DEF h
      <4> QED
        BY <4>2, <4>3
    <3>3. CASE d = 0
      <4>1. 0 \in 0..m /\ 0 \in 0..l /\ 0 # l
        BY <2>1
      <4>2. h[0] = g[0]
        BY <4>1
      <4>3. g[0] = Level(kind, row, 0, g[0 - 1])
        BY <2>2, <4>1
      <4> HIDE DEF h
      <4>4. Level(kind, row, 0, g[0 - 1]) = Level(kind, row, 0, h[0 - 1])
        BY FirstLevel
      <4> QED
        BY <3>3, <4>2, <4>3, <4>4
    <3> QED
      BY <3>1, <3>2, <3>3
  <2>4. h = [d \in 0..l |-> Level(kind, row, d, h[d - 1])]
    BY <2>3
  <2> HIDE DEF h
  <2>5. IsLevels(h, m + 1, kind, row)
    BY <2>4 DEF IsLevels
  <2> QED
    BY <2>1, <2>5
<1>3. P \in SUBSET (0..n) /\ \A k \in P : k < n => k + 1 \in P
  BY <1>2
<1> HIDE DEF P
<1>4. P = 0..n
  BY <1>1, <1>3, InductionUpTo
<1>5. n \in P
  BY <1>4
<1> QED
  BY <1>5 DEF P

TruthLevels(g, row) ==
  /\ IsLevels(g, MaxDepth, "truth", row)
  /\ \A s : Q!build_expression(s, row) = g[MaxDepth][s]
SaidLevels(g, row) ==
  /\ IsLevels(g, MaxDepth, "said", row)
  /\ \A s : Q!Holds(s, row) = g[MaxDepth][s]

\* What an expression is for a row is found so.
LEMMA TruthsExist ==
  ASSUME NEW row
  PROVE  \E g : TruthLevels(g, row)
<1> DEFINE Body(h) ==
             [n \in 0..MaxDepth |->
               [s \in Q!SpecsOver(Q!Conditions, n) |->
                 CASE "all" \in DOMAIN s ->
                        Q!_combine([k \in DOMAIN s.all |-> h[n - 1][s.all[k]]], "and")
                   [] "any" \in DOMAIN s ->
                        Q!_combine([k \in DOMAIN s.any |-> h[n - 1][s.any[k]]], "or")
                   [] "not" \in DOMAIN s -> Q!Not(h[n - 1][s["not"]])
                   [] OTHER -> Q!_OPS(s.op, row[s.column], s.args)]]
           f == CHOOSE h : h = Body(h)
<1>1. PICK g : IsLevels(g, MaxDepth, "truth", row)
  BY BoundsAssumption, LevelsExist
<1>2. \A h : Body(h) = [n \in 0..MaxDepth |-> Level("truth", row, n, h[n - 1])]
  BY DEF Level, Judged
<1>3. \A s : Q!build_expression(s, row) = f[MaxDepth][s]
  BY DEF Q!build_expression
<1> HIDE DEF Body
<1>4. g = Body(g)
  BY <1>1, <1>2 DEF IsLevels
<1>5. f = Body(f)
  BY <1>4
<1> HIDE DEF f
<1>6. IsLevels(f, MaxDepth, "truth", row)
  BY <1>2, <1>5 DEF IsLevels
<1> QED
  BY <1>3, <1>6 DEF TruthLevels

\* What a spec says of a row is found so.
LEMMA SayingsExist ==
  ASSUME NEW row
  PROVE  \E g : SaidLevels(g, row)
<1> DEFINE Body(h) ==
             [n \in 0..MaxDepth |->
               [s \in Q!SpecsOver(Q!Conditions, n) |->
                 CASE "all" \in DOMAIN s -> \A k \in DOMAIN s.all : h[n - 1][s.all[k]]
                   [] "any" \in DOMAIN s -> \E k \in DOMAIN s.any : h[n - 1][s.any[k]]
                   [] "not" \in DOMAIN s -> ~h[n - 1][s["not"]]
                   [] OTHER -> Q!Compare(s.op, row[s.column], s.args)]]
           f == CHOOSE h : h = Body(h)
<1>1. PICK g : IsLevels(g, MaxDepth, "said", row)
  BY BoundsAssumption, LevelsExist
<1>2. \A h : Body(h) = [n \in 0..MaxDepth |-> Level("said", row, n, h[n - 1])]
  BY DEF Level, Judged
<1>3. \A s : Q!Holds(s, row) = f[MaxDepth][s]
  BY DEF Q!Holds
<1> HIDE DEF Body
<1>4. g = Body(g)
  BY <1>1, <1>2 DEF IsLevels
<1>5. f = Body(f)
  BY <1>4
<1> HIDE DEF f
<1>6. IsLevels(f, MaxDepth, "said", row)
  BY <1>2, <1>5 DEF IsLevels
<1> QED
  BY <1>3, <1>6 DEF SaidLevels

\* Below a group everything is right: its truth is what it should be.
Right(T, S, truth, said) ==
  \A s \in S : truth[s] \in T /\ said[s] \in BOOLEAN /\ Agrees(truth[s], said[s])

\* The truth of a group, and what it says.
GroupTruth(op, seq, truth) == Q!_combine([k \in DOMAIN seq |-> truth[seq[k]]], op)
AllSaid(seq, said) == \A k \in DOMAIN seq : said[seq[k]]
OneSaid(seq, said) == \E k \in DOMAIN seq : said[seq[k]]

\* The truth of a group is right if below it everything is.
LEMMA GroupAgrees ==
  ASSUME NEW T \in TruthSets, NEW S, NEW truth, NEW said, Right(T, S, truth, said),
         NEW seq \in Q!Groups(S)
  PROVE  /\ GroupTruth("and", seq, truth) \in T
         /\ GroupTruth("or", seq, truth) \in T
         /\ Agrees(GroupTruth("and", seq, truth), AllSaid(seq, said))
         /\ Agrees(GroupTruth("or", seq, truth), OneSaid(seq, said))
<1> DEFINE n == Len(seq)
           truths == [k \in DOMAIN seq |-> truth[seq[k]]]
           h == [k \in DOMAIN seq |-> said[seq[k]]]
<1>1. seq \in Seq(S) /\ seq # <<>>
  BY DEF Q!Groups
<1>2. n \in Nat \ {0} /\ DOMAIN seq = 1..n /\ \A k \in 1..n : seq[k] \in S
  BY <1>1
<1> HIDE DEF n
<1>3. truths \in [1..n -> T] /\ h \in [1..n -> BOOLEAN]
  BY <1>2 DEF Right
<1>4. \A k \in 1..n : Agrees(truths[k], h[k])
  BY <1>2 DEF Right
<1>5. SaidBy("and", h, n) <=> AllSaid(seq, said)
  BY <1>2 DEF SaidBy, AllSaid
<1>6. SaidBy("or", h, n) <=> OneSaid(seq, said)
  BY <1>2 DEF SaidBy, OneSaid
<1> HIDE DEF h, truths
<1>7. Q!_combine(truths, "and") \in T /\ Agrees(Q!_combine(truths, "and"), SaidBy("and", h, n))
  BY <1>2, <1>3, <1>4, CombineAgrees
<1>8. Q!_combine(truths, "or") \in T /\ Agrees(Q!_combine(truths, "or"), SaidBy("or", h, n))
  BY <1>2, <1>3, <1>4, CombineAgrees
<1>9. \A op : GroupTruth(op, seq, truth) = Q!_combine(truths, op)
  BY DEF GroupTruth, truths
<1> QED
  BY <1>5, <1>6, <1>7, <1>8, <1>9 DEF Agrees

\* A level is right if its conditions and the level below are.
LEMMA LevelAgrees ==
  ASSUME NEW T \in TruthSets, NEW row, NEW other, NEW Conds \in SUBSET Q!Conditions,
         \A c \in Conds : /\ Q!_OPS(c.op, row[c.column], c.args) \in T
                          /\ Q!Compare(c.op, other[c.column], c.args) \in BOOLEAN
                          /\ Agrees(Q!_OPS(c.op, row[c.column], c.args),
                                    Q!Compare(c.op, other[c.column], c.args)),
         NEW S, NEW truth, NEW said, Right(T, S, truth, said),
         NEW s, Shaped(s, Conds, S)
  PROVE  /\ Judged("truth", row, truth, s) \in T
         /\ Judged("said", other, said, s) \in BOOLEAN
         /\ Agrees(Judged("truth", row, truth, s), Judged("said", other, said, s))
<1>1. CASE s \in Conds
  <2>1. s \in Q!Conditions
    BY <1>1
  <2> QED
    BY <1>1, <2>1, JudgedCondition
<1>2. CASE s \in [all: Q!Groups(S)]
  <2> DEFINE seq == s.all
             t == GroupTruth("and", seq, truth)
             h == AllSaid(seq, said)
  <2>1. seq \in Q!Groups(S) /\ "all" \in DOMAIN s /\ "any" \notin DOMAIN s /\ "not" \notin DOMAIN s
    BY <1>2
  <2>2. Judged("truth", row, truth, s) = t
    BY <2>1 DEF Judged, GroupTruth
  <2>3. Judged("said", other, said, s) = h
    BY <2>1 DEF Judged, AllSaid
  <2> HIDE DEF seq
  <2>4. t \in T /\ Agrees(t, h)
    BY <2>1, GroupAgrees
  <2>5. h \in BOOLEAN
    BY Zenon DEF AllSaid
  <2> HIDE DEF t, h
  <2> QED
    BY <2>2, <2>3, <2>4, <2>5
<1>3. CASE s \in [any: Q!Groups(S)]
  <2> DEFINE seq == s.any
             t == GroupTruth("or", seq, truth)
             h == OneSaid(seq, said)
  <2>1. seq \in Q!Groups(S) /\ "any" \in DOMAIN s /\ "all" \notin DOMAIN s /\ "not" \notin DOMAIN s
    BY <1>3
  <2>2. Judged("truth", row, truth, s) = t
    BY <2>1 DEF Judged, GroupTruth
  <2>3. Judged("said", other, said, s) = h
    BY <2>1 DEF Judged, OneSaid
  <2> HIDE DEF seq
  <2>4. t \in T /\ Agrees(t, h)
    BY <2>1, GroupAgrees
  <2>5. h \in BOOLEAN
    BY Zenon DEF OneSaid
  <2> HIDE DEF t, h
  <2> QED
    BY <2>2, <2>3, <2>4, <2>5
<1>4. CASE s \in [not: S]
  <2> DEFINE t == Q!Not(truth[s["not"]])
             h == ~said[s["not"]]
  <2>1. s["not"] \in S /\ "not" \in DOMAIN s /\ "all" \notin DOMAIN s /\ "any" \notin DOMAIN s
    BY <1>4
  <2>2. /\ truth[s["not"]] \in T /\ said[s["not"]] \in BOOLEAN
        /\ Agrees(truth[s["not"]], said[s["not"]])
    BY <2>1 DEF Right
  <2>3. t \in T /\ Agrees(t, h)
    BY <2>2, BothAgree
  <2>4. Judged("truth", row, truth, s) = t
    BY <2>1 DEF Judged
  <2>5. Judged("said", other, said, s) = h
    BY <2>1 DEF Judged
  <2>6. h \in BOOLEAN
    BY Zenon
  <2> HIDE DEF t, h
  <2> QED
    BY <2>3, <2>4, <2>5, <2>6
<1> QED
  BY <1>1, <1>2, <1>3, <1>4 DEF Shaped

\* If the truths of conditions are right about what they say, of one row and
\* perhaps another, then the truths of their specs are, however they nest.
THEOREM SpecsAgree ==
  ASSUME NEW T \in TruthSets, NEW row, NEW other, NEW Conds \in SUBSET Q!Conditions,
         \A c \in Conds : /\ Q!_OPS(c.op, row[c.column], c.args) \in T
                          /\ Q!Compare(c.op, other[c.column], c.args) \in BOOLEAN
                          /\ Agrees(Q!_OPS(c.op, row[c.column], c.args),
                                    Q!Compare(c.op, other[c.column], c.args)),
         NEW spec \in Q!SpecsOver(Conds, MaxDepth)
  PROVE  /\ Q!build_expression(spec, row) \in T
         /\ Q!Holds(spec, other) \in BOOLEAN
         /\ Agrees(Q!build_expression(spec, row), Q!Holds(spec, other))
<1>1. PICK g : TruthLevels(g, row)
  BY TruthsExist
<1>2. PICK h : SaidLevels(h, other)
  BY SayingsExist
<1> DEFINE S(d) == Q!SpecsOver(Conds, d)
           P == {d \in 0..MaxDepth : Right(T, S(d), g[d], h[d])}
<1>0. MaxDepth \in Nat
  BY BoundsAssumption
<1>3. \A d \in 0..MaxDepth : S(d) \subseteq Q!SpecsOver(Q!Conditions, d)
  BY SpecsOfMore
<1>4. ASSUME NEW d \in 0..MaxDepth, NEW s \in S(d)
      PROVE  /\ g[d][s] = Judged("truth", row, g[d - 1], s)
             /\ h[d][s] = Judged("said", other, h[d - 1], s)
  <2>1. s \in Q!SpecsOver(Q!Conditions, d)
    BY <1>3
  <2>2. g[d] = Level("truth", row, d, g[d - 1]) /\ h[d] = Level("said", other, d, h[d - 1])
    BY <1>1, <1>2 DEF TruthLevels, SaidLevels, IsLevels
  <2> QED
    BY <2>1, <2>2 DEF Level
<1>5. S(0) = Conds
  BY SpecsGrow
<1>6. \A d \in 1..MaxDepth : \A s \in S(d) : Shaped(s, Conds, S(d - 1))
  BY SpecShapes
<1> HIDE DEF S
<1>7. 0 \in P
  <2>1. 0 \in 0..MaxDepth
    BY <1>0
  <2>2. ASSUME NEW s \in Conds
        PROVE  g[0][s] \in T /\ h[0][s] \in BOOLEAN /\ Agrees(g[0][s], h[0][s])
    <3>1. g[0][s] = Q!_OPS(s.op, row[s.column], s.args)
      BY <1>4, <1>5, <2>1, JudgedCondition
    <3>2. h[0][s] = Q!Compare(s.op, other[s.column], s.args)
      BY <1>4, <1>5, <2>1, JudgedCondition
    <3> QED
      BY <3>1, <3>2
  <2> QED
    BY <1>5, <2>1, <2>2 DEF Right
<1>8. ASSUME NEW d \in P, d < MaxDepth
      PROVE  d + 1 \in P
  <2>1. d + 1 \in 0..MaxDepth /\ d + 1 \in 1..MaxDepth /\ (d + 1) - 1 = d
    BY <1>0, <1>8
  <2>2. Right(T, S(d), g[d], h[d])
    OBVIOUS
  <2>3. ASSUME NEW s \in S(d + 1)
        PROVE  /\ g[d + 1][s] \in T /\ h[d + 1][s] \in BOOLEAN
               /\ Agrees(g[d + 1][s], h[d + 1][s])
    <3>1. Shaped(s, Conds, S(d))
      BY <1>6, <2>1
    <3>2. /\ g[d + 1][s] = Judged("truth", row, g[d], s)
          /\ h[d + 1][s] = Judged("said", other, h[d], s)
      BY <1>4, <2>1
    <3>3. /\ Judged("truth", row, g[d], s) \in T
          /\ Judged("said", other, h[d], s) \in BOOLEAN
          /\ Agrees(Judged("truth", row, g[d], s), Judged("said", other, h[d], s))
      BY <2>2, <3>1, LevelAgrees
    <3> QED
      BY <3>2, <3>3
  <2> QED
    BY <2>1, <2>3 DEF Right
<1>9. P \in SUBSET (0..MaxDepth) /\ \A k \in P : k < MaxDepth => k + 1 \in P
  BY <1>8
<1> HIDE DEF P
<1>10. P = 0..MaxDepth
  BY <1>0, <1>7, <1>9, InductionUpTo
<1>11. MaxDepth \in P
  <2>1. MaxDepth \in 0..MaxDepth
    BY <1>0
  <2> QED
    BY <1>10, <2>1
<1>12. Right(T, S(MaxDepth), g[MaxDepth], h[MaxDepth])
  BY <1>11 DEF P
<1>13. spec \in S(MaxDepth)
  BY DEF S
<1>14. Q!build_expression(spec, row) = g[MaxDepth][spec]
  BY <1>1 DEF TruthLevels
<1>15. Q!Holds(spec, other) = h[MaxDepth][spec]
  BY <1>2 DEF SaidLevels
<1> QED
  BY <1>12, <1>13, <1>14, <1>15 DEF Right

\* A comparison is true or false.
LEMMA CompareType ==
  ASSUME NEW op \in Q!Ops, NEW v, NEW args
  PROVE  Q!Compare(op, v, args) \in BOOLEAN
<1>1. CASE op = "eq"
  <2>1. Q!Compare(op, v, args) = (v = args[1])
    BY <1>1 DEF Q!Compare
  <2> QED
    BY <2>1
<1>2. CASE op = "ne"
  <2>1. Q!Compare(op, v, args) = (v # args[1])
    BY <1>2 DEF Q!Compare
  <2> QED
    BY <2>1
<1>3. CASE op = "gt"
  <2>1. Q!Compare(op, v, args) = (v > args[1])
    BY <1>3 DEF Q!Compare
  <2> QED
    BY <2>1
<1>4. CASE op = "ge"
  <2>1. Q!Compare(op, v, args) = (v >= args[1])
    BY <1>4 DEF Q!Compare
  <2> QED
    BY <2>1
<1>5. CASE op = "lt"
  <2>1. Q!Compare(op, v, args) = (v < args[1])
    BY <1>5 DEF Q!Compare
  <2> QED
    BY <2>1
<1>6. CASE op = "le"
  <2>1. Q!Compare(op, v, args) = (v <= args[1])
    BY <1>6 DEF Q!Compare
  <2> QED
    BY <2>1
<1>7. CASE op = "between"
  <2>1. Q!Compare(op, v, args) = (args[1] <= v /\ v <= args[2])
    BY <1>7 DEF Q!Compare
  <2> QED
    BY <2>1
<1>8. CASE op = "in"
  <2>1. Q!Compare(op, v, args) = (v \in Q!ToSet(args))
    BY <1>8 DEF Q!Compare
  <2> QED
    BY <2>1
<1>9. CASE op = "is_null"
  <2>1. Q!Compare(op, v, args) = (v = Q!Null)
    BY <1>9 DEF Q!Compare
  <2> QED
    BY <2>1
<1>10. CASE op = "is_not_null"
  <2>1. Q!Compare(op, v, args) = (v # Q!Null)
    BY <1>10 DEF Q!Compare
  <2> QED
    BY <2>1
<1> QED
  BY <1>1, <1>2, <1>3, <1>4, <1>5, <1>6, <1>7, <1>8, <1>9, <1>10 DEF Q!Ops

\* Comparisons of columns of a row; those that are never unknown are not.
ComparisonsOf(row) ==
  {c \in Q!Conditions : c.column \in DOMAIN row /\ c.op \notin {"in", "is_null", "is_not_null"}}

\* A spec of comparisons keeps a row only if it holds for whatever its nulls
\* stand for, and a spec of conditions on columns that are not null keeps a row
\* exactly if it holds, however the groups and negations of the spec nest and
\* whatever its columns and values are: build_expression in the three-valued
\* logic of pyarrow.
THEOREM KeptOfSpecs ==
  ASSUME NEW row
  PROVE  /\ \A spec \in Q!SpecsOver(ComparisonsOf(row), MaxDepth) : \A Values :
              Q!Keeps(spec, row) => \A r \in Q!Completions(row, Values) : Q!Holds(spec, r)
         /\ \A Conds \in SUBSET {c \in Q!Conditions : row[c.column] # Q!Null} :
              \A spec \in Q!SpecsOver(Conds, MaxDepth) :
                Q!Keeps(spec, row) <=> Q!Holds(spec, row)
<1>1. ASSUME NEW spec \in Q!SpecsOver(ComparisonsOf(row), MaxDepth), NEW Values,
             Q!Keeps(spec, row), NEW r \in Q!Completions(row, Values)
      PROVE  Q!Holds(spec, r)
  <2> DEFINE Conds == ComparisonsOf(row)
  <2>1. Truths \in TruthSets /\ Conds \in SUBSET Q!Conditions
    BY DEF TruthSets, ComparisonsOf
  <2>2. ASSUME NEW c \in Conds
        PROVE  /\ Q!_OPS(c.op, row[c.column], c.args) \in Truths
               /\ Q!Compare(c.op, r[c.column], c.args) \in BOOLEAN
               /\ Agrees(Q!_OPS(c.op, row[c.column], c.args),
                         Q!Compare(c.op, r[c.column], c.args))
    <3> DEFINE v == row[c.column]
               w == r[c.column]
               said == Q!Compare(c.op, w, c.args)
    <3>1. /\ c.column \in DOMAIN row /\ c.op \in Q!Ops
          /\ c.op \notin {"in", "is_null", "is_not_null"}
      BY DEF ComparisonsOf, Q!Conditions
    <3>2. said \in BOOLEAN
      BY <3>1, CompareType
    <3>3. v # Q!Null => w = v
      BY <3>1 DEF Q!Completions
    <3> HIDE DEF v, w
    <3>4. CASE v = Q!Null
      <4>1. Q!_OPS(c.op, v, c.args) = "unknown"
        BY <3>1, <3>4 DEF Q!_OPS
      <4> QED
        BY <3>2, <4>1 DEF Agrees, Truths, v, w
    <3>5. CASE v # Q!Null
      <4>1. Q!_OPS(c.op, v, c.args) = Q!Tri(said)
        BY <3>1, <3>3, <3>5 DEF Q!_OPS
      <4> HIDE DEF said
      <4>2. Q!_OPS(c.op, v, c.args) \in Truths /\ Agrees(Q!_OPS(c.op, v, c.args), said)
        BY <3>2, <4>1 DEF Agrees, Truths, Q!Tri
      <4> QED
        BY <3>2, <4>2 DEF said, v, w
    <3> QED
      BY <3>4, <3>5
  <2>3. spec \in Q!SpecsOver(Conds, MaxDepth)
    OBVIOUS
  <2> HIDE DEF Conds
  <2>4. Agrees(Q!build_expression(spec, row), Q!Holds(spec, r))
    BY <2>1, <2>2, <2>3, SpecsAgree
  <2> QED
    BY <1>1, <2>4 DEF Agrees, Q!Keeps
<1>2. ASSUME NEW Conds \in SUBSET {c \in Q!Conditions : row[c.column] # Q!Null},
             NEW spec \in Q!SpecsOver(Conds, MaxDepth)
      PROVE  Q!Keeps(spec, row) <=> Q!Holds(spec, row)
  <2> DEFINE T == {"true", "false"}
  <2>1. T \in TruthSets /\ Conds \in SUBSET Q!Conditions
    BY DEF TruthSets
  <2>2. ASSUME NEW c \in Conds
        PROVE  /\ Q!_OPS(c.op, row[c.column], c.args) \in T
               /\ Q!Compare(c.op, row[c.column], c.args) \in BOOLEAN
               /\ Agrees(Q!_OPS(c.op, row[c.column], c.args),
                         Q!Compare(c.op, row[c.column], c.args))
    <3> DEFINE v == row[c.column]
               said == Q!Compare(c.op, v, c.args)
    <3>1. v # Q!Null /\ c.op \in Q!Ops
      BY DEF Q!Conditions
    <3>2. said \in BOOLEAN
      BY <3>1, CompareType
    <3> HIDE DEF v
    <3>3. Q!_OPS(c.op, v, c.args) = Q!Tri(said)
      BY <3>1 DEF Q!_OPS
    <3> HIDE DEF said
    <3>4. Q!_OPS(c.op, v, c.args) \in T /\ Agrees(Q!_OPS(c.op, v, c.args), said)
      BY <3>2, <3>3 DEF Agrees, Q!Tri
    <3> QED
      BY <3>2, <3>4 DEF said, v
  <2> HIDE DEF T
  <2>3. /\ Q!build_expression(spec, row) \in T
        /\ Q!Holds(spec, row) \in BOOLEAN
        /\ Agrees(Q!build_expression(spec, row), Q!Holds(spec, row))
    BY <2>1, <2>2, SpecsAgree
  <2> QED
    BY <2>3 DEF Agrees, T, Q!Keeps
<1> QED
  BY <1>1, <1>2

\* Specs nest no less if they may nest deeper.
LEMMA SpecsDeepen ==
  ASSUME NEW Conds, NEW d \in 0..MaxDepth
  PROVE  Q!SpecsOver(Conds, d) \subseteq Q!SpecsOver(Conds, MaxDepth)
<1> DEFINE S(k) == Q!SpecsOver(Conds, k)
           P == {k \in 0..MaxDepth : d <= k => S(d) \subseteq S(k)}
<1>0. MaxDepth \in Nat /\ d \in Nat
  BY BoundsAssumption
<1>1. ASSUME NEW k \in 0..MaxDepth, k < MaxDepth
      PROVE  S(k) \subseteq S(k + 1)
  <2>1. k + 1 \in 1..MaxDepth /\ (k + 1) - 1 = k
    BY <1>0, <1>1
  <2>2. S(k + 1) = Wider(S((k + 1) - 1))
    BY <2>1, SpecsGrow
  <2> HIDE DEF S
  <2> QED
    BY <2>1, <2>2 DEF Wider
<1> HIDE DEF S
<1>2. 0 \in P
  BY <1>0
<1>3. ASSUME NEW k \in P, k < MaxDepth
      PROVE  k + 1 \in P
  <2>1. k + 1 \in 0..MaxDepth /\ S(k) \subseteq S(k + 1) /\ (d <= k + 1 => d <= k \/ d = k + 1)
    BY <1>0, <1>1, <1>3
  <2> QED
    BY <2>1
<1>4. P \in SUBSET (0..MaxDepth) /\ \A k \in P : k < MaxDepth => k + 1 \in P
  BY <1>3
<1> HIDE DEF P
<1>5. P = 0..MaxDepth
  BY <1>0, <1>2, <1>4, InductionUpTo
<1>6. MaxDepth \in P /\ d <= MaxDepth
  BY <1>0, <1>5
<1> QED
  BY <1>6 DEF P, S

\* A function on 1..n is a sequence.
LEMMA SequenceOfLength ==
  ASSUME NEW X, NEW n \in Nat, NEW s \in [1..n -> X]
  PROVE  s \in Seq(X) /\ Len(s) = n
  OBVIOUS

\* A spec is one of those that nest four deep over the conditions.
LEMMA SpecsNestFour == Specs \subseteq Q!SpecsOver(Conditions, MaxDepth)
<1> DEFINE S(k) == Q!SpecsOver(Conditions, k)
<1>0. MaxDepth \in Nat /\ MaxDepth >= 4
  BY BoundsAssumption
<1>1. /\ S(0) = Conditions /\ S(1) = Wider(S(0)) /\ S(2) = Wider(S(1))
      /\ S(3) = Wider(S(2)) /\ S(4) = Wider(S(3))
  <2>1. 1 \in 1..MaxDepth /\ 2 \in 1..MaxDepth /\ 3 \in 1..MaxDepth /\ 4 \in 1..MaxDepth
    BY <1>0
  <2>2. 1 - 1 = 0 /\ 2 - 1 = 1 /\ 3 - 1 = 2 /\ 4 - 1 = 3
    OBVIOUS
  <2>3. S(0) = Conditions /\ \A d \in 1..MaxDepth : S(d) = Wider(S(d - 1))
    BY SpecsGrow
  <2> HIDE DEF S
  <2> QED
    BY <2>1, <2>2, <2>3
<1>2. S(4) \subseteq S(MaxDepth)
  BY <1>0, SpecsDeepen
<1> HIDE DEF S
<1>3. S(0) \subseteq S(1) /\ S(1) \subseteq S(2) /\ S(2) \subseteq S(3) /\ S(3) \subseteq S(4)
  BY <1>1 DEF Wider
<1>4. \A s \in S(0) : [not |-> s] \in S(1)
  BY <1>1 DEF Wider
<1>5. \A s \in S(2) : [not |-> s] \in S(3)
  BY <1>1 DEF Wider
<1>6. Literals \subseteq S(1)
  BY <1>1, <1>3, <1>4 DEF Literals
<1>7. ASSUME NEW s \in [1..2 -> Literals]
      PROVE  [all |-> s] \in S(2) /\ [any |-> s] \in S(2)
  <2>1. s \in Seq(S(1)) /\ s # <<>>
    <3> DEFINE X == S(1)
    <3>1. s \in [1..2 -> X]
      BY <1>6
    <3> HIDE DEF X
    <3>2. s \in Seq(X) /\ Len(s) = 2
      BY <3>1, SequenceOfLength
    <3>3. s # <<>>
      BY <3>2
    <3> QED
      BY <3>2, <3>3 DEF X
  <2> QED
    BY <1>1, <2>1 DEF Wider, Q!Groups
<1>8. Groups \subseteq S(2)
  BY <1>7 DEF Groups
<1>9. ASSUME NEW c \in Literals, NEW d \in Literals
      PROVE  [any |-> <<c, [all |-> <<d, [not |-> c]>>], d>>] \in S(4)
  <2> DEFINE n == [not |-> c]
             a == [all |-> <<d, n>>]
  <2>1. c \in S(1) /\ d \in S(1) /\ c \in S(2) /\ d \in S(2) /\ c \in S(3) /\ d \in S(3)
    BY <1>3, <1>6
  <2>2. n \in S(2)
    BY <1>1, <2>1 DEF Wider
  <2> HIDE DEF n
  <2>3. <<d, n>> \in Q!Groups(S(2))
    BY <2>1, <2>2 DEF Q!Groups
  <2>4. a \in S(3)
    BY <1>1, <2>3 DEF Wider
  <2> HIDE DEF a
  <2>5. <<c, a, d>> \in Q!Groups(S(3))
    BY <2>1, <2>4 DEF Q!Groups
  <2>6. [any |-> <<c, a, d>>] \in S(4)
    BY <1>1, <2>5 DEF Wider
  <2> QED
    BY <2>6 DEF a, n
<1>10. ASSUME NEW s \in Specs
       PROVE  s \in S(MaxDepth)
  <2>1. CASE s \in Groups
    BY <1>2, <1>3, <1>8, <2>1
  <2>2. CASE s \in {[not |-> g] : g \in Groups}
    BY <1>2, <1>3, <1>5, <1>8, <2>2
  <2>3. CASE s \in {[any |-> <<c, [all |-> <<d, [not |-> c]>>], d>>] :
                      c \in Literals, d \in Literals}
    BY <1>2, <1>9, <2>3
  <2> QED
    BY <2>1, <2>2, <2>3 DEF Specs
<1> QED
  BY <1>10 DEF S

\* The conditions of the calls are conditions, the comparisons comparisons.
LEMMA CallConditions ==
  /\ Conditions \subseteq Q!Conditions
  /\ \A c \in Conditions : c.column \in {"a", "b"}
  /\ \A row \in Rows : Comparisons \subseteq ComparisonsOf(row)
<1>1. <<0>> \in Seq(Int) /\ <<1>> \in Seq(Int) /\ <<0, 0>> \in Seq(Int) /\ <<1, 1>> \in Seq(Int)
      /\ <<>> \in Seq(Int)
  OBVIOUS
<1>2. Comparisons \subseteq Q!Conditions /\ TestsOfNull \subseteq Q!Conditions
  <2>1. {"a", "b"} \subseteq Q!Columns
    BY DEF Q!Columns
  <2>2. {"eq", "ne", "ge", "between", "in", "is_null", "is_not_null"} \subseteq Q!Ops
    BY DEF Q!Ops
  <2>3. [column: {"a", "b"}, op: {"eq", "ne", "ge"}, args: {<<0>>, <<1>>}] \subseteq Q!Conditions
    BY <1>1, <2>1, <2>2 DEF Q!Conditions
  <2>4. [column: {"a"}, op: {"between"}, args: {<<0, 0>>, <<1, 1>>}] \subseteq Q!Conditions
    BY <1>1, <2>1, <2>2 DEF Q!Conditions
  <2>5. [column: {"a"}, op: {"in"}, args: {<<0, 0>>, <<1, 1>>}] \subseteq Q!Conditions
    BY <1>1, <2>1, <2>2 DEF Q!Conditions
  <2>6. [column: {"b"}, op: {"is_null", "is_not_null"}, args: {<<>>}] \subseteq Q!Conditions
    BY <1>1, <2>1, <2>2 DEF Q!Conditions
  <2> QED
    BY <2>3, <2>4, <2>5, <2>6 DEF Comparisons, TestsOfNull
<1>3. \A c \in Comparisons : /\ c.column \in {"a", "b"}
                             /\ c.op \notin {"in", "is_null", "is_not_null"}
  BY DEF Comparisons
<1>4. \A c \in TestsOfNull : c.column \in {"a", "b"}
  BY DEF TestsOfNull
<1>5. \A row \in Rows : DOMAIN row = {"a", "b"}
  BY DEF Rows
<1>6. \A row \in Rows : Comparisons \subseteq ComparisonsOf(row)
  BY <1>2, <1>3, <1>5 DEF ComparisonsOf
<1> QED
  BY <1>2, <1>3, <1>4, <1>6 DEF Conditions

\* A query keeps the rows its spec holds for (KeptIffHolds).
THEOREM KeptSpec == SpecPure => []KeptIffHolds
<1>1. InputOK => KeptIffHolds
  <2> SUFFICES ASSUME InputOK, input.of = "build_expression" PROVE KeptIffHolds
    BY DEF KeptIffHolds
  <2> DEFINE spec == input.arg
  <2>1. spec \in Q!SpecsOver(Conditions, MaxDepth)
    BY SpecsNestFour DEF InputOK
  <2> HIDE DEF spec
  <2>2. MaxDepth \in 0..MaxDepth
    BY BoundsAssumption
  <2>3. ASSUME spec \in Q!SpecsOver(Comparisons, MaxDepth), NEW row \in Rows,
               Q!Keeps(spec, row), NEW r \in Q!Completions(row, {0, 1})
        PROVE  Q!Holds(spec, r)
    <3>1. Comparisons \subseteq ComparisonsOf(row)
      BY CallConditions
    <3>2. Q!SpecsOver(Comparisons, MaxDepth) \subseteq Q!SpecsOver(ComparisonsOf(row), MaxDepth)
      BY <2>2, <3>1, SpecsOfMore
    <3>3. spec \in Q!SpecsOver(ComparisonsOf(row), MaxDepth)
      BY <2>3, <3>2
    <3> QED
      BY <2>3, <3>3, KeptOfSpecs
  <2>4. ASSUME NEW row \in [{"a", "b"} -> {0, 1}]
        PROVE  Q!Keeps(spec, row) <=> Q!Holds(spec, row)
    <3>1. \A c \in Conditions : row[c.column] # Q!Null
      <4>1. \A c \in Conditions : row[c.column] \in {0, 1}
        BY CallConditions
      <4>2. 0 # Q!Null /\ 1 # Q!Null
        BY DEF Q!Null
      <4> QED
        BY <4>1, <4>2
    <3>2. Conditions \in SUBSET {c \in Q!Conditions : row[c.column] # Q!Null}
      BY <3>1, CallConditions
    <3> QED
      BY <2>1, <3>2, KeptOfSpecs
  <2> QED
    BY <2>3, <2>4 DEF KeptIffHolds, spec
<1> QED
  BY <1>1, InputIsOK, PTL

\* Groups of two.
LEMMA CombineTwo ==
  ASSUME NEW a \in Truths, NEW b \in Truths, NEW op
  PROVE  Q!_combine(<<a, b>>, op) = Both(a, b, op)
<1>1. HasCombineTurns(1, <<a, b>>, op)
  <2>1. <<a, b>> \in [1..(1 + 1) -> Truths]
    OBVIOUS
  <2> QED
    BY <2>1, CombineLoop
<1>2. PICK f \in [0..1 -> Truths] :
        /\ f[0] = <<a, b>>[1] /\ Q!_combine(<<a, b>>, op) = f[1]
        /\ \A k \in 1..1 : f[k] = Both(f[k - 1], <<a, b>>[k + 1], op)
  BY <1>1 DEF HasCombineTurns
<1>3. f[1] = Both(f[0], b, op)
  <2>1. 1 \in 1..1 /\ 1 - 1 = 0 /\ <<a, b>>[1 + 1] = b
    OBVIOUS
  <2> QED
    BY <1>2, <2>1
<1> QED
  BY <1>2, <1>3

\* Groups of three.
LEMMA CombineThree ==
  ASSUME NEW a \in Truths, NEW b \in Truths, NEW c \in Truths, NEW op
  PROVE  Q!_combine(<<a, b, c>>, op) = Both(Both(a, b, op), c, op)
<1>1. HasCombineTurns(2, <<a, b, c>>, op)
  <2>1. <<a, b, c>> \in [1..(2 + 1) -> Truths]
    OBVIOUS
  <2> QED
    BY <2>1, CombineLoop
<1>2. PICK g \in [0..2 -> Truths] :
        /\ g[0] = <<a, b, c>>[1] /\ Q!_combine(<<a, b, c>>, op) = g[2]
        /\ \A k \in 1..2 : g[k] = Both(g[k - 1], <<a, b, c>>[k + 1], op)
  BY <1>1 DEF HasCombineTurns
<1>3. g[1] = Both(g[0], b, op) /\ g[2] = Both(g[1], c, op)
  <2>1. /\ 1 \in 1..2 /\ 1 - 1 = 0 /\ <<a, b, c>>[1 + 1] = b
        /\ 2 \in 1..2 /\ 2 - 1 = 1 /\ <<a, b, c>>[2 + 1] = c
    OBVIOUS
  <2> QED
    BY <1>2, <2>1
<1> QED
  BY <1>2, <1>3

\* The truth of a column having a value.
IsTruth(row, column, value) ==
  IF row[column] = Q!Null THEN "unknown" ELSE Q!Tri(row[column] = value)

\* It is a truth.
LEMMA IsTruthType ==
  ASSUME NEW row, NEW column, NEW value
  PROVE  IsTruth(row, column, value) \in Truths
  BY DEF IsTruth, Truths, Q!Tri

\* What the specs of the renderers test, at any level.
LEMMA TestsAreConditions ==
  ASSUME NEW column \in {"event", "job_status", "job_conclusion"}, NEW value \in {0, 1, 2}
  PROVE  /\ Q!Is(column, value) \in Q!Conditions
         /\ \A row, below : Judged("truth", row, below, Q!Is(column, value))
                              = IsTruth(row, column, value)
<1> DEFINE s == Q!Is(column, value)
<1>1. <<value>> \in Seq(Int) /\ <<value>>[1] = value
  OBVIOUS
<1>2. column \in Q!Columns /\ "eq" \in Q!Ops
  BY DEF Q!Columns, Q!Ops
<1>3. s.op = "eq" /\ s.column = column /\ s.args = <<value>>
  BY DEF Q!Is
<1>4. s \in Q!Conditions
  BY <1>1, <1>2 DEF Q!Is, Q!Conditions
<1> HIDE DEF s
<1>5. ASSUME NEW row, NEW below
      PROVE  Judged("truth", row, below, s) = IsTruth(row, column, value)
  <2>1. Judged("truth", row, below, s) = Q!_OPS("eq", row[column], <<value>>)
    BY <1>3, <1>4, JudgedCondition
  <2>2. Q!Compare("eq", row[column], <<value>>) = (row[column] = value)
    BY <1>1 DEF Q!Compare
  <2> QED
    BY <2>1, <2>2 DEF Q!_OPS, IsTruth
<1> QED
  BY <1>4, <1>5 DEF s

\* What job-durations and merge-group-failures keep.
LEMMA RendererTruths ==
  ASSUME NEW row
  PROVE  /\ Q!build_expression(Q!job_durations, row)
              = Q!Or(Q!And(IsTruth(row, "job_status", 2), IsTruth(row, "job_conclusion", 0)),
                     IsTruth(row, "job_status", 1))
         /\ Q!build_expression(Q!merge_group_failures, row)
              = Q!And(Q!And(IsTruth(row, "event", 0), IsTruth(row, "job_status", 2)),
                      IsTruth(row, "job_conclusion", 1))
<1>1. PICK g : TruthLevels(g, row)
  BY TruthsExist
<1> DEFINE S(d) == Q!SpecsOver(Q!Conditions, d)
           n == MaxDepth - 1
           l == MaxDepth - 2
           a == Q!Is("job_status", 2)
           b == Q!Is("job_conclusion", 0)
           c == Q!Is("job_status", 1)
           e == Q!Is("event", 0)
           f == Q!Is("job_conclusion", 1)
           ta == IsTruth(row, "job_status", 2)
           tb == IsTruth(row, "job_conclusion", 0)
           tc == IsTruth(row, "job_status", 1)
           te == IsTruth(row, "event", 0)
           tf == IsTruth(row, "job_conclusion", 1)
           ab == [all |-> <<a, b>>]
           drawn == [any |-> <<ab, c>>]
           failed == [all |-> <<e, a, f>>]
<1>0. /\ MaxDepth \in Nat /\ n \in 0..MaxDepth /\ l \in 0..MaxDepth /\ MaxDepth \in 0..MaxDepth
      /\ n \in 1..MaxDepth /\ MaxDepth \in 1..MaxDepth /\ n - 1 = l /\ l \in Nat
  BY BoundsAssumption
<1>2. Q!job_durations = drawn /\ Q!merge_group_failures = failed
  BY DEF Q!job_durations, Q!merge_group_failures, Q!completed, Q!in_progress, Q!success,
         Q!failure, Q!merge_group
<1>3. S(0) = Q!Conditions /\ \A d \in 1..MaxDepth : S(d) = Wider(S(d - 1))
  BY SpecsGrow
<1>4. ASSUME NEW d \in 0..MaxDepth, NEW s \in S(d)
      PROVE  g[d][s] = Judged("truth", row, g[d - 1], s)
  <2>1. g[d] = Level("truth", row, d, g[d - 1])
    BY <1>1 DEF TruthLevels, IsLevels
  <2> QED
    BY <2>1 DEF Level
<1>5. \A s : Q!build_expression(s, row) = g[MaxDepth][s]
  BY <1>1 DEF TruthLevels
<1>6. Q!Conditions \subseteq S(l)
  <2> DEFINE k == MaxDepth
  <2>1. \A d \in 0..k : Q!Conditions \subseteq S(d)
    <3> DEFINE P == {d \in 0..k : Q!Conditions \subseteq S(d)}
    <3> HIDE DEF S
    <3>1. 0 \in P
      BY <1>0, <1>3
    <3>2. ASSUME NEW d \in P, d < k
          PROVE  d + 1 \in P
      <4>1. d + 1 \in 0..k /\ d + 1 \in 1..k /\ (d + 1) - 1 = d
        BY <1>0, <3>2
      <4>2. S(d + 1) = Wider(S(d))
        BY <1>3, <4>1
      <4>3. S(d) \subseteq S(d + 1)
        BY <4>2 DEF Wider
      <4> QED
        BY <4>1, <4>3
    <3>3. P \in SUBSET (0..k) /\ \A d \in P : d < k => d + 1 \in P
      BY <3>2
    <3> HIDE DEF P
    <3>4. P = 0..k
      BY <1>0, <3>1, <3>3, InductionUpTo
    <3> QED
      BY <3>4 DEF P
  <2> HIDE DEF S, l
  <2> QED
    BY <1>0, <2>1
<1> HIDE DEF S
<1>7. S(n) = Wider(S(l)) /\ S(MaxDepth) = Wider(S(n))
  <2>1. S(n) = Wider(S(n - 1)) /\ S(MaxDepth) = Wider(S(MaxDepth - 1))
    BY <1>0, <1>3
  <2> QED
    BY <1>0, <2>1
<1>8. {a, b, c, e, f} \subseteq Q!Conditions
  BY TestsAreConditions
<1>9. \A below : /\ Judged("truth", row, below, a) = ta /\ Judged("truth", row, below, b) = tb
                 /\ Judged("truth", row, below, c) = tc /\ Judged("truth", row, below, e) = te
                 /\ Judged("truth", row, below, f) = tf
  BY TestsAreConditions
<1>10. ta \in Truths /\ tb \in Truths /\ tc \in Truths /\ te \in Truths /\ tf \in Truths
  BY IsTruthType
<1> HIDE DEF a, b, c, e, f, ta, tb, tc, te, tf
<1>11. {a, b, c, e, f} \subseteq S(l) /\ {a, b, c, e, f} \subseteq S(n)
  BY <1>6, <1>7, <1>8 DEF Wider
<1>12. ab \in S(n)
  <2>1. <<a, b>> \in Q!Groups(S(l))
    BY <1>11 DEF Q!Groups
  <2> QED
    BY <1>7, <2>1 DEF Wider
<1>13. failed \in S(MaxDepth)
  <2>1. <<e, a, f>> \in Q!Groups(S(n))
    BY <1>11 DEF Q!Groups
  <2> QED
    BY <1>7, <2>1 DEF Wider
<1>14. g[l][a] = ta /\ g[l][b] = tb
  BY <1>0, <1>4, <1>9, <1>11
<1>15. g[n][a] = ta /\ g[n][c] = tc /\ g[n][e] = te /\ g[n][f] = tf
  BY <1>0, <1>4, <1>9, <1>11
<1>16. g[n][ab] = Q!And(ta, tb)
  <2>1. g[n][ab] = Judged("truth", row, g[l], ab)
    BY <1>0, <1>4, <1>12
  <2>2. Judged("truth", row, g[l], ab) = GroupTruth("and", <<a, b>>, g[l])
    <3>1. "all" \in DOMAIN ab /\ "any" \notin DOMAIN ab /\ "not" \notin DOMAIN ab
          /\ ab.all = <<a, b>>
      OBVIOUS
    <3> HIDE DEF ab
    <3> QED
      BY <3>1 DEF Judged, GroupTruth
  <2>3. [k \in DOMAIN <<a, b>> |-> g[l][<<a, b>>[k]]] = <<ta, tb>>
    BY <1>14
  <2>4. Q!_combine(<<ta, tb>>, "and") = Q!And(ta, tb)
    BY <1>10, CombineTwo DEF Both
  <2> QED
    BY <2>1, <2>2, <2>3, <2>4 DEF GroupTruth
<1> DEFINE tab == Q!And(ta, tb)
<1>17. tab \in Truths
  BY DEF Q!And, Truths
<1> HIDE DEF ab, tab
<1>18. drawn \in S(MaxDepth)
  <2>1. <<ab, c>> \in Q!Groups(S(n))
    BY <1>11, <1>12 DEF Q!Groups
  <2> QED
    BY <1>7, <2>1 DEF Wider
<1>19. g[MaxDepth][drawn] = Q!Or(tab, tc)
  <2>1. g[MaxDepth][drawn] = Judged("truth", row, g[n], drawn)
    BY <1>0, <1>4, <1>18
  <2>2. Judged("truth", row, g[n], drawn) = GroupTruth("or", <<ab, c>>, g[n])
    <3>1. "any" \in DOMAIN drawn /\ "all" \notin DOMAIN drawn /\ "not" \notin DOMAIN drawn
          /\ drawn.any = <<ab, c>>
      OBVIOUS
    <3> HIDE DEF drawn
    <3> QED
      BY <3>1 DEF Judged, GroupTruth
  <2>3. [k \in DOMAIN <<ab, c>> |-> g[n][<<ab, c>>[k]]] = <<tab, tc>>
    BY <1>15, <1>16 DEF tab
  <2>4. Q!_combine(<<tab, tc>>, "or") = Q!Or(tab, tc)
    <3>1. Q!_combine(<<tab, tc>>, "or") = Both(tab, tc, "or")
      BY <1>10, <1>17, CombineTwo
    <3> QED
      BY <3>1 DEF Both
  <2> QED
    BY <2>1, <2>2, <2>3, <2>4 DEF GroupTruth
<1>20. g[MaxDepth][failed] = Q!And(Q!And(te, ta), tf)
  <2>1. g[MaxDepth][failed] = Judged("truth", row, g[n], failed)
    BY <1>0, <1>4, <1>13
  <2>2. Judged("truth", row, g[n], failed) = GroupTruth("and", <<e, a, f>>, g[n])
    <3>1. "all" \in DOMAIN failed /\ "any" \notin DOMAIN failed /\ "not" \notin DOMAIN failed
          /\ failed.all = <<e, a, f>>
      OBVIOUS
    <3> HIDE DEF failed
    <3> QED
      BY <3>1 DEF Judged, GroupTruth
  <2>3. [k \in DOMAIN <<e, a, f>> |-> g[n][<<e, a, f>>[k]]] = <<te, ta, tf>>
    BY <1>15
  <2>4. Q!_combine(<<te, ta, tf>>, "and") = Q!And(Q!And(te, ta), tf)
    BY <1>10, CombineThree DEF Both
  <2> QED
    BY <2>1, <2>2, <2>3, <2>4 DEF GroupTruth
<1> QED
  BY <1>2, <1>5, <1>19, <1>20 DEF ta, tb, tc, te, tf, tab

\* The jobs job-durations and merge-group-failures keep.
LEMMA RenderersKeep ==
  ASSUME NEW row, row.job_status \in {0, 1, 2}, row.job_conclusion \in {Q!Null, 0, 1},
         row.event \in {0, 1}
  PROVE  /\ Q!Keeps(Q!job_durations, row) <=>
              (row.job_status = 2 /\ row.job_conclusion = 0) \/ row.job_status = 1
         /\ Q!Keeps(Q!merge_group_failures, row) <=>
              row.event = 0 /\ row.job_status = 2 /\ row.job_conclusion = 1
<1>0. Q!Null = -1000
  BY DEF Q!Null
<1>1. /\ IsTruth(row, "job_status", 2) = IF row.job_status = 2 THEN "true" ELSE "false"
      /\ IsTruth(row, "job_status", 1) = IF row.job_status = 1 THEN "true" ELSE "false"
      /\ IsTruth(row, "event", 0) = IF row.event = 0 THEN "true" ELSE "false"
  BY <1>0 DEF IsTruth, Q!Tri
<1>2. \A v \in {0, 1} : /\ IsTruth(row, "job_conclusion", v) \in Truths
                        /\ IsTruth(row, "job_conclusion", v) = "true" <=> row.job_conclusion = v
  BY <1>0 DEF IsTruth, Q!Tri, Truths
<1>3. \A x, y \in Truths : /\ Q!And(x, y) \in Truths
                           /\ Q!And(x, y) = "true" <=> x = "true" /\ y = "true"
                           /\ Q!Or(x, y) = "true" <=> x = "true" \/ y = "true"
  BY DEF Q!And, Q!Or, Q!Not, Truths
<1> DEFINE s2 == IsTruth(row, "job_status", 2)
           s1 == IsTruth(row, "job_status", 1)
           e == IsTruth(row, "event", 0)
           c0 == IsTruth(row, "job_conclusion", 0)
           c1 == IsTruth(row, "job_conclusion", 1)
<1>4. /\ s2 \in Truths /\ s1 \in Truths /\ e \in Truths /\ c0 \in Truths /\ c1 \in Truths
      /\ s2 = "true" <=> row.job_status = 2
      /\ s1 = "true" <=> row.job_status = 1
      /\ e = "true" <=> row.event = 0
      /\ c0 = "true" <=> row.job_conclusion = 0
      /\ c1 = "true" <=> row.job_conclusion = 1
  BY <1>1, <1>2 DEF Truths
<1>5. /\ Q!build_expression(Q!job_durations, row) = Q!Or(Q!And(s2, c0), s1)
      /\ Q!build_expression(Q!merge_group_failures, row) = Q!And(Q!And(e, s2), c1)
  BY RendererTruths
<1> HIDE DEF s1, s2, e, c0, c1
<1> QED
  BY <1>3, <1>4, <1>5 DEF Q!Keeps

\* The jobs of job-durations are running or have succeeded, and those of
\* merge-group-failures have failed (DurationsAreOfJobsThatRan).
THEOREM DurationsSpec == SpecPure => []DurationsAreOfJobsThatRan
<1>1. InputOK => DurationsAreOfJobsThatRan
  <2> SUFFICES ASSUME InputOK, input.of = "job_durations" PROVE DurationsAreOfJobsThatRan
    BY DEF DurationsAreOfJobsThatRan
  <2> DEFINE arg == input.arg
             job == arg.job
             fresh == D!FreshRow(job, arg.now)
             OrNull(v) == IF v = D!Null THEN Q!Null ELSE v
             row == [job_status |-> CASE job.status = "queued" -> Q!queued
                                      [] job.status = "in_progress" -> Q!in_progress
                                      [] OTHER -> Q!completed,
                     job_conclusion |-> IF job.status = "completed" THEN arg.conclusion
                                        ELSE Q!Null,
                     event |-> arg.event,
                     job_started_at |-> OrNull(job.started),
                     job_active_duration_sec |-> OrNull(fresh.active)]
             ran == job.started # D!Null /\ (job.status = "completed" => fresh.duration # D!Null)
  <2>1. /\ job \in RawJobs /\ arg.now \in 0..MaxTime
        /\ arg.conclusion \in {0, 1} /\ arg.event \in {0, 1}
    BY DEF InputOK, JobRows, Q!success, Q!failure, Q!merge_group
  <2>2. /\ job.started \in RawTimes /\ job.completed \in RawTimes
        /\ job.status \in {"queued", "in_progress", "completed"}
        /\ job.completed # D!Null => job.status = "completed"
    BY <2>1 DEF RawJobs
  <2>3. D!Null = -1000 /\ Q!Null = -1000 /\ MaxTime \in Nat /\ MaxTime < 1000
    BY BoundsAssumption DEF D!Null, Q!Null
  <2> HIDE DEF arg
  <2>4. /\ row.job_status = IF job.status = "queued" THEN 0
                            ELSE IF job.status = "in_progress" THEN 1 ELSE 2
        /\ row.job_conclusion = IF job.status = "completed" THEN arg.conclusion ELSE Q!Null
        /\ row.event = arg.event
        /\ row.job_active_duration_sec = OrNull(fresh.active)
    BY <2>2 DEF Q!queued, Q!in_progress, Q!completed
  <2>5. /\ fresh.duration = D!_duration_seconds(job.started, job.completed)
        /\ fresh.active = IF fresh.duration # D!Null THEN fresh.duration
                          ELSE IF job.started = D!Null \/ job.status = "completed" THEN D!Null
                          ELSE arg.now - job.started
    BY DEF D!FreshRow, D!calculate_job_active_duration_in_seconds
  <2>6. fresh.duration # D!Null => job.completed # D!Null /\ job.started # D!Null
    BY <2>5 DEF D!_duration_seconds
  <2>7. job.started # D!Null => arg.now - job.started # D!Null
    BY <2>1, <2>2, <2>3 DEF RawTimes
  <2>8. OrNull(fresh.active) # Q!Null <=> fresh.active # D!Null
    BY <2>3
  <2> HIDE DEF fresh, row, job, OrNull
  <2>9. /\ Q!Keeps(Q!job_durations, row) <=>
             (row.job_status = 2 /\ row.job_conclusion = 0) \/ row.job_status = 1
        /\ Q!Keeps(Q!merge_group_failures, row) <=>
             row.event = 0 /\ row.job_status = 2 /\ row.job_conclusion = 1
    <3>1. /\ row.job_status \in {0, 1, 2} /\ row.job_conclusion \in {Q!Null, 0, 1}
          /\ row.event \in {0, 1}
      BY <2>1, <2>4
    <3> QED
      BY <3>1, RenderersKeep
  <2>10. /\ Q!Keeps(Q!job_durations, row) <=>
              (job.status = "completed" /\ arg.conclusion = 0) \/ job.status = "in_progress"
         /\ Q!Keeps(Q!merge_group_failures, row) =>
              job.status = "completed" /\ arg.conclusion = 1
    BY <2>2, <2>4, <2>9
  <2>11. fresh.active # D!Null <=>
           job.started # D!Null /\ (job.status = "completed" => fresh.duration # D!Null)
    BY <2>2, <2>5, <2>6, <2>7
  <2>12. Q!DrawnInDurations(row) <=>
           /\ ran /\ job.status # "queued"
           /\ job.status = "completed" => arg.conclusion = Q!success
    BY <2>2, <2>4, <2>8, <2>10, <2>11 DEF Q!DrawnInDurations, Q!success
  <2>13. Q!DrawnInFailures(row) => job.status = "completed" /\ arg.conclusion = Q!failure
    BY <2>10 DEF Q!DrawnInFailures, Q!failure
  <2> QED
    BY <2>12, <2>13, Zenon
       DEF DurationsAreOfJobsThatRan, arg, job, fresh, row, OrNull, ran
<1> QED
  BY <1>1, InputIsOK, PTL
=============================================================================
