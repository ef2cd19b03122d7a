---------------------------- MODULE JobDurations ----------------------------
(***************************************************************************)
(* The two duration columns of a job: as sync computes them when it writes *)
(* the row, and as `cimon repair-cache' recomputes them from the row       *)
(* (repair_job_durations of workflows/synch.py).                           *)
(***************************************************************************)
EXTENDS Integers

Null == -1000   \* below every time and every duration

_duration_seconds(started, completed) ==
  IF Null \in {started, completed} \/ completed < started THEN Null ELSE completed - started

\* Mutant: the time of a completed job that has no duration is still taken.
ActiveWithoutDuration(job, as_of) ==
  LET duration == _duration_seconds(job.started, job.completed) IN
  IF duration # Null THEN duration
  ELSE IF job.started = Null THEN Null
  ELSE as_of - job.started

calculate_job_active_duration_in_seconds(job, as_of) ==
  LET duration == _duration_seconds(job.started, job.completed) IN
  IF duration # Null THEN duration
  ELSE IF job.started = Null \/ job.status = "completed" THEN Null
  ELSE as_of - job.started

\* The row of a job seen at time as_of.
FreshRow(job, as_of) ==
  [job |-> job, duration |-> _duration_seconds(job.started, job.completed),
   active |-> calculate_job_active_duration_in_seconds(job, as_of)]

\* Mutant: only a job with a duration gets its active duration repaired.
RepairFinishedOnly(row) ==
  LET duration == _duration_seconds(row.job.started, row.job.completed) IN
  [row EXCEPT !.duration = duration, !.active = IF duration # Null THEN duration ELSE @]

repair_job_durations(row) ==
  LET duration == _duration_seconds(row.job.started, row.job.completed) IN
  [row EXCEPT
     !.duration = duration,
     !.active = IF duration # Null THEN duration
                ELSE IF row.job.status = "completed" \/ row.job.started = Null THEN Null
                ELSE @]

-----------------------------------------------------------------------------
\* However wrong the clock of the machine that syncs, the active time of a job
\* is wrong only while it runs, and by as much: between two syncs it grows
\* with time, and once the job is completed it is what GitHub reports, at every
\* later sync, and nothing for a job that never ran.  Observation o is of a job
\* seen at two times, by a clock that is wrong by o.skew.
ClockErrorsDoNotLast(o) ==
  LET Done(t) == o.completed # Null /\ o.completed <= t
      Seen(t) == [started |-> o.started,
                  completed |-> IF Done(t) THEN o.completed ELSE Null,
                  status |-> IF Done(t) THEN "completed" ELSE "in_progress"]
      Active(t) == calculate_job_active_duration_in_seconds(Seen(t), t + o.skew)
      a == o.seen[1]
      b == o.seen[2]
  IN /\ ~Done(b) => Active(b) - Active(a) = b - a
     /\ Done(a) => Active(b) = Active(a)
     /\ Done(b) => Active(b) = IF o.completed < o.started THEN Null
                               ELSE o.completed - o.started
     /\ ~Done(a) /\ Done(b) => Active(b) >= Active(a) - o.skew

\* Whatever durations an old version left in a row, repair-cache gives it the
\* ones a sync would give it now; it leaves alone only the time of a job that
\* still runs, and changes nothing in a row that a sync has just written.
RepairAgreesWithSync(row, now) ==
  LET fresh == FreshRow(row.job, now)
      runs == row.job.status # "completed" /\ row.job.started # Null
  IN /\ repair_job_durations(row) = IF runs THEN [fresh EXCEPT !.active = row.active]
                                    ELSE fresh
     /\ repair_job_durations(fresh) = fresh
=============================================================================
