--------------------------- MODULE PureFunctions ---------------------------
(***************************************************************************)
(* The functions of the project that keep no state: a call takes one input *)
(* out of a bounded set, and the function's result is compared with a      *)
(* definition of what it is for.                                           *)
(***************************************************************************)
EXTENDS RunTimeline

CONSTANTS
  MaxJobs,     \* bound: jobs of a run
  MaxTime,     \* bound: times in a job row, and how far a clock is wrong
  MaxBuilds,   \* bound: builds of a job's log, and entries of an input
  MaxLines,    \* bound: lines of a log
  MaxArgs,     \* bound: arguments of a command line
  MaxDiskLines,\* bound: lines of interest of a job's log, in the disk report
  MaxDepth     \* bound: how deep the groups and negations of a filter spec nest

L == INSTANCE BuildLog
D == INSTANCE JobDurations
B == INSTANCE BuildTrend
M == INSTANCE LogMatches
R == INSTANCE DiskReport
V == INSTANCE Visualize
Q == INSTANCE JobSpecs

\* A null is no time and no duration; the specs of the calls nest four deep.
ASSUME BoundsAssumption ==
  /\ {MaxJobs, MaxTime, MaxBuilds, MaxLines, MaxArgs, MaxDiskLines, MaxDepth} \subseteq Nat
  /\ MaxTime < -D!Null
  /\ MaxDepth >= 4

VARIABLE input   \* the function called, and its argument

-----------------------------------------------------------------------------
(* Inputs.                                                                 *)

JobTables == UNION {[1..n -> {Prepared(r) : r \in Reported}] : n \in 1..MaxJobs}

RawTimes == 0..MaxTime \cup {D!Null}
RawJobs ==
  {j \in [started: RawTimes, completed: RawTimes, status: {"queued", "in_progress", "completed"}] :
     j.completed # D!Null => j.status = "completed"}
OldDurations == -1..MaxTime \cup {D!Null}
StoredRows == [job: RawJobs, duration: OldDurations, active: OldDurations]

\* A job seen twice, running or completed, by a clock that is wrong by `skew'.
Observations ==
  {o \in [started: 0..MaxTime, completed: RawTimes, seen: (0..MaxTime) \X (0..MaxTime),
          skew: -MaxTime..MaxTime] : o.started <= o.seen[1] /\ o.seen[1] <= o.seen[2]}

Builds == [targets: {<<>>, <<2, 1>>}, config: {1, 2}, info_missing: BOOLEAN]
Entries == BoundedSeq([job: {1, 2}, runner: {0, 1}], MaxBuilds)
BuildLists == [entries: Entries, builds: [{1, 2} -> BoundedSeq(Builds, MaxBuilds)]]

\* One log of any kind, or several with a runner and two samples each.
TwoSamples(r, b, a, t) ==
  [lines |-> <<[kind |-> "runner", value |-> r], [kind |-> "df", value |-> b],
               [kind |-> "df", value |-> a]>>, at |-> t]
PlainLogs ==
  {TwoSamples(r, b, a, t) : r \in {"r1", "r2"}, b \in 1..3, a \in 1..3, t \in {1, 3}}
    \cup {TwoSamples("r1", R!Unreadable, 1, 1), TwoSamples("r2", 1, R!Unreadable, 1)}
DiskReports ==
  [1..1 -> [lines: BoundedSeq(R!Lines, MaxDiskLines), at: {1}]] \cup BoundedSeq(PlainLogs, 3)

LogTables ==
  [rows: BoundedSeq([job: 0..2], 4), logs: [{1, 2} -> M!Logs], clear_logs: BOOLEAN]

Visualizations ==
  [names: BoundedSeq(V!Names, 2) \ {<<>>}, cache: V!Caches, viz: BOOLEAN,
   params: {p \in V!Params : p.run_url # "good" => p.run = 1 /\ p.attempt = 0}]

\* Conditions on two columns, and specs that nest them.
Comparisons ==
  [column: {"a", "b"}, op: {"eq", "ne", "ge"}, args: {<<0>>, <<1>>}]
    \cup [column: {"a"}, op: {"between"}, args: {<<0, 0>>, <<1, 1>>}]
TestsOfNull ==
  [column: {"a"}, op: {"in"}, args: {<<0, 0>>, <<1, 1>>}]
    \cup [column: {"b"}, op: {"is_null", "is_not_null"}, args: {<<>>}]
Conditions == Comparisons \cup TestsOfNull
Literals == Conditions \cup {[not |-> c] : c \in Conditions}
Groups ==
  {[all |-> s] : s \in [1..2 -> Literals]} \cup {[any |-> s] : s \in [1..2 -> Literals]}
Specs ==
  Groups \cup {[not |-> g] : g \in Groups} \cup {[any |-> <<c, [all |-> <<d, [not |-> c]>>], d>>] :
                                                 c \in Literals, d \in Literals}
Rows == [{"a", "b"} -> {0, 1, Q!Null}]

JobRows ==
  [job: RawJobs, now: 0..MaxTime,
   conclusion: {Q!success, Q!failure}, event: {Q!merge_group, 1}]

Call(of, args) == input.of = "nothing" /\ \E x \in args : input' = [of |-> of, arg |-> x]

CallTimeline == Call("render", JobTables)
CallParseLog == Call("parse_log", BoundedSeq(L!LineKinds, MaxLines))
CallParseArgs == Call("parse_bazel_build_args", BoundedSeq(L!ArgKinds, MaxArgs))
CallRepair == Call("repair_job_durations", StoredRows)
CallObserve == Call("calculate_job_active_duration_in_seconds", Observations)
CallTrend == Call("render_hit_rate_trend", BuildLists)
CallDiskReport == Call("build_markdown", DiskReports)
CallDownloadLogs == Call("download_logs", LogTables)
CallVisualize == Call("visualize", Visualizations)
CallQuery == Call("build_expression", Specs)
CallDrawJobs == Call("job_durations", JobRows)

InitPure == input = [of |-> "nothing"]
NextPure ==
  \/ CallTimeline \/ CallParseLog \/ CallParseArgs \/ CallRepair
  \/ CallObserve \/ CallTrend \/ CallDiskReport \/ CallDownloadLogs \/ CallVisualize
  \/ CallQuery \/ CallDrawJobs
SpecPure == InitPure /\ [][NextPure]_input

-----------------------------------------------------------------------------
(* Properties of the timeline of a run.                                    *)

InOrder(spans) == \A s \in spans : s[1] <= s[2]

\* The minutes a stage was running, or waiting, are those that at least one of
\* its jobs covers, however its jobs overlap, nest and touch; and they are no
\* more than the run has, whether it is measured from its creation or, in a
\* later attempt, from its first job.  (A job that ended before its start takes
\* time away: see the README.)
StageTimesAreCovered ==
  input.of = "render" =>
    LET jobs == input.arg
        Covered(total, spans) == InOrder(spans) => total = Cardinality(CoveredMinutes(spans))
    IN \A S \in (SUBSET DOMAIN jobs) \ {{}}, attempt \in {1, 2},
          created \in 0..Min({jobs[j].eligible : j \in DOMAIN jobs}) :
         LET stage == stage_contribution(jobs, S, wall_minutes(jobs, attempt, created))
             group == [j \in S |-> jobs[j]]
         IN /\ Covered(stage.wall, Running(group))
            /\ Covered(stage.queue_wall, Waiting(group))
            /\ InOrder(Waiting(jobs)) => stage.wall <= stage.of
            /\ InOrder(Running(jobs)) => stage.queue_wall <= stage.of

\* The loop of critical_path ends, after at most one turn per job, and never
\* takes a job twice, although `gap' lets a job overlap the one after it; and
\* the jobs it takes fit one after the other into the time of the run, so that
\* the path is no longer than the run, up to these overlaps.  That is, where no
\* job was created after its start: such a job can precede itself (see the
\* README).
PathIsAChain ==
  input.of = "render" /\ InOrder(Waiting(input.arg)) =>
    LET jobs == input.arg
        path == PathAfter(jobs, Len(jobs))
        first == jobs[Last(path)]
        last == jobs[path[1]]
    IN /\ IsInjective(path) /\ Candidates(jobs, Last(path)) = {}
       /\ PathLength(jobs, path)
            <= Max({last.start, last.end}) - first.eligible + Gap * (Len(path) - 1)

-----------------------------------------------------------------------------
(* Properties of the reading of logs.                                      *)

\* The numbers of a set in their order: the k-th has k - 1 before it.
Sorted(S) ==
  [k \in 1..Cardinality(S) |-> CHOOSE n \in S : Cardinality({m \in S : m < n}) = k - 1]

\* There is one entry per `bazel build' line of a log, in their order; it has
\* the last BuildBuddy link and the last cache-hit line before the next build
\* line, and none from another build's lines.
EntriesMatchLog ==
  input.of = "parse_log" =>
    LET log == input.arg IN
    L!parse_log(log) =
      [k \in 1..Cardinality({n \in DOMAIN log : log[n] = "build"}) |->
         LET b == Sorted({n \in DOMAIN log : log[n] = "build"})[k] IN
         [build |-> b, link |-> L!LastOfKind(log, b, "link"),
          info |-> L!LastOfKind(log, b, "info")]]

\* The targets and configs of a command line are the ones Bazel would take:
\* no value of a flag is taken for a target or a flag, and none is lost.  (The
\* configs after a target pattern file are: see the README.)  The loop ends,
\* with the result or in refusing the line.
ArgsAreReadAsBazelDoes ==
  input.of = "parse_bazel_build_args" =>
    LET args == input.arg
        end == L!parse_bazel_build_args(args)
        files == L!Files(args)
    IN /\ end.pc # "parsing"
       /\ end.pc = "returned" =>
            /\ end.targets = IF files = {} THEN Sorted(L!OfKinds(args, {"target"}))
                             ELSE <<Min(files)>>
            /\ files = {} => end.configs = Sorted(L!Configs(args))

\* The table and the directory of a call of download-logs agree with the logs
\* (MatchesAndLogsAgree of LogMatches).
MatchesAndLogsAgree ==
  input.of = "download_logs" =>
    M!MatchesAndLogsAgree(input.arg.rows, input.arg.logs, input.arg.clear_logs)

\* The lines of the disk report are true of the logs (ReportAgreesWithLogs of
\* DiskReport).
ReportAgreesWithLogs ==
  input.of = "build_markdown" => R!ReportAgreesWithLogs(input.arg, {"r1", "r2"})

-----------------------------------------------------------------------------
(* Properties of the figures of build-metrics.                             *)

\* A chart has one point for every build with targets of the jobs it draws
\* (OnePointPerInvocation of BuildTrend).
OnePointPerInvocation ==
  input.of = "render_hit_rate_trend" =>
    B!OnePointPerInvocation(input.arg.entries, input.arg.builds, {0, 1})

-----------------------------------------------------------------------------
(* Properties of visualize.                                                *)

\* What a call shows and leaves is what was asked for (PagesAreAsAsked of
\* Visualize), also when one of several names fails.
PagesAreAsAsked ==
  input.of = "visualize" =>
    V!PagesAreAsAsked(input.arg.names, input.arg.params, input.arg.cache, input.arg.viz)

-----------------------------------------------------------------------------
(* Properties of the duration columns.                                     *)

\* However wrong the clock of the machine that syncs, the active time of a job
\* is wrong only while it runs (ClockErrorsDoNotLast of JobDurations).
ClockErrorsDoNotLast ==
  input.of = "calculate_job_active_duration_in_seconds" => D!ClockErrorsDoNotLast(input.arg)

\* Whatever durations an old version left in a row, repair-cache gives it the
\* ones a sync would give it now (RepairAgreesWithSync of JobDurations).
RepairAgreesWithSync ==
  input.of = "repair_job_durations" =>
    \A now \in 0..MaxTime : D!RepairAgreesWithSync(input.arg, now)

-----------------------------------------------------------------------------
(* Properties of the charts of jobs.                                       *)

\* Of the jobs of a cache, job-durations draws those that are running and
\* those that have succeeded: never the wait of a queued job, whose
\* job_active_duration_sec grows all the same, and no job that never ran.
DurationsAreOfJobsThatRan ==
  input.of = "job_durations" =>
    LET job == input.arg.job
        fresh == D!FreshRow(job, input.arg.now)
        OrNull(v) == IF v = D!Null THEN Q!Null ELSE v
        row == [job_status |-> CASE job.status = "queued" -> Q!queued
                                 [] job.status = "in_progress" -> Q!in_progress
                                 [] OTHER -> Q!completed,
                job_conclusion |-> IF job.status = "completed" THEN input.arg.conclusion
                                   ELSE Q!Null,
                event |-> input.arg.event,
                job_started_at |-> OrNull(job.started),
                job_active_duration_sec |-> OrNull(fresh.active)]
        ran == job.started # D!Null /\ (job.status = "completed" => fresh.duration # D!Null)
    IN /\ Q!DrawnInDurations(row) <=>
            /\ ran /\ job.status # "queued"
            /\ job.status = "completed" => input.arg.conclusion = Q!success
       /\ Q!DrawnInFailures(row) =>
            job.status = "completed" /\ input.arg.conclusion = Q!failure

-----------------------------------------------------------------------------
(* Properties of queries.                                                  *)

\* A spec of comparisons, however its groups and negations nest, keeps a row
\* only if it holds for every value its nulls may stand for; and of the rows in
\* which nothing is null, any spec keeps exactly those it holds for.
KeptIffHolds ==
  input.of = "build_expression" =>
    LET spec == input.arg IN
    /\ spec \in Q!SpecsOver(Comparisons, MaxDepth) =>
         \A row \in Rows : Q!Keeps(spec, row) =>
           \A r \in Q!Completions(row, {0, 1}) : Q!Holds(spec, r)
    /\ \A row \in [{"a", "b"} -> {0, 1}] : Q!Keeps(spec, row) <=> Q!Holds(spec, row)

=============================================================================
