----------------------------- MODULE DiskReport -----------------------------
(***************************************************************************)
(* The report on the disks of the runners (scripts/disk_usage_report.py):  *)
(* what it takes from a job's log, and the figures of each runner.  A log  *)
(* is the sequence of its lines of interest and the time of its first      *)
(* line, every line being one later than the line before it; percentages   *)
(* stand for the sizes in GB too, and Unreadable for a size in a unit that *)
(* parse_size_to_gb does not know.                                         *)
(***************************************************************************)
EXTENDS Integers, Sequences, FiniteSets, FiniteSetsExt, SequencesExt

Unreadable == 0

Lines == [kind: {"runner"}, value: {"r1", "r2"}] \cup [kind: {"df"}, value: {Unreadable, 1, 2, 3}]
           \cup [kind: {"other"}, value: {"text"}]

\* Mutant: the first two samples of a log, however many there are.
ReadTwoSamples(log, acc, n) ==
  LET line == log.lines[n] IN
  [runner_name |-> IF acc.runner_name = "none" /\ line.kind = "runner" THEN line.value
                   ELSE acc.runner_name,
   disk_samples |-> IF line.kind = "df" /\ Len(acc.disk_samples) < 2
                    THEN Append(acc.disk_samples, n) ELSE acc.disk_samples]

\* One line.  `Runner name: ...' lines after the first are passed over; a `df'
\* line counts if it is of /dev/root, mounted on /.
ReadLine(log, acc, n) ==
  LET line == log.lines[n] IN
  [runner_name |-> IF acc.runner_name = "none" /\ line.kind = "runner" THEN line.value
                   ELSE acc.runner_name,
   disk_samples |-> IF line.kind = "df" THEN Append(acc.disk_samples, n)
                    ELSE acc.disk_samples]

ReadLog(log) ==
  FoldLeft(LAMBDA acc, n : ReadLine(log, acc, n), [runner_name |-> "none", disk_samples |-> <<>>],
           [n \in 1..Len(log.lines) |-> n])

\* Some logs are passed over: parse_log_file returns None for them.
Usable(log) == ReadLog(log).runner_name # "none" /\ Len(ReadLog(log).disk_samples) >= 2

parse_log_file(log) ==
  LET read == ReadLog(log)
      before == read.disk_samples[1]
      after == read.disk_samples[Len(read.disk_samples)]
  IN [runner_name |-> read.runner_name, timestamp |-> log.at + before,
      before |-> log.lines[before].value, after |-> log.lines[after].value]

Delta(entry) == entry.after - entry.before
Size(n) == IF n < 0 THEN -n ELSE n

CollectLog(entries, log) == IF Usable(log) THEN Append(entries, parse_log_file(log)) ELSE entries
collect_entries(logs) == FoldLeft(CollectLog, <<>>, logs)

\* list.sort is stable.
Earlier(entries, j, k) ==
  \/ entries[j].timestamp < entries[k].timestamp
  \/ entries[j].timestamp = entries[k].timestamp /\ j < k

\* by_runner[runner], sorted by the time of the first sample: the n-th has n - 1
\* before it.
by_runner(entries, runner) ==
  LET own == {k \in DOMAIN entries : entries[k].runner_name = runner} IN
  [n \in 1..Cardinality(own) |->
     entries[CHOOSE k \in own : Cardinality({j \in own : Earlier(entries, j, k)}) = n - 1]]

\* max(..., key=...): the first of the largest.
LargestDelta(jobs) ==
  Delta(jobs[CHOOSE n \in DOMAIN jobs : \A m \in DOMAIN jobs :
               \/ Size(Delta(jobs[n])) > Size(Delta(jobs[m]))
               \/ Size(Delta(jobs[n])) = Size(Delta(jobs[m])) /\ n <= m])

\* The line of a runner in the overview.
overview(entries, runner) ==
  LET jobs == by_runner(entries, runner) IN
  [jobs |-> Len(jobs), first |-> jobs[1].timestamp, last |-> jobs[Len(jobs)].timestamp,
   max_pct |-> Max({jobs[n].before : n \in DOMAIN jobs} \cup {jobs[n].after : n \in DOMAIN jobs}),
   max_delta |-> LargestDelta(jobs)]

\* main writes the report at its end: not if no log is of use, and not if one
\* used_gb of an entry raises the ValueError of parse_size_to_gb.
HasReport(logs) ==
  LET entries == collect_entries(logs) IN
  /\ entries # <<>>
  /\ \A k \in DOMAIN entries :
       entries[k].before # Unreadable /\ entries[k].after # Unreadable

build_markdown(logs) ==
  LET entries == collect_entries(logs) IN
  [r \in {entries[k].runner_name : k \in DOMAIN entries} |-> overview(entries, r)]
-----------------------------------------------------------------------------
PlacesOf(log, kind) == {n \in DOMAIN log.lines : log.lines[n].kind = kind}
At(log) == log.at + Min(PlacesOf(log, "df"))
FirstSize(log) == log.lines[Min(PlacesOf(log, "df"))].value
LastSize(log) == log.lines[Max(PlacesOf(log, "df"))].value
Change(log) == LastSize(log) - FirstSize(log)

\* The logs of jobs from which something can be learnt, and those on a runner.
UsefulLogs(logs) ==
  {k \in DOMAIN logs : /\ Cardinality(PlacesOf(logs[k], "df")) > 1
                       /\ PlacesOf(logs[k], "runner") # {}}
JobsOn(logs, r) ==
  {k \in UsefulLogs(logs) : logs[k].lines[Min(PlacesOf(logs[k], "runner"))].value = r}

\* What a runner's line in the disk report says is true of the jobs that ran
\* on it: of each job's change from its first to its last sample the largest,
\* up or down, and of two equal ones that of the job that began first,
\* whatever the order in which the logs were found.
LinesAgreeWithLogs(logs, runners) ==
  LET report == build_markdown(logs) IN
  \A r \in runners :
    LET jobs == JobsOn(logs, r)
        largest == {k \in jobs : \A m \in jobs : Size(Change(logs[k])) >= Size(Change(logs[m]))}
        earliest == {k \in largest : \A m \in largest : At(logs[k]) <= At(logs[m])}
    IN /\ r \in DOMAIN report <=> jobs # {}
       /\ r \in DOMAIN report =>
            LET line == report[r] IN
            /\ line.jobs = Cardinality(jobs)
            /\ line.first = Min({At(logs[k]) : k \in jobs})
            /\ line.last = Max({At(logs[k]) : k \in jobs})
            /\ line.max_delta \in {Change(logs[k]) : k \in earliest}
            /\ line.max_pct >= Size(line.max_delta)

\* There is a report unless no log is of use or the first or the last sample of
\* one that is cannot be read, and then nothing is written of any runner; its
\* lines are true of the logs.
ReportAgreesWithLogs(logs, runners) ==
  /\ HasReport(logs) <=>
       /\ UsefulLogs(logs) # {}
       /\ \A k \in UsefulLogs(logs) : FirstSize(logs[k]) # Unreadable /\ LastSize(logs[k]) # Unreadable
  /\ HasReport(logs) => LinesAgreeWithLogs(logs, runners)
=============================================================================
