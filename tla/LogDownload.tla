---------------------------- MODULE LogDownload ----------------------------
(***************************************************************************)
(* The job logs that `cimon download-logs' and `cimon build-metrics' share *)
(* in one output directory: run() of workflows/download_logs.py and        *)
(* process_input() of workflows/build_metrics.py over                      *)
(* download_job_log_for_url.  A process writes <job_id>.log.part and       *)
(* renames it to <job_id>.log; that name is the same for all processes,    *)
(* so files are modelled as directory entries and the inodes they name.    *)
(*                                                                         *)
(* The output directory is one run's; its removal when empty is left out,  *)
(* and so are malformed URLs, which are skipped before any file is used.   *)
(***************************************************************************)
EXTENDS Naturals, FiniteSets

CONSTANTS
  Jobs,         \* the jobs whose logs are asked for
  Processes,
  Matching      \* jobs whose log contains a match of the pattern

ASSUME LogDownloadAssumption ==
  /\ IsFiniteSet(Jobs) /\ Jobs # {} /\ IsFiniteSet(Processes)
  /\ Matching \subseteq Jobs

VARIABLES
  usage,    \* how the commands are run
  log,      \* log[j]: inode of <job_id>.log, or None
  part,     \* part[j]: inode of <job_id>.log.part, or None
  text,     \* text[i]: how much of the log inode i holds
  writers,  \* writers[i]: processes whose writing makes i whole
  pc,       \* pc[p]: where process p is
  mode,     \* mode[p]: its command
  todo,     \* todo[p]: jobs it has not looked at
  job,      \* job[p]: the job it works on
  fd,       \* fd[p]: the inode its `gh api' writes to
  read,     \* read[p]: jobs whose log it has read
  matched   \* matched[p]: jobs whose log it found a match in

files == <<log, part, text, writers>>
vars == <<usage, files, pc, mode, todo, job, fd, read, matched>>

None == 0
\* Run one at a time, commands may fail and be killed; ones that overlap do not.
Usages == {"alone", "overlapping"}
\* Enough inodes for every directory entry and every open file.
Inodes == 1..(2 * Cardinality(Jobs) + Cardinality(Processes))
Modes == {"metrics", "download", "clear"}
Running(p) == pc[p] # "idle"

UsedInodes == {log[j] : j \in Jobs} \cup {part[j] : j \in Jobs} \cup {fd[p] : p \in Processes}
NewInode == CHOOSE i \in Inodes : i \notin UsedInodes

\* `logfile.is_file() and logfile.stat().st_size > 0'
HasLog(j) == log[j] # None /\ text[log[j]] # "empty"

-----------------------------------------------------------------------------
Goto(p, label) == pc' = [pc EXCEPT ![p] = label]

End(p) ==
  /\ pc' = [pc EXCEPT ![p] = "idle"]
  /\ todo' = [todo EXCEPT ![p] = {}]
  /\ fd' = [fd EXCEPT ![p] = None]
  /\ read' = [read EXCEPT ![p] = {}]
  /\ matched' = [matched EXCEPT ![p] = {}]
  /\ UNCHANGED <<mode, job>>

Start(p, m, S) ==
  /\ ~Running(p)
  /\ usage = "alone" => \A q \in Processes : ~Running(q)
  /\ mode' = [mode EXCEPT ![p] = m]
  /\ todo' = [todo EXCEPT ![p] = S]
  /\ Goto(p, "next")
  /\ UNCHANGED <<files, job, fd, read, matched>>

\* The cached log is used if there is one.  (It is looked for twice, before
\* and after the authentication check; the second look decides.)
NextJob(p, j) ==
  /\ pc[p] = "next" /\ j \in todo[p]
  /\ todo' = [todo EXCEPT ![p] = @ \ {j}]
  /\ job' = [job EXCEPT ![p] = j]
  /\ Goto(p, IF HasLog(j) THEN "read" ELSE "unlink")
  /\ UNCHANGED <<files, mode, fd, read, matched>>

UnlinkPart(p) ==
  /\ pc[p] = "unlink"
  /\ part' = [part EXCEPT ![job[p]] = None]
  /\ Goto(p, "open")
  /\ UNCHANGED <<log, text, writers, mode, todo, job, fd, read, matched>>

\* Mutant: the log is written under its final name.
OpenLog(p) ==
  /\ pc[p] = "open"
  /\ log' = [log EXCEPT ![job[p]] = NewInode]
  /\ fd' = [fd EXCEPT ![p] = NewInode]
  /\ text' = [text EXCEPT ![NewInode] = "empty"]
  /\ writers' = [writers EXCEPT ![NewInode] = {p}]
  /\ Goto(p, "gh")
  /\ UNCHANGED <<part, mode, todo, job, read, matched>>

\* open(partial_logfile, "wb"): creates the file, or truncates the one another
\* process has created since.  Who had already written to it goes on at its
\* own offset, which leaves a hole that only the truncating process fills.
OpenPart(p) ==
  LET j == job[p]
      i == IF part[j] = None THEN NewInode ELSE part[j]
      others == IF part[j] # None /\ text[i] = "empty" THEN writers[i] ELSE {}
  IN /\ pc[p] = "open"
     /\ part' = [part EXCEPT ![j] = i]
     /\ fd' = [fd EXCEPT ![p] = i]
     /\ text' = [text EXCEPT ![i] = "empty"]
     /\ writers' = [writers EXCEPT ![i] = others \cup {p}]
     /\ Goto(p, "gh")
     /\ UNCHANGED <<log, mode, todo, job, read, matched>>

\* Mutant: the download is not waited for.
GhStarted(p) ==
  /\ pc[p] = "gh"
  /\ text' = [text EXCEPT ![fd[p]] = "cut"]
  /\ fd' = [fd EXCEPT ![p] = None]
  /\ Goto(p, "rename")
  /\ UNCHANGED <<log, part, writers, mode, todo, job, read, matched>>

\* `gh api' writes some of the log ...
GhWrites(p) ==
  /\ pc[p] = "gh" /\ text[fd[p]] = "empty"
  /\ text' = [text EXCEPT ![fd[p]] = "cut"]
  /\ UNCHANGED <<log, part, writers, pc, mode, todo, job, fd, read, matched>>

\* ... and then all of it, or fails (log expired, quota, network).
GhSucceeds(p) ==
  /\ pc[p] = "gh"
  /\ text' = [text EXCEPT ![fd[p]] = IF p \in writers[fd[p]] \/ @ = "whole" THEN "whole"
                                     ELSE "cut"]
  /\ fd' = [fd EXCEPT ![p] = None]
  /\ Goto(p, "rename")
  /\ UNCHANGED <<log, part, writers, mode, todo, job, read, matched>>

GhFails(p) ==
  /\ usage = "alone"
  /\ pc[p] = "gh"
  /\ fd' = [fd EXCEPT ![p] = None]
  /\ Goto(p, "failed")
  /\ UNCHANGED <<files, mode, todo, job, read, matched>>

\* partial_logfile.replace(logfile); a FileNotFoundError ends the process.
Rename(p) ==
  LET j == job[p] IN
  /\ pc[p] = "rename"
  /\ IF part[j] = None
     THEN Goto(p, "lost") /\ UNCHANGED <<log, part>>
     ELSE /\ log' = [log EXCEPT ![j] = part[j]]
          /\ part' = [part EXCEPT ![j] = None]
          /\ Goto(p, "saved")
  /\ UNCHANGED <<text, writers, mode, todo, job, fd, read, matched>>

\* The `finally' clause.  download-logs skips a job whose download failed,
\* build-metrics ends.
CleanUp(p) ==
  /\ pc[p] \in {"saved", "failed", "lost"}
  /\ part' = [part EXCEPT ![job[p]] = None]
  /\ CASE pc[p] = "saved" ->
            Goto(p, "read") /\ UNCHANGED <<mode, todo, job, fd, read, matched>>
       [] pc[p] = "failed" /\ mode[p] # "metrics" ->
            Goto(p, "next") /\ UNCHANGED <<mode, todo, job, fd, read, matched>>
       [] OTHER -> End(p)
  /\ UNCHANGED <<log, text, writers>>

\* parse_log, or regex.search; a truncated log may have lost its match.
ReadLog(p) ==
  LET j == job[p] IN
  /\ pc[p] = "read" /\ log[j] # None
  /\ read' = [read EXCEPT ![p] = @ \cup {j}]
  /\ \E found \in IF text[log[j]] = "whole" THEN {j \in Matching}
                  ELSE {FALSE, text[log[j]] = "cut" /\ j \in Matching} :
       matched' = [matched EXCEPT ![p] = IF found THEN @ \cup {j} ELSE @]
  /\ Goto(p, "next")
  /\ UNCHANGED <<files, mode, todo, job, fd>>

LogIsGone(p) ==
  /\ pc[p] = "read" /\ log[job[p]] = None
  /\ End(p) /\ UNCHANGED files

EndJobs(p) ==
  /\ pc[p] = "next" /\ todo[p] = {}
  /\ IF mode[p] = "clear"
     THEN Goto(p, "clear") /\ UNCHANGED <<mode, todo, job, fd, read, matched>>
     ELSE End(p)
  /\ UNCHANGED files

\* Mutant: every log of the directory without a match in this call is deleted.
ClearAnyLog(p, j) ==
  /\ pc[p] = "clear" /\ j \in Jobs \ matched[p] /\ log[j] # None
  /\ log' = [log EXCEPT ![j] = None]
  /\ UNCHANGED <<part, text, writers, pc, mode, todo, job, fd, read, matched>>

\* _delete_non_matching_logs
ClearLog(p, j) ==
  /\ pc[p] = "clear" /\ j \in read[p] \ matched[p]
  /\ log' = [log EXCEPT ![j] = None]
  /\ read' = [read EXCEPT ![p] = @ \ {j}]
  /\ UNCHANGED <<part, text, writers, pc, mode, todo, job, fd, matched>>

EndClear(p) ==
  /\ pc[p] = "clear" /\ read[p] \subseteq matched[p]
  /\ End(p) /\ UNCHANGED files

\* Killed, with its `gh'.
Die(p) == usage = "alone" /\ Running(p) /\ End(p) /\ UNCHANGED files

Init ==
  /\ usage \in Usages
  /\ log = [j \in Jobs |-> None] /\ part = [j \in Jobs |-> None]
  /\ text = [i \in Inodes |-> "empty"] /\ writers = [i \in Inodes |-> {}]
  /\ pc = [p \in Processes |-> "idle"]
  /\ mode \in [Processes -> {"download"}]
  /\ todo = [p \in Processes |-> {}]
  /\ job \in [Processes -> {CHOOSE j \in Jobs : TRUE}]
  /\ fd = [p \in Processes |-> None]
  /\ read = [p \in Processes |-> {}] /\ matched = [p \in Processes |-> {}]

Step(p) ==
  \/ \E m \in Modes, S \in SUBSET Jobs : Start(p, m, S)
  \/ \E j \in Jobs : NextJob(p, j) \/ ClearLog(p, j)
  \/ UnlinkPart(p) \/ OpenPart(p) \/ GhWrites(p) \/ GhSucceeds(p) \/ GhFails(p)
  \/ Rename(p) \/ CleanUp(p) \/ ReadLog(p) \/ LogIsGone(p) \/ EndJobs(p)
  \/ EndClear(p) \/ Die(p)

Next == \E p \in Processes : Step(p) /\ UNCHANGED usage

Spec == Init /\ [][Next]_vars

-----------------------------------------------------------------------------
\* Every variable holds values of its kind.
TypeOK ==
  /\ usage \in Usages
  /\ log \in [Jobs -> Inodes \cup {None}] /\ part \in [Jobs -> Inodes \cup {None}]
  /\ text \in [Inodes -> {"empty", "cut", "whole"}]
  /\ writers \in [Inodes -> SUBSET Processes]
  /\ pc \in [Processes -> {"idle", "next", "unlink", "open", "gh", "rename", "saved",
                           "failed", "lost", "read", "clear"}]
  /\ mode \in [Processes -> Modes]
  /\ todo \in [Processes -> SUBSET Jobs] /\ job \in [Processes -> Jobs]
  /\ fd \in [Processes -> Inodes \cup {None}]
  /\ read \in [Processes -> SUBSET Jobs] /\ matched \in [Processes -> SUBSET Jobs]

\* Of commands run one at a time, a log under its final name is the whole log,
\* wherever earlier ones died or failed: it is reused without question ever
\* after.
LogsAreWhole ==
  usage = "alone" => \A j \in Jobs : log[j] # None => text[log[j]] = "whole"

\* Commands that overlap do no lasting harm as long as none fails: a log that
\* is not whole yet still has the process writing it that will make it so,
\* although both use one name for their partial files.
CutLogsAreBeingWritten ==
  \A j \in Jobs :
    (log[j] # None /\ text[log[j]] # "whole")
    => \E p \in writers[log[j]] : pc[p] = "gh" /\ fd[p] = log[j]

\* --clear-logs never costs a log that does match the pattern, this call's or
\* an earlier one's: such a log stays once it has been downloaded.
MatchingLogsStay ==
  [][usage = "alone" => \A j \in Matching : log[j] # None => log'[j] # None]_vars
=============================================================================
