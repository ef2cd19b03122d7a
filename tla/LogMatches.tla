----------------------------- MODULE LogMatches -----------------------------
(***************************************************************************)
(* What `cimon download-logs' makes of its input: run() of                 *)
(* workflows/download_logs.py over a table of job URLs.  A row names a     *)
(* job, or, with the job 0, has no URL or one of something else; how the   *)
(* logs get there, and commands that overlap, are LogDownload's subject.   *)
(***************************************************************************)
EXTENDS Naturals, Sequences, FiniteSets, SequencesExt

\* A job's log: what is in it, whether GitHub still has it, and whether an
\* earlier call has left it in the directory.
Logs == [matches: BOOLEAN, expired: BOOLEAN, kept: BOOLEAN]

\* Mutant: the places of the matches are counted over the logs, not the rows.
ReadRowAmongLogs(rows, logs, acc, k) ==
  LET job == rows[k].job IN
  IF job = 0 \/ ~(logs[job].kept \/ ~logs[job].expired) THEN acc
  ELSE [log_paths |-> acc.log_paths \cup {k},
        matched_indices |-> IF logs[job].matches
                            THEN Append(acc.matched_indices, Cardinality(acc.log_paths) + 1)
                            ELSE acc.matched_indices]

\* One row: _download_log finds the log there already, or GitHub still has it.
ReadRow(rows, logs, acc, k) ==
  LET job == rows[k].job IN
  IF job = 0 \/ ~(logs[job].kept \/ ~logs[job].expired) THEN acc
  ELSE [log_paths |-> acc.log_paths \cup {k},
        matched_indices |-> IF logs[job].matches THEN Append(acc.matched_indices, k)
                            ELSE acc.matched_indices]

ReadRows(rows, logs) ==
  FoldLeft(LAMBDA acc, k : ReadRow(rows, logs, acc, k),
           [log_paths |-> {}, matched_indices |-> <<>>], [k \in 1..Len(rows) |-> k])

\* table.take(...), and _delete_non_matching_logs.  Without a match no table
\* is written: it is empty here, and one of an earlier call stays.
run(rows, logs, clear_logs) ==
  LET read == ReadRows(rows, logs)
      deleted == IF clear_logs THEN {rows[k].job : k \in read.log_paths \ ToSet(read.matched_indices)}
                 ELSE {}
  IN [table |-> [n \in DOMAIN read.matched_indices |-> rows[read.matched_indices[n]]],
      logs |-> ({j \in DOMAIN logs : logs[j].kept} \cup {rows[k].job : k \in read.log_paths})
                 \ deleted]

-----------------------------------------------------------------------------
\* Every row of log-match.parquet is a row of the input whose log matches, in
\* the input's order, whatever rows without a log lie between them; with
\* --clear-logs the logs of these rows stay, and of the others none that this
\* call has looked at.
MatchesAndLogsAgree(rows, logs, clear_logs) ==
  LET end == run(rows, logs, clear_logs)
      had == {j \in DOMAIN logs : logs[j].kept \/ ~logs[j].expired}
      matching == {k \in DOMAIN rows : rows[k].job \in had /\ logs[rows[k].job].matches}
      Before(k) == {m \in matching : m < k}
      asked == {rows[k].job : k \in DOMAIN rows}
  IN /\ Len(end.table) = Cardinality(matching)
     /\ \A k \in matching : end.table[Cardinality(Before(k)) + 1] = rows[k]
     /\ clear_logs => end.logs \cap asked = {rows[k].job : k \in matching}
=============================================================================
