--------------------------- MODULE RunnerSnapshots ---------------------------
(***************************************************************************)
(* `cimon runners' run again and again: each call polls the status of the  *)
(* self-hosted runners, writes it to a JSON file named after the second,   *)
(* reads that file back and appends its rows to runner_status.parquet      *)
(* (list_runners, save_runner_snapshot and append_runner_snapshot of       *)
(* github_api.py).  A poll is named by a number; what it says is not       *)
(* looked at.                                                              *)
(***************************************************************************)
EXTENDS Naturals, Sequences, SequencesExt

CONSTANTS
  Processes,
  MaxPolls,      \* bound: calls
  MaxTime,       \* bound: seconds
  OneAtATime     \* TRUE: the calls do not overlap

ASSUME RunnerSnapshotsAssumption ==
  MaxPolls \in Nat /\ MaxTime \in Nat \ {0} /\ OneAtATime \in BOOLEAN

VARIABLES
  now,         \* the second
  polls,       \* calls so far
  snapshots,   \* snapshots[s]: the poll in the file of second s
  rows,        \* runner_status.parquet, one element per poll
  pc, poll,    \* where process p is, and its poll
  at,          \* at[p]: the polled_at of its snapshot
  table        \* table[p]: the table it is going to write

vars == <<now, polls, snapshots, rows, pc, poll, at, table>>

Missing == 0
Cut == MaxPolls + 1          \* a file that is being written
Polls == 1..MaxPolls
Seconds == 0..MaxTime
RowsOf(s) == [at |-> s, poll |-> snapshots[s]]

Tick ==
  /\ now < MaxTime
  /\ now' = now + 1
  /\ UNCHANGED <<polls, snapshots, rows, pc, poll, at, table>>

\* list_runners; calls that do not overlap are at least a second apart.
Poll(p) ==
  /\ pc[p] = "idle" /\ polls < MaxPolls
  /\ OneAtATime => \A q \in Processes : pc[q] = "idle" /\ at[q] < now
  /\ polls' = polls + 1
  /\ poll' = [poll EXCEPT ![p] = polls + 1]
  /\ pc' = [pc EXCEPT ![p] = "polled"]
  /\ UNCHANGED <<now, snapshots, rows, at, table>>



\* write_text opens, and so truncates, the file ...
OpenSnapshot(p) ==
  /\ pc[p] = "polled"
  /\ at' = [at EXCEPT ![p] = now]
  /\ snapshots' = [snapshots EXCEPT ![now] = Cut]
  /\ pc' = [pc EXCEPT ![p] = "opened"]
  /\ UNCHANGED <<now, polls, rows, poll, table>>

\* ... and writes it.
WriteSnapshot(p) ==
  /\ pc[p] = "opened"
  /\ snapshots' = [snapshots EXCEPT ![at[p]] = poll[p]]
  /\ pc' = [pc EXCEPT ![p] = "written"]
  /\ UNCHANGED <<now, polls, rows, poll, at, table>>

\* Mutant: the rows are stamped with a time of their own.
AppendStampedAgain(p) ==
  /\ pc[p] = "written"
  /\ table' = [table EXCEPT ![p] = Append(rows, [at |-> now, poll |-> poll[p]])]
  /\ pc' = [pc EXCEPT ![p] = "computed"]
  /\ UNCHANGED <<now, polls, snapshots, rows, poll, at>>

\* The snapshot is read back and its rows are put after those of the cache.
ReadBack(p) ==
  /\ pc[p] = "written" /\ snapshots[at[p]] \in Polls
  /\ table' = [table EXCEPT ![p] = Append(rows, RowsOf(at[p]))]
  /\ pc' = [pc EXCEPT ![p] = "computed"]
  /\ UNCHANGED <<now, polls, snapshots, rows, poll, at>>

Finish(p) ==
  /\ pc' = [pc EXCEPT ![p] = "idle"]
  /\ poll' = [poll EXCEPT ![p] = Missing]
  /\ table' = [table EXCEPT ![p] = <<>>]
  /\ UNCHANGED <<now, polls, snapshots, at>>

\* Mutant: the new rows replace the cache.
ReplaceWithNewRows(p) ==
  /\ pc[p] = "computed"
  /\ rows' = <<Last(table[p])>>
  /\ Finish(p)

Replace(p) ==
  /\ pc[p] = "computed"
  /\ rows' = table[p]
  /\ Finish(p)

\* Killed, or the snapshot read back is not JSON.
Die(p) == pc[p] # "idle" /\ Finish(p) /\ UNCHANGED rows

Init ==
  /\ now = 1 /\ polls = 0
  /\ snapshots = [s \in Seconds |-> Missing]
  /\ rows = <<>>
  /\ pc = [p \in Processes |-> "idle"] /\ poll = [p \in Processes |-> Missing]
  /\ at = [p \in Processes |-> 0] /\ table = [p \in Processes |-> <<>>]

Next ==
  \/ Tick
  \/ \E p \in Processes :
       Poll(p) \/ OpenSnapshot(p) \/ WriteSnapshot(p) \/ ReadBack(p) \/ Replace(p) \/ Die(p)

Spec == Init /\ [][Next]_vars

-----------------------------------------------------------------------------
RowSeq == Seq([at: Seconds, poll: Polls])

\* Every variable holds values of its kind.
TypeOK ==
  /\ now \in Seconds /\ polls \in 0..MaxPolls
  /\ snapshots \in [Seconds -> 0..Cut]
  /\ rows \in RowSeq
  /\ pc \in [Processes -> {"idle", "polled", "opened", "written", "computed"}]
  /\ poll \in [Processes -> 0..MaxPolls] /\ at \in [Processes -> Seconds]
  /\ table \in [Processes -> RowSeq]

\* The history is only ever built up: a call adds rows at the end and takes
\* none away ("one snapshot at a time").
HistoryOnlyGrows == [][IsPrefix(rows, rows')]_rows

\* The JSON archive has every poll of the cache under the same second, so that
\* the cache could be built from it again ("a lossless archive").
RowsHaveSnapshots ==
  \A i \in 1..Len(rows) : snapshots[rows[i].at] = rows[i].poll
=============================================================================
