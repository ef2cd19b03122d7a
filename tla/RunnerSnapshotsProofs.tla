------------------------ MODULE RunnerSnapshotsProofs ------------------------
(***************************************************************************)
(* Theorems about RunnerSnapshots when the calls do not overlap, for any   *)
(* number of processes, calls and seconds, and with calls dying anywhere.  *)
(***************************************************************************)
EXTENDS RunnerSnapshots, TLAPS

-----------------------------------------------------------------------------
(* Types.                                                                  *)

Row == [at: Seconds, poll: Polls]

LEMMA TypeInit == Init => TypeOK
<1> SUFFICES ASSUME Init PROVE TypeOK
  OBVIOUS
<1>1. <<>> \in RowSeq
  BY DEF RowSeq
<1> QED
  BY <1>1, RunnerSnapshotsAssumption
     DEF Init, TypeOK, Seconds, Missing, Cut

LEMMA TypeStep == TypeOK /\ [Next]_vars => TypeOK'
<1> SUFFICES ASSUME TypeOK, [Next]_vars PROVE TypeOK'
  OBVIOUS
<1> USE RunnerSnapshotsAssumption DEF TypeOK
<1>1. CASE UNCHANGED vars
  BY <1>1 DEF vars
<1>2. CASE Tick
  BY <1>2 DEF Tick, Seconds
<1>3. ASSUME NEW p \in Processes, Poll(p)
      PROVE  TypeOK'
  BY <1>3 DEF Poll
<1>4. ASSUME NEW p \in Processes, OpenSnapshot(p)
      PROVE  TypeOK'
  BY <1>4 DEF OpenSnapshot, Cut
<1>5. ASSUME NEW p \in Processes, WriteSnapshot(p)
      PROVE  TypeOK'
  BY <1>5 DEF WriteSnapshot, Cut
<1>6. ASSUME NEW p \in Processes, ReadBack(p)
      PROVE  TypeOK'
  <2>1. RowsOf(at[p]) \in Row
    BY <1>6 DEF ReadBack, RowsOf, Row
  <2>2. Append(rows, RowsOf(at[p])) \in RowSeq
    BY <2>1 DEF RowSeq, Row
  <2> QED
    BY <1>6, <2>2 DEF ReadBack
<1>7. ASSUME NEW p \in Processes, Replace(p) \/ Die(p)
      PROVE  TypeOK'
  <2>1. rows' \in RowSeq
    BY <1>7 DEF Replace, Die
  <2>2. <<>> \in RowSeq
    BY DEF RowSeq
  <2>3. Finish(p)
    BY <1>7 DEF Replace, Die
  <2>4. /\ pc' \in [Processes -> {"idle", "polled", "opened", "written", "computed"}]
        /\ poll' \in [Processes -> 0..MaxPolls] /\ table' \in [Processes -> RowSeq]
    BY <2>2, <2>3 DEF Finish, Missing
  <2> QED
    BY <2>1, <2>3, <2>4 DEF Finish
<1> QED
  BY <1>1, <1>2, <1>3, <1>4, <1>5, <1>6, <1>7 DEF Next

-----------------------------------------------------------------------------
(* Calls one at a time.  Inductive strengthening of RowsHaveSnapshots: the *)
(* rows are of earlier seconds than the snapshot that is being written, so *)
(* that no file they came from is written again; and the table a call is   *)
(* going to write is still that of the cache with its own rows.            *)

Running(p) == pc[p] # "idle"
NewRows(p) == Append(rows, RowsOf(at[p]))

OneRuns == \A p, q \in Processes : Running(p) /\ Running(q) => p = q
RowsAreOld == \A i \in 1..Len(rows) : \E q \in Processes : rows[i].at <= at[q]
NoFutureSnapshots == \A p \in Processes : at[p] <= now

CallInv(p) ==
  /\ pc[p] = "polled" => \A q \in Processes : at[q] < now
  /\ pc[p] \in {"opened", "written", "computed"}
       => \A i \in 1..Len(rows) : rows[i].at < at[p]
  /\ pc[p] = "computed" => snapshots[at[p]] \in Polls /\ table[p] = NewRows(p)

AloneInv ==
  /\ TypeOK /\ OneRuns /\ RowsAreOld /\ NoFutureSnapshots /\ RowsHaveSnapshots
  /\ \A p \in Processes : CallInv(p)

LEMMA RowsAreRows ==
  ASSUME TypeOK, NEW i \in 1..Len(rows)
  PROVE  rows[i] \in Row
<1>1. rows \in Seq(Row)
  BY DEF TypeOK, RowSeq, Row
<1> HIDE DEF Row
<1> QED
  BY <1>1

LEMMA AloneInit == Init => AloneInv
<1> SUFFICES ASSUME Init PROVE AloneInv
  OBVIOUS
<1>1. TypeOK
  BY TypeInit
<1>2. Len(rows) = 0
  BY DEF Init
<1> QED
  BY <1>1, <1>2 DEF Init, AloneInv, OneRuns, Running, RowsAreOld, NoFutureSnapshots,
                    RowsHaveSnapshots, CallInv

\* A step that leaves the table and the snapshots of its rows alone.
LEMMA CacheIsUntouched ==
  ASSUME AloneInv, TypeOK', UNCHANGED rows,
         \A i \in 1..Len(rows) : snapshots'[rows[i].at] = snapshots[rows[i].at],
         \A q \in Processes : at[q] <= at'[q] /\ at'[q] <= now'
  PROVE  RowsAreOld' /\ RowsHaveSnapshots' /\ NoFutureSnapshots'
<1>1. ASSUME NEW i \in 1..Len(rows)
      PROVE  \E q \in Processes : rows'[i].at <= at'[q]
  <2>1. PICK q \in Processes : rows[i].at <= at[q]
    BY DEF AloneInv, RowsAreOld
  <2>2. rows[i] \in Row
    BY RowsAreRows DEF AloneInv
  <2>3. rows[i].at \in Nat /\ at[q] \in Nat /\ at'[q] \in Nat /\ at[q] <= at'[q]
    BY <2>2 DEF AloneInv, TypeOK, Row, Seconds
  <2> QED
    BY <2>1, <2>3
<1>2. RowsAreOld'
  BY <1>1 DEF RowsAreOld
<1>3. RowsHaveSnapshots'
  BY DEF AloneInv, RowsHaveSnapshots
<1>4. NoFutureSnapshots'
  BY DEF NoFutureSnapshots
<1> QED
  BY <1>2, <1>3, <1>4

\* What a process that does not run is asked for.
LEMMA IdleCall ==
  ASSUME NEW q \in Processes, pc'[q] = "idle"
  PROVE  CallInv(q)'
BY DEF CallInv

LEMMA OthersAreIdle ==
  ASSUME AloneInv, NEW p \in Processes, Running(p)
  PROVE  \A q \in Processes \ {p} : pc[q] = "idle"
BY DEF AloneInv, OneRuns, Running

\* The parts of AloneInv that are about the processes, after a step of the
\* only one that runs.
LEMMA AloneGoesOn ==
  ASSUME NEW p \in Processes,
         \A q \in Processes \ {p} : pc[q] = "idle" /\ pc'[q] = pc[q],
         CallInv(p)'
  PROVE  OneRuns' /\ \A q \in Processes : CallInv(q)'
<1>1. \A q \in Processes \ {p} : pc'[q] = "idle"
  OBVIOUS
<1>2. OneRuns'
  BY <1>1 DEF OneRuns, Running
<1>3. \A q \in Processes : CallInv(q)'
  BY <1>1, IdleCall
<1> QED
  BY <1>2, <1>3

LEMMA AloneStep == OneAtATime /\ AloneInv /\ [Next]_vars => AloneInv'
<1> SUFFICES ASSUME OneAtATime, AloneInv, [Next]_vars PROVE AloneInv'
  OBVIOUS
<1>0. TypeOK /\ TypeOK'
  BY TypeStep DEF AloneInv
<1>1. CASE UNCHANGED vars
  BY <1>0, <1>1 DEF vars, AloneInv, OneRuns, Running, RowsAreOld, NoFutureSnapshots,
                    RowsHaveSnapshots, CallInv, NewRows, RowsOf
<1>2. CASE Tick
  <2>1. now' = now + 1 /\ UNCHANGED <<polls, snapshots, rows, pc, poll, at, table>>
    BY <1>2 DEF Tick
  <2>2. \A q \in Processes : at[q] \in Nat /\ now \in Nat /\ at[q] <= now
    BY <1>0 DEF AloneInv, NoFutureSnapshots, TypeOK, Seconds
  <2>3. RowsAreOld' /\ RowsHaveSnapshots' /\ NoFutureSnapshots'
    <3>1. \A q \in Processes : at[q] <= at'[q] /\ at'[q] <= now'
      BY <2>1, <2>2
    <3> QED
      BY <1>0, <2>1, <3>1, CacheIsUntouched
  <2>4. OneRuns'
    BY <2>1 DEF AloneInv, OneRuns, Running
  <2>5. ASSUME NEW p \in Processes
        PROVE  CallInv(p)'
    <3>1. CallInv(p)
      BY DEF AloneInv
    <3>2. pc[p] = "polled" => \A q \in Processes : at'[q] < now'
      BY <2>1, <2>2, <3>1 DEF CallInv
    <3> QED
      BY <2>1, <3>1, <3>2 DEF CallInv, NewRows, RowsOf
  <2> QED
    BY <1>0, <2>3, <2>4, <2>5 DEF AloneInv
<1>3. ASSUME NEW p \in Processes, Poll(p)
      PROVE  AloneInv'
  <2>1. /\ \A q \in Processes : pc[q] = "idle" /\ at[q] < now
        /\ pc' = [pc EXCEPT ![p] = "polled"]
        /\ UNCHANGED <<now, snapshots, rows, at, table>>
    BY <1>3 DEF Poll
  <2>2. RowsAreOld' /\ RowsHaveSnapshots' /\ NoFutureSnapshots'
    BY <2>1 DEF AloneInv, RowsAreOld, RowsHaveSnapshots, NoFutureSnapshots
  <2>3. pc'[p] = "polled" /\ \A q \in Processes \ {p} : pc'[q] = pc[q]
    BY <1>0, <2>1 DEF TypeOK
  <2>4. CallInv(p)'
    BY <2>1, <2>3 DEF CallInv
  <2> QED
    BY <1>0, <2>1, <2>2, <2>3, <2>4, AloneGoesOn DEF AloneInv
<1>4. ASSUME NEW p \in Processes, OpenSnapshot(p)
      PROVE  AloneInv'
  <2>1. /\ pc[p] = "polled" /\ pc' = [pc EXCEPT ![p] = "opened"]
        /\ at' = [at EXCEPT ![p] = now]
        /\ snapshots' = [snapshots EXCEPT ![now] = Cut]
        /\ UNCHANGED <<now, rows>>
    BY <1>4 DEF OpenSnapshot
  <2>2. \A q \in Processes : at[q] \in Nat /\ at[q] < now
    BY <1>0, <2>1 DEF AloneInv, CallInv, TypeOK, Seconds
  <2>3. now \in Nat
    BY <1>0 DEF TypeOK, Seconds
  <2>4. ASSUME NEW i \in 1..Len(rows)
        PROVE  rows[i].at \in Seconds /\ rows[i].at < now
    <3>1. PICK q \in Processes : rows[i].at <= at[q]
      BY DEF AloneInv, RowsAreOld
    <3>2. rows[i] \in Row
      BY <1>0, RowsAreRows
    <3> QED
      BY <2>2, <2>3, <3>1, <3>2 DEF Row, Seconds
  <2>5. \A i \in 1..Len(rows) : snapshots'[rows[i].at] = snapshots[rows[i].at]
    <3>1. ASSUME NEW i \in 1..Len(rows)
          PROVE  snapshots'[rows[i].at] = snapshots[rows[i].at]
      <4>1. rows[i].at # now /\ rows[i].at \in Seconds
        BY <2>3, <2>4 DEF Seconds
      <4> QED
        BY <1>0, <2>1, <4>1 DEF TypeOK
    <3> QED
      BY <3>1
  <2>6. \A q \in Processes : at[q] <= at'[q] /\ at'[q] <= now'
    BY <1>0, <2>1, <2>2, <2>3 DEF TypeOK
  <2>7. RowsAreOld' /\ RowsHaveSnapshots' /\ NoFutureSnapshots'
    BY <1>0, <2>1, <2>5, <2>6, CacheIsUntouched
  <2>8. pc'[p] = "opened" /\ at'[p] = now /\ \A q \in Processes \ {p} : pc'[q] = pc[q]
    BY <1>0, <2>1 DEF TypeOK
  <2>9. CallInv(p)'
    BY <2>1, <2>4, <2>8 DEF CallInv
  <2>10. \A q \in Processes \ {p} : pc[q] = "idle"
    BY <2>1, OthersAreIdle DEF Running
  <2> QED
    BY <1>0, <2>7, <2>8, <2>9, <2>10, AloneGoesOn DEF AloneInv
<1>5. ASSUME NEW p \in Processes, WriteSnapshot(p)
      PROVE  AloneInv'
  <2>1. /\ pc[p] = "opened" /\ pc' = [pc EXCEPT ![p] = "written"]
        /\ snapshots' = [snapshots EXCEPT ![at[p]] = poll[p]]
        /\ UNCHANGED <<now, rows, at>>
    BY <1>5 DEF WriteSnapshot
  <2>2. \A i \in 1..Len(rows) : rows[i].at < at[p]
    BY <2>1 DEF AloneInv, CallInv
  <2>3. \A i \in 1..Len(rows) : snapshots'[rows[i].at] = snapshots[rows[i].at]
    <3>1. ASSUME NEW i \in 1..Len(rows)
          PROVE  snapshots'[rows[i].at] = snapshots[rows[i].at]
      <4>1. rows[i] \in Row
        BY <1>0, RowsAreRows
      <4>2. rows[i].at # at[p] /\ rows[i].at \in Seconds
        BY <1>0, <2>2, <4>1 DEF Row, Seconds, TypeOK
      <4> QED
        BY <1>0, <2>1, <4>2 DEF TypeOK
    <3> QED
      BY <3>1
  <2>4. \A q \in Processes : at[q] <= at'[q] /\ at'[q] <= now'
    BY <1>0, <2>1 DEF AloneInv, NoFutureSnapshots, TypeOK, Seconds
  <2>5. RowsAreOld' /\ RowsHaveSnapshots' /\ NoFutureSnapshots'
    BY <1>0, <2>1, <2>3, <2>4, CacheIsUntouched
  <2>6. pc'[p] = "written" /\ \A q \in Processes \ {p} : pc'[q] = pc[q]
    BY <1>0, <2>1 DEF TypeOK
  <2>7. CallInv(p)'
    BY <2>1, <2>2, <2>6 DEF CallInv
  <2>8. \A q \in Processes \ {p} : pc[q] = "idle"
    BY <2>1, OthersAreIdle DEF Running
  <2> QED
    BY <1>0, <2>5, <2>6, <2>7, <2>8, AloneGoesOn DEF AloneInv
<1>6. ASSUME NEW p \in Processes, ReadBack(p)
      PROVE  AloneInv'
  <2>1. /\ pc[p] = "written" /\ snapshots[at[p]] \in Polls
        /\ table' = [table EXCEPT ![p] = NewRows(p)]
        /\ pc' = [pc EXCEPT ![p] = "computed"]
        /\ UNCHANGED <<now, snapshots, rows, at>>
    BY <1>6 DEF ReadBack, NewRows
  <2>2. RowsAreOld' /\ RowsHaveSnapshots' /\ NoFutureSnapshots'
    BY <2>1 DEF AloneInv, RowsAreOld, RowsHaveSnapshots, NoFutureSnapshots
  <2>3. /\ pc'[p] = "computed" /\ table'[p] = NewRows(p)
        /\ \A q \in Processes \ {p} : pc'[q] = pc[q]
    BY <1>0, <2>1 DEF TypeOK
  <2>4. \A i \in 1..Len(rows) : rows[i].at < at[p]
    BY <2>1 DEF AloneInv, CallInv
  <2>5. NewRows(p)' = NewRows(p)
    BY <2>1 DEF NewRows, RowsOf
  <2>6. CallInv(p)'
    BY <2>1, <2>3, <2>4, <2>5 DEF CallInv
  <2>7. \A q \in Processes \ {p} : pc[q] = "idle"
    BY <2>1, OthersAreIdle DEF Running
  <2> QED
    BY <1>0, <2>2, <2>3, <2>6, <2>7, AloneGoesOn DEF AloneInv
<1>7. ASSUME NEW p \in Processes, Replace(p) \/ Die(p)
      PROVE  AloneInv'
  <2>1. Running(p) /\ Finish(p)
    BY <1>7 DEF Replace, Die, Running
  <2>2. pc'[p] = "idle" /\ \A q \in Processes \ {p} : pc'[q] = pc[q]
    BY <1>0, <2>1 DEF Finish, TypeOK
  <2>3. OneRuns' /\ \A q \in Processes : CallInv(q)'
    BY <2>1, <2>2, IdleCall, OthersAreIdle, AloneGoesOn
  <2>4. UNCHANGED <<now, snapshots, at>>
    BY <2>1 DEF Finish
  <2>5. NoFutureSnapshots'
    BY <2>4 DEF AloneInv, NoFutureSnapshots
  <2>6. CASE UNCHANGED rows
    <3>1. RowsAreOld' /\ RowsHaveSnapshots'
      BY <2>4, <2>6 DEF AloneInv, RowsAreOld, RowsHaveSnapshots
    <3> QED
      BY <1>0, <2>3, <2>5, <3>1 DEF AloneInv
  <2>7. CASE Replace(p)
    <3> DEFINE new == RowsOf(at[p])
    <3>1. rows' = Append(rows, new) /\ snapshots[at[p]] \in Polls
      BY <2>7 DEF Replace, AloneInv, CallInv, NewRows
    <3>2. rows \in Seq(Row) /\ new \in Row /\ new.at = at[p] /\ new.poll = snapshots[at[p]]
      BY <1>0, <3>1 DEF TypeOK, RowSeq, Row, RowsOf
    <3> HIDE DEF new
    <3>3. /\ Len(rows') = Len(rows) + 1 /\ rows'[Len(rows) + 1] = new
          /\ \A i \in 1..Len(rows) : rows'[i] = rows[i]
      BY <3>1, <3>2
    <3>4. at[p] \in Nat /\ Len(rows) \in Nat
      BY <1>0, <3>2 DEF TypeOK, Seconds
    <3>5. ASSUME NEW i \in 1..Len(rows')
          PROVE  /\ \E q \in Processes : rows'[i].at <= at[q]
                 /\ snapshots[rows'[i].at] = rows'[i].poll
      <4>1. CASE i = Len(rows) + 1
        BY <3>2, <3>3, <3>4, <4>1
      <4>2. CASE i \in 1..Len(rows)
        BY <3>3, <4>2 DEF AloneInv, RowsAreOld, RowsHaveSnapshots
      <4> QED
        BY <3>3, <3>4, <4>1, <4>2
    <3>6. RowsAreOld' /\ RowsHaveSnapshots'
      BY <2>4, <3>5 DEF RowsAreOld, RowsHaveSnapshots
    <3> QED
      BY <1>0, <2>3, <2>5, <3>6 DEF AloneInv
  <2> QED
    BY <1>7, <2>6, <2>7 DEF Die
<1> QED
  BY <1>1, <1>2, <1>3, <1>4, <1>5, <1>6, <1>7 DEF Next

-----------------------------------------------------------------------------
\* Of calls that do not overlap, the JSON archive has every poll of the cache
\* under the second its rows are stamped with.
THEOREM ArchiveIsComplete == ASSUME OneAtATime PROVE Spec => []RowsHaveSnapshots
<1>1. AloneInv /\ [Next]_vars => AloneInv'
  BY AloneStep
<1>2. AloneInv => RowsHaveSnapshots
  BY DEF AloneInv
<1> QED
  BY <1>1, <1>2, AloneInit, PTL DEF Spec

\* The table a call writes has the rows the cache has at that moment.
LEMMA RowsAreOnlyAdded ==
  ASSUME AloneInv, [Next]_vars
  PROVE  IsPrefix(rows, rows')
<1>1. rows \in RowSeq
  BY DEF AloneInv, TypeOK
<1>2. \/ rows' = rows
      \/ \E p \in Processes : Replace(p)
  BY DEF Next, vars, Tick, Poll, OpenSnapshot, WriteSnapshot, ReadBack, Die
<1>3. CASE rows' = rows
  BY <1>1, <1>3 DEF IsPrefix, RowSeq
<1>4. ASSUME NEW p \in Processes, Replace(p)
      PROVE  IsPrefix(rows, rows')
  <2>1. rows' = Append(rows, RowsOf(at[p])) /\ snapshots[at[p]] \in Polls
    BY <1>4 DEF Replace, AloneInv, CallInv, NewRows
  <2>2. rows \in Seq(Row) /\ RowsOf(at[p]) \in Row
    BY <1>1, <2>1 DEF AloneInv, TypeOK, RowSeq, Row, RowsOf
  <2> QED
    BY <2>1, <2>2 DEF IsPrefix
<1> QED
  BY <1>2, <1>3, <1>4

\* Of calls that do not overlap, none takes a row of the history away, even
\* if earlier ones died half way.
THEOREM HistoryIsKept == ASSUME OneAtATime PROVE Spec => HistoryOnlyGrows
<1>1. AloneInv /\ [Next]_vars => AloneInv'
  BY AloneStep
<1>2. AloneInv /\ [Next]_vars => [IsPrefix(rows, rows')]_rows
  BY RowsAreOnlyAdded
<1> QED
  BY <1>1, <1>2, AloneInit, PTL DEF Spec, HistoryOnlyGrows
=============================================================================
