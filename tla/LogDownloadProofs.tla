-------------------------- MODULE LogDownloadProofs --------------------------
(***************************************************************************)
(* Theorems about LogDownload, for any jobs and any number of processes.   *)
(***************************************************************************)
EXTENDS LogDownload, TLAPS, FiniteSetTheorems

-----------------------------------------------------------------------------
(* Inodes.                                                                 *)

\* Only a process whose `gh' runs has a file open.
OnlyGhHasFile == \A p \in Processes : fd[p] # None <=> pc[p] = "gh"

TypeInv == TypeOK /\ OnlyGhHasFile

\* A function has no more values than arguments.
LEMMA ImageIsNoLarger ==
  ASSUME NEW S, IsFiniteSet(S), NEW f
  PROVE  /\ IsFiniteSet({f[x] : x \in S})
         /\ Cardinality({f[x] : x \in S}) <= Cardinality(S)
<1> DEFINE T == {f[x] : x \in S}
           g == [x \in S |-> f[x]]
<1>1. g \in Surjection(S, T)
  BY DEF Surjection
<1> QED
  BY <1>1, FS_Surjection

LEMMA UnionIsNoLarger ==
  ASSUME NEW A, NEW B, IsFiniteSet(A), IsFiniteSet(B)
  PROVE  /\ IsFiniteSet(A \cup B)
         /\ Cardinality(A \cup B) <= Cardinality(A) + Cardinality(B)
<1>1. /\ IsFiniteSet(A \cup B)
      /\ Cardinality(A \cup B) = Cardinality(A) + Cardinality(B) - Cardinality(A \cap B)
  BY FS_Union
<1>2. IsFiniteSet(A \cap B)
  BY FS_Subset
<1>3. Cardinality(A) \in Nat /\ Cardinality(B) \in Nat /\ Cardinality(A \cap B) \in Nat
  BY <1>2, FS_CardinalityType
<1> QED
  BY <1>1, <1>3

\* A process that has no file open finds an inode that nothing names.
LEMMA NewInodeIsNew ==
  ASSUME NEW p \in Processes, fd[p] = None
  PROVE  NewInode \in Inodes /\ NewInode \notin UsedInodes
<1> USE LogDownloadAssumption
<1> DEFINE L == {log[j] : j \in Jobs}
           P == {part[j] : j \in Jobs}
           F == {fd[q] : q \in Processes \ {p}}
           n == 2 * Cardinality(Jobs) + Cardinality(Processes)
<1>1. /\ IsFiniteSet(L) /\ Cardinality(L) <= Cardinality(Jobs)
      /\ IsFiniteSet(P) /\ Cardinality(P) <= Cardinality(Jobs)
  BY ImageIsNoLarger
<1>2. /\ IsFiniteSet(Processes \ {p})
      /\ Cardinality(Processes \ {p}) = Cardinality(Processes) - 1
  BY FS_RemoveElement
<1>3. IsFiniteSet(F) /\ Cardinality(F) <= Cardinality(Processes) - 1
  <2>1. IsFiniteSet(F) /\ Cardinality(F) <= Cardinality(Processes \ {p})
    BY <1>2, ImageIsNoLarger
  <2> QED
    BY <1>2, <2>1
<1>4. Cardinality(Jobs) \in Nat /\ Cardinality(Processes) \in Nat
  BY FS_CardinalityType
<1> HIDE DEF L, P, F
<1>5. /\ Cardinality(L) \in Nat /\ Cardinality(P) \in Nat /\ Cardinality(F) \in Nat
  BY <1>1, <1>3, FS_CardinalityType
<1>6. IsFiniteSet(L \cup P) /\ Cardinality(L \cup P) <= Cardinality(L) + Cardinality(P)
  BY <1>1, UnionIsNoLarger
<1>7. /\ IsFiniteSet((L \cup P) \cup F)
      /\ Cardinality((L \cup P) \cup F) <= Cardinality(L \cup P) + Cardinality(F)
  BY <1>3, <1>6, UnionIsNoLarger
<1>8. Cardinality(L \cup P) \in Nat /\ Cardinality((L \cup P) \cup F) \in Nat
  BY <1>6, <1>7, FS_CardinalityType
<1>9. Cardinality((L \cup P) \cup F) < n
  BY <1>1, <1>3, <1>4, <1>5, <1>6, <1>7, <1>8
<1>10. n \in Nat /\ IsFiniteSet(Inodes) /\ Cardinality(Inodes) = n
  <2>1. n \in Nat
    BY <1>4
  <2>2. /\ IsFiniteSet(1..n) /\ Cardinality(1..n) = IF 1 > n THEN 0 ELSE n - 1 + 1
    BY <2>1, FS_Interval
  <2> HIDE DEF n
  <2>3. Cardinality(1..n) = n
    BY <2>1, <2>2
  <2> QED
    BY <2>1, <2>2, <2>3 DEF Inodes, n
<1>11. ~(Inodes \subseteq (L \cup P) \cup F)
  <2>1. SUFFICES ASSUME Inodes \subseteq (L \cup P) \cup F PROVE FALSE
    OBVIOUS
  <2>2. Cardinality(Inodes) <= Cardinality((L \cup P) \cup F)
    BY <1>7, <2>1, FS_Subset
  <2> HIDE DEF n
  <2> QED
    BY <1>8, <1>9, <1>10, <2>2
<1>12. UsedInodes \subseteq ((L \cup P) \cup F) \cup {None}
  BY DEF UsedInodes, L, P, F
<1>13. \E i \in Inodes : i \notin UsedInodes
  <2>1. None \notin Inodes
    BY <1>4 DEF Inodes, None
  <2> QED
    BY <1>11, <1>12, <2>1
<1> QED
  BY <1>13 DEF NewInode

-----------------------------------------------------------------------------
(* Types.                                                                  *)

LEMMA TypeInit == Init => TypeInv
<1> SUFFICES ASSUME Init PROVE TypeInv
  OBVIOUS
<1>1. (CHOOSE j \in Jobs : TRUE) \in Jobs
  BY LogDownloadAssumption
<1> QED
  BY <1>1 DEF Init, TypeInv, TypeOK, OnlyGhHasFile, Usages, Modes

\* What a process leaves behind when it ends.
LEMMA EndType ==
  ASSUME TypeInv, NEW p \in Processes, End(p)
  PROVE  /\ pc' \in [Processes -> {"idle", "next", "unlink", "open", "gh", "rename",
                                   "saved", "failed", "lost", "read", "clear"}]
         /\ mode' \in [Processes -> Modes]
         /\ todo' \in [Processes -> SUBSET Jobs] /\ job' \in [Processes -> Jobs]
         /\ fd' \in [Processes -> Inodes \cup {None}]
         /\ read' \in [Processes -> SUBSET Jobs] /\ matched' \in [Processes -> SUBSET Jobs]
         /\ OnlyGhHasFile'
BY DEF TypeInv, TypeOK, OnlyGhHasFile, End, None

LEMMA TypeStep == TypeInv /\ [Next]_vars => TypeInv'
<1> SUFFICES ASSUME TypeInv, [Next]_vars PROVE TypeInv'
  OBVIOUS
<1>1. CASE UNCHANGED vars
  BY <1>1 DEF vars, files, TypeInv, TypeOK, OnlyGhHasFile
<1>2. ASSUME NEW p \in Processes, Step(p), UNCHANGED usage
      PROVE  TypeInv'
  <2> USE <1>2 DEF TypeInv, TypeOK, OnlyGhHasFile, files, None, Goto
  <2>1. ASSUME NEW m \in Modes, NEW S \in SUBSET Jobs, Start(p, m, S)
        PROVE  TypeInv'
    BY <2>1 DEF Start, Running
  <2>2. ASSUME NEW j \in Jobs, NextJob(p, j)
        PROVE  TypeInv'
    BY <2>2 DEF NextJob
  <2>3. ASSUME NEW j \in Jobs, ClearLog(p, j)
        PROVE  TypeInv'
    BY <2>3 DEF ClearLog
  <2>4. CASE UnlinkPart(p)
    BY <2>4 DEF UnlinkPart
  <2>5. CASE OpenPart(p)
    <3>1. NewInode \in Inodes /\ pc[p] = "open" /\ job[p] \in Jobs
      BY <2>5, NewInodeIsNew DEF OpenPart
    <3>2. PICK i \in Inodes, W \in SUBSET Processes :
            /\ part' = [part EXCEPT ![job[p]] = i] /\ fd' = [fd EXCEPT ![p] = i]
            /\ text' = [text EXCEPT ![i] = "empty"]
            /\ writers' = [writers EXCEPT ![i] = W]
      BY <2>5, <3>1 DEF OpenPart
    <3>3. i # None
      BY DEF Inodes
    <3>4. pc' = [pc EXCEPT ![p] = "gh"] /\ UNCHANGED <<log, mode, todo, job, read, matched>>
      BY <2>5 DEF OpenPart
    <3> QED
      BY <3>1, <3>2, <3>3, <3>4
  <2>6. CASE GhWrites(p)
    BY <2>6 DEF GhWrites
  <2>7. CASE GhSucceeds(p)
    BY <2>7 DEF GhSucceeds
  <2>8. CASE GhFails(p)
    BY <2>8 DEF GhFails
  <2>9. CASE Rename(p)
    BY <2>9 DEF Rename
  <2>10. CASE CleanUp(p)
    <3>1. /\ part' \in [Jobs -> Inodes \cup {None}] /\ UNCHANGED <<log, text, writers>>
          /\ pc[p] \in {"saved", "failed", "lost"}
      BY <2>10 DEF CleanUp
    <3>2. CASE End(p)
      BY <3>1, <3>2, EndType
    <3>3. CASE \/ pc' = [pc EXCEPT ![p] = "read"] /\ UNCHANGED <<mode, todo, job, fd, read, matched>>
               \/ pc' = [pc EXCEPT ![p] = "next"] /\ UNCHANGED <<mode, todo, job, fd, read, matched>>
      BY <3>1, <3>3
    <3> QED
      BY <2>10, <3>2, <3>3 DEF CleanUp
  <2>11. CASE ReadLog(p)
    BY <2>11 DEF ReadLog
  <2>12. CASE LogIsGone(p) \/ EndClear(p) \/ Die(p)
    <3>1. End(p) /\ UNCHANGED files
      BY <2>12 DEF LogIsGone, EndClear, Die
    <3> QED
      BY <3>1, EndType
  <2>13. CASE EndJobs(p)
    <3>1. CASE End(p) /\ UNCHANGED files
      BY <3>1, EndType
    <3>2. CASE ~(End(p) /\ UNCHANGED files)
      BY <2>13, <3>2 DEF EndJobs
    <3> QED
      BY <3>1, <3>2
  <2> QED
    BY <2>1, <2>2, <2>3, <2>4, <2>5, <2>6, <2>7, <2>8, <2>9, <2>10, <2>11, <2>12, <2>13
       DEF Step
<1> QED
  BY <1>1, <1>2 DEF Next

\* Directory entries, open files and all else of the state stay of their kind;
\* in particular the file system never runs out of inodes.
THEOREM TypeCorrect == Spec => []TypeOK
<1>1. TypeInv => TypeOK
  BY DEF TypeInv
<1> QED
  BY <1>1, TypeInit, TypeStep, PTL DEF Spec

-----------------------------------------------------------------------------
(* Commands run one at a time.  Inductive strengthening of LogsAreWhole:   *)
(* the one that runs writes to a file no log is, which has its own log     *)
(* whole before it is renamed, and it has matched what it read of Matching.*)

LogsWhole == \A j \in Jobs : log[j] # None => text[log[j]] = "whole"

OwnPartOnly(p) ==
  /\ pc[p] = "open" => part[job[p]] = None
  /\ pc[p] = "gh" => /\ part[job[p]] = fd[p] /\ p \in writers[fd[p]]
                     /\ \A j \in Jobs : log[j] # fd[p]
  /\ pc[p] = "rename" => part[job[p]] # None /\ text[part[job[p]]] = "whole"
  /\ read[p] \cap Matching \subseteq matched[p]

AloneInv ==
  usage = "alone" =>
    /\ \A p, q \in Processes : Running(p) /\ Running(q) => p = q
    /\ LogsWhole
    /\ \A p \in Processes : OwnPartOnly(p)

LEMMA AloneInit == Init => AloneInv
BY DEF Init, AloneInv, Running, LogsWhole, OwnPartOnly

\* A process that ends leaves nothing half done that the next one relies on.
LEMMA AloneEnd ==
  ASSUME TypeInv, AloneInv, NEW p \in Processes, Running(p), End(p),
         UNCHANGED <<usage, log, text, writers>>
  PROVE  AloneInv'
<1> SUFFICES ASSUME usage = "alone"
             PROVE  /\ \A q, s \in Processes : Running(q)' /\ Running(s)' => q = s
                    /\ LogsWhole'
                    /\ \A q \in Processes : OwnPartOnly(q)'
  BY DEF AloneInv
<1> USE DEF AloneInv, TypeInv, TypeOK, Running, End
<1>1. \A q \in Processes : pc'[q] # "idle" => pc'[q] = pc[q] /\ q # p
  OBVIOUS
<1>2. \A q, s \in Processes : Running(q)' /\ Running(s)' => q = s
  BY <1>1
<1>3. LogsWhole'
  BY DEF LogsWhole
<1>4. ASSUME NEW q \in Processes
      PROVE  OwnPartOnly(q)'
  <2>1. CASE q = p
    BY <2>1 DEF OwnPartOnly
  <2>2. CASE q # p
    <3>1. read'[q] = read[q] /\ matched'[q] = matched[q] /\ pc'[q] = pc[q]
      BY <2>2
    <3>2. pc[q] = "idle"
      BY <2>2
    <3> QED
      BY <3>1, <3>2 DEF OwnPartOnly
  <2> QED
    BY <2>1, <2>2
<1> QED
  BY <1>2, <1>3, <1>4

\* Of commands run one at a time, a step is by the only one that runs.
LEMMA OthersAreIdle ==
  ASSUME AloneInv, usage = "alone", NEW p \in Processes, Running(p)
  PROVE  \A q \in Processes \ {p} : pc[q] = "idle"
BY DEF AloneInv, Running

OthersStay(p) ==
  \A q \in Processes \ {p} :
    pc'[q] = pc[q] /\ read'[q] = read[q] /\ matched'[q] = matched[q]

\* The parts of AloneInv after a step of a process that runs on.
LEMMA AloneGoesOn ==
  ASSUME AloneInv, usage = "alone", NEW p \in Processes, Running(p),
         OthersStay(p), LogsWhole', OwnPartOnly(p)'
  PROVE  /\ \A q, s \in Processes : Running(q)' /\ Running(s)' => q = s
         /\ LogsWhole'
         /\ \A q \in Processes : OwnPartOnly(q)'
<1>1. \A q \in Processes \ {p} : pc'[q] = "idle"
  BY OthersAreIdle DEF OthersStay
<1>2. \A q, s \in Processes : Running(q)' /\ Running(s)' => q = s
  BY <1>1 DEF Running
<1>3. ASSUME NEW q \in Processes \ {p}
      PROVE  OwnPartOnly(q)'
  <2>1. /\ pc'[q] = "idle"
        /\ read'[q] = read[q] /\ matched'[q] = matched[q]
    BY <1>1 DEF OthersStay
  <2>2. OwnPartOnly(q)
    BY DEF AloneInv
  <2> QED
    BY <2>1, <2>2 DEF OwnPartOnly
<1> QED
  BY <1>2, <1>3

LEMMA AloneStep == TypeInv /\ AloneInv /\ [Next]_vars => AloneInv'
<1> SUFFICES ASSUME TypeInv, AloneInv, [Next]_vars PROVE AloneInv'
  OBVIOUS
<1>1. CASE UNCHANGED vars
  BY <1>1 DEF vars, files, AloneInv, LogsWhole, OwnPartOnly, Running, OthersStay
<1>2. ASSUME NEW p \in Processes, Step(p), UNCHANGED usage
      PROVE  AloneInv'
  <2>1. CASE usage # "alone"
    BY <1>2, <2>1 DEF AloneInv
  <2>2. CASE usage = "alone"
    <3> DEFINE Goal == /\ \A q, s \in Processes : Running(q)' /\ Running(s)' => q = s
                       /\ LogsWhole'
                       /\ \A q \in Processes : OwnPartOnly(q)'
    <3> SUFFICES Goal
      BY DEF AloneInv
    <3>0. LogsWhole /\ OwnPartOnly(p) /\ \A q \in Processes : OwnPartOnly(q)
      BY <2>2 DEF AloneInv
    <3> USE DEF TypeInv, TypeOK, files, Goto
    <3>1. ASSUME NEW m \in Modes, NEW S \in SUBSET Jobs, Start(p, m, S)
          PROVE  Goal
      BY <2>2, <3>0, <3>1 DEF Start, Running, LogsWhole, OwnPartOnly
    <3>2. ASSUME NEW j \in Jobs, NextJob(p, j)
          PROVE  Goal
      <4>1. LogsWhole' /\ OwnPartOnly(p)' /\ Running(p) /\ OthersStay(p)
        BY <3>0, <3>2 DEF NextJob, LogsWhole, OwnPartOnly, Running, OthersStay
      <4> QED
        BY <2>2, <4>1, AloneGoesOn
    <3>3. ASSUME NEW j \in Jobs, ClearLog(p, j)
          PROVE  Goal
      <4>1. LogsWhole' /\ OwnPartOnly(p)' /\ Running(p) /\ OthersStay(p)
        BY <3>0, <3>3 DEF ClearLog, LogsWhole, OwnPartOnly, Running, None, OthersStay
      <4> QED
        BY <2>2, <4>1, AloneGoesOn
    <3>4. CASE UnlinkPart(p)
      <4>1. LogsWhole' /\ OwnPartOnly(p)' /\ Running(p) /\ OthersStay(p)
        BY <3>0, <3>4 DEF UnlinkPart, LogsWhole, OwnPartOnly, Running, OthersStay
      <4> QED
        BY <2>2, <4>1, AloneGoesOn
    <3>5. CASE OpenPart(p)
      <4>1. fd[p] = None /\ part[job[p]] = None
        BY <3>0, <3>5 DEF OpenPart, OwnPartOnly, OnlyGhHasFile
      <4>2. NewInode \in Inodes /\ \A j \in Jobs : log[j] # NewInode
        BY <4>1, NewInodeIsNew DEF UsedInodes
      <4>3. /\ part' = [part EXCEPT ![job[p]] = NewInode] /\ fd' = [fd EXCEPT ![p] = NewInode]
            /\ text' = [text EXCEPT ![NewInode] = "empty"]
            /\ writers' = [writers EXCEPT ![NewInode] = {p}]
            /\ pc[p] = "open" /\ pc' = [pc EXCEPT ![p] = "gh"]
            /\ UNCHANGED <<log, mode, todo, job, read, matched>>
        BY <3>5, <4>1 DEF OpenPart
      <4>4. LogsWhole' /\ OwnPartOnly(p)' /\ Running(p) /\ OthersStay(p)
        BY <3>0, <4>2, <4>3 DEF LogsWhole, OwnPartOnly, Running, OthersStay
      <4> QED
        BY <2>2, <4>4, AloneGoesOn
    <3>6. CASE GhWrites(p) \/ GhSucceeds(p)
      <4>1. /\ pc[p] = "gh" /\ fd[p] \in Inodes /\ p \in writers[fd[p]]
            /\ part[job[p]] = fd[p] /\ \A j \in Jobs : log[j] # fd[p]
        BY <3>0, <3>6 DEF GhWrites, GhSucceeds, OwnPartOnly, OnlyGhHasFile
      <4>2. /\ \/ text' = [text EXCEPT ![fd[p]] = "cut"] /\ UNCHANGED <<pc, fd>>
               \/ /\ text' = [text EXCEPT ![fd[p]] = "whole"]
                  /\ pc' = [pc EXCEPT ![p] = "rename"]
            /\ UNCHANGED <<log, part, writers, mode, todo, job, read, matched>>
        BY <3>6, <4>1 DEF GhWrites, GhSucceeds
      <4>3. LogsWhole'
        BY <3>0, <4>1, <4>2 DEF LogsWhole
      <4>4. OwnPartOnly(p)'
        <5>1. part'[job'[p]] = fd[p] /\ read'[p] \cap Matching \subseteq matched'[p]
          BY <3>0, <4>1, <4>2 DEF OwnPartOnly
        <5>2. CASE UNCHANGED <<pc, fd>>
          BY <4>1, <4>2, <5>1, <5>2 DEF OwnPartOnly
        <5>3. CASE text' = [text EXCEPT ![fd[p]] = "whole"] /\ pc' = [pc EXCEPT ![p] = "rename"]
          <6>1. pc'[p] = "rename" /\ text'[fd[p]] = "whole" /\ fd[p] # None
            BY <4>1, <5>3 DEF Inodes, None
          <6> QED
            BY <5>1, <6>1 DEF OwnPartOnly
        <5> QED
          BY <4>2, <5>2, <5>3
      <4>5. Running(p) /\ OthersStay(p)
        BY <4>1, <4>2 DEF Running, OthersStay
      <4> QED
        BY <2>2, <4>3, <4>4, <4>5, AloneGoesOn
    <3>7. CASE GhFails(p)
      <4>1. LogsWhole' /\ OwnPartOnly(p)' /\ Running(p) /\ OthersStay(p)
        BY <3>0, <3>7 DEF GhFails, LogsWhole, OwnPartOnly, Running, OthersStay
      <4> QED
        BY <2>2, <4>1, AloneGoesOn
    <3>8. CASE Rename(p)
      <4>1. /\ log' = [log EXCEPT ![job[p]] = part[job[p]]]
            /\ pc[p] = "rename" /\ pc' = [pc EXCEPT ![p] = "saved"]
            /\ text[part[job[p]]] = "whole"
            /\ UNCHANGED <<text, read, matched>>
        BY <3>0, <3>8 DEF Rename, OwnPartOnly
      <4>2. LogsWhole' /\ OwnPartOnly(p)' /\ Running(p) /\ OthersStay(p)
        BY <3>0, <4>1 DEF LogsWhole, OwnPartOnly, Running, OthersStay
      <4> QED
        BY <2>2, <4>2, AloneGoesOn
    <3>9. CASE CleanUp(p)
      <4>1. UNCHANGED <<log, text, writers>> /\ Running(p) /\ pc[p] # "gh"
        BY <3>9 DEF CleanUp, Running
      <4>2. CASE End(p)
        BY <1>2, <2>2, <4>1, <4>2, AloneEnd DEF AloneInv
      <4>3. CASE pc' \in {[pc EXCEPT ![p] = "read"], [pc EXCEPT ![p] = "next"]}
                 /\ UNCHANGED <<mode, todo, job, fd, read, matched>>
        <5>1. LogsWhole' /\ OwnPartOnly(p)' /\ OthersStay(p)
          BY <3>0, <4>1, <4>3 DEF LogsWhole, OwnPartOnly, OthersStay
        <5> QED
          BY <2>2, <4>1, <5>1, AloneGoesOn
      <4> QED
        BY <3>9, <4>2, <4>3 DEF CleanUp
    <3>10. CASE ReadLog(p)
      <4> DEFINE j == job[p]
      <4>1. pc[p] = "read" /\ j \in Jobs /\ text[log[j]] = "whole"
        BY <3>0, <3>10 DEF ReadLog, LogsWhole
      <4>2. matched' = [matched EXCEPT ![p] = IF j \in Matching THEN @ \cup {j} ELSE @]
        BY <3>10, <4>1 DEF ReadLog
      <4>3. /\ read' = [read EXCEPT ![p] = @ \cup {j}] /\ pc' = [pc EXCEPT ![p] = "next"]
            /\ UNCHANGED <<log, part, text, writers, mode, todo, job, fd>>
        BY <3>10 DEF ReadLog
      <4>4. LogsWhole' /\ Running(p) /\ OthersStay(p)
        BY <3>0, <4>1, <4>2, <4>3 DEF LogsWhole, Running, OthersStay
      <4>5. OwnPartOnly(p)'
        BY <3>0, <4>2, <4>3 DEF OwnPartOnly
      <4> QED
        BY <2>2, <4>4, <4>5, AloneGoesOn
    <3>11. CASE LogIsGone(p) \/ EndClear(p) \/ Die(p)
      <4>1. End(p) /\ UNCHANGED files /\ Running(p)
        BY <3>11 DEF LogIsGone, EndClear, Die, Running
      <4> QED
        BY <1>2, <2>2, <4>1, AloneEnd DEF AloneInv
    <3>12. CASE EndJobs(p)
      <4>1. UNCHANGED files /\ Running(p)
        BY <3>12 DEF EndJobs, Running
      <4>2. CASE End(p)
        BY <1>2, <2>2, <4>1, <4>2, AloneEnd DEF AloneInv
      <4>3. CASE pc' = [pc EXCEPT ![p] = "clear"] /\ UNCHANGED <<mode, todo, job, fd, read, matched>>
        <5>1. LogsWhole' /\ OwnPartOnly(p)' /\ OthersStay(p)
          BY <3>0, <4>1, <4>3 DEF LogsWhole, OwnPartOnly, OthersStay
        <5> QED
          BY <2>2, <4>1, <5>1, AloneGoesOn
      <4> QED
        BY <3>12, <4>2, <4>3 DEF EndJobs
    <3> QED
      BY <1>2, <3>1, <3>2, <3>3, <3>4, <3>5, <3>6, <3>7, <3>8, <3>9, <3>10, <3>11, <3>12
         DEF Step
  <2> QED
    BY <2>1, <2>2
<1> QED
  BY <1>1, <1>2 DEF Next

AloneIndInv == TypeInv /\ AloneInv

\* Of commands run one at a time, whichever die or fail on the way, every log
\* under its final name is the whole log.
THEOREM LogsAreAlwaysWhole == Spec => []LogsAreWhole
<1>1. Init => AloneIndInv
  BY TypeInit, AloneInit DEF AloneIndInv
<1>2. AloneIndInv /\ [Next]_vars => AloneIndInv'
  BY TypeStep, AloneStep DEF AloneIndInv
<1>3. AloneIndInv => LogsAreWhole
  BY DEF AloneIndInv, AloneInv, LogsWhole, LogsAreWhole
<1> QED
  BY <1>1, <1>2, <1>3, PTL DEF Spec

\* Only a log of which this call has read that it does not match is deleted.
LEMMA NoMatchIsCleared ==
  ASSUME AloneIndInv, [Next]_vars, usage = "alone",
         NEW j \in Matching, log[j] # None
  PROVE  log'[j] # None
<1> USE LogDownloadAssumption DEF AloneIndInv, TypeInv, TypeOK
<1>1. CASE log' = log
  BY <1>1
<1>2. ASSUME NEW p \in Processes, NEW k \in Jobs, ClearLog(p, k)
      PROVE  log'[j] # None
  <2>1. k \notin Matching
    BY <1>2 DEF AloneInv, OwnPartOnly, ClearLog
  <2> QED
    BY <1>2, <2>1 DEF ClearLog
<1>3. ASSUME NEW p \in Processes, Rename(p)
      PROVE  log'[j] # None
  <2>1. part[job[p]] # None
    BY <1>3 DEF AloneInv, OwnPartOnly, Rename
  <2> QED
    BY <1>3, <2>1 DEF Rename
<1>4. \/ log' = log
      \/ \E p \in Processes, k \in Jobs : ClearLog(p, k)
      \/ \E p \in Processes : Rename(p)
  <2>1. ASSUME NEW p \in Processes, Step(p)
        PROVE  log' = log \/ (\E k \in Jobs : ClearLog(p, k)) \/ Rename(p)
    BY <2>1 DEF Step, files, Start, NextJob, UnlinkPart, OpenPart, GhWrites, GhSucceeds,
                GhFails, CleanUp, ReadLog, LogIsGone, EndJobs, EndClear, Die
  <2> QED
    BY <2>1 DEF Next, vars, files
<1> QED
  BY <1>1, <1>2, <1>3, <1>4

\* --clear-logs never costs a log that matches, this call's or an earlier one's.
THEOREM MatchingLogsAreKept == Spec => MatchingLogsStay
<1>1. Init => AloneIndInv
  BY TypeInit, AloneInit DEF AloneIndInv
<1>2. AloneIndInv /\ [Next]_vars => AloneIndInv'
  BY TypeStep, AloneStep DEF AloneIndInv
<1>3. AloneIndInv /\ [Next]_vars
      => [usage = "alone" => \A j \in Matching : log[j] # None => log'[j] # None]_vars
  BY NoMatchIsCleared
<1> QED
  BY <1>1, <1>2, <1>3, PTL DEF Spec, MatchingLogsStay

-----------------------------------------------------------------------------
(* Commands that overlap, of which none fails: an inode that a directory   *)
(* entry names, under either name, is whole or has a process writing it    *)
(* that will make it so.  Of log entries alone this is not inductive: a    *)
(* rename makes a log of what was a partial file.                          *)

Named(i) == \E j \in Jobs : log[j] = i \/ part[j] = i
BeingWritten(i) == \E p \in writers[i] : pc[p] = "gh" /\ fd[p] = i

OverlapInv ==
  usage # "alone" => \A i \in Inodes : Named(i) => text[i] = "whole" \/ BeingWritten(i)

LEMMA OverlapInit == Init => OverlapInv
BY DEF Init, OverlapInv, Named, Inodes, None

\* A step that names nothing new, writes nothing and stops no `gh'.
LEMMA NothingIsWritten ==
  ASSUME TypeInv, OverlapInv, UNCHANGED <<usage, text, writers>>,
         \A i \in Inodes : Named(i)' => Named(i),
         \A q \in Processes : pc[q] = "gh" => pc'[q] = "gh" /\ fd'[q] = fd[q]
  PROVE  OverlapInv'
<1> SUFFICES ASSUME usage # "alone", NEW i \in Inodes, Named(i)'
             PROVE  text'[i] = "whole" \/ BeingWritten(i)'
  BY DEF OverlapInv
<1>1. text[i] = "whole" \/ BeingWritten(i)
  BY DEF OverlapInv
<1>2. writers[i] \subseteq Processes
  BY DEF TypeInv, TypeOK
<1> QED
  BY <1>1, <1>2 DEF BeingWritten

LEMMA OverlapStep == TypeInv /\ OverlapInv /\ [Next]_vars => OverlapInv'
<1> SUFFICES ASSUME TypeInv, OverlapInv, [Next]_vars PROVE OverlapInv'
  OBVIOUS
<1>1. CASE UNCHANGED vars
  BY <1>1 DEF vars, files, OverlapInv, Named, BeingWritten
<1>2. ASSUME NEW p \in Processes, Step(p), UNCHANGED usage
      PROVE  OverlapInv'
  <2>1. CASE usage = "alone"
    BY <1>2, <2>1 DEF OverlapInv
  <2>2. CASE usage # "alone"
    <3>1. CASE OpenPart(p)
      <4>1. PICK i \in Inodes, W \in SUBSET Processes :
              /\ part' = [part EXCEPT ![job[p]] = i] /\ fd' = [fd EXCEPT ![p] = i]
              /\ text' = [text EXCEPT ![i] = "empty"]
              /\ writers' = [writers EXCEPT ![i] = W]
              /\ p \in W
        <5>1. fd[p] = None
          BY <3>1 DEF OpenPart, TypeInv, OnlyGhHasFile
        <5>2. NewInode \in Inodes /\ job[p] \in Jobs
          BY <5>1, NewInodeIsNew DEF TypeInv, TypeOK
        <5> DEFINE new == part[job[p]] = None
                   i == IF new THEN NewInode ELSE part[job[p]]
                   W == (IF ~new /\ text[i] = "empty" THEN writers[i] ELSE {}) \cup {p}
        <5>3. i \in Inodes /\ W \in SUBSET Processes /\ p \in W
          BY <5>2 DEF TypeInv, TypeOK
        <5>4. /\ part' = [part EXCEPT ![job[p]] = i] /\ fd' = [fd EXCEPT ![p] = i]
              /\ text' = [text EXCEPT ![i] = "empty"]
              /\ writers' = [writers EXCEPT ![i] = W]
          BY <3>1 DEF OpenPart
        <5> HIDE DEF i, W
        <5> QED
          BY <5>3, <5>4
      <4>2. pc[p] = "open" /\ pc' = [pc EXCEPT ![p] = "gh"] /\ UNCHANGED log
        BY <3>1 DEF OpenPart, Goto
      <4>3. SUFFICES ASSUME NEW k \in Inodes, Named(k)'
                     PROVE  text'[k] = "whole" \/ BeingWritten(k)'
        BY DEF OverlapInv
      <4>4. CASE k = i
        BY <4>1, <4>2, <4>4 DEF BeingWritten, TypeInv, TypeOK
      <4>5. CASE k # i
        <5>1. Named(k)
          BY <4>1, <4>2, <4>3, <4>5 DEF Named, TypeInv, TypeOK
        <5>2. text[k] = "whole" \/ BeingWritten(k)
          BY <2>2, <5>1 DEF OverlapInv
        <5>3. text'[k] = text[k] /\ writers'[k] = writers[k] /\ writers[k] \subseteq Processes
          BY <4>1, <4>5 DEF TypeInv, TypeOK
        <5>4. \A q \in Processes : pc[q] = "gh" => pc'[q] = "gh" /\ fd'[q] = fd[q]
          BY <4>1, <4>2 DEF TypeInv, TypeOK
        <5> QED
          BY <5>2, <5>3, <5>4 DEF BeingWritten
      <4> QED
        BY <4>4, <4>5
    <3>2. CASE GhWrites(p) \/ GhSucceeds(p)
      <4> DEFINE i == fd[p]
      <4>1. pc[p] = "gh" /\ i \in Inodes
        BY <3>2 DEF GhWrites, GhSucceeds, TypeInv, TypeOK, OnlyGhHasFile
      <4>2. /\ \/ text' = [text EXCEPT ![i] = "cut"] /\ text[i] = "empty" /\ UNCHANGED <<pc, fd>>
               \/ text' = [text EXCEPT ![i] = "whole"]
               \/ text' = [text EXCEPT ![i] = "cut"] /\ text[i] # "whole" /\ p \notin writers[i]
            /\ \A q \in Processes \ {p} : pc'[q] = pc[q] /\ fd'[q] = fd[q]
            /\ UNCHANGED <<log, part, writers>>
        BY <3>2, <4>1 DEF GhWrites, GhSucceeds, Goto, TypeInv, TypeOK
      <4>3. SUFFICES ASSUME NEW k \in Inodes, Named(k)'
                     PROVE  text'[k] = "whole" \/ BeingWritten(k)'
        BY DEF OverlapInv
      <4>4. Named(k) /\ writers'[k] = writers[k] /\ writers[k] \subseteq Processes
        BY <4>2, <4>3 DEF Named, TypeInv, TypeOK
      <4>5. text[k] = "whole" \/ BeingWritten(k)
        BY <2>2, <4>4 DEF OverlapInv
      <4>6. CASE k # i
        <5>1. text'[k] = text[k]
          BY <4>1, <4>2, <4>6 DEF TypeInv, TypeOK
        <5> QED
          BY <4>2, <4>4, <4>5, <4>6, <5>1 DEF BeingWritten
      <4>7. CASE k = i /\ text' = [text EXCEPT ![i] = "whole"]
        BY <4>1, <4>7 DEF TypeInv, TypeOK
      <4>8. CASE k = i /\ text[i] # "whole" /\ (UNCHANGED <<pc, fd>> \/ p \notin writers[i])
        BY <4>2, <4>4, <4>5, <4>8 DEF BeingWritten
      <4> QED
        BY <4>2, <4>6, <4>7, <4>8
    <3>3. CASE Rename(p)
      <4>1. \A i \in Inodes : Named(i)' => Named(i)
        BY <3>3 DEF Rename, Named, TypeInv, TypeOK, None, Inodes
      <4>2. \A q \in Processes : pc[q] = "gh" => pc'[q] = "gh" /\ fd'[q] = fd[q]
        BY <3>3 DEF Rename, Goto, TypeInv, TypeOK
      <4> QED
        BY <1>2, <3>3, <4>1, <4>2, NothingIsWritten DEF Rename
    <3>4. CASE CleanUp(p)
      <4>1. \A i \in Inodes : Named(i)' => Named(i)
        BY <3>4 DEF CleanUp, Named, TypeInv, TypeOK, None, Inodes
      <4>2. \A q \in Processes : pc[q] = "gh" => pc'[q] = "gh" /\ fd'[q] = fd[q]
        BY <3>4 DEF CleanUp, End, Goto, TypeInv, TypeOK
      <4> QED
        BY <1>2, <3>4, <4>1, <4>2, NothingIsWritten DEF CleanUp
    <3>5. CASE UnlinkPart(p) \/ \E j \in Jobs : ClearLog(p, j)
      <4>1. \A i \in Inodes : Named(i)' => Named(i)
        BY <3>5 DEF UnlinkPart, ClearLog, Named, TypeInv, TypeOK, None, Inodes
      <4>2. \A q \in Processes : pc[q] = "gh" => pc'[q] = "gh" /\ fd'[q] = fd[q]
        BY <3>5 DEF UnlinkPart, ClearLog, Goto, TypeInv, TypeOK
      <4> QED
        BY <1>2, <3>5, <4>1, <4>2, NothingIsWritten DEF UnlinkPart, ClearLog
    <3>6. CASE \/ \E m \in Modes, S \in SUBSET Jobs : Start(p, m, S)
               \/ \E j \in Jobs : NextJob(p, j)
               \/ ReadLog(p) \/ LogIsGone(p) \/ EndJobs(p) \/ EndClear(p)
      <4>1. UNCHANGED files /\ pc[p] # "gh"
        BY <3>6 DEF Start, Running, NextJob, ReadLog, LogIsGone, EndJobs, EndClear
      <4>2. \A q \in Processes \ {p} : pc'[q] = pc[q] /\ fd'[q] = fd[q]
        BY <3>6 DEF Start, NextJob, ReadLog, LogIsGone, EndJobs, EndClear, End, Goto,
                    TypeInv, TypeOK
      <4>3. \A i \in Inodes : Named(i)' => Named(i)
        BY <4>1 DEF files, Named
      <4> QED
        BY <1>2, <4>1, <4>2, <4>3, NothingIsWritten DEF files
    <3>7. ~GhFails(p) /\ ~Die(p)
      BY <2>2 DEF GhFails, Die
    <3> QED
      BY <1>2, <3>1, <3>2, <3>3, <3>4, <3>5, <3>6, <3>7 DEF Step
  <2> QED
    BY <2>1, <2>2
<1> QED
  BY <1>1, <1>2 DEF Next

\* However many commands overlap, a log that is not whole has a process that
\* is still writing it and will make it so; commands run one at a time leave
\* no such log.
THEOREM CutLogsAreFinished == Spec => []CutLogsAreBeingWritten
<1> DEFINE I == AloneIndInv /\ OverlapInv
<1>1. Init => I
  BY TypeInit, AloneInit, OverlapInit DEF AloneIndInv
<1>2. I /\ [Next]_vars => I'
  BY TypeStep, AloneStep, OverlapStep DEF AloneIndInv
<1>3. ASSUME I
      PROVE  CutLogsAreBeingWritten
  <2>1. SUFFICES ASSUME NEW j \in Jobs, log[j] # None, text[log[j]] # "whole"
                 PROVE  BeingWritten(log[j])
    BY DEF CutLogsAreBeingWritten, BeingWritten
  <2>2. usage # "alone"
    BY <1>3, <2>1 DEF AloneIndInv, AloneInv, LogsWhole
  <2>3. log[j] \in Inodes /\ Named(log[j])
    BY <1>3, <2>1 DEF AloneIndInv, TypeInv, TypeOK, Named
  <2> QED
    BY <1>3, <2>1, <2>2, <2>3 DEF OverlapInv
<1> HIDE DEF I
<1> QED
  BY <1>1, <1>2, <1>3, PTL DEF Spec
=============================================================================
