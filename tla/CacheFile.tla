----------------------------- MODULE CacheFile -----------------------------
(***************************************************************************)
(* How the commands really change workflows.parquet: each process reads    *)
(* the whole table, computes a new one, writes it to a temporary file and  *)
(* renames that over the old one (merge_parquet_cache, prune_runs,         *)
(* repair_job_durations).  There is no lock: nothing but the user keeps    *)
(* two commands from running at once.  A process can die between any two   *)
(* steps; its temporary file has a name nobody else uses.                  *)
(***************************************************************************)
EXTENDS Naturals

CONSTANTS
  Runs,
  Processes,   \* the processes of the cimon commands
  MaxFetch,    \* bound: syncs that ever fetch
  OneAtATime   \* TRUE: the user runs one command at a time

ASSUME CacheFileAssumption ==
  /\ MaxFetch \in Nat
  /\ OneAtATime \in BOOLEAN

VARIABLES
  file,      \* content of workflows.parquet
  pc,        \* pc[p]: how far process p is
  command,   \* command[p]: what it was asked to do, on which runs
  table,     \* table[p]: the table it holds, read or computed
  fetches    \* syncs that have fetched so far

vars == <<file, pc, command, table, fetches>>

Active == {p \in Processes : pc[p] # "idle"}

\* The abstract store: the file, and the commands of the running processes.
Abstract == INSTANCE CacheStore
              WITH content <- file, asked <- {command[p] : p \in Active}

Names == {"sync", "prune", "repair"}
Contents == [Runs -> Abstract!RunRows]
NoTable == [r \in Runs |-> Abstract!Absent]
NoCommand == [name |-> "none", runs |-> {}, fetch |-> 0]

Idle(p) ==
  /\ pc' = [pc EXCEPT ![p] = "idle"]
  /\ command' = [command EXCEPT ![p] = NoCommand]
  /\ table' = [table EXCEPT ![p] = NoTable]

\* The user starts a command; a sync goes and fetches the runs S.
Start(p, name, S) ==
  /\ pc[p] = "idle"
  /\ OneAtATime => Active = {}
  /\ IF name = "sync" THEN fetches < MaxFetch /\ fetches' = fetches + 1
     ELSE UNCHANGED fetches
  /\ pc' = [pc EXCEPT ![p] = "started"]
  /\ command' = [command EXCEPT ![p] = [name |-> name, runs |-> S, fetch |-> fetches']]
  /\ UNCHANGED <<file, table>>

\* load_parquet, or the query of prune-runs.
Read(p) ==
  /\ pc[p] = "started"
  /\ table' = [table EXCEPT ![p] = file]
  /\ pc' = [pc EXCEPT ![p] = "read"]
  /\ UNCHANGED <<file, command, fetches>>

\* Mutant: prune-runs drops the rows from the table itself.
TableWithoutPruned(p) ==
  IF command[p].name = "prune" THEN [r \in Runs \ command[p].runs |-> table[p][r]]
  ELSE Abstract!After(table[p], command[p])

NewTable(p) == Abstract!After(table[p], command[p])

\* Mutant: the new table is written over the cache itself.
WriteInPlace(p) ==
  /\ pc[p] = "read"
  /\ command[p].name = "repair" => NewTable(p) # table[p]
  /\ table' = [table EXCEPT ![p] = NewTable(p)]
  /\ file' = NewTable(p)
  /\ pc' = [pc EXCEPT ![p] = "written"]
  /\ UNCHANGED <<command, fetches>>

\* The new table is written to the temporary file.  repair-cache writes only
\* when a value changed; a dry run of prune-runs stops like it.
WriteTemporary(p) ==
  /\ pc[p] = "read"
  /\ command[p].name = "repair" => NewTable(p) # table[p]
  /\ table' = [table EXCEPT ![p] = NewTable(p)]
  /\ pc' = [pc EXCEPT ![p] = "written"]
  /\ UNCHANGED <<file, command, fetches>>

NothingToWrite(p) ==
  /\ pc[p] = "read"
  /\ \/ command[p].name = "repair" /\ NewTable(p) = table[p]
     \/ command[p].name = "prune"
  /\ Idle(p)
  /\ UNCHANGED <<file, fetches>>

\* Path.replace: readers see the old table or the new one.
Replace(p) ==
  /\ pc[p] = "written"
  /\ file' = table[p]
  /\ Idle(p)
  /\ UNCHANGED fetches

\* Killed, or an exception: the temporary file never becomes the cache.
Die(p) ==
  /\ pc[p] # "idle"
  /\ Idle(p)
  /\ UNCHANGED <<file, fetches>>

Init ==
  /\ pc = [p \in Processes |-> "idle"]
  /\ command = [p \in Processes |-> NoCommand]
  /\ file \in [Runs -> {Abstract!Absent, Abstract!Legacy}]
  /\ table = [p \in Processes |-> NoTable]
  /\ fetches = 0

ProcessStep(p) ==
  \/ \E name \in Names, S \in SUBSET Runs : Start(p, name, S)
  \/ Read(p) \/ WriteTemporary(p) \/ NothingToWrite(p) \/ Replace(p) \/ Die(p)

Next == \E p \in Processes : ProcessStep(p)

Spec == Init /\ [][Next]_vars

-----------------------------------------------------------------------------
\* Every variable holds values of its kind.
TypeOK ==
  /\ file \in Contents
  /\ pc \in [Processes -> {"idle", "started", "read", "written"}]
  /\ command \in [Processes -> [name: Names \cup {"none"}, runs: SUBSET Runs,
                                fetch: 0..MaxFetch]]
  /\ table \in [Processes -> Contents]
  /\ fetches \in 0..MaxFetch

\* One command at a time, with deaths anywhere: every change of the cache is
\* one whole command applied to the table as it is (CacheStore).
ActsAtomically == Abstract!Spec

\* prune-runs, whatever else runs: runs outside its range are kept unchanged.
PruneKeepsTheRest ==
  [][\A p \in Processes :
       (Replace(p) /\ command[p].name = "prune")
       => \A r \in Runs \ command[p].runs : file'[r] = file[r]]_vars
=============================================================================
