----------------------------- MODULE CacheMirror -----------------------------
(***************************************************************************)
(* What `cimon sync' promises of workflows.parquet, without saying how: a  *)
(* mirror of GitHub that lags behind it.  While GitHub moves on, the runs  *)
(* of one workflow are published now and then, all in one step; what is    *)
(* published has happened, nothing is forgotten, and an attempt that was   *)
(* shown to be over is not shown as running again.                         *)
(***************************************************************************)
EXTENDS GitHub

CONSTANT Nil      \* no job, no workflow

VARIABLE mirror   \* mirror[r]: the rows of run r and its workflow

Nothing == [rows |-> {}, wf |-> Nil]

\* What a row says is, or was, so on GitHub.
HasHappened(r, row) ==
  /\ Happened(r, row.att, row.status)
  /\ row.job # Nil => row.job \in gh[r].jobs
  /\ row.done => row.job \in gh[r].done

\* No attempt that is over in `old' is shown otherwise in `new'.
TakesNothingBack(old, new) ==
  \A x \in old, y \in new :
    x.att = y.att /\ x.status = "completed" => y.status = "completed"

Published(r, w) ==
  /\ Owner[r] = w /\ mirror'[r].wf = w
  /\ mirror'[r].rows # {}
  /\ \A row \in mirror'[r].rows : HasHappened(r, row)
  /\ TakesNothingBack(mirror[r].rows, mirror'[r].rows)

Init == GhInit /\ mirror = [r \in Runs |-> Nothing]

GitHubMoves == GhNext /\ UNCHANGED mirror

Publish(w) ==
  /\ \A r \in Runs : mirror'[r] = mirror[r] \/ Published(r, w)
  /\ UNCHANGED gh

Next == GitHubMoves \/ \E w \in Workflows : Publish(w)

Spec == Init /\ [][Next]_<<gh, mirror>>
=============================================================================
