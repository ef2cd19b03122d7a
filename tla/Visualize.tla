------------------------------ MODULE Visualize ------------------------------
(***************************************************************************)
(* `cimon visualize NAMES -p KEY=VALUE': visualize() of __main__.py over   *)
(* run() of visualization/pipeline.py, for a visualization with a filter   *)
(* spec in a file (job-durations), for the one with parameters             *)
(* (workflow-job-durations), and for a name that nothing is registered     *)
(* under.  What the specs in the files select is in JobSpecs.              *)
(***************************************************************************)
EXTENDS Integers, Sequences, FiniteSets, FiniteSetsExt, SequencesExt

(* cache[<<run, attempt>>] says what the cache has of an attempt: nothing, *)
(* only jobs that are not plotted, or others too.                          *)

Runs == {1, 2}
Attempts == {1, 2}
Caches == [Runs \X Attempts -> {"nothing", "waiting", "plotted"}]
Names == {"job-durations", "workflow-job-durations", "unknown"}

\* Values of a parameter; run-url names a run, and an attempt of it or, as 0,
\* none.
Given == {"no", "good", "bad"}
Params == [run_url: Given, run: Runs, attempt: Attempts \cup {0}, gap: Given, tz: Given,
           other: BOOLEAN]

Unknown(name, params) ==
  \/ params.other
  \/ name = "job-durations" /\ {params.run_url, params.gap, params.tz} # {"no"}

Attempted(cache) == {x \in Runs \X Attempts : cache[x] # "nothing"}

\* The rows the filter keeps: spec_for_run.
Selected(name, params, cache) ==
  IF name = "job-durations" THEN Attempted(cache)
  ELSE {x \in Attempted(cache) : x[1] = params.run /\ params.attempt \in {0, x[2]}}

\* Mutant: the first attempt.
FirstAttempt(selected) ==
  {x \in selected : x[2] = Min({y[2] : y \in selected})}

\* render_run: all rows of the latest attempt among the selected.
LatestAttempt(selected) ==
  {x \in selected : x[2] = Max({y[2] : y \in selected})}

\* Without the `viz' extra, job-durations cannot import its renderer.  A bad
\* time zone is looked up in vain: that is a KeyError, like an unknown name.
Render(name, params, cache, viz) ==
  LET selected == Selected(name, params, cache)
      page(outcome, shown) == [outcome |-> outcome, shown |-> shown]
  IN IF name = "job-durations"
     THEN IF viz THEN page("done", selected) ELSE page("Traceback", {})
     ELSE IF params.gap = "bad" THEN page("ClickException", {})
     ELSE IF params.tz = "bad" THEN page("UsageError", {})
     ELSE IF \A x \in LatestAttempt(selected) : cache[x] = "waiting"
     THEN page("ClickException", {})
     ELSE page("done", LatestAttempt(selected))

\* Whether run() raises before it writes anything, and as what it is reported.
Refusal(name, params, cache) ==
  IF name = "unknown" THEN "UsageError"
  ELSE IF \/ Unknown(name, params)
          \/ /\ name = "workflow-job-durations"
             /\ params.run_url # "good" \/ Selected(name, params, cache) = {}
  THEN "ClickException"
  ELSE "none"

\* The files a name leaves, after those before it: its rows, then its page.
run(before, name, params, cache, viz) ==
  LET rendered == Render(name, params, cache, viz)
      rows == {[name |-> name, kind |-> "rows", attempts |-> Selected(name, params, cache)]}
      pages == {[name |-> name, kind |-> "page", attempts |-> rendered.shown]}
  IN IF Refusal(name, params, cache) # "none"
     THEN [before EXCEPT !.outcome = Refusal(name, params, cache)]
     ELSE [outcome |-> rendered.outcome,
           files |-> before.files \cup rows
                       \cup (IF rendered.outcome = "done" THEN pages ELSE {})]

\* Mutant: a name that fails does not keep the others from being drawn.
DrawAll(names, params, cache, viz) ==
  FoldLeft(LAMBDA before, name : run(before, name, params, cache, viz),
           [outcome |-> "done", files |-> {}], names)

visualize(names, params, cache, viz) ==
  FoldLeft(LAMBDA before, name :
             IF before.outcome = "done" THEN run(before, name, params, cache, viz) ELSE before,
           [outcome |-> "done", files |-> {}], names)

-----------------------------------------------------------------------------
\* The page of a workflow run shows all the cache has of one attempt, the one
\* that was asked for or else the latest, and is drawn from rows that were
\* written before it.  Of several names, those before the first that fails
\* have their page and those after it have nothing; a call that does not say
\* it failed has drawn all.
PagesAreAsAsked(names, params, cache, viz) ==
  LET end == visualize(names, params, cache, viz)
      Drawn(n) == \E f \in end.files : f.name = names[n] /\ f.kind = "page"
      IsOfRun(f) ==
        /\ \E n \in Attempts :
             /\ f.attempts = {<<params.run, n>>}
             /\ params.attempt \in {n, 0}
             /\ cache[params.run, n] = "plotted"
             /\ params.attempt = 0 =>
                  \A m \in Attempts : m > n => cache[params.run, m] = "nothing"
        /\ \E g \in end.files : /\ g.name = f.name /\ g.kind = "rows"
                               /\ f.attempts \subseteq g.attempts
  IN /\ end.outcome = "done" => \A n \in DOMAIN names : Drawn(n)
     /\ \A f \in end.files :
          /\ f.kind = "page" /\ f.name = "workflow-job-durations" => IsOfRun(f)
          /\ \A n \in DOMAIN names : f.name = names[n] =>
               \/ \A m \in 1..(n - 1) : Drawn(m)
               \/ \E m \in 1..(n - 1) : names[m] = names[n]
=============================================================================
