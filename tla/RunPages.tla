------------------------------ MODULE RunPages ------------------------------
(***************************************************************************)
(* How one sync lists runs page by page while the list changes under it:   *)
(* _iter_run_pages, iter_runs and scan_active_runs of workflows/synch.py.  *)
(* First the runs of a date range are listed, then, whatever their date,   *)
(* the runs with each active status.  GitHub lists the newest run first    *)
(* and cuts the listing into pages anew for every request, so what happens *)
(* between two requests shifts the pages.                                  *)
(***************************************************************************)
EXTENDS Integers, Sequences, FiniteSets, SequencesExt

CONSTANTS
  MaxRuns,      \* bound: runs that are ever created
  OldRuns,      \* runs that exist before the sync, 1..OldRuns
  PageSize,     \* GITHUB_API_PER_PAGE
  Cap,          \* GITHUB_API_RESULT_CAP
  MaxPages      \* --max-pages, 0 for none

ASSUME RunPagesAssumption ==
  /\ MaxRuns \in Nat /\ OldRuns \in 1..MaxRuns
  /\ PageSize \in Nat \ {0} /\ Cap \in Nat \ {0} /\ MaxPages \in Nat

VARIABLES
  status,   \* status[r]: run r on GitHub; runs are numbered by age
  window,   \* runs created in the date range
  pc,       \* the listing under way
  page,     \* next page
  total,    \* runs this listing has returned
  runs,     \* what iter_runs returned
  active,   \* what scan_active_runs returned
  steady    \* runs that matched all along: since the date-range listing
            \* began, then since the scan of both statuses began (history)

server == <<status, window>>
vars == <<status, window, pc, page, total, runs, active, steady>>

AllRuns == 1..MaxRuns
Listings == {"runs", "in_progress", "queued"}
Exists(r, st) == st[r] \notin {"absent", "deleted"}

\* The runs a listing matches.
Matches(listing, st, W) ==
  {r \in AllRuns : /\ Exists(r, st)
                   /\ \/ listing = "runs" /\ r \in W
                      \/ st[r] = listing}

\* The runs a listing or the whole scan should find.
Wanted(listing, st, W) ==
  IF listing = "runs" THEN Matches("runs", st, W)
  ELSE Matches("in_progress", st, W) \cup Matches("queued", st, W)

\* The runs of S from the newest to the oldest: each at the place that the
\* number of newer ones gives it.
Newer(S, r) == Cardinality({s \in S : s > r})
NewestFirst(S) == [k \in 1..Cardinality(S) |-> CHOOSE r \in S : Newer(S, r) = k - 1]

\* What GitHub answers to page n.
PageOf(n) ==
  LET all == NewestFirst(Matches(pc, status, window))
  IN SubSeq(all, (n - 1) * PageSize + 1, Min({n * PageSize, Len(all), Cap}))

-----------------------------------------------------------------------------
(* GitHub between two requests.                                            *)

ServerStep(r, new) ==
  /\ pc \in Listings
  /\ status' = [status EXCEPT ![r] = new]
  /\ steady' = steady \cap Wanted(pc, status', window')
  /\ UNCHANGED <<pc, page, total, runs, active>>

\* The next run is created, inside or outside the date range.
Create(r) ==
  /\ status[r] = "absent"
  /\ \A s \in 1..(r - 1) : status[s] # "absent"
  /\ \E W \in {window, window \cup {r}} : window' = W
  /\ ServerStep(r, "queued")

Move(r) ==
  /\ UNCHANGED window
  /\ \/ status[r] = "queued" /\ ServerStep(r, "in_progress")
     \/ status[r] \in {"queued", "in_progress"} /\ ServerStep(r, "completed")
     \/ status[r] = "completed" /\ ServerStep(r, "queued")
     \/ Exists(r, status) /\ ServerStep(r, "deleted")

-----------------------------------------------------------------------------
(* The sync.                                                               *)

\* The listing is over; the next one begins.
NextListing ==
  LET next == CASE pc = "runs" -> "in_progress"
                [] pc = "in_progress" -> "queued"
                [] OTHER -> "done"
  IN /\ pc' = next
     /\ page' = 1 /\ total' = 0
     /\ steady' = IF pc = "runs" THEN Wanted(next, status, window) ELSE steady

\* Mutant: a full page is taken for the last.
LastPageByCount(got) ==
  Len(got) <= PageSize \/ total + Len(got) >= Cap \/ MaxPages = page

\* The listing ends after this page.
IsLastPage(got) ==
  \/ Len(got) < PageSize
  \/ total + Len(got) >= Cap
  \/ MaxPages = page

\* Mutant: the active runs are not compared with what is known.
NewActiveUnchecked(got) == ToSet(got)

\* What scan_active_runs adds: runs that are not known yet.
NewActive(got) == ToSet(got) \ (ToSet(runs) \cup ToSet(active))

\* Mutant: each page of the date range replaces the one before it.
FetchLastPage ==
  LET got == PageOf(page) IN
  /\ pc \in Listings
  /\ IF pc = "runs"
     THEN runs' = got /\ UNCHANGED active
     ELSE /\ active' = active \o NewestFirst(NewActive(got))
          /\ UNCHANGED runs
  /\ IF IsLastPage(got) THEN NextListing
     ELSE /\ page' = page + 1 /\ total' = total + Len(got)
          /\ UNCHANGED <<pc, steady>>
  /\ UNCHANGED server

\* One turn of the loop of _iter_run_pages, and what its caller keeps of it.
FetchPage ==
  LET got == PageOf(page) IN
  /\ pc \in Listings
  /\ IF pc = "runs"
     THEN runs' = runs \o got /\ UNCHANGED active
     ELSE /\ active' = active \o NewestFirst(NewActive(got))
          /\ UNCHANGED runs
  /\ IF IsLastPage(got) THEN NextListing
     ELSE /\ page' = page + 1 /\ total' = total + Len(got)
          /\ UNCHANGED <<pc, steady>>
  /\ UNCHANGED server

\* A quota error: what was listed so far is kept, the later listings are not
\* made.
QuotaStops ==
  /\ pc \in Listings
  /\ pc' = "stopped"
  /\ UNCHANGED <<server, page, total, runs, active, steady>>

Init ==
  /\ status \in [AllRuns -> {"absent", "queued", "in_progress", "completed"}]
  /\ \A r \in AllRuns : status[r] = "absent" <=> r > OldRuns
  /\ window \in SUBSET (1..OldRuns)
  /\ pc = "runs" /\ page = 1 /\ total = 0
  /\ runs = <<>> /\ active = <<>>
  /\ steady = Wanted("runs", status, window)

GitHubStep == \E r \in AllRuns : Create(r) \/ Move(r)

Next == GitHubStep \/ FetchPage \/ QuotaStops

Spec == Init /\ [][Next]_vars

-----------------------------------------------------------------------------
\* Every variable holds values of its kind.
TypeOK ==
  /\ status \in [AllRuns -> {"absent", "deleted", "queued", "in_progress", "completed"}]
  /\ window \in SUBSET AllRuns
  /\ pc \in Listings \cup {"done", "stopped"}
  /\ page \in Nat \ {0} /\ total \in 0..Cap
  /\ runs \in Seq(AllRuns) /\ active \in Seq(AllRuns)
  /\ steady \in SUBSET AllRuns

NoneDeleted == \A r \in AllRuns : status[r] # "deleted"

\* No gap in the date-range listing: with no run deleted meanwhile, every run
\* that was there all along is returned before any older one, although new
\* runs shift the pages; the cap and --max-pages cost the oldest runs only.
DateRangeHasNoGaps ==
  [][pc = "runs" /\ NoneDeleted /\ FetchPage =>
       \A r \in steady : (\E s \in ToSet(runs') : s < r) => r \in ToSet(runs')]_vars

\* ... and without a limit all of them are returned.
DateRangeIsComplete ==
  [][(pc = "runs" /\ NoneDeleted /\ FetchPage /\ pc' # "runs" /\ MaxPages = 0
      /\ Len(runs') < Cap) => steady \subseteq ToSet(runs')]_vars

\* The active-run scan returns no run a second time and none that the date
\* range has returned, so each gets one entry and one job update from it.
ScanAddsOnlyNewRuns ==
  IsInjective(active) /\ ToSet(active) \cap ToSet(runs) = {}

\* A run that is active throughout the scan is known when it ends.
ScanFindsActive == pc = "done" => steady \subseteq ToSet(runs) \cup ToSet(active)
=============================================================================
