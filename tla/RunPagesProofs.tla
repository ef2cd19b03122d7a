--------------------------- MODULE RunPagesProofs ---------------------------
(***************************************************************************)
(* Theorems about RunPages, for any number of runs, page size, cap and     *)
(* --max-pages.                                                            *)
(***************************************************************************)
EXTENDS RunPages, TLAPS, FiniteSetTheorems

-----------------------------------------------------------------------------
(* The order of a listing: the place of a run is the number of newer ones. *)

LEMMA NewerType ==
  ASSUME NEW S, IsFiniteSet(S), NEW r
  PROVE  /\ IsFiniteSet({s \in S : s > r})
         /\ Newer(S, r) \in Nat
         /\ r \in S /\ ~(r > r) => Newer(S, r) < Cardinality(S)
<1> DEFINE N == {s \in S : s > r}
<1>1. IsFiniteSet(N) /\ Cardinality(N) <= Cardinality(S)
      /\ (Cardinality(S) = Cardinality(N) => S = N)
  BY FS_Subset
<1>2. Cardinality(N) \in Nat /\ Cardinality(S) \in Nat
  BY <1>1, FS_CardinalityType
<1>3. r \in S /\ ~(r > r) => S # N
  OBVIOUS
<1> QED
  BY <1>1, <1>2, <1>3 DEF Newer

\* Of two runs of a listing the older one has more that are newer.
LEMMA OlderHasMoreNewer ==
  ASSUME NEW S \in SUBSET Int, IsFiniteSet(S), NEW r \in S, NEW s \in S, s < r
  PROVE  Newer(S, r) < Newer(S, s)
<1> DEFINE R == {t \in S : t > r}
           N == {t \in S : t > s}
<1>1. R \in SUBSET N /\ R # N /\ IsFiniteSet(N)
  <2>1. r \in N /\ r \notin R
    OBVIOUS
  <2>2. \A t \in R : t \in N
    OBVIOUS
  <2> QED
    BY <2>1, <2>2, NewerType
<1>2. /\ IsFiniteSet(R) /\ Cardinality(R) <= Cardinality(N)
      /\ Cardinality(N) = Cardinality(R) => N = R
  BY <1>1, FS_Subset
<1>3. Cardinality(R) \in Nat /\ Cardinality(N) \in Nat
  BY <1>1, <1>2, FS_CardinalityType
<1> QED
  BY <1>1, <1>2, <1>3 DEF Newer

\* A listing that has grown has no fewer newer runs.
LEMMA NewerGrows ==
  ASSUME NEW T, IsFiniteSet(T), NEW S \in SUBSET T, NEW r
  PROVE  Newer(S, r) <= Newer(T, r)
<1> DEFINE N == {t \in T : t > r}
           M == {t \in S : t > r}
<1>1. IsFiniteSet(N) /\ M \in SUBSET N
  BY NewerType
<1> QED
  BY <1>1, FS_Subset DEF Newer

\* Every place of a listing is that of one run.
LEMMA PlacesAreTaken ==
  ASSUME NEW S \in SUBSET Int, IsFiniteSet(S)
  PROVE  /\ \A k \in 1..Cardinality(S) : \E r \in S : Newer(S, r) = k - 1
         /\ \A r, s \in S : Newer(S, r) = Newer(S, s) => r = s
         /\ \A r \in S : Newer(S, r) + 1 \in 1..Cardinality(S)
<1> DEFINE n == Cardinality(S)
           place == [r \in S |-> Newer(S, r) + 1]
<1>1. n \in Nat
  BY FS_CardinalityType
<1>2. ASSUME NEW r \in S
      PROVE  Newer(S, r) \in Nat /\ Newer(S, r) < n
  <2>1. ~(r > r)
    OBVIOUS
  <2> QED
    BY <2>1, NewerType
<1>3. \A r, s \in S : Newer(S, r) = Newer(S, s) => r = s
  <2>1. SUFFICES ASSUME NEW r \in S, NEW s \in S, r # s
                 PROVE  Newer(S, r) # Newer(S, s)
    OBVIOUS
  <2>2. r < s \/ s < r
    BY <2>1
  <2> QED
    BY <1>2, <2>2, OlderHasMoreNewer
<1> HIDE DEF n
<1>4. place \in Injection(S, 1..n)
  <2>1. place \in [S -> 1..n]
    BY <1>1, <1>2
  <2>2. \A r, s \in S : place[r] = place[s] => r = s
    BY <1>2, <1>3
  <2> QED
    BY <2>1, <2>2 DEF Injection, IsInjective
<1>5. IsFiniteSet(1..n) /\ Cardinality(1..n) = n
  BY <1>1, FS_Interval
<1>6. place \in Surjection(S, 1..n)
  BY <1>4, <1>5, FS_Injection DEF n
<1>7. ASSUME NEW k \in 1..n
      PROVE  \E r \in S : Newer(S, r) = k - 1
  <2>1. PICK r \in S : place[r] = k
    BY <1>6 DEF Surjection
  <2> QED
    BY <1>1, <1>2, <2>1
<1>8. \A r \in S : Newer(S, r) + 1 \in 1..n
  BY <1>1, <1>2
<1> QED
  BY <1>3, <1>7, <1>8 DEF n

LEMMA NewestFirstHasPlaces ==
  ASSUME NEW S \in SUBSET Int, IsFiniteSet(S)
  PROVE  /\ Cardinality(S) \in Nat
         /\ NewestFirst(S) \in [1..Cardinality(S) -> S]
         /\ \A k \in 1..Cardinality(S) : Newer(S, NewestFirst(S)[k]) = k - 1
         /\ \A r \in S : /\ Newer(S, r) + 1 \in 1..Cardinality(S)
                         /\ NewestFirst(S)[Newer(S, r) + 1] = r
<1> DEFINE n == Cardinality(S)
           nth(k) == CHOOSE r \in S : Newer(S, r) = k - 1
<1>1. n \in Nat
  BY FS_CardinalityType
<1>2. \A k \in 1..n : nth(k) \in S /\ Newer(S, nth(k)) = k - 1
  BY PlacesAreTaken
<1>3. NewestFirst(S) = [k \in 1..n |-> nth(k)]
  BY DEF NewestFirst
<1>4. ASSUME NEW r \in S
      PROVE  Newer(S, r) + 1 \in 1..n /\ nth(Newer(S, r) + 1) = r
  <2>1. Newer(S, r) + 1 \in 1..n /\ Newer(S, r) \in Nat
    BY PlacesAreTaken, NewerType
  <2>2. Newer(S, nth(Newer(S, r) + 1)) = Newer(S, r) /\ nth(Newer(S, r) + 1) \in S
    BY <1>2, <2>1
  <2> QED
    BY <2>1, <2>2, PlacesAreTaken
<1> HIDE DEF n, nth
<1> QED
  BY <1>1, <1>2, <1>3, <1>4 DEF n

-----------------------------------------------------------------------------
(* What is on a page.                                                      *)

Listed == Matches(pc, status, window)
Place(r) == Newer(Listed, r)
PageEnd(n) == Min({n * PageSize, Cardinality(Listed), Cap})

LEMMA ListedType == Listed \in SUBSET AllRuns /\ Listed \in SUBSET Int /\ IsFiniteSet(Listed)
<1>1. Listed \in SUBSET AllRuns /\ AllRuns \in SUBSET Int
  BY DEF Listed, Matches, AllRuns
<1>2. IsFiniteSet(AllRuns)
  BY RunPagesAssumption, FS_Interval DEF AllRuns
<1> QED
  BY <1>1, <1>2, FS_Subset

LEMMA PageBounds ==
  ASSUME NEW n \in Nat \ {0}
  PROVE  /\ (n - 1) * PageSize \in Nat /\ n * PageSize = (n - 1) * PageSize + PageSize
         /\ PageEnd(n) \in Nat /\ Cardinality(Listed) \in Nat
         /\ PageEnd(n) <= n * PageSize /\ PageEnd(n) <= Cardinality(Listed) /\ PageEnd(n) <= Cap
         /\ PageEnd(n) \in {n * PageSize, Cardinality(Listed), Cap}
<1> USE RunPagesAssumption
<1>1. (n - 1) * PageSize \in Nat /\ n * PageSize = (n - 1) * PageSize + PageSize
  OBVIOUS
<1>2. Cardinality(Listed) \in Nat
  BY ListedType, FS_CardinalityType
<1>3. n * PageSize \in Nat
  BY <1>1
<1>4. ASSUME NEW a \in Nat, NEW b \in Nat, NEW c \in Nat
      PROVE  /\ Min({a, b, c}) \in {a, b, c}
             /\ Min({a, b, c}) <= a /\ Min({a, b, c}) <= b /\ Min({a, b, c}) <= c
  <2>1. \E x \in {a, b, c} : \A y \in {a, b, c} : x <= y
    OBVIOUS
  <2> QED
    BY <2>1 DEF Min
<1>5. /\ PageEnd(n) \in {n * PageSize, Cardinality(Listed), Cap}
      /\ PageEnd(n) <= n * PageSize /\ PageEnd(n) <= Cardinality(Listed) /\ PageEnd(n) <= Cap
  BY <1>2, <1>3, <1>4 DEF PageEnd
<1> QED
  BY <1>1, <1>2, <1>3, <1>5

\* Page n has the runs whose places are those of the page.
LEMMA PageContents ==
  ASSUME NEW n \in Nat \ {0}
  PROVE  /\ PageOf(n) \in Seq(Listed)
         /\ Len(PageOf(n)) = IF PageEnd(n) > (n - 1) * PageSize
                             THEN PageEnd(n) - (n - 1) * PageSize ELSE 0
         /\ ToSet(PageOf(n)) = {r \in Listed : /\ (n - 1) * PageSize <= Place(r)
                                              /\ Place(r) < PageEnd(n)}
<1> DEFINE all == NewestFirst(Listed)
           size == Cardinality(Listed)
           lo == (n - 1) * PageSize
           e == PageEnd(n)
           P == PageOf(n)
<1>1. /\ size \in Nat /\ all \in [1..size -> Listed]
      /\ \A k \in 1..size : Place(all[k]) = k - 1
      /\ \A r \in Listed : Place(r) + 1 \in 1..size /\ all[Place(r) + 1] = r
  BY ListedType, NewestFirstHasPlaces DEF Place
<1>2. lo \in Nat /\ e \in Nat /\ e <= size
  BY PageBounds
<1>3. all \in Seq(Listed) /\ Len(all) = size
  BY <1>1
<1>4. P = SubSeq(all, lo + 1, e)
  BY <1>3 DEF PageOf, PageEnd, Listed
<1>5. \A r \in Listed : Place(r) \in Nat
  BY <1>1
<1> HIDE DEF all, size, lo, e, P
<1>6. /\ P \in Seq(Listed)
      /\ Len(P) = IF e > lo THEN e - lo ELSE 0
      /\ \A k \in 1..Len(P) : P[k] = all[lo + k]
  BY <1>2, <1>3, <1>4
<1>7. ASSUME NEW k \in 1..Len(P)
      PROVE  P[k] \in Listed /\ lo <= Place(P[k]) /\ Place(P[k]) < e
  <2> DEFINE m == lo + k
  <2>1. Len(P) = e - lo /\ k \in 1..(e - lo)
    <3>1. Len(P) # 0
      BY <1>6
    <3> QED
      BY <1>6, <3>1
  <2>2. m \in 1..size /\ lo <= m - 1 /\ m - 1 < e
    BY <1>1, <1>2, <2>1
  <2>3. P[k] = all[m]
    BY <1>6
  <2> HIDE DEF m
  <2>4. all[m] \in Listed /\ Place(all[m]) = m - 1
    BY <1>1, <2>2
  <2> QED
    BY <2>2, <2>3, <2>4
<1>8. ASSUME NEW r \in Listed, lo <= Place(r), Place(r) < e
      PROVE  \E k \in 1..Len(P) : P[k] = r
  <2>1. Place(r) + 1 - lo \in 1..Len(P)
    BY <1>2, <1>5, <1>6, <1>8
  <2>2. P[Place(r) + 1 - lo] = all[Place(r) + 1]
    BY <1>2, <1>5, <1>6, <2>1
  <2> QED
    BY <1>1, <2>1, <2>2
<1>9. ToSet(P) = {r \in Listed : lo <= Place(r) /\ Place(r) < e}
  <2>1. ToSet(P) = {P[k] : k \in 1..Len(P)}
    BY <1>6 DEF ToSet
  <2>2. \A r \in ToSet(P) : r \in Listed /\ lo <= Place(r) /\ Place(r) < e
    BY <1>7, <2>1
  <2>3. \A r \in Listed : lo <= Place(r) /\ Place(r) < e => r \in ToSet(P)
    BY <1>8, <2>1
  <2> QED
    BY <2>2, <2>3
<1> QED
  BY <1>6, <1>9 DEF lo, e, P

-----------------------------------------------------------------------------
(* Types.                                                                  *)

LEMMA MatchesType ==
  ASSUME NEW l, NEW st, NEW W
  PROVE  Matches(l, st, W) \in SUBSET AllRuns
BY DEF Matches

LEMMA PageType ==
  ASSUME TypeOK
  PROVE  PageOf(page) \in Seq(AllRuns)
<1>1. page \in Nat \ {0}
  BY DEF TypeOK
<1>2. PageOf(page) \in Seq(Listed) /\ Listed \in SUBSET AllRuns
  BY <1>1, PageContents, ListedType
<1> QED
  BY <1>2

LEMMA TypeInit == Init => TypeOK
<1> SUFFICES ASSUME Init PROVE TypeOK
  OBVIOUS
<1> USE RunPagesAssumption
<1>1. window \in SUBSET AllRuns
  BY DEF Init, AllRuns
<1>2. steady \in SUBSET AllRuns
  BY MatchesType DEF Init, Wanted
<1>3. status \in [AllRuns -> {"absent", "deleted", "queued", "in_progress", "completed"}]
  BY DEF Init
<1>4. runs \in Seq(AllRuns) /\ active \in Seq(AllRuns)
  BY DEF Init
<1> QED
  BY <1>1, <1>2, <1>3, <1>4 DEF Init, TypeOK, Listings

\* The new runs of a page, and the sequence of them.
LEMMA NewActiveType ==
  ASSUME TypeOK
  PROVE  LET new == NewActive(PageOf(page)) IN
         /\ new \in SUBSET AllRuns /\ new \in SUBSET Int /\ IsFiniteSet(new)
         /\ NewestFirst(new) \in Seq(new) /\ NewestFirst(new) \in Seq(AllRuns)
<1> DEFINE new == NewActive(PageOf(page))
<1>1. new \in SUBSET AllRuns
  BY PageType DEF NewActive, ToSet
<1>2. AllRuns \in SUBSET Int /\ IsFiniteSet(AllRuns)
  BY RunPagesAssumption, FS_Interval DEF AllRuns
<1>3. new \in SUBSET Int /\ IsFiniteSet(new)
  BY <1>1, <1>2, FS_Subset
<1> HIDE DEF new
<1>4. NewestFirst(new) \in [1..Cardinality(new) -> new] /\ Cardinality(new) \in Nat
  BY <1>3, NewestFirstHasPlaces
<1>5. NewestFirst(new) \in Seq(new) /\ NewestFirst(new) \in Seq(AllRuns)
  BY <1>1, <1>4
<1> QED
  BY <1>1, <1>3, <1>5 DEF new

LEMMA GitHubKeepsTypes ==
  ASSUME TypeOK, GitHubStep
  PROVE  TypeOK' /\ UNCHANGED <<pc, page, total, runs, active>> /\ pc \in Listings
<1>1. PICK r \in AllRuns : Create(r) \/ Move(r)
  BY DEF GitHubStep
<1>2. /\ pc \in Listings /\ UNCHANGED <<pc, page, total, runs, active>>
      /\ \E new \in {"deleted", "queued", "in_progress", "completed"} :
           status' = [status EXCEPT ![r] = new]
      /\ steady' \in SUBSET AllRuns
  BY <1>1, MatchesType DEF Create, Move, ServerStep, TypeOK
<1>3. window' \in SUBSET AllRuns
  BY <1>1 DEF Create, Move, TypeOK
<1> QED
  BY <1>2, <1>3 DEF TypeOK

LEMMA FetchKeepsTypes ==
  ASSUME TypeOK, FetchPage
  PROVE  TypeOK'
<1> DEFINE got == PageOf(page)
<1>1. got \in Seq(AllRuns) /\ Len(got) \in Nat
  BY PageType
<1>2. NewestFirst(NewActive(got)) \in Seq(AllRuns)
  BY NewActiveType
<1> HIDE DEF got
<1>3. /\ IF pc = "runs" THEN runs' = runs \o got /\ UNCHANGED active
         ELSE active' = active \o NewestFirst(NewActive(got)) /\ UNCHANGED runs
      /\ IF IsLastPage(got) THEN NextListing
         ELSE /\ page' = page + 1 /\ total' = total + Len(got)
              /\ UNCHANGED <<pc, steady>>
      /\ UNCHANGED <<status, window>>
  BY DEF FetchPage, got, server
<1>4. runs' \in Seq(AllRuns) /\ active' \in Seq(AllRuns)
  <2>1. ASSUME NEW a \in Seq(AllRuns), NEW b \in Seq(AllRuns)
        PROVE  a \o b \in Seq(AllRuns)
    OBVIOUS
  <2>2. runs \in Seq(AllRuns) /\ active \in Seq(AllRuns)
    BY DEF TypeOK
  <2>3. runs \o got \in Seq(AllRuns)
    BY <1>1, <2>1, <2>2
  <2>4. active \o NewestFirst(NewActive(got)) \in Seq(AllRuns)
    BY <1>2, <2>1, <2>2
  <2> QED
    BY <1>3, <2>2, <2>3, <2>4
<1>5. /\ pc' \in Listings \cup {"done", "stopped"}
      /\ page' \in Nat \ {0} /\ total' \in 0..Cap /\ steady' \in SUBSET AllRuns
  <2>1. CASE IsLastPage(got)
    <3>1. NextListing
      BY <1>3, <2>1
    <3>2. steady' \in SUBSET AllRuns
      BY <3>1, MatchesType DEF NextListing, Wanted, TypeOK
    <3> QED
      BY <3>1, <3>2, RunPagesAssumption DEF NextListing, Listings
  <2>2. CASE ~IsLastPage(got)
    <3>1. page' = page + 1 /\ total' = total + Len(got) /\ UNCHANGED <<pc, steady>>
      BY <1>3, <2>2
    <3>2. ~(total + Len(got) >= Cap)
      BY <2>2 DEF IsLastPage
    <3>3. page' \in Nat \ {0} /\ total' \in 0..Cap
      BY <1>1, <3>1, <3>2, RunPagesAssumption DEF TypeOK
    <3> QED
      BY <3>1, <3>3 DEF TypeOK
  <2> QED
    BY <2>1, <2>2
<1> QED
  BY <1>3, <1>4, <1>5 DEF TypeOK

LEMMA TypeStep == TypeOK /\ [Next]_vars => TypeOK'
<1> SUFFICES ASSUME TypeOK, [Next]_vars PROVE TypeOK'
  OBVIOUS
<1>1. CASE UNCHANGED vars
  BY <1>1 DEF vars, server, TypeOK
<1>2. CASE QuotaStops
  BY <1>2 DEF QuotaStops, server, TypeOK
<1> QED
  BY <1>1, <1>2, GitHubKeepsTypes, FetchKeepsTypes DEF Next

\* The state of the listings stays of its kind; in particular one never counts
\* more runs than the cap.
THEOREM TypeCorrect == Spec => []TypeOK
BY TypeInit, TypeStep, PTL DEF Spec

-----------------------------------------------------------------------------
(* The scan.  Inductive strengthening of ScanAddsOnlyNewRuns: the date     *)
(* range is over before the first active run is taken.                     *)

ScanInv == TypeOK /\ ScanAddsOnlyNewRuns /\ (pc = "runs" => active = <<>>)

\* Runs that are put after others of which they are none.
LEMMA AppendingNewRuns ==
  ASSUME NEW S \in SUBSET Int, IsFiniteSet(S), NEW a \in Seq(AllRuns), IsInjective(a),
         NewestFirst(S) \in Seq(AllRuns), S \cap ToSet(a) = {}
  PROVE  /\ IsInjective(a \o NewestFirst(S))
         /\ ToSet(a \o NewestFirst(S)) \subseteq ToSet(a) \cup S
<1> DEFINE n == Cardinality(S)
           b == NewestFirst(S)
           c == a \o b
<1>1. /\ n \in Nat /\ b \in [1..n -> S]
      /\ \A k \in 1..n : Newer(S, b[k]) = k - 1
  BY NewestFirstHasPlaces
<1>2. \A k, l \in 1..n : b[k] = b[l] => k = l
  <2>1. SUFFICES ASSUME NEW k \in 1..n, NEW l \in 1..n, b[k] = b[l]
                 PROVE  k = l
    OBVIOUS
  <2>2. k - 1 = l - 1
    BY <1>1, <2>1
  <2> QED
    BY <1>1, <2>2
<1> HIDE DEF n, b
<1>3. b \in Seq(AllRuns) /\ Len(b) = n
  BY <1>1 DEF b
<1>4. /\ c \in Seq(AllRuns) /\ DOMAIN c = 1..(Len(a) + n)
      /\ \A k \in 1..Len(a) : c[k] = a[k]
      /\ \A k \in (Len(a) + 1)..(Len(a) + n) : c[k] = b[k - Len(a)] /\ k - Len(a) \in 1..n
  BY <1>1, <1>3
<1>5. \A k \in 1..Len(a) : a[k] \in ToSet(a)
  BY DEF ToSet
<1>6. ASSUME NEW k \in DOMAIN c
      PROVE  \/ k \in 1..Len(a) /\ c[k] = a[k] /\ c[k] \in ToSet(a)
             \/ /\ k \in (Len(a) + 1)..(Len(a) + n) /\ k - Len(a) \in 1..n
                /\ c[k] = b[k - Len(a)] /\ c[k] \in S
  <2>1. k \in 1..Len(a) \/ k \in (Len(a) + 1)..(Len(a) + n)
    BY <1>1, <1>4
  <2> QED
    BY <1>1, <1>4, <1>5, <2>1
<1>7. \A k, l \in DOMAIN c : c[k] = c[l] => k = l
  <2>1. SUFFICES ASSUME NEW k \in DOMAIN c, NEW l \in DOMAIN c, c[k] = c[l]
                 PROVE  k = l
    OBVIOUS
  <2>2. CASE k \in 1..Len(a) /\ l \in 1..Len(a)
    BY <1>4, <2>1, <2>2 DEF IsInjective
  <2>3. CASE /\ k \in (Len(a) + 1)..(Len(a) + n) /\ l \in (Len(a) + 1)..(Len(a) + n)
    <3>1. k - Len(a) = l - Len(a)
      BY <1>2, <1>4, <2>1, <2>3
    <3>2. k \in Int /\ l \in Int /\ Len(a) \in Int
      BY <1>1, <2>3
    <3> QED
      BY <3>1, <3>2
  <2> QED
    BY <1>6, <2>1, <2>2, <2>3
<1>8. ToSet(c) \subseteq ToSet(a) \cup S
  BY <1>6 DEF ToSet
<1> QED
  BY <1>7, <1>8 DEF IsInjective, b

LEMMA ScanInit == Init => ScanInv
<1> SUFFICES ASSUME Init PROVE ScanInv
  OBVIOUS
<1>1. active = <<>> /\ DOMAIN active = {}
  BY DEF Init
<1>2. IsInjective(active) /\ ToSet(active) = {}
  BY <1>1 DEF IsInjective, ToSet
<1> QED
  BY <1>1, <1>2, TypeInit DEF ScanInv, ScanAddsOnlyNewRuns

LEMMA ScanStep == ScanInv /\ [Next]_vars => ScanInv'
<1> SUFFICES ASSUME ScanInv, [Next]_vars PROVE ScanInv'
  OBVIOUS
<1>1. TypeOK /\ TypeOK'
  BY TypeStep DEF ScanInv
<1>2. CASE UNCHANGED <<runs, active>> /\ (pc' = "runs" => pc = "runs")
  BY <1>1, <1>2 DEF ScanInv, ScanAddsOnlyNewRuns
<1>3. CASE FetchPage
  <2> DEFINE new == NewActive(PageOf(page))
  <2>1. pc' = "runs" => pc = "runs"
    BY <1>3 DEF FetchPage, NextListing
  <2>2. CASE pc = "runs"
    <3>1. UNCHANGED active /\ active = <<>> /\ DOMAIN active = {}
      BY <1>3, <2>2 DEF FetchPage, ScanInv
    <3>2. IsInjective(active') /\ ToSet(active') = {}
      BY <3>1 DEF IsInjective, ToSet
    <3> QED
      BY <1>1, <3>1, <3>2 DEF ScanInv, ScanAddsOnlyNewRuns
  <2>3. CASE pc # "runs"
    <3>1. active' = active \o NewestFirst(new) /\ UNCHANGED runs
      BY <1>3, <2>3 DEF FetchPage
    <3>2. new \cap ToSet(active) = {} /\ new \cap ToSet(runs) = {}
      BY DEF NewActive
    <3>3. /\ new \in SUBSET Int /\ IsFiniteSet(new) /\ NewestFirst(new) \in Seq(AllRuns)
      BY <1>1, NewActiveType
    <3>4. active \in Seq(AllRuns) /\ IsInjective(active) /\ ToSet(active) \cap ToSet(runs) = {}
      BY <1>1 DEF ScanInv, ScanAddsOnlyNewRuns, TypeOK
    <3> HIDE DEF new
    <3>5. IsInjective(active') /\ ToSet(active') \subseteq ToSet(active) \cup new
      BY <3>1, <3>2, <3>3, <3>4, AppendingNewRuns
    <3>6. pc' # "runs"
      BY <2>1, <2>3
    <3> QED
      BY <1>1, <3>1, <3>2, <3>4, <3>5, <3>6 DEF ScanInv, ScanAddsOnlyNewRuns
  <2> QED
    BY <2>2, <2>3
<1>4. CASE GitHubStep
  BY <1>1, <1>2, <1>4, GitHubKeepsTypes
<1>5. CASE QuotaStops \/ UNCHANGED vars
  BY <1>2, <1>5 DEF QuotaStops, vars
<1> QED
  BY <1>3, <1>4, <1>5 DEF Next

\* The active-run scan returns no run twice and none of the date range,
\* however the pages shift, whatever is deleted and wherever the quota stops it.
THEOREM ScanIsNew == Spec => []ScanAddsOnlyNewRuns
<1>1. ScanInv => ScanAddsOnlyNewRuns
  BY DEF ScanInv
<1> QED
  BY <1>1, ScanInit, ScanStep, PTL DEF Spec

-----------------------------------------------------------------------------
(* The date range.  Inductive strengthening of DateRangeHasNoGaps and      *)
(* DateRangeIsComplete: the listing has passed exactly as many places as   *)
(* it has returned runs, and a run that was there all along is either      *)
(* returned or still ahead, because without deletions no run moves to an   *)
(* earlier place.                                                          *)

PagesAreFull ==
  pc = "runs" => /\ total = (page - 1) * PageSize
                 /\ total = Len(runs)
                 /\ total < Cap

NoneIsSkipped ==
  pc = "runs" /\ NoneDeleted =>
    /\ steady \subseteq Listed
    /\ \A r \in steady : r \in ToSet(runs) \/ Place(r) >= total
    /\ \A r \in steady, s \in ToSet(runs) : s < r => r \in ToSet(runs)

GapInv == TypeOK /\ PagesAreFull /\ NoneIsSkipped

LEMMA GapInit == Init => GapInv
<1> SUFFICES ASSUME Init PROVE GapInv
  OBVIOUS
<1>1. PagesAreFull
  BY RunPagesAssumption DEF Init, PagesAreFull
<1>2. steady = Listed /\ total = 0 /\ ToSet(runs) = {}
  BY DEF Init, Wanted, Listed, ToSet
<1>3. ASSUME NEW r \in Listed
      PROVE  Place(r) \in Nat
  BY ListedType, NewerType DEF Place
<1> QED
  BY <1>1, <1>2, <1>3, TypeInit DEF GapInv, NoneIsSkipped

\* What GitHub does without deleting a run leaves every run of the date range
\* in the listing, at its place or a later one.
LEMMA PlacesOnlyGrow ==
  ASSUME TypeOK, GitHubStep, pc = "runs", NoneDeleted'
  PROVE  /\ NoneDeleted /\ Listed \subseteq Listed' /\ steady' = steady \cap Listed'
         /\ \A r \in Listed : Place(r) \in Nat /\ Place(r)' \in Nat /\ Place(r) <= Place(r)'
<1>1. PICK r \in AllRuns : Create(r) \/ Move(r)
  BY DEF GitHubStep
<1>2. pc' = pc
  BY GitHubKeepsTypes
<1>3. PICK new \in {"deleted", "queued", "in_progress", "completed"} :
         /\ status' = [status EXCEPT ![r] = new]
         /\ steady' = steady \cap Wanted(pc, status', window')
  BY <1>1 DEF Create, Move, ServerStep
<1>4. \A s \in AllRuns : s # r => status'[s] = status[s]
  BY <1>3 DEF TypeOK
<1>5. status'[r] = new /\ new # "deleted" /\ status[r] # "deleted"
  <2>1. status'[r] = new
    BY <1>3 DEF TypeOK
  <2>2. status[r] # "deleted"
    BY <1>1 DEF Create, Move, Exists
  <2> QED
    BY <2>1, <2>2 DEF NoneDeleted
<1>6. NoneDeleted
  BY <1>4, <1>5 DEF NoneDeleted
<1>7. window \subseteq window'
  BY <1>1 DEF Create, Move
<1>8. \A s \in Listed : s \in Listed'
  <2>1. \A s \in Listed : s \in AllRuns /\ Exists(s, status) /\ s \in window
    BY <1>2 DEF Listed, Matches, TypeOK
  <2>2. \A s \in AllRuns : Exists(s, status) => Exists(s, status')
    BY <1>4, <1>5 DEF Exists
  <2> QED
    BY <1>2, <1>7, <2>1, <2>2 DEF Listed, Matches
<1>9. steady' = steady \cap Listed'
  BY <1>2, <1>3 DEF Wanted, Listed
<1>10. IsFiniteSet(Listed) /\ IsFiniteSet(Listed')
  <2>1. IsFiniteSet(AllRuns)
    BY RunPagesAssumption, FS_Interval DEF AllRuns
  <2>2. Listed \in SUBSET AllRuns /\ Listed' \in SUBSET AllRuns
    BY DEF Listed, Matches
  <2> QED
    BY <2>1, <2>2, FS_Subset
<1>11. ASSUME NEW s \in Listed
       PROVE  Place(s) \in Nat /\ Place(s)' \in Nat /\ Place(s) <= Place(s)'
  <2>1. Newer(Listed, s) \in Nat /\ Newer(Listed', s) \in Nat
    BY <1>10, NewerType
  <2>2. Newer(Listed, s) <= Newer(Listed', s)
    BY <1>8, <1>10, NewerGrows
  <2> QED
    BY <2>1, <2>2 DEF Place
<1> QED
  BY <1>6, <1>8, <1>9, <1>11

\* What one page adds to the date range.
LEMMA DateRangePage ==
  ASSUME GapInv, FetchPage, pc = "runs"
  PROVE  LET got == PageOf(page) IN
         /\ runs' = runs \o got /\ ToSet(runs') = ToSet(runs) \cup ToSet(got)
         /\ Len(runs') = total + Len(got) /\ Len(got) \in Nat
         /\ got \in Seq(Listed)
         /\ total \in Nat /\ PageEnd(page) \in Nat
         /\ Len(got) = IF PageEnd(page) > total THEN PageEnd(page) - total ELSE 0
         /\ PageEnd(page) <= total + PageSize
         /\ PageEnd(page) \in {total + PageSize, Cardinality(Listed), Cap}
         /\ ToSet(got) = {r \in Listed : total <= Place(r) /\ Place(r) < PageEnd(page)}
         /\ UNCHANGED <<status, window, active>>
         /\ IF IsLastPage(got) THEN pc' = "in_progress"
            ELSE /\ page' = page + 1 /\ total' = total + Len(got)
                 /\ UNCHANGED <<pc, steady>>
<1> DEFINE got == PageOf(page)
<1>1. TypeOK /\ page \in Nat \ {0} /\ total = (page - 1) * PageSize /\ total = Len(runs)
  BY DEF GapInv, PagesAreFull, TypeOK
<1>2. runs' = runs \o got /\ UNCHANGED <<status, window, active>>
  BY DEF FetchPage, server
<1>3. IF IsLastPage(got) THEN pc' = "in_progress"
      ELSE /\ page' = page + 1 /\ total' = total + Len(got)
           /\ UNCHANGED <<pc, steady>>
  BY DEF FetchPage, NextListing
<1>4. /\ PageEnd(page) \in Nat
      /\ PageEnd(page) <= total + PageSize
      /\ PageEnd(page) \in {total + PageSize, Cardinality(Listed), Cap}
      /\ total \in Nat
  BY <1>1, PageBounds
<1>5. /\ got \in Seq(Listed)
      /\ Len(got) = IF PageEnd(page) > total THEN PageEnd(page) - total ELSE 0
      /\ ToSet(got) = {r \in Listed : total <= Place(r) /\ Place(r) < PageEnd(page)}
  BY <1>1, PageContents
<1>6. got \in Seq(AllRuns) /\ runs \in Seq(AllRuns)
  BY <1>1, PageType DEF TypeOK
<1> HIDE DEF got
<1>7. ASSUME NEW a \in Seq(AllRuns), NEW b \in Seq(AllRuns)
      PROVE  /\ Len(a \o b) = Len(a) + Len(b) /\ Len(b) \in Nat
             /\ ToSet(a \o b) = ToSet(a) \cup ToSet(b)
  <2> DEFINE c == a \o b
  <2>1. /\ Len(a) \in Nat /\ Len(b) \in Nat /\ Len(c) = Len(a) + Len(b)
        /\ DOMAIN a = 1..Len(a) /\ DOMAIN b = 1..Len(b) /\ DOMAIN c = 1..Len(c)
        /\ \A k \in 1..Len(a) : k \in 1..Len(c) /\ c[k] = a[k]
        /\ \A k \in 1..Len(b) : Len(a) + k \in 1..Len(c) /\ c[Len(a) + k] = b[k]
    OBVIOUS
  <2>2. \A k \in 1..Len(c) : \/ k \in 1..Len(a) /\ c[k] = a[k]
                             \/ k - Len(a) \in 1..Len(b) /\ c[k] = b[k - Len(a)]
    OBVIOUS
  <2> HIDE DEF c
  <2>3. ToSet(c) = ToSet(a) \cup ToSet(b)
    BY <2>1, <2>2 DEF ToSet
  <2> QED
    BY <2>1, <2>3 DEF c
<1> QED
  BY <1>1, <1>2, <1>3, <1>4, <1>5, <1>6, <1>7 DEF got

\* A run that was there all along and is not returned with this page comes
\* after it, and no older one is returned.
LEMMA PageSkipsNone ==
  ASSUME GapInv, FetchPage, pc = "runs", NoneDeleted
  PROVE  /\ \A r \in steady : r \in ToSet(runs') \/ Place(r) >= PageEnd(page)
         /\ \A r \in steady, s \in ToSet(runs') : s < r => r \in ToSet(runs')
<1> DEFINE got == PageOf(page)
<1>1. /\ ToSet(runs') = ToSet(runs) \cup ToSet(got)
      /\ total \in Nat /\ PageEnd(page) \in Nat
      /\ ToSet(got) = {r \in Listed : total <= Place(r) /\ Place(r) < PageEnd(page)}
  BY DateRangePage
<1> HIDE DEF got
<1>2. /\ steady \subseteq Listed
      /\ \A r \in steady : r \in ToSet(runs) \/ Place(r) >= total
      /\ \A r \in steady, s \in ToSet(runs) : s < r => r \in ToSet(runs)
  BY DEF GapInv, NoneIsSkipped
<1>3. \A r \in Listed : Place(r) \in Nat
  BY ListedType, NewerType DEF Place
<1>4. \A r \in steady : r \in ToSet(runs') \/ Place(r) >= PageEnd(page)
  BY <1>1, <1>2, <1>3
<1>5. ASSUME NEW r \in steady, NEW s \in ToSet(got), s < r
      PROVE  r \in ToSet(runs')
  <2>1. r \in Listed /\ s \in Listed /\ Place(s) < PageEnd(page)
    BY <1>1, <1>2
  <2>2. Place(r) < Place(s)
    BY <1>5, <2>1, ListedType, OlderHasMoreNewer DEF Place
  <2>3. ~(Place(r) >= PageEnd(page))
    BY <1>1, <1>3, <2>1, <2>2
  <2> QED
    BY <1>4, <2>3
<1>6. \A r \in steady, s \in ToSet(runs') : s < r => r \in ToSet(runs')
  BY <1>1, <1>2, <1>5
<1> QED
  BY <1>4, <1>6

LEMMA GapStep == GapInv /\ [Next]_vars => GapInv'
<1> SUFFICES ASSUME GapInv, [Next]_vars PROVE GapInv'
  OBVIOUS
<1>1. TypeOK /\ TypeOK'
  BY TypeStep DEF GapInv
<1>2. CASE UNCHANGED vars
  <2>1. UNCHANGED <<pc, page, total, runs, steady, status, window>>
    BY <1>2 DEF vars, server
  <2>2. PagesAreFull' /\ NoneIsSkipped'
    BY <2>1 DEF GapInv, PagesAreFull, NoneIsSkipped, NoneDeleted, Place, Listed
  <2> QED
    BY <1>1, <2>2 DEF GapInv
<1>3. CASE pc' # "runs"
  BY <1>1, <1>3 DEF GapInv, PagesAreFull, NoneIsSkipped
<1>4. CASE GitHubStep /\ pc' = "runs"
  <2>1. UNCHANGED <<pc, page, total, runs>>
    BY <1>1, <1>4, GitHubKeepsTypes
  <2>2. PagesAreFull'
    BY <2>1 DEF GapInv, PagesAreFull
  <2>3. ASSUME NoneDeleted'
        PROVE  /\ steady' \subseteq Listed'
               /\ \A r \in steady' : r \in ToSet(runs)' \/ Place(r)' >= total'
               /\ \A r \in steady', s \in ToSet(runs)' : s < r => r \in ToSet(runs)'
    <3>1. /\ NoneDeleted /\ steady' = steady \cap Listed'
          /\ \A r \in Listed : Place(r) \in Nat /\ Place(r)' \in Nat /\ Place(r) <= Place(r)'
      BY <1>1, <1>4, <2>1, <2>3, PlacesOnlyGrow
    <3>2. /\ steady \subseteq Listed
          /\ \A r \in steady : r \in ToSet(runs) \/ Place(r) >= total
          /\ \A r \in steady, s \in ToSet(runs) : s < r => r \in ToSet(runs)
      BY <1>4, <2>1, <3>1 DEF GapInv, NoneIsSkipped
    <3>3. total \in Nat
      BY <1>1, RunPagesAssumption DEF TypeOK
    <3>4. ASSUME NEW r \in steady'
          PROVE  r \in ToSet(runs)' \/ Place(r)' >= total'
      <4>1. r \in steady /\ r \in Listed
        BY <3>1, <3>2
      <4>2. CASE r \in ToSet(runs)
        BY <2>1, <4>2
      <4>3. CASE Place(r) >= total
        BY <2>1, <3>1, <3>3, <4>1, <4>3
      <4> QED
        BY <3>2, <4>1, <4>2, <4>3
    <3> QED
      BY <2>1, <3>1, <3>2, <3>4
  <2> QED
    BY <1>1, <2>2, <2>3 DEF GapInv, NoneIsSkipped
<1>5. CASE FetchPage /\ pc' = "runs"
  <2> DEFINE got == PageOf(page)
             e == PageEnd(page)
  <2>1. pc = "runs"
    BY <1>5 DEF FetchPage, NextListing
  <2>2. /\ Len(runs') = total + Len(got) /\ Len(got) \in Nat
        /\ total \in Nat /\ e \in Nat /\ e <= total + PageSize
        /\ Len(got) = IF e > total THEN e - total ELSE 0
        /\ UNCHANGED <<status, window>>
        /\ IF IsLastPage(got) THEN pc' = "in_progress"
           ELSE /\ page' = page + 1 /\ total' = total + Len(got)
                /\ UNCHANGED <<pc, steady>>
    BY <2>1, <1>5, DateRangePage
  <2>3. ~IsLastPage(got)
    BY <1>5, <2>2
  <2>4. ~(Len(got) < PageSize) /\ ~(total + Len(got) >= Cap)
    BY <2>3 DEF IsLastPage
  <2> HIDE DEF got, e
  <2>5. Len(got) = PageSize /\ e = total + PageSize
    BY <2>2, <2>4, RunPagesAssumption
  <2>6. page' = page + 1 /\ total' = e /\ UNCHANGED <<pc, steady>>
    BY <2>2, <2>3, <2>5
  <2>7. PagesAreFull'
    <3>1. total' = Len(runs')
      BY <2>2, <2>5, <2>6
    <3>2. total' < Cap
      BY <2>2, <2>4, <2>5, <2>6, RunPagesAssumption
    <3>3. total = (page - 1) * PageSize /\ page \in Nat \ {0}
      BY <1>1, <2>1 DEF GapInv, PagesAreFull, TypeOK
    <3>4. (page' - 1) * PageSize = (page - 1) * PageSize + PageSize
      BY <2>6, <3>3, PageBounds
    <3> QED
      BY <2>5, <2>6, <3>1, <3>2, <3>3, <3>4 DEF PagesAreFull
  <2>8. ASSUME NoneDeleted'
        PROVE  /\ steady' \subseteq Listed'
               /\ \A r \in steady' : r \in ToSet(runs)' \/ Place(r)' >= total'
               /\ \A r \in steady', s \in ToSet(runs)' : s < r => r \in ToSet(runs)'
    <3>1. NoneDeleted
      BY <2>2, <2>8 DEF NoneDeleted
    <3>2. /\ \A r \in steady : r \in ToSet(runs') \/ Place(r) >= e
          /\ \A r \in steady, s \in ToSet(runs') : s < r => r \in ToSet(runs')
      BY <1>5, <2>1, <3>1, PageSkipsNone DEF e
    <3>3. steady \subseteq Listed
      BY <2>1, <3>1 DEF GapInv, NoneIsSkipped
    <3>4. Listed' = Listed /\ \A r : Place(r)' = Place(r)
      BY <2>2, <2>6 DEF Listed, Place
    <3> QED
      BY <2>6, <3>2, <3>3, <3>4
  <2> QED
    BY <1>1, <2>7, <2>8 DEF GapInv, NoneIsSkipped
<1>6. CASE QuotaStops
  BY <1>3, <1>6 DEF QuotaStops
<1> QED
  BY <1>2, <1>3, <1>4, <1>5, <1>6 DEF Next

LEMMA GapInvariant == Spec => []GapInv
BY GapInit, GapStep, PTL DEF Spec

\* The date-range listing has no gap: with no run deleted meanwhile, whatever
\* else happens between its pages, a run that was there all along is returned
\* before any older one.
THEOREM DateRangeIsDense == Spec => DateRangeHasNoGaps
<1>1. GapInv /\ [Next]_vars =>
        [pc = "runs" /\ NoneDeleted /\ FetchPage =>
           \A r \in steady : (\E s \in ToSet(runs') : s < r) => r \in ToSet(runs')]_vars
  <2> SUFFICES ASSUME GapInv, pc = "runs", NoneDeleted, FetchPage
               PROVE  \A r \in steady : (\E s \in ToSet(runs') : s < r) => r \in ToSet(runs')
    OBVIOUS
  <2> QED
    BY PageSkipsNone
<1> QED
  BY <1>1, GapInvariant, PTL DEF Spec, DateRangeHasNoGaps

\* ... and it returns every such run when neither --max-pages nor the cap
\* ended it.
THEOREM DateRangeIsWhole == Spec => DateRangeIsComplete
<1>1. ASSUME GapInv, FetchPage, pc = "runs", NoneDeleted, pc' # "runs", MaxPages = 0,
             Len(runs') < Cap
      PROVE  steady \subseteq ToSet(runs')
  <2> DEFINE got == PageOf(page)
             e == PageEnd(page)
             size == Cardinality(Listed)
  <2>1. /\ Len(runs') = total + Len(got) /\ Len(got) \in Nat
        /\ total \in Nat /\ e \in Nat
        /\ Len(got) = IF e > total THEN e - total ELSE 0
        /\ e \in {total + PageSize, size, Cap}
        /\ IF IsLastPage(got) THEN pc' = "in_progress" ELSE UNCHANGED pc
    BY <1>1, DateRangePage
  <2>2. IsLastPage(got)
    BY <1>1, <2>1
  <2>3. page \in Nat \ {0} /\ total < Cap
    BY <1>1 DEF GapInv, TypeOK, PagesAreFull
  <2>4. Len(got) < PageSize
    <3>1. ~(total + Len(got) >= Cap) /\ MaxPages # page
      BY <1>1, <2>1, <2>3, RunPagesAssumption
    <3> QED
      BY <2>2, <3>1 DEF IsLastPage
  <2>5. size \in Nat
    BY ListedType, FS_CardinalityType
  <2> HIDE DEF got, e, size
  <2>6. e = size
    BY <1>1, <2>1, <2>3, <2>4, <2>5, RunPagesAssumption
  <2>7. /\ steady \subseteq Listed
        /\ \A r \in steady : r \in ToSet(runs') \/ Place(r) >= e
    BY <1>1, PageSkipsNone DEF GapInv, NoneIsSkipped, e
  <2>8. ASSUME NEW r \in Listed
        PROVE  Place(r) \in Nat /\ Place(r) < size
    <3>1. r \in Int /\ ~(r > r)
      BY ListedType
    <3> QED
      BY <3>1, ListedType, NewerType DEF Place, size
  <2> QED
    BY <2>5, <2>6, <2>7, <2>8
<1>2. GapInv /\ [Next]_vars =>
        [(pc = "runs" /\ NoneDeleted /\ FetchPage /\ pc' # "runs" /\ MaxPages = 0
          /\ Len(runs') < Cap) => steady \subseteq ToSet(runs')]_vars
  BY <1>1
<1> QED
  BY <1>2, GapInvariant, PTL DEF Spec, DateRangeIsComplete
=============================================================================
