------------------------------- MODULE ApiGet -------------------------------
(***************************************************************************)
(* api_get of github_api.py: the threads of one sync share a session (its  *)
(* quota flag) and an ETag cache, a ChainMap of what this sync touched     *)
(* over what the previous sync left in etag_cache.json.  Every request and *)
(* every response is a step, so that a thread can have one in flight while *)
(* another finds the quota used up.                                        *)
(*                                                                         *)
(* A resource has a version, which is both its ETag and its body.  The     *)
(* server counts down a quota that a 304 and a refused retryable request   *)
(* leave alone; no other client uses the token.                            *)
(***************************************************************************)
EXTENDS Integers, FiniteSets

CONSTANTS
  Threads,      \* threads of the sync that call api_get
  Resources,    \* the (url, params) pairs asked for
  Quota,        \* requests per rate-limit window
  quota_limit,  \* session.quota_limit
  retries,      \* attempts of one call
  MaxVersion,   \* bound: versions of a resource
  MaxLost       \* bound: answered requests whose response is lost

ASSUME ApiGetAssumption ==
  /\ IsFiniteSet(Threads) /\ Threads # {}
  /\ Resources # {}
  /\ Quota \in Nat /\ quota_limit \in Nat /\ quota_limit < Quota
  /\ retries \in Nat \ {0}
  /\ MaxVersion \in Nat \ {0} /\ MaxLost \in Nat

VARIABLES
  version,    \* version[u]: the server's current version of u
  remaining,  \* X-RateLimit-Remaining
  lost,       \* requests that were charged but whose response was lost
  persisted,  \* etag_cache.json
  front,      \* the ChainMap's first map: entries touched by this sync
  exceeded,   \* session._quota_exceeded
  call,       \* call[t]: thread t's call
  reply       \* reply[t]: the response on its way to t

server == <<version, remaining, lost>>
vars == <<version, remaining, lost, persisted, front, exceeded, call, reply>>

None == 0                \* no cache entry, no If-None-Match
NoHeader == -1           \* a response without X-RateLimit-Remaining
Versions == 1..MaxVersion
Entry == [etag: 0..MaxVersion, body: 0..MaxVersion]
NoEntry == [etag |-> None, body |-> None]
EmptyMap == [u \in Resources |-> NoEntry]

Ended == {"idle", "returned", "quota", "failed"}
Call == [pc: Ended \cup {"check", "sent", "unreachable"}, url: Resources,
         cached: Entry, attempt: 0..retries, since: Versions, got: 0..MaxVersion]
Reply == [kind: {"ok", "not_modified", "retryable", "refused"},
          ver: 0..MaxVersion, rem: {NoHeader} \cup 0..Quota]
NoReply == [kind |-> "none", ver |-> None, rem |-> NoHeader]

\* ChainMap lookup: the sync's own entry, else the previous sync's.
Lookup(u) == IF front[u] # NoEntry THEN front[u] ELSE persisted[u]

InFlight == {t \in Threads : call[t].pc = "sent" /\ reply[t] = NoReply}
\* Responses on their way that will make their thread set the flag.
Telling == {t \in Threads : reply[t] # NoReply /\ reply[t].rem # NoHeader
                            /\ reply[t].rem <= quota_limit}

-----------------------------------------------------------------------------
(* The server.                                                             *)

Change(u) ==
  /\ version[u] < MaxVersion
  /\ version' = [version EXCEPT ![u] = @ + 1]
  /\ UNCHANGED <<remaining, lost, persisted, front, exceeded, call, reply>>

ResetQuota ==
  /\ remaining' = Quota
  /\ UNCHANGED <<version, lost, persisted, front, exceeded, call, reply>>

Answer(t, kind, cost, header) ==
  /\ t \in InFlight
  /\ remaining' = remaining - cost
  /\ reply' = [reply EXCEPT ![t] =
       [kind |-> kind,
        ver |-> IF kind = "ok" THEN version[call[t].url] ELSE None,
        rem |-> IF header THEN remaining' ELSE NoHeader]]
  /\ UNCHANGED <<version, lost, persisted, front, exceeded, call>>

\* 304 for the current version, else 200 or an error; 403 without quota.  A
\* secondary rate limit carries no X-RateLimit-Remaining.
Serve(t) ==
  LET current == call[t].cached.etag = version[call[t].url] IN
  \/ current /\ Answer(t, "not_modified", 0, TRUE)
  \/ ~current /\ remaining > 0 /\ Answer(t, "ok", 1, TRUE)
  \/ remaining > 0 /\ Answer(t, "refused", 1, TRUE)
  \/ remaining = 0 /\ Answer(t, "refused", 0, TRUE)
  \/ \E header \in BOOLEAN : Answer(t, "retryable", 0, header)

-----------------------------------------------------------------------------
(* One call of api_get.                                                    *)

\* The cache is read once, before the first attempt.
Begin(t, u) ==
  /\ call[t].pc \in Ended
  /\ call' = [call EXCEPT ![t] = [pc |-> "check", url |-> u, cached |-> Lookup(u),
                                  attempt |-> 0, since |-> version[u], got |-> None]]
  /\ UNCHANGED <<server, persisted, front, exceeded, reply>>

\* Top of the loop: raise on the session's flag, else send the request.
Attempt(t) ==
  /\ call[t].pc = "check"
  /\ call' = [call EXCEPT ![t].pc = IF call[t].attempt = retries THEN "unreachable"
                                    ELSE IF exceeded THEN "quota" ELSE "sent"]
  /\ UNCHANGED <<server, persisted, front, exceeded, reply>>

\* Mutant: the last failed attempt loops like the others.
AlwaysTryAgain(c) == [c EXCEPT !.pc = "check", !.attempt = @ + 1]

\* What follows a failed attempt: the last one raises, others sleep and loop.
NextAttempt(c) ==
  IF c.attempt = retries - 1 THEN [c EXCEPT !.pc = "failed"]
  ELSE [c EXCEPT !.pc = "check", !.attempt = @ + 1]

\* requests.RequestException, before or after the server answered.
RequestException(t) ==
  /\ call[t].pc = "sent"
  /\ IF reply[t].kind \in {"ok", "refused"}
     THEN lost < MaxLost /\ lost' = lost + 1 ELSE UNCHANGED lost
  /\ call' = [call EXCEPT ![t] = NextAttempt(@)]
  /\ reply' = [reply EXCEPT ![t] = NoReply]
  /\ UNCHANGED <<version, remaining, persisted, front, exceeded>>

\* Mutant: only the thread that is told the limit stops.
ReceiveQuotaAlone(t) ==
  /\ t \in Telling
  /\ call' = [call EXCEPT ![t].pc = "quota"]
  /\ reply' = [reply EXCEPT ![t] = NoReply]
  /\ UNCHANGED <<server, persisted, front, exceeded>>

\* The quota test comes before anything else is made of the response.
ReceiveQuota(t) ==
  /\ t \in Telling
  /\ exceeded' = TRUE
  /\ call' = [call EXCEPT ![t].pc = "quota"]
  /\ reply' = [reply EXCEPT ![t] = NoReply]
  /\ UNCHANGED <<server, persisted, front>>

\* Mutants: a new ETag is stored with the body of the old one; the wrong
\* header is stored as the ETag.
NewEtagOldBody(t) ==
  [etag |-> IF reply[t].kind = "not_modified" THEN call[t].cached.etag ELSE reply[t].ver,
   body |-> IF call[t].cached # NoEntry THEN call[t].cached.body ELSE reply[t].ver]
WrongHeaderAsEtag(t) ==
  IF reply[t].kind = "not_modified" THEN call[t].cached
  ELSE [etag |-> reply[t].rem, body |-> reply[t].ver]

\* The body the caller gets and the entry the cache keeps.
ReceivedEntry(t) ==
  IF reply[t].kind = "not_modified" THEN call[t].cached
  ELSE [etag |-> reply[t].ver, body |-> reply[t].ver]

ReceiveBody(t) ==
  /\ reply[t].kind \in {"ok", "not_modified"} /\ t \notin Telling
  /\ front' = [front EXCEPT ![call[t].url] = ReceivedEntry(t)]
  /\ call' = [call EXCEPT ![t].pc = "returned", ![t].got = ReceivedEntry(t).body]
  /\ reply' = [reply EXCEPT ![t] = NoReply]
  /\ UNCHANGED <<server, persisted, exceeded>>

\* 429, 5xx, or a 403 with Retry-After.
ReceiveRetryable(t) ==
  /\ reply[t].kind = "retryable" /\ t \notin Telling
  /\ call' = [call EXCEPT ![t] = NextAttempt(@)]
  /\ reply' = [reply EXCEPT ![t] = NoReply]
  /\ UNCHANGED <<server, persisted, front, exceeded>>

ReceiveRefused(t) ==
  /\ reply[t].kind = "refused" /\ t \notin Telling
  /\ call' = [call EXCEPT ![t].pc = "failed"]
  /\ reply' = [reply EXCEPT ![t] = NoReply]
  /\ UNCHANGED <<server, persisted, front, exceeded>>

-----------------------------------------------------------------------------
(* The process around it.                                                  *)

\* A new process: preflight check, new session, etag_cache.json loaded.
NewSync(saved) ==
  /\ remaining > quota_limit
  /\ persisted' = saved
  /\ front' = EmptyMap
  /\ exceeded' = FALSE
  /\ call' = [t \in Threads |-> [call[t] EXCEPT !.pc = "idle"]]
  /\ reply' = [t \in Threads |-> NoReply]
  /\ UNCHANGED server

\* The sync ends, save_etag_cache keeps what it touched.
SaveAndRestart ==
  /\ \A t \in Threads : call[t].pc \in Ended
  /\ NewSync(front)

\* The sync dies: before the save, or in the middle of it, which truncates
\* the file so that load_etag_cache starts from nothing.
DieAndRestart == NewSync(persisted) \/ NewSync(EmptyMap)

Init ==
  /\ version = [u \in Resources |-> 1]
  /\ remaining = Quota /\ lost = 0
  /\ persisted = EmptyMap /\ front = EmptyMap
  /\ exceeded = FALSE
  /\ call \in [Threads -> {[pc |-> "idle", url |-> CHOOSE u \in Resources : TRUE,
                            cached |-> NoEntry, attempt |-> 0, since |-> 1,
                            got |-> None]}]
  /\ reply = [t \in Threads |-> NoReply]

ThreadStep(t) ==
  \/ \E u \in Resources : Begin(t, u)
  \/ Attempt(t) \/ RequestException(t) \/ ReceiveQuota(t) \/ ReceiveBody(t)
  \/ ReceiveRetryable(t) \/ ReceiveRefused(t)

Next ==
  \/ \E t \in Threads : ThreadStep(t) \/ Serve(t)
  \/ \E u \in Resources : Change(u)
  \/ ResetQuota \/ SaveAndRestart \/ DieAndRestart

\* Threads go on, and every request ends within its timeout of 30 seconds, with
\* a response or with an exception.
Fairness ==
  \A t \in Threads :
    /\ WF_vars(Attempt(t) \/ ReceiveQuota(t) \/ ReceiveBody(t) \/ ReceiveRetryable(t)
               \/ ReceiveRefused(t))
    /\ WF_vars(Serve(t) \/ RequestException(t))

Spec == Init /\ [][Next]_vars /\ Fairness

-----------------------------------------------------------------------------
\* Every variable holds values of its kind.
TypeOK ==
  /\ version \in [Resources -> Versions]
  /\ remaining \in 0..Quota /\ lost \in 0..MaxLost
  /\ persisted \in [Resources -> Entry] /\ front \in [Resources -> Entry]
  /\ exceeded \in BOOLEAN
  /\ call \in [Threads -> Call]
  /\ reply \in [Threads -> Reply \cup {NoReply}]

\* The quota is never used further below the limit than one request per other
\* thread, besides the responses that never arrived: a thread that is told the
\* limit stops all of them before they send again.
QuotaFloor == remaining + (Cardinality(Threads) - 1) + lost >= quota_limit

\* A call never returns a body older than what the server had when it began,
\* although a 304 returns a body of an earlier sync.
BodiesAreFresh ==
  \A t \in Threads : call[t].pc = "returned" => call[t].got >= call[t].since

\* Every call comes to an end, whatever the server answers, by returning or by
\* raising inside the loop: the retries run out before the loop does ("GitHub
\* API failed", the RuntimeError after it, is never reached), and no thread
\* waits for what another one does.
CallsEnd == \A t \in Threads : call[t].pc \notin Ended ~> call[t].pc \in Ended
=============================================================================
