---------------------------- MODULE ApiGetProofs ----------------------------
(***************************************************************************)
(* Theorems about ApiGet, for any number of threads and resources, any     *)
(* quota and limit, and any number of retries.                             *)
(***************************************************************************)
EXTENDS ApiGet, TLAPS, FiniteSetTheorems

-----------------------------------------------------------------------------
(* Calls: their type, and where a thread with a response is.               *)

\* A response is only ever on its way to a thread that waits for it, and the
\* loop never gets past its last attempt.
CallsMakeSense ==
  \A t \in Threads :
    /\ reply[t] # NoReply => call[t].pc = "sent"
    /\ call[t].pc # "unreachable" /\ call[t].attempt < retries

CallInv == TypeOK /\ CallsMakeSense

\* The response to a request is new, of its kind, and costs what it says.
LEMMA ServeAnswers ==
  ASSUME TypeOK, NEW t \in Threads, Serve(t)
  PROVE  /\ t \in InFlight
         /\ UNCHANGED <<version, lost, persisted, front, exceeded, call>>
         /\ \E r \in Reply, cost \in {0, 1} :
              /\ reply' = [reply EXCEPT ![t] = r]
              /\ remaining' = remaining - cost /\ cost <= remaining
              /\ cost = 1 => r.kind \in {"ok", "refused"} /\ r.rem = remaining'
              /\ r.kind = "ok" => r.ver = version[call[t].url]
              /\ r.kind = "not_modified" => call[t].cached.etag = version[call[t].url]
<1> USE ApiGetAssumption DEF TypeOK, Reply, Call, Entry, Versions, NoHeader, None, Answer
<1> DEFINE Answered ==
         \E r \in Reply, cost \in {0, 1} :
              /\ reply' = [reply EXCEPT ![t] = r]
              /\ remaining' = remaining - cost /\ cost <= remaining
              /\ cost = 1 => r.kind \in {"ok", "refused"} /\ r.rem = remaining'
              /\ r.kind = "ok" => r.ver = version[call[t].url]
              /\ r.kind = "not_modified" => call[t].cached.etag = version[call[t].url]
<1>1. t \in InFlight /\ UNCHANGED <<version, lost, persisted, front, exceeded, call>>
  BY DEF Serve
<1>2. call[t].url \in Resources /\ version[call[t].url] \in 0..MaxVersion
  OBVIOUS
<1>3. /\ remaining \in 0..Quota /\ 0 \in 0..MaxVersion
      /\ 0 <= remaining /\ 0 # 1 /\ (remaining > 0 => 1 <= remaining)
  OBVIOUS
<1>4. ASSUME NEW kind \in {"ok", "not_modified", "retryable", "refused"},
             NEW cost \in {0, 1}, cost <= remaining, NEW header \in BOOLEAN,
             cost = 1 => kind \in {"ok", "refused"} /\ header,
             kind = "not_modified" => call[t].cached.etag = version[call[t].url],
             Answer(t, kind, cost, header)
      PROVE  Answered
  <2> DEFINE r == [kind |-> kind,
                   ver |-> IF kind = "ok" THEN version[call[t].url] ELSE None,
                   rem |-> IF header THEN remaining' ELSE NoHeader]
  <2>1. remaining' = remaining - cost /\ remaining' \in 0..Quota
    BY <1>3, <1>4
  <2>2. r \in Reply
    BY <1>2, <1>3, <2>1
  <2>3. reply' = [reply EXCEPT ![t] = r]
    BY <1>4
  <2>4. /\ cost = 1 => r.kind \in {"ok", "refused"} /\ r.rem = remaining'
        /\ r.kind = "ok" => r.ver = version[call[t].url]
        /\ r.kind = "not_modified" => call[t].cached.etag = version[call[t].url]
    BY <1>4
  <2> HIDE DEF r
  <2> QED
    BY <1>4, <2>1, <2>2, <2>3, <2>4
<1> HIDE DEF Answer, Reply, TypeOK, Call, Entry, Versions, NoHeader, None, Answered
<1> SUFFICES Answered
  BY <1>1 DEF Answered
<1>5. CASE call[t].cached.etag = version[call[t].url] /\ Answer(t, "not_modified", 0, TRUE)
  BY <1>3, <1>4, <1>5, Zenon
<1>6. CASE remaining > 0 /\ Answer(t, "ok", 1, TRUE)
  BY <1>3, <1>4, <1>6, Zenon
<1>7. CASE remaining > 0 /\ Answer(t, "refused", 1, TRUE)
  BY <1>3, <1>4, <1>7, Zenon
<1>8. CASE remaining = 0 /\ Answer(t, "refused", 0, TRUE)
  BY <1>3, <1>4, <1>8, Zenon
<1>9. CASE \E header \in BOOLEAN : Answer(t, "retryable", 0, header)
  <2>1. PICK header \in BOOLEAN : Answer(t, "retryable", 0, header)
    BY <1>9
  <2> QED
    BY <1>3, <1>4, <2>1, Zenon
<1> QED
  BY <1>5, <1>6, <1>7, <1>8, <1>9 DEF Serve

\* What follows a failed attempt is a call again, and one that may still try.
LEMMA NextAttemptIsACall ==
  ASSUME NEW c \in Call, c.pc = "sent", c.attempt < retries
  PROVE  /\ NextAttempt(c) \in Call /\ NextAttempt(c).attempt < retries
         /\ NextAttempt(c).pc \in {"failed", "check"}
         /\ NextAttempt(c).url = c.url /\ NextAttempt(c).cached = c.cached
         /\ NextAttempt(c).since = c.since
<1> USE ApiGetAssumption DEF Call, Ended
<1>1. CASE c.attempt = retries - 1
  BY <1>1 DEF NextAttempt
<1>2. CASE c.attempt # retries - 1
  <2>1. c.attempt + 1 \in 0..retries /\ c.attempt + 1 < retries
    BY <1>2
  <2>2. NextAttempt(c) = [c EXCEPT !.pc = "check", !.attempt = c.attempt + 1]
    BY <1>2 DEF NextAttempt
  <2> QED
    BY <2>1, <2>2
<1> QED
  BY <1>1, <1>2

\* What a thread's own step does to its call and to its response: the call
\* stays for the same resource, with the same cached entry, until it has ended.
CallStep(t, c) ==
  /\ call' = [call EXCEPT ![t] = c]
  /\ c \in Call /\ c.attempt < retries /\ c.pc # "unreachable"
  /\ reply' = [reply EXCEPT ![t] = NoReply]

SameCall(c, d) == d.url = c.url /\ d.cached = c.cached /\ d.since = c.since

LEMMA BeginSteps ==
  ASSUME CallInv, NEW t \in Threads, NEW u \in Resources, Begin(t, u)
  PROVE  /\ reply[t] = NoReply
         /\ CallStep(t, [pc |-> "check", url |-> u, cached |-> Lookup(u),
                         attempt |-> 0, since |-> version[u], got |-> None])
<1> USE ApiGetAssumption DEF CallInv, TypeOK
<1>1. reply[t] = NoReply
  BY DEF Begin, CallsMakeSense, Ended
<1>2. Lookup(u) \in Entry
  BY DEF Lookup
<1>3. reply' = [reply EXCEPT ![t] = NoReply]
  BY <1>1 DEF Begin
<1> DEFINE c == [pc |-> "check", url |-> u, cached |-> Lookup(u),
                  attempt |-> 0, since |-> version[u], got |-> None]
<1>4. version[u] \in Versions /\ 0 \in 0..retries /\ 0 < retries /\ 0 \in 0..MaxVersion
  OBVIOUS
<1>5. c \in Call /\ c.attempt < retries /\ c.pc # "unreachable"
  BY <1>2, <1>4 DEF Call, None
<1>6. call' = [call EXCEPT ![t] = c]
  BY DEF Begin
<1> HIDE DEF c
<1>7. CallStep(t, c)
  BY <1>3, <1>5, <1>6 DEF CallStep
<1> QED
  BY <1>1, <1>7 DEF c

LEMMA AttemptSteps ==
  ASSUME CallInv, NEW t \in Threads, Attempt(t)
  PROVE  /\ reply[t] = NoReply
         /\ \E c \in Call : /\ CallStep(t, c) /\ SameCall(call[t], c)
                            /\ c.pc = IF exceeded THEN "quota" ELSE "sent"
<1> USE ApiGetAssumption DEF CallInv, TypeOK
<1>1. reply[t] = NoReply
  BY DEF Attempt, CallsMakeSense
<1>2. reply' = [reply EXCEPT ![t] = NoReply]
  BY <1>1 DEF Attempt
<1> DEFINE c == [call[t] EXCEPT !.pc = IF exceeded THEN "quota" ELSE "sent"]
<1>3. call[t].attempt < retries /\ call[t].attempt # retries /\ call[t] \in Call
  BY DEF CallsMakeSense, Call
<1>4. call' = [call EXCEPT ![t] = c]
  BY <1>3 DEF Attempt
<1>5. /\ c \in Call /\ SameCall(call[t], c) /\ c.attempt < retries
      /\ c.pc = IF exceeded THEN "quota" ELSE "sent"
  BY <1>3 DEF Call, Ended, SameCall
<1> HIDE DEF c
<1> QED
  BY <1>1, <1>2, <1>4, <1>5 DEF CallStep

LEMMA ExceptionSteps ==
  ASSUME CallInv, NEW t \in Threads, RequestException(t)
  PROVE  \E c \in Call : /\ CallStep(t, c) /\ SameCall(call[t], c)
                         /\ c.pc \in {"failed", "check"}
<1> USE ApiGetAssumption DEF CallInv, TypeOK
<1>1. call[t] \in Call /\ call[t].pc = "sent" /\ call[t].attempt < retries
  BY DEF RequestException, CallsMakeSense
<1>2. /\ call' = [call EXCEPT ![t] = NextAttempt(call[t])]
      /\ reply' = [reply EXCEPT ![t] = NoReply]
  BY DEF RequestException
<1> QED
  BY <1>1, <1>2, NextAttemptIsACall DEF CallStep, SameCall

LEMMA ReceiveSteps ==
  ASSUME CallInv, NEW t \in Threads,
         ReceiveQuota(t) \/ ReceiveBody(t) \/ ReceiveRetryable(t) \/ ReceiveRefused(t)
  PROVE  /\ call[t].pc = "sent" /\ reply[t] \in Reply /\ reply[t] # NoReply
         /\ \E c \in Call : /\ CallStep(t, c) /\ SameCall(call[t], c)
                            /\ c.pc \notin {"sent", "returned"} \/ ReceiveBody(t)
                            /\ ReceiveBody(t) => /\ c.pc = "returned"
                                                 /\ c.got = ReceivedEntry(t).body
<1> USE ApiGetAssumption DEF CallInv, TypeOK
<1> DEFINE Moved ==
      \E c \in Call : /\ CallStep(t, c) /\ SameCall(call[t], c)
                      /\ c.pc \notin {"sent", "returned"} \/ ReceiveBody(t)
                      /\ ReceiveBody(t) => /\ c.pc = "returned"
                                           /\ c.got = ReceivedEntry(t).body
<1>1. reply[t] # NoReply /\ reply[t] \in Reply
  <2>1. reply[t] # NoReply
    BY DEF ReceiveQuota, ReceiveBody, ReceiveRetryable, ReceiveRefused, Telling, NoReply
  <2> QED
    BY <2>1
<1>2. call[t].pc = "sent" /\ call[t] \in Call /\ call[t].attempt < retries
  BY <1>1 DEF CallsMakeSense
<1> SUFFICES Moved
  BY <1>1, <1>2
<1>3. reply' = [reply EXCEPT ![t] = NoReply]
  BY DEF ReceiveQuota, ReceiveBody, ReceiveRetryable, ReceiveRefused
<1>4. ASSUME NEW l \in {"quota", "failed"}
      PROVE  LET c == [call[t] EXCEPT !.pc = l]
             IN  c \in Call /\ SameCall(call[t], c) /\ c.attempt < retries /\ c.pc = l
  BY <1>2 DEF Call, Ended, SameCall
<1>5. CASE ReceiveQuota(t)
  <2> DEFINE c == [call[t] EXCEPT !.pc = "quota"]
  <2>1. call' = [call EXCEPT ![t] = c] /\ ~ReceiveBody(t)
    BY <1>5 DEF ReceiveQuota, ReceiveBody
  <2>2. c \in Call /\ SameCall(call[t], c) /\ c.attempt < retries /\ c.pc = "quota"
    BY <1>4
  <2> HIDE DEF c
  <2> QED
    BY <1>3, <2>1, <2>2 DEF CallStep
<1>6. CASE ReceiveRefused(t)
  <2> DEFINE c == [call[t] EXCEPT !.pc = "failed"]
  <2>1. call' = [call EXCEPT ![t] = c] /\ ~ReceiveBody(t)
    BY <1>6 DEF ReceiveRefused, ReceiveBody
  <2>2. c \in Call /\ SameCall(call[t], c) /\ c.attempt < retries /\ c.pc = "failed"
    BY <1>4
  <2> HIDE DEF c
  <2> QED
    BY <1>3, <2>1, <2>2 DEF CallStep
<1>7. CASE ReceiveRetryable(t)
  <2>1. call' = [call EXCEPT ![t] = NextAttempt(call[t])] /\ ~ReceiveBody(t)
    BY <1>7 DEF ReceiveRetryable, ReceiveBody
  <2> QED
    BY <1>2, <1>3, <2>1, NextAttemptIsACall DEF CallStep, SameCall
<1>8. CASE ReceiveBody(t)
  <2> DEFINE c == [call[t] EXCEPT !.pc = "returned", !.got = ReceivedEntry(t).body]
  <2>1. call' = [call EXCEPT ![t] = c]
    BY <1>8 DEF ReceiveBody
  <2>2. ReceivedEntry(t).body \in 0..MaxVersion
    BY <1>1, <1>2 DEF ReceivedEntry, Reply, Call, Entry
  <2>3. /\ c \in Call /\ SameCall(call[t], c) /\ c.attempt < retries
        /\ c.pc = "returned" /\ c.got = ReceivedEntry(t).body
    BY <1>2, <2>2 DEF Call, Ended, SameCall
  <2> HIDE DEF c
  <2> QED
    BY <1>3, <1>8, <2>1, <2>3 DEF CallStep
<1> HIDE DEF Moved
<1> QED
  BY <1>5, <1>6, <1>7, <1>8

\* A thread's own step leaves its call in order.
LEMMA CallStepKeeps ==
  ASSUME CallInv, NEW t \in Threads, NEW c \in Call, CallStep(t, c)
  PROVE  /\ call' \in [Threads -> Call] /\ reply' \in [Threads -> Reply \cup {NoReply}]
         /\ CallsMakeSense'
<1> USE DEF CallInv, TypeOK, CallStep
<1>1. call' \in [Threads -> Call] /\ reply' \in [Threads -> Reply \cup {NoReply}]
  OBVIOUS
<1>2. ASSUME NEW s \in Threads
      PROVE  /\ reply'[s] # NoReply => call'[s].pc = "sent"
             /\ call'[s].pc # "unreachable" /\ call'[s].attempt < retries
  BY DEF CallsMakeSense
<1> QED
  BY <1>1, <1>2 DEF CallsMakeSense

\* The entry a response leaves in the cache is an entry.
LEMMA ReceivedEntryIsAnEntry ==
  ASSUME CallInv, NEW t \in Threads, reply[t] # NoReply
  PROVE  ReceivedEntry(t) \in Entry
<1>1. reply[t] \in Reply /\ call[t] \in Call
  BY DEF CallInv, TypeOK
<1> QED
  BY <1>1 DEF ReceivedEntry, Reply, Call, Entry

\* A new process finds the file as it was saved, and every thread idle.
LEMMA NewSyncStarts ==
  ASSUME CallInv, SaveAndRestart \/ DieAndRestart
  PROVE  \E saved \in {front, persisted, EmptyMap} : NewSync(saved)
BY DEF SaveAndRestart, DieAndRestart

LEMMA CallInvInit == Init => CallInv
<1> SUFFICES ASSUME Init PROVE CallInv
  OBVIOUS
<1> USE ApiGetAssumption DEF Init
<1>1. EmptyMap \in [Resources -> Entry] /\ NoEntry \in Entry
  BY DEF EmptyMap, NoEntry, Entry, None
<1>2. (CHOOSE u \in Resources : TRUE) \in Resources
  OBVIOUS
<1>3. ASSUME NEW t \in Threads
      PROVE  call[t] \in Call /\ call[t].pc = "idle" /\ call[t].attempt = 0
  <2>1. call[t] = [pc |-> "idle", url |-> CHOOSE u \in Resources : TRUE,
                   cached |-> NoEntry, attempt |-> 0, since |-> 1, got |-> None]
    OBVIOUS
  <2> QED
    BY <1>1, <1>2, <2>1 DEF Call, Ended, Versions, None
<1>4. call \in [Threads -> Call]
  BY <1>3
<1>5. version \in [Resources -> Versions] /\ remaining \in 0..Quota /\ lost \in 0..MaxLost
  BY DEF Versions
<1>6. TypeOK
  BY <1>1, <1>4, <1>5 DEF TypeOK
<1> QED
  BY <1>3, <1>6 DEF CallInv, CallsMakeSense

LEMMA CallInvStep == CallInv /\ [Next]_vars => CallInv'
<1> SUFFICES ASSUME CallInv, [Next]_vars PROVE CallInv'
  OBVIOUS
<1>0. TypeOK
  BY DEF CallInv
<1>1. ASSUME NEW t \in Threads, NEW u \in Resources, Begin(t, u)
      PROVE  CallInv'
  <2>1. PICK c \in Call : CallStep(t, c)
    BY <1>1, BeginSteps DEF CallStep
  <2> QED
    BY <1>0, <1>1, <2>1, CallStepKeeps DEF CallInv, TypeOK, Begin, server
<1>2. ASSUME NEW t \in Threads, Attempt(t)
      PROVE  CallInv'
  <2>1. PICK c \in Call : CallStep(t, c)
    BY <1>2, AttemptSteps
  <2> QED
    BY <1>0, <1>2, <2>1, CallStepKeeps DEF CallInv, TypeOK, Attempt, server
<1>3. ASSUME NEW t \in Threads, RequestException(t)
      PROVE  CallInv'
  <2>1. PICK c \in Call : CallStep(t, c)
    BY <1>3, ExceptionSteps
  <2>2. lost' \in 0..MaxLost
    BY <1>0, <1>3, ApiGetAssumption DEF RequestException, TypeOK
  <2> QED
    BY <1>0, <1>3, <2>1, <2>2, CallStepKeeps DEF CallInv, TypeOK, RequestException
<1>4. ASSUME NEW t \in Threads,
             ReceiveQuota(t) \/ ReceiveBody(t) \/ ReceiveRetryable(t) \/ ReceiveRefused(t)
      PROVE  CallInv'
  <2>1. reply[t] # NoReply /\ \E c \in Call : CallStep(t, c)
    BY <1>4, ReceiveSteps
  <2>2. PICK c \in Call : CallStep(t, c)
    BY <2>1
  <2>3. front' \in [Resources -> Entry] /\ exceeded' \in BOOLEAN
    <3>1. CASE ReceiveBody(t)
      BY <1>0, <2>1, <3>1, ReceivedEntryIsAnEntry DEF TypeOK, ReceiveBody
    <3>2. CASE ReceiveQuota(t) \/ ReceiveRetryable(t) \/ ReceiveRefused(t)
      BY <1>0, <3>2 DEF TypeOK, ReceiveQuota, ReceiveRetryable, ReceiveRefused
    <3> QED
      BY <1>4, <3>1, <3>2
  <2>4. UNCHANGED <<version, remaining, lost, persisted>>
    BY <1>4 DEF ReceiveQuota, ReceiveBody, ReceiveRetryable, ReceiveRefused, server
  <2> QED
    BY <1>0, <2>2, <2>3, <2>4, CallStepKeeps DEF CallInv, TypeOK
<1>5. ASSUME NEW t \in Threads, Serve(t)
      PROVE  CallInv'
  <2>1. PICK r \in Reply, cost \in {0, 1} :
               reply' = [reply EXCEPT ![t] = r] /\ remaining' = remaining - cost
               /\ cost <= remaining
    BY <1>0, <1>5, ServeAnswers
  <2>2. /\ t \in InFlight
        /\ UNCHANGED <<version, lost, persisted, front, exceeded, call>>
    BY <1>0, <1>5, ServeAnswers
  <2>3. remaining' \in 0..Quota /\ reply' \in [Threads -> Reply \cup {NoReply}]
    BY <1>0, <2>1, ApiGetAssumption DEF TypeOK
  <2>4. TypeOK'
    BY <1>0, <2>2, <2>3 DEF TypeOK
  <2>5. CallsMakeSense'
    BY <1>0, <2>1, <2>2 DEF CallInv, CallsMakeSense, InFlight, TypeOK
  <2> QED
    BY <2>4, <2>5 DEF CallInv
<1>6. ASSUME NEW u \in Resources, Change(u)
      PROVE  CallInv'
  <2>1. version' \in [Resources -> Versions]
    BY <1>0, <1>6, ApiGetAssumption DEF TypeOK, Change, Versions
  <2> QED
    BY <1>6, <2>1 DEF CallInv, TypeOK, Change, CallsMakeSense
<1>7. CASE ResetQuota
  BY <1>7, ApiGetAssumption DEF CallInv, TypeOK, ResetQuota, CallsMakeSense
<1>8. CASE SaveAndRestart \/ DieAndRestart
  <2>1. PICK saved \in {front, persisted, EmptyMap} : NewSync(saved)
    BY <1>8, NewSyncStarts
  <2>2. EmptyMap \in [Resources -> Entry]
    BY ApiGetAssumption DEF EmptyMap, NoEntry, Entry, None
  <2>3. ASSUME NEW t \in Threads
        PROVE  [call[t] EXCEPT !.pc = "idle"] \in Call
    BY <1>0 DEF TypeOK, Call, Ended
  <2>4. call' \in [Threads -> Call] /\ \A t \in Threads : call'[t].pc = "idle"
    BY <1>0, <2>1, <2>3 DEF NewSync, TypeOK, Call
  <2>5. \A t \in Threads : call'[t].attempt = call[t].attempt
    BY <1>0, <2>1 DEF NewSync, TypeOK, Call
  <2>6. TypeOK'
    BY <1>0, <2>1, <2>2, <2>4 DEF NewSync, TypeOK, server
  <2>7. CallsMakeSense'
    BY <2>1, <2>4, <2>5 DEF CallInv, CallsMakeSense, NewSync
  <2> QED
    BY <2>6, <2>7 DEF CallInv
<1>9. CASE UNCHANGED vars
  BY <1>9 DEF vars, CallInv, TypeOK, CallsMakeSense
<1> QED
  BY <1>1, <1>2, <1>3, <1>4, <1>5, <1>6, <1>7, <1>8, <1>9 DEF Next, ThreadStep

\* All of the state of the calls, the cache and the quota stays of its kind.
THEOREM TypeCorrect == Spec => []TypeOK
<1>1. CallInv => TypeOK
  BY DEF CallInv
<1> QED
  BY <1>1, CallInvInit, CallInvStep, PTL DEF Spec

\* The loop never runs out: its last attempt raises, so that the RuntimeError
\* behind the loop is dead code.
THEOREM LoopNeverRunsOut == Spec => [](\A t \in Threads : call[t].pc # "unreachable")
<1>1. CallInv => \A t \in Threads : call[t].pc # "unreachable"
  BY DEF CallInv, CallsMakeSense
<1> QED
  BY <1>1, CallInvInit, CallInvStep, PTL DEF Spec

-----------------------------------------------------------------------------
(* The quota floor.                                                        *)

\* Threads that will be told the limit by a response that was charged for.
Charged == {t \in Telling : reply[t].kind \in {"ok", "refused"}}

\* Why the floor holds.  As long as nobody has set the flag, every request
\* charged at or below the limit is a response on its way to a thread that
\* will set it, or was lost.  Once it is set, only requests that are already
\* in flight can be charged, and the one that set it was not among them.
LimitIsHeld ==
  IF exceeded
  THEN remaining + lost >= quota_limit + 1 + Cardinality(InFlight) - Cardinality(Threads)
  ELSE remaining + lost + Cardinality(Charged) > quota_limit

LEMMA ThreadsAreCounted ==
  ASSUME NEW A \in SUBSET Threads
  PROVE  IsFiniteSet(A) /\ Cardinality(A) \in Nat /\ Cardinality(A) <= Cardinality(Threads)
BY ApiGetAssumption, FS_Subset, FS_CardinalityType

LEMMA OneMore ==
  ASSUME NEW A \in SUBSET Threads, NEW B \in SUBSET Threads, NEW t, A \subseteq B \cup {t}
  PROVE  Cardinality(A) <= Cardinality(B) + 1
<1>1. IsFiniteSet(B) /\ Cardinality(B) \in Nat
  BY ThreadsAreCounted
<1>2. /\ IsFiniteSet(B \cup {t})
      /\ Cardinality(B \cup {t}) = IF t \in B THEN Cardinality(B) ELSE Cardinality(B) + 1
  BY <1>1, FS_AddElement
<1>3. Cardinality(A) <= Cardinality(B \cup {t})
  BY <1>2, FS_Subset
<1>4. Cardinality(A) \in Nat
  BY ThreadsAreCounted
<1> QED
  BY <1>1, <1>2, <1>3, <1>4

LEMMA OneLess ==
  ASSUME NEW A \in SUBSET Threads, NEW B \in SUBSET Threads, NEW t \in A, B \subseteq A \ {t}
  PROVE  Cardinality(B) + 1 <= Cardinality(A)
<1>1. IsFiniteSet(A) /\ Cardinality(A) \in Nat /\ Cardinality(B) \in Nat
  BY ThreadsAreCounted
<1>2. IsFiniteSet(A \ {t}) /\ Cardinality(A \ {t}) = Cardinality(A) - 1
  BY <1>1, FS_RemoveElement
<1>3. Cardinality(B) <= Cardinality(A \ {t})
  BY <1>2, FS_Subset
<1> QED
  BY <1>1, <1>2, <1>3

LEMMA NoMore ==
  ASSUME NEW A \in SUBSET Threads, NEW B \in SUBSET Threads, A \subseteq B
  PROVE  Cardinality(A) <= Cardinality(B)
BY ThreadsAreCounted, FS_Subset

LEMMA Apart ==
  ASSUME NEW A \in SUBSET Threads, NEW B \in SUBSET Threads, A \cap B = {}
  PROVE  Cardinality(A) + Cardinality(B) <= Cardinality(Threads)
<1>1. /\ IsFiniteSet(A) /\ Cardinality(A) \in Nat
      /\ IsFiniteSet(B) /\ Cardinality(B) \in Nat
      /\ Cardinality(A \cup B) <= Cardinality(Threads)
  BY ThreadsAreCounted
<1>2. Cardinality(A \cup B) = Cardinality(A) + Cardinality(B) - Cardinality(A \cap B)
  BY <1>1, FS_Union
<1>3. Cardinality(A \cap B) = 0
  BY FS_EmptySet
<1> QED
  BY <1>1, <1>2, <1>3

LEMMA SetsOfThreads ==
  /\ InFlight \in SUBSET Threads /\ Charged \in SUBSET Threads
  /\ InFlight' \in SUBSET Threads /\ Charged' \in SUBSET Threads
BY DEF InFlight, Charged, Telling

\* A thread's own step takes no other thread's response, and puts no request
\* in flight unless it is an attempt.
LEMMA CallStepCounts ==
  ASSUME CallInv, NEW t \in Threads, NEW c \in Call, CallStep(t, c)
  PROVE  /\ Charged \subseteq Charged' \cup {t}
         /\ c.pc # "sent" => InFlight' \subseteq InFlight
<1> USE DEF CallInv, TypeOK, CallStep
<1>1. \A s \in Threads \ {t} : reply'[s] = reply[s] /\ call'[s] = call[s]
  OBVIOUS
<1>2. call'[t] = c
  OBVIOUS
<1> QED
  BY <1>1, <1>2 DEF Charged, Telling, InFlight

LEMMA LimitInit == Init => LimitIsHeld
<1> SUFFICES ASSUME Init PROVE LimitIsHeld
  OBVIOUS
<1>1. Cardinality(Charged) \in Nat
  BY ThreadsAreCounted, SetsOfThreads
<1> QED
  BY <1>1, ApiGetAssumption DEF Init, LimitIsHeld

\* A step in which nobody raises the flag, nobody sends a request and nobody
\* takes a charged response holds the limit unless it lowers the two counts.
LEMMA QuietStep ==
  ASSUME CallInv, CallInv', LimitIsHeld, UNCHANGED exceeded,
         remaining' >= remaining, lost' >= lost,
         exceeded => InFlight' \subseteq InFlight,
         ~exceeded => Charged \subseteq Charged'
  PROVE  LimitIsHeld'
<1>1. /\ remaining \in Nat /\ remaining' \in Nat /\ lost \in Nat /\ lost' \in Nat
      /\ quota_limit \in Nat
  BY ApiGetAssumption DEF CallInv, TypeOK
<1>2. /\ Cardinality(InFlight) \in Nat /\ Cardinality(InFlight') \in Nat
      /\ Cardinality(Charged) \in Nat /\ Cardinality(Charged') \in Nat
      /\ Cardinality(Threads) \in Nat
  BY SetsOfThreads, ThreadsAreCounted
<1>3. CASE exceeded
  <2>1. Cardinality(InFlight') <= Cardinality(InFlight)
    BY <1>3, NoMore, SetsOfThreads
  <2>2. remaining + lost >= quota_limit + 1 + Cardinality(InFlight) - Cardinality(Threads)
    BY <1>3 DEF LimitIsHeld
  <2>3. remaining' + lost'
          >= quota_limit + 1 + Cardinality(InFlight') - Cardinality(Threads)
    BY <1>1, <1>2, <2>1, <2>2
  <2>4. exceeded'
    BY <1>3
  <2> QED
    BY <2>3, <2>4 DEF LimitIsHeld
<1>4. CASE ~exceeded
  <2>1. Cardinality(Charged) <= Cardinality(Charged')
    BY <1>4, NoMore, SetsOfThreads
  <2>2. remaining + lost + Cardinality(Charged) > quota_limit
    BY <1>4 DEF LimitIsHeld
  <2>3. remaining' + lost' + Cardinality(Charged') > quota_limit
    BY <1>1, <1>2, <2>1, <2>2
  <2>4. ~exceeded'
    BY <1>4
  <2> QED
    BY <2>3, <2>4 DEF LimitIsHeld
<1> QED
  BY <1>3, <1>4

\* An answer leaves one request less in flight; if it is charged at or below
\* the limit, there is one thread more that will be told.
LEMMA LimitServe ==
  ASSUME CallInv, CallInv', LimitIsHeld, NEW t \in Threads, Serve(t)
  PROVE  LimitIsHeld'
<1>0. TypeOK
  BY DEF CallInv
<1>1. PICK r \in Reply, cost \in {0, 1} :
        /\ reply' = [reply EXCEPT ![t] = r]
        /\ remaining' = remaining - cost
        /\ cost = 1 => r.kind \in {"ok", "refused"} /\ r.rem = remaining'
  BY <1>0, ServeAnswers
<1>2. t \in InFlight /\ UNCHANGED <<version, lost, persisted, front, exceeded, call>>
  BY <1>0, ServeAnswers
<1>3. /\ reply'[t] = r /\ r # NoReply /\ reply[t] = NoReply
      /\ \A s \in Threads \ {t} : reply'[s] = reply[s] /\ call'[s] = call[s]
  BY <1>0, <1>1, <1>2 DEF TypeOK, InFlight, Reply, NoReply
<1>4. InFlight' \subseteq InFlight \ {t} /\ Charged \subseteq Charged' /\ t \notin Charged
  BY <1>2, <1>3 DEF InFlight, Charged, Telling
<1>5. /\ remaining \in Nat /\ remaining' \in Nat /\ lost \in Nat /\ lost' = lost
      /\ quota_limit \in Nat /\ quota_limit < Quota /\ Quota \in Nat
  BY <1>2, ApiGetAssumption DEF CallInv, TypeOK
<1>6. /\ Cardinality(InFlight) \in Nat /\ Cardinality(InFlight') \in Nat
      /\ Cardinality(Charged) \in Nat /\ Cardinality(Charged') \in Nat
      /\ Cardinality(Threads) \in Nat
  BY SetsOfThreads, ThreadsAreCounted
<1>7. CASE cost = 0
  BY <1>1, <1>2, <1>4, <1>5, <1>7, QuietStep
<1>8. CASE cost = 1 /\ exceeded
  <2>1. Cardinality(InFlight') + 1 <= Cardinality(InFlight)
    BY <1>2, <1>4, OneLess, SetsOfThreads
  <2>2. remaining + lost >= quota_limit + 1 + Cardinality(InFlight) - Cardinality(Threads)
    BY <1>8 DEF LimitIsHeld
  <2>3. remaining' = remaining - 1
    BY <1>1, <1>8
  <2>4. remaining' + lost'
          >= quota_limit + 1 + Cardinality(InFlight') - Cardinality(Threads)
    BY <1>5, <1>6, <2>1, <2>2, <2>3
  <2>5. exceeded'
    BY <1>2, <1>8
  <2> QED
    BY <2>4, <2>5 DEF LimitIsHeld
<1>9. CASE cost = 1 /\ ~exceeded
  <2>1. remaining' = remaining - 1 /\ r.rem = remaining' /\ r.kind \in {"ok", "refused"}
    BY <1>1, <1>9
  <2>2. remaining + lost + Cardinality(Charged) > quota_limit
    BY <1>9 DEF LimitIsHeld
  <2>3. ASSUME remaining' <= quota_limit
        PROVE  remaining' + lost' + Cardinality(Charged') > quota_limit
    <3>1. t \in Charged'
      BY <1>3, <1>5, <2>1, <2>3 DEF Charged, Telling, NoHeader
    <3>2. Cardinality(Charged) + 1 <= Cardinality(Charged')
      BY <1>4, <3>1, OneLess, SetsOfThreads
    <3> QED
      BY <1>5, <1>6, <2>1, <2>2, <3>2
  <2>4. remaining' + lost' + Cardinality(Charged') > quota_limit
    <3>1. CASE remaining' > quota_limit
      BY <1>5, <1>6, <3>1
    <3> QED
      BY <1>5, <2>3, <3>1
  <2>5. ~exceeded'
    BY <1>2, <1>9
  <2> QED
    BY <2>4, <2>5 DEF LimitIsHeld
<1> QED
  BY <1>7, <1>8, <1>9

\* A response whose loss is counted, or that tells nothing, or that sets the
\* flag for the requests still in flight.
LEMMA LimitException ==
  ASSUME CallInv, CallInv', LimitIsHeld, NEW t \in Threads, RequestException(t)
  PROVE  LimitIsHeld'
<1>1. PICK c \in Call : CallStep(t, c) /\ c.pc \in {"failed", "check"}
  BY ExceptionSteps
<1>2. Charged \subseteq Charged' \cup {t} /\ InFlight' \subseteq InFlight
  BY <1>1, CallStepCounts
<1>3. /\ remaining \in Nat /\ remaining' = remaining /\ lost \in Nat /\ lost' \in Nat
      /\ quota_limit \in Nat /\ UNCHANGED exceeded
  BY ApiGetAssumption DEF CallInv, TypeOK, RequestException
<1>4. CASE t \notin Charged
  <2>1. Charged \subseteq Charged'
    BY <1>2, <1>4
  <2>2. lost' >= lost
    BY <1>3 DEF RequestException
  <2>3. remaining' >= remaining
    BY <1>3
  <2> QED
    BY <1>2, <1>3, <2>1, <2>2, <2>3, QuietStep
<1>5. CASE t \in Charged
  <2>1. lost' = lost + 1
    BY <1>5 DEF RequestException, Charged
  <2>2. CASE exceeded
    <3>1. lost' >= lost /\ remaining' >= remaining
      BY <1>3, <2>1
    <3> QED
      BY <1>2, <1>3, <2>2, <3>1, QuietStep
  <2>3. CASE ~exceeded
    <3>1. Cardinality(Charged) <= Cardinality(Charged') + 1
      BY <1>2, OneMore, SetsOfThreads
    <3>2. Cardinality(Charged) \in Nat /\ Cardinality(Charged') \in Nat
      BY SetsOfThreads, ThreadsAreCounted
    <3>3. remaining + lost + Cardinality(Charged) > quota_limit
      BY <2>3 DEF LimitIsHeld
    <3>4. remaining' + lost' + Cardinality(Charged') > quota_limit
      BY <1>3, <2>1, <3>1, <3>2, <3>3
    <3>5. ~exceeded'
      BY <1>3, <2>3
    <3> QED
      BY <3>4, <3>5 DEF LimitIsHeld
  <2> QED
    BY <2>2, <2>3
<1> QED
  BY <1>4, <1>5

LEMMA LimitReceiveQuota ==
  ASSUME CallInv, CallInv', LimitIsHeld, NEW t \in Threads, ReceiveQuota(t)
  PROVE  LimitIsHeld'
<1>1. PICK c \in Call : CallStep(t, c) /\ c.pc # "sent"
  <2>1. ~ReceiveBody(t)
    BY DEF ReceiveQuota, ReceiveBody
  <2> QED
    BY <2>1, ReceiveSteps
<1>2. InFlight' \subseteq InFlight
  BY <1>1, CallStepCounts
<1>3. /\ remaining \in Nat /\ remaining' = remaining /\ lost \in Nat /\ lost' = lost
      /\ quota_limit \in Nat /\ exceeded'
  BY ApiGetAssumption DEF CallInv, TypeOK, ReceiveQuota, server
<1>4. /\ Cardinality(InFlight) \in Nat /\ Cardinality(InFlight') \in Nat
      /\ Cardinality(Charged) \in Nat /\ Cardinality(Threads) \in Nat
  BY SetsOfThreads, ThreadsAreCounted
<1>5. CASE exceeded
  <2>1. remaining' >= remaining /\ lost' >= lost /\ exceeded' = exceeded
    BY <1>3, <1>5 DEF CallInv, TypeOK
  <2> QED
    BY <1>2, <1>5, <2>1, QuietStep
<1>6. CASE ~exceeded
  <2>1. InFlight' \cap Charged = {}
    BY <1>2 DEF InFlight, Charged, Telling
  <2>2. Cardinality(InFlight') + Cardinality(Charged) <= Cardinality(Threads)
    BY <2>1, Apart, SetsOfThreads
  <2>3. remaining + lost + Cardinality(Charged) > quota_limit
    BY <1>6 DEF LimitIsHeld
  <2>4. remaining' + lost'
          >= quota_limit + 1 + Cardinality(InFlight') - Cardinality(Threads)
    BY <1>3, <1>4, <2>2, <2>3
  <2> QED
    BY <1>3, <2>4 DEF LimitIsHeld
<1> QED
  BY <1>5, <1>6

LEMMA LimitStep == CallInv /\ CallInv' /\ LimitIsHeld /\ [Next]_vars => LimitIsHeld'
<1> SUFFICES ASSUME CallInv, CallInv', LimitIsHeld, [Next]_vars PROVE LimitIsHeld'
  OBVIOUS
<1>0. remaining \in Nat /\ lost \in Nat /\ Quota \in Nat /\ remaining <= Quota
  BY ApiGetAssumption DEF CallInv, TypeOK
<1>1. ASSUME NEW t \in Threads, NEW u \in Resources, Begin(t, u)
      PROVE  LimitIsHeld'
  <2>1. reply' = reply /\ UNCHANGED <<remaining, lost, exceeded>>
    BY <1>1 DEF Begin, server
  <2>2. PICK c \in Call : CallStep(t, c) /\ c.pc # "sent"
    BY <1>1, BeginSteps DEF CallStep
  <2>3. Charged \subseteq Charged' /\ InFlight' \subseteq InFlight
    BY <2>1, <2>2, CallStepCounts DEF Charged, Telling
  <2> QED
    BY <1>0, <2>1, <2>3, QuietStep
<1>2. ASSUME NEW t \in Threads, Attempt(t)
      PROVE  LimitIsHeld'
  <2>1. reply' = reply /\ UNCHANGED <<remaining, lost, exceeded>>
    BY <1>2 DEF Attempt, server
  <2>2. Charged \subseteq Charged'
    BY <2>1 DEF Charged, Telling
  <2>3. ASSUME exceeded
        PROVE  InFlight' \subseteq InFlight
    <3>1. PICK c \in Call : CallStep(t, c) /\ c.pc # "sent"
      BY <1>2, <2>3, AttemptSteps
    <3> QED
      BY <3>1, CallStepCounts
  <2> QED
    BY <1>0, <2>1, <2>2, <2>3, QuietStep
<1>3. ASSUME NEW t \in Threads, RequestException(t)
      PROVE  LimitIsHeld'
  BY <1>3, LimitException
<1>4. ASSUME NEW t \in Threads, ReceiveQuota(t)
      PROVE  LimitIsHeld'
  BY <1>4, LimitReceiveQuota
<1>5. ASSUME NEW t \in Threads, ReceiveBody(t) \/ ReceiveRetryable(t) \/ ReceiveRefused(t)
      PROVE  LimitIsHeld'
  <2>1. t \notin Charged /\ UNCHANGED <<remaining, lost, exceeded>>
    BY <1>5 DEF ReceiveBody, ReceiveRetryable, ReceiveRefused, Charged, server
  <2>2. PICK c \in Call : CallStep(t, c) /\ c.pc # "sent"
    BY <1>5, ReceiveSteps
  <2>3. Charged \subseteq Charged' /\ InFlight' \subseteq InFlight
    BY <2>1, <2>2, CallStepCounts
  <2> QED
    BY <1>0, <2>1, <2>3, QuietStep
<1>6. ASSUME NEW t \in Threads, Serve(t)
      PROVE  LimitIsHeld'
  BY <1>6, LimitServe
<1>7. CASE (\E u \in Resources : Change(u)) \/ ResetQuota \/ UNCHANGED vars
  <2>1. remaining' >= remaining /\ UNCHANGED <<lost, exceeded, call, reply>>
    BY <1>0, <1>7 DEF Change, ResetQuota, vars
  <2>2. Charged \subseteq Charged' /\ InFlight' \subseteq InFlight
    BY <2>1 DEF Charged, Telling, InFlight
  <2> QED
    BY <1>0, <2>1, <2>2, QuietStep
<1>8. CASE SaveAndRestart \/ DieAndRestart
  <2>1. PICK saved \in {front, persisted, EmptyMap} : NewSync(saved)
    BY <1>8, NewSyncStarts
  <2>2. remaining' > quota_limit /\ lost' \in Nat /\ remaining' \in Nat /\ ~exceeded'
    BY <1>0, <2>1 DEF NewSync, server
  <2>3. Cardinality(Charged') \in Nat
    BY SetsOfThreads, ThreadsAreCounted
  <2>4. remaining' + lost' + Cardinality(Charged') > quota_limit
    BY <2>2, <2>3, ApiGetAssumption
  <2> QED
    BY <2>2, <2>4 DEF LimitIsHeld
<1> QED
  BY <1>1, <1>2, <1>3, <1>4, <1>5, <1>6, <1>7, <1>8 DEF Next, ThreadStep

\* However many threads share the session, the quota is used below its limit by
\* at most one request of each thread but one, besides the responses that were
\* charged and never arrived.
THEOREM QuotaIsHeld == Spec => []QuotaFloor
<1>1. CallInv /\ LimitIsHeld => QuotaFloor
  <2> SUFFICES ASSUME CallInv, LimitIsHeld PROVE QuotaFloor
    OBVIOUS
  <2>1. remaining \in Nat /\ lost \in Nat /\ quota_limit \in Nat
    BY ApiGetAssumption DEF CallInv, TypeOK
  <2>2. /\ Cardinality(InFlight) \in Nat /\ Cardinality(Charged) \in Nat
        /\ Cardinality(Threads) \in Nat /\ Cardinality(Charged) <= Cardinality(Threads)
    BY SetsOfThreads, ThreadsAreCounted
  <2>3. CASE exceeded
    <3>1. remaining + lost >= quota_limit + 1 + Cardinality(InFlight) - Cardinality(Threads)
      BY <2>3 DEF LimitIsHeld
    <3> QED
      BY <2>1, <2>2, <3>1 DEF QuotaFloor
  <2>4. CASE ~exceeded
    <3>1. remaining + lost + Cardinality(Charged) > quota_limit
      BY <2>4 DEF LimitIsHeld
    <3> QED
      BY <2>1, <2>2, <3>1 DEF QuotaFloor
  <2> QED
    BY <2>3, <2>4
<1> QED
  BY <1>1, CallInvInit, CallInvStep, LimitInit, LimitStep, PTL DEF Spec

-----------------------------------------------------------------------------
(* Fresh bodies.                                                           *)

\* An entry was one response: the body is that of its ETag, and the server
\* had it at some time.
IsOf(e, v) == e.etag = e.body /\ e.body <= v

\* A call, with the response on its way to it, will return no body older than
\* what the server had when the call began.
IsFresh(c, r) ==
  /\ IsOf(c.cached, version[c.url]) /\ c.since <= version[c.url]
  /\ r.kind = "ok" => c.since <= r.ver /\ r.ver <= version[c.url]
  /\ r.kind = "not_modified" => c.since <= c.cached.etag
  /\ c.pc = "returned" => c.got >= c.since

\* Both maps and all calls.
NothingIsStale ==
  /\ \A u \in Resources : IsOf(front[u], version[u]) /\ IsOf(persisted[u], version[u])
  /\ \A t \in Threads : IsFresh(call[t], reply[t])

LEMMA NothingIsStaleInit == Init => NothingIsStale
<1> SUFFICES ASSUME Init PROVE NothingIsStale
  OBVIOUS
<1> USE ApiGetAssumption DEF Init
<1>1. (CHOOSE u \in Resources : TRUE) \in Resources
  OBVIOUS
<1>2. \A u \in Resources : version[u] = 1 /\ front[u] = NoEntry /\ persisted[u] = NoEntry
  BY DEF EmptyMap
<1>3. IsOf(NoEntry, 1)
  BY DEF IsOf, NoEntry, None
<1>4. ASSUME NEW t \in Threads
      PROVE  IsFresh(call[t], reply[t])
  <2>1. /\ call[t].pc = "idle" /\ call[t].since = 1 /\ call[t].cached = NoEntry
        /\ call[t].url \in Resources
    BY <1>1
  <2>2. reply[t].kind = "none"
    BY DEF NoReply
  <2> QED
    BY <1>2, <1>3, <2>1, <2>2 DEF IsFresh
<1> QED
  BY <1>2, <1>3, <1>4 DEF NothingIsStale

\* A thread's own step leaves nothing stale if its call, and what it stores,
\* is not.
LEMMA FreshCallStep ==
  ASSUME CallInv, NothingIsStale, NEW t \in Threads, NEW c \in Call, CallStep(t, c),
         UNCHANGED <<version, persisted>>, IsFresh(c, NoReply),
         \A u \in Resources : IsOf(front'[u], version[u])
  PROVE  NothingIsStale'
<1> USE DEF CallInv, TypeOK, CallStep
<1>1. call'[t] = c /\ reply'[t] = NoReply
  OBVIOUS
<1>2. \A s \in Threads \ {t} : call'[s] = call[s] /\ reply'[s] = reply[s]
  OBVIOUS
<1>3. ASSUME NEW s \in Threads
      PROVE  IsFresh(call[s], reply[s])'
  BY <1>1, <1>2 DEF IsFresh, NothingIsStale
<1>4. \A u \in Resources : IsOf(front'[u], version'[u]) /\ IsOf(persisted'[u], version'[u])
  BY DEF NothingIsStale
<1> QED
  BY <1>3, <1>4 DEF NothingIsStale, IsOf

LEMMA FreshSameCall ==
  ASSUME CallInv, NothingIsStale, NEW t \in Threads, NEW c \in Call,
         SameCall(call[t], c), c.pc # "returned"
  PROVE  IsFresh(c, NoReply)
BY DEF NothingIsStale, IsFresh, SameCall, NoReply

LEMMA NothingIsStaleStep ==
  CallInv /\ NothingIsStale /\ [Next]_vars => NothingIsStale'
<1> SUFFICES ASSUME CallInv, NothingIsStale, [Next]_vars PROVE NothingIsStale'
  OBVIOUS
<1>0. TypeOK /\ \A u \in Resources : version[u] \in Versions /\ version[u] \in Nat
  BY ApiGetAssumption DEF CallInv, TypeOK, Versions
<1>1. ASSUME NEW t \in Threads, NEW u \in Resources, Begin(t, u)
      PROVE  NothingIsStale'
  <2> DEFINE c == [pc |-> "check", url |-> u, cached |-> Lookup(u),
                   attempt |-> 0, since |-> version[u], got |-> None]
  <2>1. CallStep(t, c)
    BY <1>1, BeginSteps
  <2>2. IsOf(Lookup(u), version[u])
    BY DEF Lookup, NothingIsStale
  <2>3. IsFresh(c, NoReply)
    BY <1>0, <2>2 DEF IsFresh, NoReply
  <2>4. UNCHANGED <<version, persisted, front>> /\ c \in Call
    BY <1>1, <2>1 DEF Begin, server, CallStep
  <2> HIDE DEF c
  <2> QED
    BY <2>1, <2>3, <2>4, FreshCallStep DEF NothingIsStale
<1>2. ASSUME NEW t \in Threads,
             \/ Attempt(t) \/ RequestException(t) \/ ReceiveQuota(t)
             \/ ReceiveRetryable(t) \/ ReceiveRefused(t)
      PROVE  NothingIsStale'
  <2>1. PICK c \in Call : CallStep(t, c) /\ SameCall(call[t], c) /\ c.pc # "returned"
    <3>1. CASE Attempt(t)
      BY <3>1, AttemptSteps
    <3>2. CASE RequestException(t)
      BY <3>2, ExceptionSteps
    <3>3. CASE ReceiveQuota(t) \/ ReceiveRetryable(t) \/ ReceiveRefused(t)
      <4>1. ~ReceiveBody(t)
        BY <3>3 DEF ReceiveQuota, ReceiveRetryable, ReceiveRefused, ReceiveBody
      <4> QED
        BY <3>3, <4>1, ReceiveSteps
    <3> QED
      BY <1>2, <3>1, <3>2, <3>3
  <2>2. IsFresh(c, NoReply)
    BY <2>1, FreshSameCall
  <2>3. UNCHANGED <<version, persisted, front>>
    BY <1>2 DEF Attempt, RequestException, ReceiveQuota, ReceiveRetryable, ReceiveRefused,
                server
  <2> QED
    BY <2>1, <2>2, <2>3, FreshCallStep DEF NothingIsStale
<1>3. ASSUME NEW t \in Threads, ReceiveBody(t)
      PROVE  NothingIsStale'
  <2>1. PICK c \in Call : /\ CallStep(t, c) /\ SameCall(call[t], c)
                          /\ c.pc = "returned" /\ c.got = ReceivedEntry(t).body
    BY <1>3, ReceiveSteps
  <2>2. IsFresh(call[t], reply[t]) /\ call[t] \in Call
    BY <1>0 DEF NothingIsStale, TypeOK
  <2> DEFINE e == ReceivedEntry(t)
  <2>3. IsOf(e, version[call[t].url]) /\ e.body >= call[t].since
    <3>1. CASE reply[t].kind = "not_modified"
      <4>1. e = call[t].cached
        BY <3>1 DEF ReceivedEntry
      <4>2. /\ call[t].since <= call[t].cached.etag
            /\ IsOf(call[t].cached, version[call[t].url])
        BY <2>2, <3>1 DEF IsFresh
      <4>3. call[t].cached.body \in Int /\ call[t].since \in Int
        BY <2>2 DEF Call, Entry, Versions
      <4> QED
        BY <4>1, <4>2, <4>3 DEF IsOf
    <3>2. CASE reply[t].kind = "ok"
      <4>1. e.etag = reply[t].ver /\ e.body = reply[t].ver
        BY <3>2 DEF ReceivedEntry
      <4>2. call[t].since <= reply[t].ver /\ reply[t].ver <= version[call[t].url]
        BY <2>2, <3>2 DEF IsFresh
      <4>3. reply[t].ver \in Int /\ call[t].since \in Int
        <5>1. reply[t] \in Reply
          BY <1>0, <1>3, ReceiveSteps
        <5> QED
          BY <2>2, <5>1 DEF Call, Reply, Versions
      <4> QED
        BY <4>1, <4>2, <4>3 DEF IsOf
    <3> QED
      BY <1>3, <3>1, <3>2 DEF ReceiveBody
  <2>4. IsFresh(c, NoReply)
    BY <2>1, <2>2, <2>3 DEF IsFresh, SameCall, NoReply
  <2>5. front' = [front EXCEPT ![call[t].url] = e] /\ UNCHANGED <<version, persisted>>
    BY <1>3 DEF ReceiveBody, server
  <2>6. \A u \in Resources : IsOf(front'[u], version[u])
    BY <1>0, <2>3, <2>5 DEF NothingIsStale, TypeOK
  <2> QED
    BY <2>1, <2>4, <2>5, <2>6, FreshCallStep
<1>4. ASSUME NEW t \in Threads, Serve(t)
      PROVE  NothingIsStale'
  <2>1. PICK r \in Reply :
          /\ reply' = [reply EXCEPT ![t] = r]
          /\ r.kind = "ok" => r.ver = version[call[t].url]
          /\ r.kind = "not_modified" => call[t].cached.etag = version[call[t].url]
    BY <1>0, <1>4, ServeAnswers
  <2>2. t \in InFlight /\ UNCHANGED <<version, lost, persisted, front, exceeded, call>>
    BY <1>0, <1>4, ServeAnswers
  <2>3. IsFresh(call[t], reply[t]) /\ call[t].url \in Resources
    BY <1>0 DEF NothingIsStale, TypeOK, Call
  <2>4. IsFresh(call[t], r)
    BY <1>0, <2>1, <2>3 DEF IsFresh
  <2>5. \A s \in Threads : IsFresh(call[s], reply'[s])
    BY <1>0, <2>1, <2>4 DEF NothingIsStale, TypeOK
  <2> QED
    BY <2>2, <2>5 DEF NothingIsStale, IsFresh, IsOf
<1>5. ASSUME NEW u \in Resources, Change(u)
      PROVE  NothingIsStale'
  <2>1. \A w \in Resources : version'[w] \in Nat /\ version[w] <= version'[w]
    BY <1>0, <1>5 DEF Change, TypeOK
  <2>2. UNCHANGED <<persisted, front, call, reply>>
    BY <1>5 DEF Change
  <2>3. ASSUME NEW w \in Resources
        PROVE  IsOf(front[w], version'[w]) /\ IsOf(persisted[w], version'[w])
    <3>1. front[w].body \in Int /\ persisted[w].body \in Int
      BY <1>0 DEF TypeOK, Entry
    <3> QED
      BY <1>0, <2>1, <3>1 DEF NothingIsStale, IsOf
  <2>4. ASSUME NEW t \in Threads
        PROVE  IsFresh(call[t], reply[t])'
    <3>1. IsFresh(call[t], reply[t])
      BY DEF NothingIsStale
    <3>2. /\ call[t].url \in Resources /\ call[t].cached.body \in Int /\ call[t].since \in Int
          /\ reply[t].ver \in Int
      BY <1>0 DEF TypeOK, Call, Entry, Reply, NoReply, None, Versions
    <3> QED
      BY <1>0, <2>1, <2>2, <3>1, <3>2 DEF IsFresh, IsOf
  <2> QED
    BY <2>2, <2>3, <2>4 DEF NothingIsStale
<1>6. CASE ResetQuota \/ UNCHANGED vars
  BY <1>6 DEF ResetQuota, vars, NothingIsStale, IsFresh, IsOf
<1>7. CASE SaveAndRestart \/ DieAndRestart
  <2>1. PICK saved \in {front, persisted, EmptyMap} : NewSync(saved)
    BY <1>7, NewSyncStarts
  <2>2. ASSUME NEW u \in Resources
        PROVE  IsOf(EmptyMap[u], version[u])
    BY <1>0 DEF EmptyMap, NoEntry, None, IsOf
  <2>3. \A u \in Resources : IsOf(front'[u], version'[u]) /\ IsOf(persisted'[u], version'[u])
    BY <2>1, <2>2 DEF NewSync, NothingIsStale, server
  <2>4. ASSUME NEW t \in Threads
        PROVE  IsFresh(call'[t], reply'[t])
    <3>1. call'[t] = [call[t] EXCEPT !.pc = "idle"] /\ reply'[t].kind = "none"
      BY <2>1 DEF NewSync, NoReply
    <3>2. SameCall(call[t], call'[t]) /\ call'[t].pc = "idle"
      BY <1>0, <3>1 DEF TypeOK, Call, SameCall
    <3> QED
      BY <3>1, <3>2 DEF NothingIsStale, IsFresh, SameCall
  <2>5. version' = version
    BY <2>1 DEF NewSync, server
  <2> QED
    BY <2>3, <2>4, <2>5 DEF NothingIsStale, IsFresh, IsOf
<1> QED
  BY <1>1, <1>2, <1>3, <1>4, <1>5, <1>6, <1>7 DEF Next, ThreadStep

\* What a call returns is as new as what the server had when the call began,
\* also where a 304 makes it return a body that an earlier sync stored, and
\* whatever crashes, changes and retries came between.
THEOREM FreshBodies == Spec => []BodiesAreFresh
<1>1. NothingIsStale => BodiesAreFresh
  BY DEF NothingIsStale, IsFresh, BodiesAreFresh
<1> QED
  BY <1>1, CallInvInit, CallInvStep, NothingIsStaleInit, NothingIsStaleStep, PTL DEF Spec
=============================================================================
