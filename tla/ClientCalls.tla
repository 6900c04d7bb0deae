----------------------------- MODULE ClientCalls -----------------------------
(***************************************************************************)
(* Outbound calls and the rate limiter they meet: fetchWithRetry of        *)
(* A2AClient and fetchWithPolicy, which repeat an attempt that failed, the *)
(* express-rate-limit middleware in front of a server, over the fixed      *)
(* window, the sliding window and the Redis store, and a handler behind    *)
(* it.  All calls are of one client, so they share one counter.            *)
(*                                                                         *)
(* An attempt may fail for the client at any time (the network, a timer,   *)
(* an abort signal) and its request still reach the server.  200 stands    *)
(* for ok, 400 for statuses nobody retries, 503 for those both wrappers    *)
(* retry, 429 and 500 for those that only fetchWithPolicy retries.         *)
(***************************************************************************)
EXTENDS Naturals, FiniteSets

CONSTANTS
  Call,        \* calls
  MaxAttempts, \* retry.maxAttempts, or retries + 1
  MaxRequests, \* of the limiter
  Window,      \* windowMs, in ticks
  MaxTime      \* bound: ticks

ASSUME ClientCallsAssumption ==
  /\ {MaxAttempts, MaxRequests, Window} \subseteq Nat \ {0}
  /\ MaxTime \in Nat

Stores == {"fixed", "sliding", "redis"}
Wrappers == {"fetchWithRetry", "fetchWithPolicy"}
Status == {200, 400, 429, 500, 503}
Time == 0 .. MaxTime

VARIABLES
  store,    \* the RateLimitStore in use
  wrapper,  \* wrapper[c]: what repeats the attempts of c
  phase,    \* phase[c]: "idle", "ready" for an attempt, "flying", "resolved" or "rejected"
  attempt,  \* attempt[c]: attempts made, failed ones of an aborted signal included
  aborted,  \* calls whose signal was aborted
  server,   \* requests that left and are not answered: [call, n, stage]
  now,      \* the clock
  counter,  \* fixed and redis: [count, reset], no entry if count is 0, no expiry if reset is 0
  stamps,   \* sliding: the requests whose timestamps are kept, [call, n, at]
  admitted, \* history: the requests passed that were counted in the last window
  raced,    \* history: increments that found a counter although get() had found none
  lapsed    \* history: Redis was left a counter without expiry

clientVars == <<wrapper, phase, attempt, aborted>>
limiterVars == <<counter, stamps, admitted, raced, lapsed>>
vars == <<store, clientVars, server, now, limiterVars>>

NoCounter == [count |-> 0, reset |-> 0]

Init ==
  /\ store \in Stores
  /\ wrapper \in [Call -> Wrappers]
  /\ phase = [c \in Call |-> "idle"]
  /\ attempt = [c \in Call |-> 0]
  /\ aborted = {}
  /\ server = {}
  /\ now = 0
  /\ counter = NoCounter
  /\ stamps = {}
  /\ admitted = {}
  /\ raced = 0
  /\ lapsed = FALSE

-----------------------------------------------------------------------------
(* The client. *)

\* Mutant: off by one.
IsPastLast(c) == attempt[c] > MaxAttempts
IsLast(c) == attempt[c] = MaxAttempts

Retried(c, status) ==
  status \in IF wrapper[c] = "fetchWithRetry" THEN {503} ELSE {429, 500, 503}

\* The attempt is answered: the response is returned, or another attempt is made.
Returns(c, status) ==
  phase' = [phase EXCEPT ![c] =
              IF status = 200 THEN "resolved"
              ELSE IF Retried(c, status) /\ ~IsLast(c) THEN "ready" ELSE "rejected"]

\* The attempt throws.  Only fetchWithPolicy tells an abort from other failures,
\* and only if its reason is an AbortError.
Throws(c, n, gone) ==
  phase' = [phase EXCEPT ![c] =
              IF n = MaxAttempts \/ (gone /\ wrapper[c] = "fetchWithPolicy")
              THEN "rejected" ELSE "ready"]

Start(c) ==
  /\ phase[c] = "idle"
  /\ phase' = [phase EXCEPT ![c] = "ready"]
  /\ UNCHANGED <<store, wrapper, attempt, aborted, server, now, limiterVars>>

\* fetch() itself refuses a signal that is aborted already; fetchWithPolicy gives
\* it another one and has to look first.
MayPost(c) == c \notin aborted

\* An attempt, after the backoff if it is not the first.
Post(c) ==
  /\ phase[c] = "ready"
  /\ MayPost(c)
  /\ phase' = [phase EXCEPT ![c] = "flying"]
  /\ attempt' = [attempt EXCEPT ![c] = @ + 1]
  /\ server' = server \cup {[call |-> c, n |-> attempt[c] + 1, stage |-> "arriving"]}
  /\ UNCHANGED <<store, wrapper, aborted, now, limiterVars>>

\* The same with an aborted signal.
PostAborted(c) ==
  /\ phase[c] = "ready"
  /\ ~MayPost(c)
  /\ IF wrapper[c] = "fetchWithPolicy"
     THEN phase' = [phase EXCEPT ![c] = "rejected"] /\ UNCHANGED attempt
     ELSE Throws(c, attempt[c] + 1, TRUE) /\ attempt' = [attempt EXCEPT ![c] = @ + 1]
  /\ UNCHANGED <<store, wrapper, aborted, server, now, limiterVars>>

\* The connection fails or the attempt times out.
Fails(c) ==
  /\ phase[c] = "flying"
  /\ Throws(c, attempt[c], FALSE)
  /\ UNCHANGED <<store, wrapper, attempt, aborted, server, now, limiterVars>>

\* The caller aborts, with a reason or not; an attempt under way throws.
Abort(c) ==
  /\ phase[c] \in {"ready", "flying"}
  /\ c \notin aborted
  /\ aborted' = aborted \cup {c}
  /\ IF phase[c] = "flying"
     THEN \E named \in BOOLEAN : Throws(c, attempt[c], named)
     ELSE UNCHANGED phase
  /\ UNCHANGED <<store, wrapper, attempt, server, now, limiterVars>>

-----------------------------------------------------------------------------
(* The server. *)

Move(q, stage) == server' = (server \ {q}) \cup {[q EXCEPT !.stage = stage]}

\* The response to q goes out; nobody waits for that of an attempt given up.
Respond(q, status) ==
  /\ server' = server \ {q}
  /\ IF phase[q.call] = "flying" /\ attempt[q.call] = q.n
     THEN Returns(q.call, status) ELSE UNCHANGED phase

\* q as one that is counted now.
Stamp(q) == [call |-> q.call, n |-> q.n, at |-> now]

\* express-rate-limit: the request passes or is answered 429.
Decide(q, count) ==
  IF count <= MaxRequests
  THEN /\ admitted' = admitted \cup {Stamp(q)}
       /\ Move(q, "running")
       /\ UNCHANGED phase
  ELSE UNCHANGED admitted /\ Respond(q, 429)

\* InMemoryRateLimitStore.increment
FixedIncrement ==
  IF counter.count = 0 \/ counter.reset <= now
  THEN [count |-> 1, reset |-> now + Window]
  ELSE [counter EXCEPT !.count = @ + 1]

CountFixed(q) ==
  /\ store = "fixed" /\ q.stage = "arriving"
  /\ counter' = FixedIncrement
  /\ Decide(q, counter'.count)
  /\ UNCHANGED <<store, wrapper, attempt, aborted, now, stamps, raced, lapsed>>

\* Those that a window ending at t reaches.
InWindow(requests, t) == {r \in requests : r.at + Window > t}

\* Mutant: timestamps leave the window a tick early.
RecentEarly == InWindow(stamps, now + 1)
\* The timestamps still in the window.
Recent == InWindow(stamps, now)

CountSliding(q) ==
  /\ store = "sliding" /\ q.stage = "arriving"
  /\ stamps' = Recent \cup {Stamp(q)}
  /\ Decide(q, Cardinality(stamps'))
  /\ UNCHANGED <<store, wrapper, attempt, aborted, now, counter, raced, lapsed>>

\* RedisRateLimitStore.increment: get(), and then one of two branches.
RedisGet(q) ==
  /\ store = "redis" /\ q.stage = "arriving"
  /\ Move(q, IF counter.count = 0 THEN "first" ELSE "again")
  /\ UNCHANGED <<store, clientVars, now, limiterVars>>

\* Mutant: the expiry of a first counter is left to the next request.
AfterFirstIncr == "running"
\* What follows incr() where get() found nothing: pexpire().
AfterIncr == "expiring"

\* The count incr() returns is not used: the request passes as the first.
RedisFirst(q) ==
  /\ q.stage = "first"
  /\ counter' = [counter EXCEPT !.count = @ + 1]
  /\ raced' = IF counter.count > 0 THEN raced + 1 ELSE raced
  /\ admitted' = admitted \cup {Stamp(q)}
  /\ Move(q, AfterIncr)
  /\ UNCHANGED <<store, clientVars, now, stamps, lapsed>>

RedisExpire(q) ==
  /\ q.stage = "expiring"
  /\ counter' = IF counter.count > 0 THEN [counter EXCEPT !.reset = now + Window] ELSE counter
  /\ Move(q, "running")
  /\ UNCHANGED <<store, clientVars, now, stamps, admitted, raced, lapsed>>

\* pexpire() fails: the request is answered with an error, the counter stays.
RedisExpireFails(q) ==
  /\ q.stage = "expiring"
  /\ lapsed' = TRUE
  /\ Respond(q, 500)
  /\ UNCHANGED <<store, wrapper, attempt, aborted, now, counter, stamps, admitted, raced>>

\* The counter may have expired since get(); incr() then makes one without expiry.
RedisAgain(q) ==
  /\ q.stage = "again"
  /\ counter' = [counter EXCEPT !.count = @ + 1]
  /\ lapsed' = (lapsed \/ counter.count = 0)
  /\ Decide(q, counter'.count)
  /\ UNCHANGED <<store, wrapper, attempt, aborted, now, stamps, raced>>

\* The handler, or a proxy in front of it, answers.
Handled(q, status) ==
  /\ q.stage = "running"
  /\ status # 429
  /\ Respond(q, status)
  /\ UNCHANGED <<store, wrapper, attempt, aborted, now, limiterVars>>

\* Time passes, and Redis drops a counter at its expiry.
Tick ==
  /\ now < MaxTime
  /\ now' = now + 1
  /\ counter' = IF store = "redis" /\ counter.reset = now' THEN NoCounter ELSE counter
  /\ admitted' = InWindow(admitted, now')
  /\ UNCHANGED <<store, clientVars, server, stamps, raced, lapsed>>

\* The cleanup interval of InMemoryRateLimitStore.
Evict ==
  /\ store = "fixed"
  /\ counter.count > 0 /\ counter.reset <= now
  /\ counter' = NoCounter
  /\ UNCHANGED <<store, clientVars, server, now, stamps, admitted, raced, lapsed>>

-----------------------------------------------------------------------------
Next ==
  \/ \E c \in Call : Start(c) \/ Post(c) \/ PostAborted(c) \/ Fails(c) \/ Abort(c)
  \/ \E q \in server :
       \/ CountFixed(q) \/ CountSliding(q)
       \/ RedisGet(q) \/ RedisFirst(q) \/ RedisExpire(q) \/ RedisExpireFails(q) \/ RedisAgain(q)
       \/ \E status \in Status : Handled(q, status)
  \/ Tick \/ Evict

Spec == Init /\ [][Next]_vars

-----------------------------------------------------------------------------
Stages == {"arriving", "first", "again", "expiring", "running"}

TypeOK ==
  /\ store \in Stores /\ wrapper \in [Call -> Wrappers]
  /\ phase \in [Call -> {"idle", "ready", "flying", "resolved", "rejected"}]
  /\ attempt \in [Call -> 0 .. MaxAttempts]
  /\ \A c \in Call : phase[c] = "ready" => attempt[c] < MaxAttempts
  /\ aborted \subseteq Call
  /\ server \subseteq [call : Call, n : 1 .. MaxAttempts, stage : Stages]
  /\ now \in Time
  /\ counter \in [count : Nat, reset : 0 .. MaxTime + Window]
  /\ stamps \cup admitted \subseteq [call : Call, n : 1 .. MaxAttempts, at : Time]
  /\ raced \in Nat /\ lapsed \in BOOLEAN

(***************************************************************************)
(* In no span of one window do more requests pass than MaxRequests, for a  *)
(* sliding window, or than twice that less one, for windows that begin     *)
(* with a request, which the span leaves as the window ends; with Redis    *)
(* each first request that met another one comes on top.                   *)
(***************************************************************************)
WindowLimit ==
  Cardinality(admitted) <= CASE store = "sliding" -> MaxRequests
                             [] store = "fixed"   -> 2 * MaxRequests - 1
                             [] store = "redis"   -> 2 * MaxRequests - 1 + raced

(***************************************************************************)
(* A counter in Redis has an expiry, or is about to be given one, unless   *)
(* pexpire failed or the counter expired between get and incr: only then   *)
(* is the client refused for ever.                                         *)
(***************************************************************************)
CounterHasEnd ==
  store = "redis" /\ counter.count > 0 /\ counter.reset = 0 =>
    lapsed \/ \E q \in server : q.stage = "expiring"
=============================================================================
