--------------------------- MODULE ClientCallsProofs ---------------------------
(***************************************************************************)
(* What ClientCalls satisfies for every set of calls, every number of      *)
(* attempts, and every limit and window.                                   *)
(***************************************************************************)
EXTENDS ClientCalls, FiniteSetTheorems, TLAPS

Requests == [call : Call, n : 1 .. MaxAttempts, stage : Stages]
Stamped == [call : Call, n : 1 .. MaxAttempts, at : Time]

Counted == \A c \in Call : phase[c] = "idle" => attempt[c] = 0

IInv == TypeOK /\ Counted /\ CounterHasEnd

LEMMA IInvInit == Init => IInv
<1> SUFFICES ASSUME Init PROVE IInv OBVIOUS
<1>1. TypeOK
  <2>1. MaxAttempts \in Nat \ {0} /\ Window \in Nat \ {0} /\ MaxTime \in Nat
    BY ClientCallsAssumption
  <2>2. stamps = {} /\ admitted = {} /\ now \in Time
    BY <2>1 DEF Init, Time
  <2>3. attempt \in [Call -> 0 .. MaxAttempts] /\ counter \in [count : Nat, reset : 0 .. MaxTime + Window]
    BY <2>1 DEF Init, NoCounter
  <2>4. \A c \in Call : phase[c] = "ready" => attempt[c] < MaxAttempts
    BY DEF Init
  <2> QED BY <2>2, <2>3, <2>4 DEF Init, TypeOK
<1>2. CounterHasEnd
  BY DEF Init, CounterHasEnd, NoCounter
<1> QED BY <1>1, <1>2 DEF IInv, Init, Counted

\* What the steps of the server are made of.
LEMMA Moved ==
  ASSUME server \subseteq Requests, NEW q \in server, NEW stage \in Stages, Move(q, stage)
  PROVE  /\ server' \subseteq Requests
         /\ \A p \in server \ {q} : p \in server'
         /\ \E p \in server' : p.stage = stage
<1> DEFINE moved == [q EXCEPT !.stage = stage]
<1>1. moved \in Requests /\ moved.stage = stage
  BY DEF Requests
<1>2. server' = (server \ {q}) \cup {moved}
  BY DEF Move
<1> HIDE DEF moved
<1> QED BY <1>1, <1>2

\* What a request leaves behind where it is counted.
LEMMA StampIs ==
  ASSUME server \subseteq Requests, now \in Time, NEW q \in server
  PROVE  Stamp(q) \in Stamped /\ Stamp(q).at = now
BY DEF Stamp, Stamped, Requests

CallsOK ==
  /\ phase \in [Call -> {"idle", "ready", "flying", "resolved", "rejected"}]
  /\ attempt \in [Call -> 0 .. MaxAttempts]
  /\ \A c \in Call : phase[c] = "ready" => attempt[c] < MaxAttempts

LEMMA Responded ==
  ASSUME TypeOK, NEW q \in server, NEW status, Respond(q, status), UNCHANGED attempt
  PROVE  CallsOK' /\ server' = server \ {q}
BY ClientCallsAssumption DEF Respond, Returns, IsLast, TypeOK, CallsOK

LEMMA Decided ==
  ASSUME TypeOK, NEW q \in server, q.stage # "expiring", NEW count, Decide(q, count),
         UNCHANGED attempt
  PROVE  /\ CallsOK' /\ server' \subseteq Requests /\ admitted' \subseteq Stamped
         /\ \A p \in server : p.stage = "expiring" => p \in server'
<1> USE DEF TypeOK, Requests
<1>1. CASE count <= MaxRequests
  <2>1. /\ server' \subseteq Requests /\ \A p \in server \ {q} : p \in server'
    BY <1>1, Moved DEF Decide, Stages
  <2>2. Stamp(q) \in Stamped /\ admitted \subseteq Stamped
    BY StampIs DEF Stamped
  <2> QED BY <1>1, <2>1, <2>2 DEF Decide, CallsOK
<1>2. CASE ~(count <= MaxRequests)
  <2>1. CallsOK' /\ server' = server \ {q}
    BY <1>2, Responded DEF Decide
  <2> QED BY <1>2, <2>1 DEF Decide, Stamped
<1> QED BY <1>1, <1>2

LEMMA CountedNext == TypeOK /\ Counted /\ [Next]_vars => Counted'
<1> SUFFICES ASSUME TypeOK, Counted, [Next]_vars PROVE Counted' OBVIOUS
<1>1. ASSUME NEW c \in Call, Post(c) PROVE Counted'
  BY <1>1 DEF Post, Counted, TypeOK
<1>2. ASSUME NEW c \in Call, Start(c) \/ PostAborted(c) \/ Fails(c) \/ Abort(c) PROVE Counted'
  BY <1>2 DEF Start, PostAborted, Fails, Abort, Throws, Counted, TypeOK
<1>3. ASSUME NEW q \in server, NEW status, Respond(q, status), UNCHANGED attempt
      PROVE  Counted'
  BY <1>3 DEF Respond, Returns, Counted, TypeOK
<1>4. ASSUME UNCHANGED <<phase, attempt>> PROVE Counted'
  BY <1>4 DEF Counted
<1>5. ASSUME NEW q \in server, NEW count, Decide(q, count), UNCHANGED attempt
      PROVE  Counted'
  BY <1>3, <1>4, <1>5 DEF Decide
<1>6. ASSUME NEW q \in server, CountFixed(q) \/ CountSliding(q) \/ RedisAgain(q) PROVE Counted'
  BY <1>5, <1>6 DEF CountFixed, CountSliding, RedisAgain
<1>7. ASSUME NEW q \in server, RedisExpireFails(q) \/ \E status \in Status : Handled(q, status)
      PROVE  Counted'
  BY <1>3, <1>7 DEF RedisExpireFails, Handled
<1>8. ASSUME NEW q \in server, RedisGet(q) \/ RedisFirst(q) \/ RedisExpire(q) PROVE Counted'
  BY <1>4, <1>8 DEF RedisGet, RedisFirst, RedisExpire, clientVars
<1>9. ASSUME Tick \/ Evict \/ UNCHANGED vars PROVE Counted'
  BY <1>4, <1>9 DEF Tick, Evict, vars, clientVars
<1> QED BY <1>1, <1>2, <1>6, <1>7, <1>8, <1>9 DEF Next

LEMMA IInvNext == IInv /\ [Next]_vars => IInv'
<1> SUFFICES ASSUME IInv, [Next]_vars PROVE IInv' OBVIOUS
<1> USE DEF IInv
<1>0. /\ MaxAttempts \in Nat \ {0} /\ Window \in Nat \ {0} /\ MaxTime \in Nat
      /\ server \subseteq Requests /\ now \in 0 .. MaxTime
      /\ now + Window \in 0 .. MaxTime + Window /\ now + Window > 0
      /\ \A c \in Call : attempt[c] \in Nat
      /\ Counted'
  <2>1. MaxAttempts \in Nat \ {0} /\ Window \in Nat \ {0} /\ MaxTime \in Nat
    BY ClientCallsAssumption
  <2>2. server \subseteq Requests /\ now \in 0 .. MaxTime
    BY DEF TypeOK, Requests, Time
  <2>3. now + Window \in 0 .. MaxTime + Window /\ now + Window > 0
    BY <2>1, <2>2
  <2>4. \A c \in Call : attempt[c] \in Nat
    BY <2>1 DEF TypeOK, Counted
  <2>5. Counted'
    BY CountedNext
  <2> QED BY <2>1, <2>2, <2>3, <2>4, <2>5
<1>a. /\ counter = [count |-> counter.count, reset |-> counter.reset]
      /\ counter.count \in Nat /\ counter.reset \in 0 .. MaxTime + Window
  BY DEF TypeOK
<1>1. ASSUME NEW c \in Call, Start(c) \/ PostAborted(c) \/ Fails(c) \/ Abort(c) PROVE IInv'
  <2>1. /\ UNCHANGED <<store, wrapper, server, now, limiterVars>> /\ aborted' \subseteq Call
        /\ phase' \in [Call -> {"idle", "ready", "flying", "resolved", "rejected"}]
        /\ attempt' \in [Call -> 0 .. MaxAttempts]
    BY <1>0, <1>1 DEF Start, PostAborted, Fails, Abort, Throws, TypeOK
  <2>2. \A d \in Call : phase'[d] = "ready" => attempt'[d] < MaxAttempts
    <3>1. CASE Start(c)
      BY <1>0, <3>1 DEF Start, TypeOK, Counted
    <3>2. CASE PostAborted(c)
      <4>1. attempt[c] < MaxAttempts /\ attempt[c] \in Nat
        BY <1>0, <3>2 DEF PostAborted, TypeOK
      <4>2. /\ attempt'[c] = attempt[c] \/ attempt'[c] = attempt[c] + 1
            /\ phase'[c] = "ready" => attempt'[c] = attempt[c] + 1 /\ attempt'[c] # MaxAttempts
            /\ \A d \in Call \ {c} : attempt'[d] = attempt[d] /\ phase'[d] = phase[d]
        BY <3>2 DEF PostAborted, Throws, TypeOK
      <4>3. phase'[c] = "ready" => attempt'[c] < MaxAttempts
        BY <1>0, <4>1, <4>2 DEF TypeOK
      <4> QED BY <4>2, <4>3 DEF TypeOK
    <3>3. CASE Fails(c) \/ Abort(c)
      BY <1>0, <3>3 DEF Fails, Abort, Throws, TypeOK
    <3> QED BY <1>1, <3>1, <3>2, <3>3
  <2> QED BY <1>0, <2>1, <2>2 DEF TypeOK, CounterHasEnd, limiterVars
<1>2. ASSUME NEW c \in Call, Post(c) PROVE IInv'
  <2> DEFINE q == [call |-> c, n |-> attempt[c] + 1, stage |-> "arriving"]
  <2>1. attempt[c] \in Nat /\ attempt[c] < MaxAttempts
    BY <1>0, <1>2 DEF Post, TypeOK
  <2>2. q \in Requests
    BY <1>0, <2>1 DEF Requests, Stages
  <2>3. server' \subseteq Requests /\ server \subseteq server'
    BY <1>0, <1>2, <2>2 DEF Post
  <2>4. CallsOK'
    BY <1>0, <1>2, <2>1 DEF Post, TypeOK, CallsOK
  <2> QED BY <1>0, <1>2, <2>3, <2>4 DEF Post, TypeOK, CallsOK, CounterHasEnd, limiterVars, Requests
<1>3. ASSUME NEW q \in server, CountFixed(q) PROVE IInv'
  <2>1. counter' \in [count : Nat, reset : 0 .. MaxTime + Window]
    <3>1. counter' = [count |-> 1, reset |-> now + Window]
          \/ counter' = [count |-> counter.count + 1, reset |-> counter.reset]
      BY <1>a, <1>3 DEF CountFixed, FixedIncrement
    <3> QED BY <1>0, <1>a, <3>1
  <2>2. CallsOK' /\ server' \subseteq Requests /\ admitted' \subseteq Stamped
    BY <1>3, Decided DEF CountFixed
  <2> QED
    BY <1>0, <1>3, <2>1, <2>2 DEF CountFixed, TypeOK, CallsOK, CounterHasEnd, Requests, Stamped
<1>4. ASSUME NEW q \in server, CountSliding(q) PROVE IInv'
  <2>1. stamps' \subseteq Stamped
    <3>1. Recent \subseteq Stamped
      BY DEF Recent, InWindow, TypeOK, Stamped
    <3>2. Stamp(q) \in Stamped
      BY <1>0, StampIs DEF Time
    <3> QED BY <1>4, <3>1, <3>2 DEF CountSliding
  <2>2. CallsOK' /\ server' \subseteq Requests /\ admitted' \subseteq Stamped
    BY <1>4, Decided DEF CountSliding
  <2> QED
    BY <1>0, <1>4, <2>1, <2>2 DEF CountSliding, TypeOK, CallsOK, CounterHasEnd, Requests, Stamped
<1>5. ASSUME NEW q \in server, RedisGet(q) PROVE IInv'
  <2>1. server' \subseteq Requests /\ \A p \in server \ {q} : p \in server'
    BY <1>0, <1>5, Moved DEF RedisGet, Stages
  <2> QED BY <1>0, <1>5, <2>1 DEF RedisGet, TypeOK, CounterHasEnd, clientVars, limiterVars, Requests
<1>6. ASSUME NEW q \in server, RedisFirst(q) PROVE IInv'
  <2>1. server' \subseteq Requests /\ \E p \in server' : p.stage = "expiring"
    BY <1>0, <1>6, Moved DEF RedisFirst, AfterIncr, Stages
  <2>2. counter' \in [count : Nat, reset : 0 .. MaxTime + Window] /\ raced' \in Nat
    BY <1>6 DEF RedisFirst, TypeOK
  <2>3. admitted' \subseteq Stamped
    <3>1. Stamp(q) \in Stamped /\ admitted \subseteq Stamped
      BY <1>0, StampIs DEF Time, TypeOK, Stamped
    <3> QED BY <1>6, <3>1 DEF RedisFirst
  <2> QED
    BY <1>0, <1>6, <2>1, <2>2, <2>3
       DEF RedisFirst, TypeOK, CounterHasEnd, clientVars, Requests, Stamped
<1>7. ASSUME NEW q \in server, RedisExpire(q) PROVE IInv'
  <2>1. server' \subseteq Requests
    BY <1>0, <1>7, Moved DEF RedisExpire, Stages
  <2>2. counter' \in [count : Nat, reset : 0 .. MaxTime + Window]
        /\ (counter'.count > 0 => counter'.reset > 0)
    <3>1. counter' = [count |-> counter.count, reset |-> now + Window]
          \/ (counter' = counter /\ ~(counter.count > 0))
      BY <1>a, <1>7 DEF RedisExpire
    <3> QED BY <1>0, <1>a, <3>1
  <2>3. counter'.count \in Nat /\ counter'.reset \in Nat
    BY <1>0, <2>2
  <2>4. CounterHasEnd'
    BY <2>2, <2>3 DEF CounterHasEnd
  <2> QED BY <1>0, <1>7, <2>1, <2>2, <2>4 DEF RedisExpire, TypeOK, clientVars, Requests
<1>8. ASSUME NEW q \in server, RedisExpireFails(q) PROVE IInv'
  <2>1. CallsOK' /\ server' = server \ {q}
    BY <1>8, Responded DEF RedisExpireFails
  <2> QED BY <1>0, <1>8, <2>1 DEF RedisExpireFails, TypeOK, CallsOK, CounterHasEnd
<1>9. ASSUME NEW q \in server, RedisAgain(q) PROVE IInv'
  <2>1. /\ CallsOK' /\ server' \subseteq Requests /\ admitted' \subseteq Stamped
        /\ \A p \in server : p.stage = "expiring" => p \in server'
    BY <1>9, Decided DEF RedisAgain
  <2>2. counter' \in [count : Nat, reset : 0 .. MaxTime + Window] /\ counter'.reset = counter.reset
        /\ lapsed' = (lapsed \/ counter.count = 0) /\ UNCHANGED store
    BY <1>9 DEF RedisAgain, TypeOK
  <2>3. counter.count \in Nat
    BY DEF TypeOK
  <2>4. CounterHasEnd'
    <3>1. CASE counter.count = 0
      BY <2>2, <3>1, Zenon DEF CounterHasEnd
    <3>2. CASE counter.count > 0
      <4>1. lapsed => lapsed'
        BY <2>2, Zenon
      <4>2. (\E p \in server : p.stage = "expiring") => \E p \in server' : p.stage = "expiring"
        BY <2>1
      <4> QED BY <2>2, <3>2, <4>1, <4>2, Zenon DEF CounterHasEnd
    <3> QED BY <2>3, <3>1, <3>2
  <2>5. lapsed' \in BOOLEAN
    BY <2>2, Zenon
  <2>6. UNCHANGED <<store, wrapper, aborted, now, stamps, raced>>
    BY <1>9 DEF RedisAgain
  <2>7. (stamps \cup admitted)' \subseteq Stamped /\ raced' \in Nat
    BY <2>1, <2>6 DEF TypeOK, Stamped
  <2>8. /\ store' \in Stores /\ wrapper' \in [Call -> Wrappers] /\ aborted' \subseteq Call
        /\ now' \in Time
    BY <2>6 DEF TypeOK
  <2>9. TypeOK'
    BY <2>1, <2>2, <2>5, <2>7, <2>8 DEF TypeOK, CallsOK, Requests, Stamped
  <2> QED BY <1>0, <2>4, <2>9
<1>10. ASSUME NEW q \in server, NEW status \in Status, Handled(q, status) PROVE IInv'
  <2>1. CallsOK' /\ server' = server \ {q}
    BY <1>10, Responded DEF Handled
  <2> QED BY <1>0, <1>10, <2>1 DEF Handled, TypeOK, CallsOK, CounterHasEnd, limiterVars
<1>11. CASE Tick
  <2>1. now' \in Time /\ admitted' \subseteq admitted
    BY <1>0, <1>11 DEF Tick, InWindow, TypeOK, Time
  <2>2. counter' = NoCounter \/ counter' = counter
    BY <1>11 DEF Tick
  <2>3. NoCounter \in [count : Nat, reset : 0 .. MaxTime + Window] /\ ~(NoCounter.count > 0)
    BY <1>0 DEF NoCounter
  <2> QED BY <1>0, <1>11, <2>1, <2>2, <2>3 DEF Tick, TypeOK, CounterHasEnd, clientVars
<1>12. CASE Evict
  <2>1. NoCounter \in [count : Nat, reset : 0 .. MaxTime + Window]
    BY <1>0 DEF NoCounter
  <2> QED BY <1>0, <1>12, <2>1 DEF Evict, TypeOK, CounterHasEnd, clientVars
<1>13. CASE UNCHANGED vars
  BY <1>0, <1>13 DEF vars, clientVars, limiterVars, TypeOK, CounterHasEnd
<1> QED BY <1>1, <1>2, <1>3, <1>4, <1>5, <1>6, <1>7, <1>8, <1>9, <1>10, <1>11, <1>12, <1>13
        DEF Next

LEMMA IInvAlways == Spec => []IInv
BY IInvInit, IInvNext, PTL DEF Spec

\* Every variable keeps its type; no call makes more than MaxAttempts attempts.
THEOREM TypeCorrect == Spec => []TypeOK
<1>1. IInv => TypeOK
  BY DEF IInv
<1> QED BY <1>1, IInvAlways, PTL

\* A client is locked out of Redis for ever only by a pexpire that failed or a
\* counter that expired between get and incr, however many requests overlap.
THEOREM CountersEnd == Spec => []CounterHasEnd
<1>1. IInv => CounterHasEnd
  BY DEF IInv
<1> QED BY <1>1, IInvAlways, PTL

-----------------------------------------------------------------------------
(***************************************************************************)
(* The window limit.  A counter of the fixed window or of Redis was opened *)
(* by a request x, and no request passed under it before x.  What counts   *)
(* is how many of those still in the span of one window came with or after *)
(* x, and how many before: each part has less than MaxRequests next to x,  *)
(* and a and b say how the raced requests are shared between them.  When   *)
(* the counter ends, x leaves the span, so that the next counter finds     *)
(* MaxRequests - 1 of them at most.                                        *)
(***************************************************************************)
Least(a, b) == IF a <= b THEN a ELSE b
Since(x, S) == {r \in S : r.at >= x.at /\ r # x}
Earlier(x, S) == {r \in S : r.at < x.at}

Opened(x, a, b) ==
  /\ x.at <= now
  /\ a + b <= raced
  /\ counter.reset = 0 \/ counter.reset >= x.at + Window
  /\ Cardinality(Since(x, admitted)) + 1 <= Least(counter.count, MaxRequests) + a
  /\ Cardinality(Earlier(x, admitted)) + 1 <= MaxRequests + b

IsOpen == \E x \in Stamped, a, b \in Nat : Opened(x, a, b)

Unused ==
  /\ Cardinality(admitted) + 1 <= MaxRequests + raced
  /\ \A r \in admitted : r.at < now

Kept ==
  /\ IsFiniteSet(stamps) /\ IsFiniteSet(admitted)
  /\ \A r \in admitted : r.at <= now /\ now < r.at + Window
  /\ \A q \in server : q.stage \in {"first", "expiring", "again"} => store = "redis"

SlidingOK ==
  store = "sliding" => admitted \subseteq stamps /\ Cardinality(admitted) <= MaxRequests

CounterOK ==
  store # "sliding" =>
    /\ counter.count = 0 => Unused /\ counter.reset = 0
    /\ counter.count > 0 => IsOpen
    /\ counter.count > 0 /\ counter.reset > 0 => \A r \in admitted : r.at < counter.reset
    /\ store = "fixed" => raced = 0 /\ (counter.count > 0 => counter.reset > 0)
    /\ store = "redis" /\ counter.reset > 0 => counter.reset > now

Windows == Kept /\ SlidingOK /\ CounterOK

\* What the numbers are.
LEMMA Numbers ==
  ASSUME TypeOK
  PROVE  /\ MaxRequests \in Nat \ {0} /\ Window \in Nat \ {0} /\ MaxTime \in Nat
         /\ now \in Nat /\ raced \in Nat /\ counter.count \in Nat /\ counter.reset \in Nat
         /\ counter = [count |-> counter.count, reset |-> counter.reset]
         /\ server \subseteq Requests /\ now \in Time
         /\ admitted \subseteq Stamped /\ stamps \subseteq Stamped
         /\ \A r \in Stamped : r.at \in Nat
BY ClientCallsAssumption DEF TypeOK, Time, Stamped, Requests

LEMMA PartIs ==
  ASSUME NEW S, IsFiniteSet(S), NEW T, T \subseteq S
  PROVE  /\ IsFiniteSet(T) /\ Cardinality(T) \in Nat /\ Cardinality(S) \in Nat
         /\ Cardinality(T) <= Cardinality(S)
<1>1. IsFiniteSet(T) /\ Cardinality(T) <= Cardinality(S)
  BY FS_Subset
<1> QED BY <1>1, FS_CardinalityType

LEMMA WithOne ==
  ASSUME NEW S, IsFiniteSet(S), NEW x
  PROVE  /\ IsFiniteSet(S \cup {x})
         /\ Cardinality(S) \in Nat /\ Cardinality(S \cup {x}) \in Nat
         /\ Cardinality(S \cup {x}) <= Cardinality(S) + 1
<1>1. IsFiniteSet(S \cup {x})
  BY FS_AddElement
<1>2. Cardinality(S \cup {x}) = Cardinality(S) \/ Cardinality(S \cup {x}) = Cardinality(S) + 1
  BY FS_AddElement
<1>3. Cardinality(S) \in Nat /\ Cardinality(S \cup {x}) \in Nat
  BY <1>1, FS_CardinalityType
<1> QED BY <1>1, <1>2, <1>3

\* The parts of the requests before and from x on, and x.
LEMMA Parts ==
  ASSUME NEW S \in SUBSET Stamped, IsFiniteSet(S), NEW x \in Stamped, \A r \in Stamped : r.at \in Nat
  PROVE  /\ IsFiniteSet(Since(x, S)) /\ IsFiniteSet(Earlier(x, S))
         /\ Cardinality(Since(x, S)) \in Nat /\ Cardinality(Earlier(x, S)) \in Nat
         /\ Cardinality(S) \in Nat
         /\ Cardinality(S) <= Cardinality(Since(x, S)) + Cardinality(Earlier(x, S)) + 1
<1> DEFINE A == Since(x, S)
           B == Earlier(x, S)
<1>1. IsFiniteSet(A) /\ IsFiniteSet(B) /\ Cardinality(A) \in Nat /\ Cardinality(B) \in Nat
      /\ Cardinality(S) \in Nat
  BY PartIs DEF Since, Earlier
<1>2. S \subseteq (A \cup B) \cup {x}
  BY DEF Since, Earlier
<1> HIDE DEF A, B
<1>3. IsFiniteSet(A \cup B) /\ Cardinality(A \cup B) = Cardinality(A) + Cardinality(B) - Cardinality(A \cap B)
  BY <1>1, FS_Union
<1>4. Cardinality(A \cap B) \in Nat
  <2>1. A \cap B \subseteq A
    OBVIOUS
  <2> QED BY <1>1, <2>1, PartIs
<1>5. Cardinality(A \cup B) \in Nat /\ Cardinality(A \cup B) <= Cardinality(A) + Cardinality(B)
  <2>1. Cardinality(A \cup B) \in Nat
    BY <1>3, FS_CardinalityType
  <2> QED BY <1>1, <1>3, <1>4, <2>1
<1>6. IsFiniteSet((A \cup B) \cup {x}) /\ Cardinality((A \cup B) \cup {x}) \in Nat
      /\ Cardinality((A \cup B) \cup {x}) <= Cardinality(A) + Cardinality(B) + 1
  <2>1. IsFiniteSet((A \cup B) \cup {x}) /\ Cardinality((A \cup B) \cup {x}) \in Nat
        /\ Cardinality((A \cup B) \cup {x}) <= Cardinality(A \cup B) + 1
    BY <1>3, WithOne
  <2> QED BY <1>1, <1>5, <2>1
<1>7. Cardinality(S) <= Cardinality((A \cup B) \cup {x})
  BY <1>2, <1>6, PartIs
<1>8. Cardinality(S) <= Cardinality(A) + Cardinality(B) + 1
  BY <1>1, <1>6, <1>7
<1> QED BY <1>1, <1>8 DEF A, B

\* One request more, under the counter that x opened.
LEMMA SinceWithOne ==
  ASSUME NEW S \in SUBSET Stamped, IsFiniteSet(S), NEW x \in Stamped, NEW y \in Stamped,
         \A r \in Stamped : r.at \in Nat, x.at <= y.at
  PROVE  /\ Cardinality(Since(x, S)) \in Nat /\ Cardinality(Since(x, S \cup {y})) \in Nat
         /\ Cardinality(Since(x, S \cup {y})) <= Cardinality(Since(x, S)) + 1
         /\ Earlier(x, S \cup {y}) = Earlier(x, S)
<1>1. IsFiniteSet(Since(x, S))
  BY Parts
<1>2. /\ IsFiniteSet(Since(x, S) \cup {y}) /\ Cardinality(Since(x, S)) \in Nat
      /\ Cardinality(Since(x, S) \cup {y}) \in Nat
      /\ Cardinality(Since(x, S) \cup {y}) <= Cardinality(Since(x, S)) + 1
  BY <1>1, WithOne
<1>3. Since(x, S \cup {y}) \subseteq Since(x, S) \cup {y}
  BY DEF Since
<1>4. /\ Cardinality(Since(x, S \cup {y})) \in Nat
      /\ Cardinality(Since(x, S \cup {y})) <= Cardinality(Since(x, S) \cup {y})
  BY <1>2, <1>3, PartIs
<1>5. Earlier(x, S \cup {y}) = Earlier(x, S)
  BY DEF Earlier
<1> QED BY <1>2, <1>4, <1>5

\* Where a counter ends, less than MaxRequests are left next to the raced ones.
LEMMA CounterEnds ==
  ASSUME TypeOK, Kept, CounterOK, store # "sliding", counter.count > 0, counter.reset > 0,
         NEW t \in Nat, now <= t, counter.reset <= t
  PROVE  /\ Cardinality(InWindow(admitted, t)) \in Nat
         /\ Cardinality(InWindow(admitted, t)) + 1 <= MaxRequests + raced
         /\ \A r \in InWindow(admitted, t) : r.at < t
<1> USE Numbers
<1>1. PICK x \in Stamped, a \in Nat, b \in Nat : Opened(x, a, b)
  BY DEF CounterOK, IsOpen
<1>2. x.at + Window <= t
  BY <1>1 DEF Opened
<1>3. InWindow(admitted, t) \subseteq Since(x, admitted)
  BY <1>2 DEF InWindow, Since
<1>4. IsFiniteSet(Since(x, admitted))
  BY Parts DEF Kept
<1>5. /\ Cardinality(InWindow(admitted, t)) \in Nat /\ Cardinality(Since(x, admitted)) \in Nat
      /\ Cardinality(InWindow(admitted, t)) <= Cardinality(Since(x, admitted))
  BY <1>3, <1>4, PartIs
<1>6. Cardinality(InWindow(admitted, t)) + 1 <= MaxRequests + raced
  BY <1>1, <1>5 DEF Opened, Least
<1>7. \A r \in InWindow(admitted, t) : r.at < t
  BY DEF InWindow, CounterOK
<1> QED BY <1>5, <1>6, <1>7

\* Nothing of the span of one window is missing from admitted.
LEMMA AllInWindow ==
  ASSUME TypeOK, Kept
  PROVE  InWindow(admitted, now) = admitted
BY Numbers DEF InWindow, Kept

\* The request that opens a counter.
LEMMA Opens ==
  ASSUME TypeOK, Kept, Unused, NEW q \in server,
         admitted' = admitted \cup {Stamp(q)}, UNCHANGED <<now, raced>>,
         counter'.count = 1, counter'.reset = 0 \/ counter'.reset = now + Window
  PROVE  IsOpen'
<1> USE Numbers
<1>1. PICK x \in Stamped : x = Stamp(q) /\ x.at = now
  BY StampIs
<1>2. Since(x, admitted') = {}
  BY <1>1 DEF Since, Unused
<1>3. Earlier(x, admitted') \subseteq admitted
  BY <1>1 DEF Earlier
<1>4. /\ Cardinality(admitted) \in Nat /\ Cardinality(Earlier(x, admitted')) \in Nat
      /\ Cardinality(Earlier(x, admitted')) <= Cardinality(admitted)
  BY <1>3, PartIs DEF Kept
<1>5. Cardinality(Since(x, admitted')) = 0
  BY <1>2, FS_EmptySet
<1>6. Opened(x, 0, raced)'
  BY <1>1, <1>4, <1>5 DEF Opened, Least, Unused
<1> QED BY <1>1, <1>6 DEF IsOpen

\* The requests that follow it.
LEMMA StaysOpen ==
  ASSUME TypeOK, Kept, IsOpen, counter.count > 0, NEW q \in server,
         counter'.count = counter.count + 1, counter'.reset = counter.reset, UNCHANGED now,
         \/ admitted' = admitted \cup {Stamp(q)} /\ counter'.count <= MaxRequests /\ UNCHANGED raced
         \/ admitted' = admitted \cup {Stamp(q)} /\ raced' = raced + 1
         \/ UNCHANGED <<admitted, raced>>
  PROVE  IsOpen'
<1> USE Numbers
<1>1. PICK x \in Stamped, a \in Nat, b \in Nat : Opened(x, a, b)
  BY DEF IsOpen
<1> DEFINE y == Stamp(q)
<1>2. y \in Stamped /\ x.at <= y.at
  BY <1>1, StampIs DEF Opened
<1> HIDE DEF y
<1>3. /\ Cardinality(Since(x, admitted)) \in Nat /\ Cardinality(Since(x, admitted \cup {y})) \in Nat
      /\ Cardinality(Since(x, admitted \cup {y})) <= Cardinality(Since(x, admitted)) + 1
      /\ Earlier(x, admitted \cup {y}) = Earlier(x, admitted)
  BY <1>2, SinceWithOne DEF Kept
<1>4. CASE admitted' = admitted \cup {y} /\ counter'.count <= MaxRequests /\ UNCHANGED raced
  <2>1. Opened(x, a, b)'
    BY <1>1, <1>3, <1>4 DEF Opened, Least
  <2> QED BY <2>1 DEF IsOpen
<1>5. CASE admitted' = admitted \cup {y} /\ raced' = raced + 1
  <2> DEFINE m == Cardinality(Since(x, admitted))
  <2>1. m + 1 <= Least(counter.count, MaxRequests) + a /\ a + b <= raced
    BY <1>1 DEF Opened
  <2>2. Cardinality(Since(x, admitted')) + 1 <= m + 2
    BY <1>3, <1>5
  <2>3. Least(counter.count, MaxRequests) <= Least(counter'.count, MaxRequests)
    BY DEF Least
  <2>4. Cardinality(Since(x, admitted')) + 1 <= Least(counter'.count, MaxRequests) + (a + 1)
    BY <1>3, <1>5, <2>1, <2>2, <2>3 DEF Least
  <2>5. Cardinality(Earlier(x, admitted')) = Cardinality(Earlier(x, admitted))
    BY <1>3, <1>5
  <2>6. (a + 1) + b <= raced'
    BY <1>5, <2>1
  <2>7. Opened(x, a + 1, b)'
    BY <1>1, <2>4, <2>5, <2>6 DEF Opened
  <2>8. a + 1 \in Nat
    OBVIOUS
  <2> QED BY <2>7, <2>8, Zenon DEF IsOpen
<1>6. CASE UNCHANGED <<admitted, raced>>
  <2>1. Opened(x, a, b)'
    BY <1>1, <1>3, <1>6 DEF Opened, Least
  <2> QED BY <2>1 DEF IsOpen
<1> QED BY <1>4, <1>5, <1>6 DEF y

\* The windows are untouched by what leaves the limiter and the clock alone.
LEMMA WindowsKept ==
  ASSUME TypeOK, Windows, UNCHANGED <<store, now, limiterVars>>,
         \A q \in server' : q.stage \in {"first", "expiring", "again"} => store = "redis"
  PROVE  Windows'
<1>1. UNCHANGED <<store, now, counter, stamps, admitted, raced>>
  BY DEF limiterVars
<1>2. IsOpen => IsOpen'
  BY <1>1 DEF IsOpen, Opened
<1>3. Kept' /\ SlidingOK'
  BY <1>1 DEF Windows, Kept, SlidingOK
<1>4. CounterOK'
  BY <1>1, <1>2 DEF Windows, CounterOK, Unused
<1> QED BY <1>3, <1>4 DEF Windows

\* Where a request that was in the server goes.
LEMMA StageKept ==
  ASSUME TypeOK, Kept, UNCHANGED store, NEW q \in server,
         \/ server' = server \ {q}
         \/ \E stage : Move(q, stage) /\ (stage \in {"first", "expiring", "again"} => store = "redis")
  PROVE  \A p \in server' : p.stage \in {"first", "expiring", "again"} => store' = "redis"
<1>1. CASE server' = server \ {q}
  BY <1>1 DEF Kept
<1>2. ASSUME NEW stage, Move(q, stage), stage \in {"first", "expiring", "again"} => store = "redis"
      PROVE  \A p \in server' : p.stage \in {"first", "expiring", "again"} => store' = "redis"
  <2> DEFINE moved == [q EXCEPT !.stage = stage]
  <2>1. moved.stage = stage
    BY Numbers DEF Requests
  <2>2. server' = (server \ {q}) \cup {moved}
    BY <1>2 DEF Move
  <2> HIDE DEF moved
  <2> QED BY <1>2, <2>1, <2>2 DEF Kept
<1> QED BY <1>1, <1>2

LEMMA DecidedStages ==
  ASSUME NEW q \in server, NEW count, Decide(q, count)
  PROVE  /\ \/ server' = server \ {q}
            \/ Move(q, "running")
         /\ \/ count <= MaxRequests /\ admitted' = admitted \cup {Stamp(q)}
            \/ ~(count <= MaxRequests) /\ UNCHANGED admitted
BY DEF Decide, Respond

\* A request that is counted now stays within the span.
LEMMA KeptWithOne ==
  ASSUME TypeOK, Kept, NEW q \in server, UNCHANGED <<store, now>>, IsFiniteSet(stamps'),
         admitted' = admitted \cup {Stamp(q)} \/ UNCHANGED admitted,
         \A p \in server' : p.stage \in {"first", "expiring", "again"} => store' = "redis"
  PROVE  Kept'
<1> USE Numbers
<1>1. Stamp(q).at = now
  BY StampIs
<1>2. IsFiniteSet(admitted')
  <2>1. IsFiniteSet(admitted) /\ IsFiniteSet(admitted \cup {Stamp(q)})
    BY WithOne DEF Kept
  <2> QED BY <2>1
<1>3. \A r \in admitted' : r.at <= now' /\ now' < r.at + Window
  BY <1>1 DEF Kept
<1> QED BY <1>2, <1>3 DEF Kept

LEMMA SlidingNext ==
  ASSUME TypeOK, Windows, NEW q \in server, CountSliding(q)
  PROVE  Windows'
<1> USE DEF Windows
<1>1. /\ store = "sliding" /\ UNCHANGED <<store, now>> /\ stamps' = Recent \cup {Stamp(q)}
      /\ Decide(q, Cardinality(stamps'))
  BY DEF CountSliding
<1>2. IsFiniteSet(stamps')
  <2>1. IsFiniteSet(Recent)
    BY PartIs DEF Recent, InWindow, Kept
  <2> QED BY <1>1, <2>1, WithOne
<1>3. admitted \subseteq Recent
  BY <1>1 DEF Recent, InWindow, Kept, SlidingOK
<1>4. admitted' \subseteq stamps'
  BY <1>1, <1>3, DecidedStages
<1>5. Cardinality(admitted') <= MaxRequests
  <2>1. CASE UNCHANGED admitted
    BY <1>1, <2>1 DEF SlidingOK
  <2>2. CASE Cardinality(stamps') <= MaxRequests
    <3>1. /\ Cardinality(admitted') \in Nat /\ Cardinality(stamps') \in Nat
          /\ Cardinality(admitted') <= Cardinality(stamps')
      BY <1>2, <1>4, PartIs
    <3> QED BY <2>2, <3>1, Numbers
  <2> QED BY <1>1, <2>1, <2>2, DecidedStages
<1>6. \A p \in server' : p.stage \in {"first", "expiring", "again"} => store' = "redis"
  BY <1>1, DecidedStages, StageKept
<1>7. Kept'
  BY <1>1, <1>2, <1>6, DecidedStages, KeptWithOne
<1> QED BY <1>1, <1>4, <1>5, <1>7 DEF SlidingOK, CounterOK

\* A counter that a request finds is counted on, and one it does not find is opened.
LEMMA CounterNext ==
  ASSUME TypeOK, Windows, NEW q \in server, store # "sliding", UNCHANGED <<store, now>>,
         counter.count = 0 \/ counter.reset = 0 \/ counter.reset > now,
         counter'.count = counter.count + 1, store = "fixed" => UNCHANGED raced,
         IF counter.count = 0
         THEN /\ admitted' = admitted \cup {Stamp(q)} /\ UNCHANGED raced
              /\ counter'.reset = IF store = "fixed" THEN now + Window ELSE 0
         ELSE /\ counter'.reset = counter.reset
              /\ \/ admitted' = admitted \cup {Stamp(q)} /\ counter'.count <= MaxRequests
                    /\ UNCHANGED raced
                 \/ admitted' = admitted \cup {Stamp(q)} /\ raced' = raced + 1
                 \/ UNCHANGED <<admitted, raced>>
  PROVE  CounterOK'
<1> USE Numbers DEF Windows
<1>1. IsOpen'
  <2>1. CASE counter.count = 0
    BY <2>1, Opens DEF CounterOK
  <2>2. CASE counter.count > 0
    BY <2>2, StaysOpen DEF CounterOK
  <2> QED BY <2>1, <2>2
<1>2. Stamp(q).at = now
  BY StampIs
<1>3. counter'.count > 0 /\ counter'.count # 0
  OBVIOUS
<1>4. counter'.reset > 0 => \A r \in admitted' : r.at < counter'.reset
  BY <1>2 DEF CounterOK, Kept
<1>5. store' = "fixed" => raced' = 0 /\ counter'.reset > 0
  BY DEF CounterOK
<1>6. store' = "redis" /\ counter'.reset > 0 => counter'.reset > now'
  BY DEF CounterOK
<1> QED BY <1>1, <1>3, <1>4, <1>5, <1>6 DEF CounterOK

LEMMA FixedNext ==
  ASSUME TypeOK, Windows, NEW q \in server, CountFixed(q)
  PROVE  Windows'
<1> USE Numbers DEF Windows
<1>1. /\ store = "fixed" /\ UNCHANGED <<store, now, stamps, raced>> /\ counter' = FixedIncrement
      /\ Decide(q, counter'.count)
  BY DEF CountFixed
<1>2. \A p \in server' : p.stage \in {"first", "expiring", "again"} => store' = "redis"
  BY <1>1, DecidedStages, StageKept
<1>3. Kept'
  BY <1>1, <1>2, DecidedStages, KeptWithOne DEF Kept
<1>4. CounterOK'
  <2>1. CASE counter.count > 0 /\ counter.reset > now
    <3>1. counter'.count = counter.count + 1 /\ counter'.reset = counter.reset
      BY <1>1, <2>1 DEF FixedIncrement
    <3>2. \/ counter'.count <= MaxRequests /\ admitted' = admitted \cup {Stamp(q)}
          \/ UNCHANGED admitted
      BY <1>1, DecidedStages
    <3> QED BY <1>1, <2>1, <3>1, <3>2, CounterNext
  <2>2. CASE ~(counter.count > 0 /\ counter.reset > now)
    <3>1. counter' = [count |-> 1, reset |-> now + Window]
      BY <1>1, <2>2 DEF FixedIncrement
    <3>2. admitted' = admitted \cup {Stamp(q)}
      BY <1>1, <3>1, DecidedStages
    <3>3. Unused
      <4>1. CASE counter.count = 0
        BY <1>1, <4>1 DEF CounterOK
      <4>2. CASE counter.count > 0 /\ counter.reset <= now
        <5>1. counter.reset > 0
          BY <1>1, <4>2 DEF CounterOK
        <5>2. /\ Cardinality(InWindow(admitted, now)) + 1 <= MaxRequests + raced
              /\ \A r \in InWindow(admitted, now) : r.at < now
          BY <1>1, <4>2, <5>1, CounterEnds
        <5> QED BY <5>2, AllInWindow DEF Unused
      <4> QED BY <2>2, <4>1, <4>2
    <3>4. IsOpen'
      BY <1>1, <3>1, <3>2, <3>3, Opens
    <3>5. \A r \in admitted' : r.at < counter'.reset
      <4>1. Stamp(q).at = now
        BY StampIs
      <4> QED BY <3>1, <3>2, <4>1 DEF Kept
    <3> QED BY <1>1, <3>1, <3>4, <3>5 DEF CounterOK
  <2> QED BY <2>1, <2>2
<1> QED BY <1>1, <1>3, <1>4 DEF SlidingOK

\* The counter as one more incr leaves it.
LEMMA Incremented ==
  ASSUME TypeOK, counter' = [counter EXCEPT !.count = @ + 1]
  PROVE  counter'.count = counter.count + 1 /\ counter'.reset = counter.reset
BY Numbers

LEMMA RedisCounts ==
  ASSUME TypeOK, Windows, NEW q \in server, RedisFirst(q) \/ RedisAgain(q)
  PROVE  Windows'
<1> USE Numbers DEF Windows
<1>1. /\ store = "redis" /\ UNCHANGED <<store, now, stamps>>
      /\ counter'.count = counter.count + 1 /\ counter'.reset = counter.reset
  <2>1. counter' = [counter EXCEPT !.count = @ + 1] /\ UNCHANGED <<store, now, stamps>>
    BY DEF RedisFirst, RedisAgain, clientVars
  <2>2. store = "redis"
    BY DEF RedisFirst, RedisAgain, Kept
  <2> QED BY <2>1, <2>2, Incremented
<1>2. \A p \in server' : p.stage \in {"first", "expiring", "again"} => store' = "redis"
  <2>1. CASE RedisFirst(q)
    <3>1. Move(q, AfterIncr)
      BY <2>1 DEF RedisFirst
    <3> QED BY <1>1, <3>1, StageKept
  <2>2. CASE RedisAgain(q)
    BY <1>1, <2>2, DecidedStages, StageKept DEF RedisAgain
  <2> QED BY <2>1, <2>2
<1>3. \/ counter'.count <= MaxRequests /\ admitted' = admitted \cup {Stamp(q)} /\ UNCHANGED raced
      \/ /\ admitted' = admitted \cup {Stamp(q)}
         /\ raced' = IF counter.count > 0 THEN raced + 1 ELSE raced
      \/ ~(counter'.count <= MaxRequests) /\ UNCHANGED <<admitted, raced>>
  BY DecidedStages DEF RedisFirst, RedisAgain
<1>4. Kept'
  BY <1>1, <1>2, <1>3, KeptWithOne DEF Kept
<1>5. CounterOK'
  <2>1. counter.count = 0 => counter.reset = 0
    BY <1>1 DEF CounterOK
  <2>2. counter.count = 0 \/ counter.reset = 0 \/ counter.reset > now
    BY <1>1 DEF CounterOK
  <2>3. CASE counter.count = 0
    <3>1. admitted' = admitted \cup {Stamp(q)} /\ UNCHANGED raced /\ counter'.reset = 0
      BY <1>1, <1>3, <2>1, <2>3
    <3> QED BY <1>1, <2>3, <3>1, CounterNext
  <2>4. CASE counter.count > 0
    BY <1>1, <1>3, <2>2, <2>4, CounterNext
  <2> QED BY <2>3, <2>4
<1> QED BY <1>1, <1>4, <1>5 DEF SlidingOK

LEMMA RedisExpires ==
  ASSUME TypeOK, Windows, NEW q \in server, RedisExpire(q)
  PROVE  Windows'
<1> USE Numbers DEF Windows
<1>1. /\ store = "redis" /\ UNCHANGED <<store, now, stamps, admitted, raced>>
      /\ counter' = IF counter.count > 0 THEN [counter EXCEPT !.reset = now + Window] ELSE counter
      /\ Move(q, "running")
  BY DEF RedisExpire, clientVars, Kept
<1>2. Kept'
  <2>1. \A p \in server' : p.stage \in {"first", "expiring", "again"} => store' = "redis"
    BY <1>1, StageKept
  <2> QED BY <1>1, <2>1 DEF Kept
<1>3. CASE counter.count > 0
  <2>1. counter'.count = counter.count /\ counter'.reset = now + Window
    BY <1>1, <1>3
  <2>2. IsOpen'
    <3>1. PICK x \in Stamped, a \in Nat, b \in Nat : Opened(x, a, b)
      BY <1>1, <1>3 DEF CounterOK, IsOpen
    <3>2. Opened(x, a, b)'
      BY <1>1, <2>1, <3>1 DEF Opened
    <3> QED BY <3>2 DEF IsOpen
  <2>3. \A r \in admitted' : r.at < counter'.reset
    BY <1>1, <2>1 DEF Kept
  <2> QED BY <1>1, <1>2, <1>3, <2>1, <2>2, <2>3 DEF CounterOK, SlidingOK
<1>4. CASE counter.count = 0
  BY <1>1, <1>2, <1>4 DEF CounterOK, SlidingOK, Unused
<1> QED BY <1>3, <1>4

\* Where the counter is dropped, by Redis at its expiry or by the cleanup.
LEMMA CounterDropped ==
  ASSUME TypeOK, Windows, store # "sliding", counter.count > 0, counter.reset > 0,
         now' \in Nat, now <= now', counter.reset <= now', counter' = NoCounter,
         admitted' = InWindow(admitted, now'), UNCHANGED <<store, raced>>
  PROVE  CounterOK'
<1> USE Numbers DEF Windows
<1>1. /\ Cardinality(InWindow(admitted, now')) + 1 <= MaxRequests + raced
      /\ \A r \in InWindow(admitted, now') : r.at < now'
  BY CounterEnds
<1>2. Unused'
  BY <1>1 DEF Unused
<1> QED BY <1>2 DEF CounterOK, NoCounter

LEMMA WindowsTick ==
  ASSUME TypeOK, Windows, Tick
  PROVE  Windows'
<1> USE Numbers DEF Windows
<1>1. /\ now' = now + 1 /\ admitted' = InWindow(admitted, now')
      /\ UNCHANGED <<store, server, stamps, raced>>
  BY DEF Tick
<1>2. admitted' \subseteq admitted
  BY <1>1 DEF InWindow
<1>3. IsFiniteSet(admitted') /\ Cardinality(admitted') \in Nat /\ Cardinality(admitted) \in Nat
      /\ Cardinality(admitted') <= Cardinality(admitted)
  BY <1>2, PartIs DEF Kept
<1>4. Kept'
  <2>1. \A r \in admitted' : r.at <= now' /\ now' < r.at + Window
    BY <1>1 DEF InWindow, Kept
  <2> QED BY <1>1, <1>3, <2>1 DEF Kept
<1>5. SlidingOK'
  BY <1>1, <1>2, <1>3 DEF SlidingOK
<1>6. CASE store # "sliding" /\ UNCHANGED counter
  <2>1. IsOpen => IsOpen'
    <3> SUFFICES ASSUME IsOpen PROVE IsOpen' OBVIOUS
    <3>1. PICK x \in Stamped, a \in Nat, b \in Nat : Opened(x, a, b)
      BY DEF IsOpen
    <3>2. /\ IsFiniteSet(Since(x, admitted)) /\ IsFiniteSet(Earlier(x, admitted))
      BY Parts DEF Kept
    <3>3. Since(x, admitted') \subseteq Since(x, admitted) /\ Earlier(x, admitted') \subseteq Earlier(x, admitted)
      BY <1>2 DEF Since, Earlier
    <3>4. /\ Cardinality(Since(x, admitted')) \in Nat /\ Cardinality(Since(x, admitted)) \in Nat
          /\ Cardinality(Since(x, admitted')) <= Cardinality(Since(x, admitted))
      BY <3>2, <3>3, PartIs
    <3>5. /\ Cardinality(Earlier(x, admitted')) \in Nat /\ Cardinality(Earlier(x, admitted)) \in Nat
          /\ Cardinality(Earlier(x, admitted')) <= Cardinality(Earlier(x, admitted))
      BY <3>2, <3>3, PartIs
    <3>6. Opened(x, a, b)'
      BY <1>1, <1>6, <3>1, <3>4, <3>5 DEF Opened, Least
    <3> QED BY <3>6 DEF IsOpen
  <2>2. Unused => Unused'
    BY <1>1, <1>2, <1>3 DEF Unused
  <2>3. store = "redis" /\ counter.reset > 0 => counter.reset > now'
    <3>1. store = "redis" => counter.reset # now' \/ counter = NoCounter
      BY <1>6 DEF Tick
    <3> QED BY <1>1, <3>1 DEF CounterOK, NoCounter
  <2>4. CounterOK'
    BY <1>1, <1>2, <1>6, <2>1, <2>2, <2>3 DEF CounterOK
  <2> QED BY <1>4, <1>5, <2>4
<1>7. CASE store = "redis" /\ counter.reset = now' /\ counter' = NoCounter
  <2>1. counter.reset > 0 /\ counter.count > 0
    BY <1>1, <1>7 DEF CounterOK
  <2>2. CounterOK'
    BY <1>1, <1>7, <2>1, CounterDropped
  <2> QED BY <1>4, <1>5, <2>2
<1>8. CASE store = "sliding"
  BY <1>1, <1>4, <1>5, <1>8 DEF CounterOK
<1> QED BY <1>6, <1>7, <1>8 DEF Tick

LEMMA WindowsNext == TypeOK /\ Windows /\ [Next]_vars => Windows'
<1> SUFFICES ASSUME TypeOK, Windows, [Next]_vars PROVE Windows' OBVIOUS
<1> USE Numbers DEF Windows
<1>1. ASSUME NEW c \in Call, Start(c) \/ PostAborted(c) \/ Fails(c) \/ Abort(c) PROVE Windows'
  <2>1. UNCHANGED <<store, server, now, limiterVars>>
    BY <1>1 DEF Start, PostAborted, Fails, Abort
  <2> QED BY <2>1, WindowsKept DEF Kept
<1>2. ASSUME NEW c \in Call, Post(c) PROVE Windows'
  <2>1. /\ UNCHANGED <<store, now, limiterVars>>
        /\ server' = server \cup {[call |-> c, n |-> attempt[c] + 1, stage |-> "arriving"]}
    BY <1>2 DEF Post
  <2> QED BY <2>1, WindowsKept DEF Kept
<1>3. ASSUME NEW q \in server, RedisGet(q) PROVE Windows'
  <2>1. /\ UNCHANGED <<store, now, limiterVars>> /\ store = "redis"
        /\ Move(q, IF counter.count = 0 THEN "first" ELSE "again")
    BY <1>3 DEF RedisGet
  <2> QED BY <2>1, StageKept, WindowsKept
<1>4. ASSUME NEW q \in server, RedisExpireFails(q) \/ \E status \in Status : Handled(q, status)
      PROVE  Windows'
  <2>1. UNCHANGED <<store, now, counter, stamps, admitted, raced>> /\ server' = server \ {q}
    BY <1>4 DEF RedisExpireFails, Handled, Respond, limiterVars
  <2>2. IsOpen => IsOpen'
    BY <2>1 DEF IsOpen, Opened
  <2> QED BY <2>1, <2>2 DEF Kept, SlidingOK, CounterOK, Unused
<1>5. CASE Evict
  <2>1. /\ store = "fixed" /\ counter.count > 0 /\ counter.reset <= now /\ counter' = NoCounter
        /\ UNCHANGED <<store, server, now, stamps, admitted, raced>>
    BY <1>5 DEF Evict
  <2>2. counter.reset > 0
    BY <2>1 DEF CounterOK
  <2>3. CounterOK'
    BY <2>1, <2>2, AllInWindow, CounterDropped
  <2> QED BY <2>1, <2>3 DEF Kept, SlidingOK
<1>6. CASE UNCHANGED vars
  <2>1. UNCHANGED <<store, server, now, limiterVars>>
    BY <1>6 DEF vars
  <2> QED BY <2>1, WindowsKept DEF Kept
<1>7. ASSUME NEW q \in server, RedisFirst(q) \/ RedisAgain(q) PROVE Windows'
  BY <1>7, RedisCounts
<1>8. ASSUME NEW q \in server, RedisExpire(q) PROVE Windows'
  BY <1>8, RedisExpires
<1>9. ASSUME NEW q \in server, CountFixed(q) PROVE Windows'
  BY <1>9, FixedNext
<1>10. ASSUME NEW q \in server, CountSliding(q) PROVE Windows'
  BY <1>10, SlidingNext
<1>11. CASE Tick
  BY <1>11, WindowsTick
<1> QED BY <1>1, <1>2, <1>3, <1>4, <1>5, <1>6, <1>7, <1>8, <1>9, <1>10, <1>11 DEF Next

LEMMA WindowsInit == Init => Windows
<1> SUFFICES ASSUME Init PROVE Windows OBVIOUS
<1>1. stamps = {} /\ admitted = {} /\ server = {} /\ counter = NoCounter /\ raced = 0
  BY DEF Init
<1>2. IsFiniteSet({}) /\ Cardinality({}) = 0
  BY FS_EmptySet
<1>3. Unused
  BY <1>1, <1>2, ClientCallsAssumption DEF Unused
<1> QED BY <1>1, <1>2, <1>3, ClientCallsAssumption DEF Windows, Kept, SlidingOK, CounterOK, NoCounter

\* In no span of one window do more requests pass than MaxRequests, or twice that
\* less the one that opened a counter, and with Redis the raced ones.
THEOREM LimitHolds == Spec => []WindowLimit
<1>1. TypeOK /\ Windows => WindowLimit
  <2> SUFFICES ASSUME TypeOK, Windows PROVE WindowLimit OBVIOUS
  <2> USE Numbers DEF Windows
  <2>1. CASE store = "sliding"
    BY <2>1 DEF SlidingOK, WindowLimit
  <2>2. CASE store # "sliding"
    <3>1. Cardinality(admitted) <= 2 * MaxRequests - 1 + raced
      <4>1. CASE counter.count = 0
        <5>1. Cardinality(admitted) \in Nat
          BY FS_CardinalityType DEF Kept
        <5> QED BY <2>2, <4>1, <5>1 DEF CounterOK, Unused
      <4>2. CASE counter.count > 0
        <5>1. PICK x \in Stamped, a \in Nat, b \in Nat : Opened(x, a, b)
          BY <2>2, <4>2 DEF CounterOK, IsOpen
        <5>2. /\ Cardinality(Since(x, admitted)) \in Nat /\ Cardinality(Earlier(x, admitted)) \in Nat
              /\ Cardinality(admitted) \in Nat
              /\ Cardinality(admitted)
                   <= Cardinality(Since(x, admitted)) + Cardinality(Earlier(x, admitted)) + 1
          BY Parts DEF Kept
        <5> QED BY <5>1, <5>2 DEF Opened, Least
      <4> QED BY <4>1, <4>2
    <3>2. store = "fixed" => raced = 0
      BY DEF CounterOK
    <3> QED BY <2>2, <3>1, <3>2 DEF WindowLimit, TypeOK, Stores
  <2> QED BY <2>1, <2>2
<1>2. TypeOK /\ Windows /\ [Next]_vars => Windows'
  BY WindowsNext
<1> QED BY <1>1, <1>2, WindowsInit, TypeCorrect, PTL DEF Spec
=============================================================================
