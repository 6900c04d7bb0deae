-------------------------- MODULE PushDeliveryProofs --------------------------
(***************************************************************************)
(* What PushDelivery satisfies for every set of notifications and URLs and *)
(* all values of the limit, the thresholds and the number of attempts.     *)
(***************************************************************************)
EXTENDS PushDelivery, FiniteSetTheorems, SequenceTheorems, TLAPS

Flying == {n \in Note : phase[n] \in InFlight}

\* A sequence whose elements differ is as long as the set of them.
Distinct(q) == \A i, j \in 1 .. Len(q) : q[i] = q[j] => i = j

\* A notification that is not settled has an attempt left.
AttemptLeft ==
  \A n \in Note : phase[n] \in {"idle", "queued", "backoff"} \cup InFlight =>
    attempts[n] < MaxAttempts

Slots == active = Cardinality(Flying) /\ active <= Limit

Queue ==
  /\ Distinct(queue)
  /\ Range(queue) = {n \in Note : phase[n] = "queued"}
  /\ queue # <<>> => polling /\ ~stopped

IInv == TypeOK /\ AttemptLeft /\ Slots /\ Queue

LEMMA FlyingFinite == IsFiniteSet(Flying) /\ Cardinality(Flying) \in Nat
BY PushAssumption, FS_Subset, FS_CardinalityType DEF Flying

LEMMA DistinctCounted ==
  ASSUME NEW q \in Seq(Note), Distinct(q), NEW k \in 0 .. Len(q)
  PROVE  /\ IsFiniteSet({q[i] : i \in 1 .. k})
         /\ Cardinality({q[i] : i \in 1 .. k}) = k
<1> DEFINE T == {q[i] : i \in 1 .. k}
           f == [i \in 1 .. k |-> q[i]]
<1>1. f \in [1 .. k -> T] /\ \A t \in T : \E i \in 1 .. k : f[i] = t
  OBVIOUS
<1>2. \A i, j \in 1 .. k : f[i] = f[j] => i = j
  BY DEF Distinct
<1>3. f \in Bijection(1 .. k, T)
  BY <1>1, <1>2 DEF Bijection, Injection, Surjection, IsInjective
<1>4. ExistsBijection(1 .. k, T)
  BY <1>3 DEF ExistsBijection
<1>5. IsFiniteSet(1 .. k) /\ Cardinality(1 .. k) = k
  BY FS_Interval
<1> QED BY <1>4, <1>5, FS_Bijection

LEMMA RangeOf ==
  ASSUME NEW q \in Seq(Note)
  PROVE  Range(q) = {q[i] : i \in 1 .. Len(q)} /\ Range(q) \subseteq Note
BY DEF Range

LEMMA IInvInit == Init => IInv
<1> SUFFICES ASSUME Init PROVE IInv OBVIOUS
<1>1. TypeOK
  <2>1. queue \in Seq(Note)
    BY EmptySeq DEF Init
  <2>2. MaxAttempts \in Nat /\ FailureThreshold \in Nat \ {0} /\ SuccessThreshold \in Nat \ {0}
    BY PushAssumption
  <2>3. 0 \in 0 .. MaxAttempts /\ 0 \in 0 .. FailureThreshold - 1 /\ 0 \in 0 .. SuccessThreshold - 1
    BY <2>2
  <2>4. /\ attempts \in [Note -> 0 .. MaxAttempts]
        /\ failures \in [Url -> 0 .. FailureThreshold - 1]
        /\ successes \in [Url -> 0 .. SuccessThreshold - 1]
    BY <2>3 DEF Init
  <2>5. /\ circuit \in [Url -> {"CLOSED", "OPEN", "HALF_OPEN"}] /\ cooling \in [Url -> BOOLEAN]
        /\ \A u \in Url : ~(successes[u] > 0) /\ ~cooling[u]
    BY DEF Init
  <2>6. phase \in [Note -> {"idle", "queued", "backoff"} \cup InFlight \cup Final] /\ active \in Nat
    BY DEF Init
  <2> QED BY <2>1, <2>4, <2>5, <2>6 DEF Init, TypeOK
<1>2. AttemptLeft
  BY PushAssumption DEF Init, AttemptLeft
<1>3. Slots
  <2>1. Flying = {}
    BY DEF Init, Flying, InFlight
  <2> QED BY <2>1, FS_EmptySet, PushAssumption DEF Init, Slots
<1>4. Queue
  <2>1. Len(<<>>) = 0 /\ <<>> \in Seq(Note) /\ 1 .. 0 = {}
    BY EmptySeq
  <2>2. Range(<<>>) = {<<>>[i] : i \in 1 .. Len(<<>>)}
    BY <2>1, RangeOf
  <2>3. Range(<<>>) = {} /\ Distinct(<<>>)
    BY <2>1, <2>2 DEF Distinct
  <2> QED BY <2>3 DEF Init, Queue
<1> QED BY <1>1, <1>2, <1>3, <1>4 DEF IInv

\* The breakers keep their types, whatever call reports to them.
BreakerOK ==
  /\ circuit \in [Url -> {"CLOSED", "OPEN", "HALF_OPEN"}]
  /\ failures \in [Url -> 0 .. FailureThreshold - 1]
  /\ successes \in [Url -> 0 .. SuccessThreshold - 1]
  /\ cooling \in [Url -> BOOLEAN]
  /\ \A u \in Url : successes[u] > 0 => circuit[u] = "HALF_OPEN"
  /\ \A u \in Url : cooling[u] => circuit[u] = "OPEN"

LEMMA BreakerSteps ==
  ASSUME BreakerOK
  PROVE  /\ \A u \in Url : onSuccess(u) \/ onFailure(u) => BreakerOK'
         /\ \A probed \in SUBSET {u \in Url : Admits(u)} : Probe(probed) => BreakerOK'
<1> USE PushAssumption DEF BreakerOK
<1>1. ASSUME NEW u \in Url, onSuccess(u) PROVE BreakerOK'
  BY <1>1 DEF onSuccess
<1>2. ASSUME NEW u \in Url, onFailure(u) PROVE BreakerOK'
  BY <1>2 DEF onFailure
<1>3. ASSUME NEW probed \in SUBSET {u \in Url : Admits(u)}, Probe(probed) PROVE BreakerOK'
  BY <1>3 DEF Probe, Admits
<1> QED BY <1>1, <1>2, <1>3

-----------------------------------------------------------------------------
(***************************************************************************)
(* The dispatcher hands out as many slots as are free, or as the queue has *)
(* use for.  The notifications of q are distinct, none of them is in       *)
(* flight, and no other one is queued.                                     *)
(***************************************************************************)
Dispatchable(q) ==
  /\ q \in Seq(Note) /\ Distinct(q)
  /\ \A n \in Range(q) : phase[n] \in {"idle", "queued", "backoff"}
  /\ {n \in Note : phase[n] = "queued"} \subseteq Range(q)

LEMMA Dispatches ==
  ASSUME IInv, ~stopped, NEW q, Dispatchable(q), processQueue(q),
         UNCHANGED <<url, attempts, stopped>>
  PROVE  IInv'
<1> USE PushAssumption DEF IInv, Dispatchable
<1> DEFINE free == Limit - active
           k == IF Len(q) < free THEN Len(q) ELSE free
           launched == {q[i] : i \in 1 .. k}
           admitted == {n \in launched : Admits(url[n])}
           rest == {q[i] : i \in k + 1 .. Len(q)}
<1>1. k \in 0 .. Len(q) /\ active + k \in Nat /\ active + k <= Limit /\ active \in Nat
  <2>1. Len(q) \in Nat /\ active \in Nat /\ Limit \in Nat /\ active <= Limit
    BY LenProperties DEF TypeOK, Slots
  <2> QED BY <2>1
<1>2. /\ queue' = SubSeq(q, k + 1, Len(q)) /\ active' = active + k /\ polling' = (k < Len(q))
      /\ phase' = [n \in Note |-> CASE n \in admitted -> "posting"
                                     [] n \in launched \ admitted -> "refused"
                                     [] n \in Range(q) \ launched -> "queued"
                                     [] OTHER -> phase[n]]
      /\ Probe({url[n] : n \in admitted})
  BY DEF processQueue
<1>3. Range(q) = {q[i] : i \in 1 .. Len(q)} /\ Range(q) \subseteq Note
  BY RangeOf
<1>4. launched \subseteq Range(q) /\ admitted \subseteq launched /\ launched \subseteq Note
  BY <1>1, <1>3
<1>5. rest = Range(q) \ launched
  <2>1. \A i \in 1 .. Len(q) : i \in 1 .. k \/ i \in k + 1 .. Len(q)
    BY <1>1
  <2>2. \A i \in 1 .. k, j \in k + 1 .. Len(q) : q[i] # q[j]
    BY <1>1 DEF Distinct
  <2>3. \A j \in k + 1 .. Len(q) : j \in 1 .. Len(q)
    BY <1>1
  <2> QED BY <1>3, <2>1, <2>2, <2>3
<1> HIDE DEF k, launched, admitted, rest
<1>6. BreakerOK'
  <2>1. {url[n] : n \in admitted} \in SUBSET {u \in Url : Admits(u)}
    BY <1>4 DEF admitted, TypeOK
  <2>2. BreakerOK
    BY DEF BreakerOK, TypeOK
  <2> QED BY <1>2, <2>1, <2>2, BreakerSteps
<1>7. \A n \in Note :
        /\ n \in launched => phase'[n] \in {"posting", "refused"}
        /\ n \in rest => phase'[n] = "queued"
        /\ n \notin Range(q) => phase'[n] = phase[n]
  BY <1>2, <1>4, <1>5 DEF admitted
<1>8. queue' \in Seq(Note) /\ Range(queue')  = rest /\ Distinct(queue') /\ (queue' # <<>> => k < Len(q))
  <2> DEFINE s == SubSeq(q, k + 1, Len(q))
  <2>1. /\ s \in Seq(Note) /\ Len(s) = IF k + 1 <= Len(q) THEN Len(q) - k ELSE 0
        /\ \A i \in 1 .. Len(q) - k : s[i] = q[k + i]
    <3>1. Len(q) \in Int /\ k + 1 \in Int /\ k \in Int /\ \A i \in k + 1 .. Len(q) : q[i] \in Note
      BY <1>1
    <3>2. /\ SubSeq(q, k + 1, Len(q)) \in Seq(Note)
          /\ Len(SubSeq(q, k + 1, Len(q))) = IF k + 1 <= Len(q) THEN Len(q) - (k + 1) + 1 ELSE 0
          /\ \A i \in 1 .. Len(q) - (k + 1) + 1 : SubSeq(q, k + 1, Len(q))[i] = q[(k + 1) + i - 1]
      BY <3>1, SubSeqProperties
    <3>3. Len(q) - (k + 1) + 1 = Len(q) - k
      BY <3>1
    <3>4. ASSUME NEW i \in 1 .. Len(q) - k PROVE s[i] = q[k + i]
      <4>1. (k + 1) + i - 1 = k + i /\ i \in 1 .. Len(q) - (k + 1) + 1
        BY <3>1, <3>3
      <4>2. s[i] = q[(k + 1) + i - 1]
        BY <3>2, <4>1
      <4> QED BY <4>1, <4>2
    <3> QED BY <3>2, <3>3, <3>4
  <2> HIDE DEF s
  <2>2. Len(s) = Len(q) - k
    BY <1>1, <2>1
  <2>3. Range(s) = rest
    <3>1. Range(s) = {s[i] : i \in 1 .. Len(s)}
      BY <2>1, RangeOf
    <3>2. \A i \in 1 .. Len(s) : k + i \in k + 1 .. Len(q)
      BY <1>1, <2>2
    <3>3. \A j \in k + 1 .. Len(q) : j - k \in 1 .. Len(s) /\ k + (j - k) = j
      BY <1>1, <2>2
    <3> QED BY <2>1, <2>2, <3>1, <3>2, <3>3 DEF rest
  <2>4. Distinct(s)
    <3>1. ASSUME NEW i \in 1 .. Len(s), NEW j \in 1 .. Len(s), s[i] = s[j] PROVE i = j
      <4>1. k + i \in 1 .. Len(q) /\ k + j \in 1 .. Len(q)
        BY <1>1, <2>2
      <4>2. k + i = k + j
        BY <2>1, <2>2, <3>1, <4>1 DEF Distinct
      <4> QED BY <1>1, <4>2
    <3> QED BY <3>1 DEF Distinct
  <2>5. s # <<>> => k < Len(q)
    <3>1. s # <<>> => Len(s) # 0
      BY <2>1, EmptySeq
    <3> QED BY <1>1, <2>2, <3>1
  <2> QED BY <1>2, <2>1, <2>3, <2>4, <2>5 DEF s
<1>9. phase' \in [Note -> {"idle", "queued", "backoff"} \cup InFlight \cup Final]
  BY <1>2 DEF TypeOK, InFlight
<1>10. TypeOK'
  <2>1. polling' \in BOOLEAN
    BY <1>2
  <2>2. active' \in Nat
    BY <1>1, <1>2
  <2>3. UNCHANGED <<url, attempts, stopped>> /\ queue' \in Seq(Note)
    BY <1>8
  <2> QED BY <1>6, <1>9, <2>1, <2>2, <2>3 DEF TypeOK, BreakerOK
<1>11. AttemptLeft'
  <2>1. ASSUME NEW n \in Note, phase'[n] \in {"idle", "queued", "backoff"} \cup InFlight
        PROVE  phase[n] \in {"idle", "queued", "backoff"} \cup InFlight
    BY <1>3, <1>7, <2>1
  <2> QED BY <2>1 DEF AttemptLeft
<1>12. Slots'
  <2>1. Flying' = Flying \cup launched
    <3>1. \A n \in Note : n \in launched => phase'[n] \in InFlight
      BY <1>7 DEF InFlight
    <3>2. \A n \in Note : n \in Range(q) \ launched => phase'[n] \notin InFlight /\ phase[n] \notin InFlight
      BY <1>5, <1>7 DEF InFlight
    <3>3. \A n \in Note : n \notin Range(q) => phase'[n] = phase[n]
      BY <1>7
    <3> QED BY <1>3, <1>4, <3>1, <3>2, <3>3 DEF Flying
  <2>2. Flying \cap launched = {}
    BY <1>4 DEF Flying, InFlight
  <2>3. IsFiniteSet(launched) /\ Cardinality(launched) = k
    BY <1>1, DistinctCounted DEF launched
  <2>4. IsFiniteSet(Flying) /\ Cardinality(Flying) = active
    BY FlyingFinite DEF Slots
  <2>5. Cardinality(Flying \cup launched) =
          Cardinality(Flying) + Cardinality(launched) - Cardinality(Flying \cap launched)
    BY <2>3, <2>4, FS_Union
  <2>6. Cardinality({}) = 0
    BY FS_EmptySet
  <2>7. Cardinality(Flying') = active + k
    <3>1. Cardinality(Flying \cup launched) = active + k - 0
      BY <2>2, <2>3, <2>4, <2>5, <2>6
    <3>2. active + k - 0 = active + k
      BY <1>1
    <3> QED BY <2>1, <3>1, <3>2
  <2> QED BY <1>1, <1>2, <2>7 DEF Slots
<1>13. Queue'
  <2>1. rest = {n \in Note : phase'[n] = "queued"}
    BY <1>3, <1>4, <1>5, <1>7
  <2> QED BY <1>2, <1>8, <2>1 DEF Queue, Range, Distinct
<1> QED BY <1>10, <1>11, <1>12, <1>13

\* sendPushNotification and a retry.
LEMMA EnqueueInv ==
  ASSUME IInv, NEW n \in Note, phase[n] \in {"idle", "backoff"}, Enqueue(n),
         UNCHANGED <<url, attempts, stopped>>
  PROVE  IInv'
<1> USE DEF IInv
<1>1. /\ Append(queue, n) \in Seq(Note) /\ Append(queue, n) # <<>>
      /\ Len(Append(queue, n)) = Len(queue) + 1 /\ Append(queue, n)[Len(queue) + 1] = n
      /\ \A i \in 1 .. Len(queue) : Append(queue, n)[i] = queue[i]
      /\ Len(queue) \in Nat
  BY AppendProperties, LenProperties DEF TypeOK
<1>2. Range(queue) = {queue[i] : i \in 1 .. Len(queue)}
  BY RangeOf DEF TypeOK
<1>3. Range(Append(queue, n)) = Range(queue) \cup {n}
  <2>1. Range(Append(queue, n)) = {Append(queue, n)[i] : i \in 1 .. Len(queue) + 1}
    BY <1>1, RangeOf
  <2>2. 1 .. Len(queue) + 1 = (1 .. Len(queue)) \cup {Len(queue) + 1}
    BY <1>1
  <2> QED BY <1>1, <1>2, <2>1, <2>2
<1>4. Distinct(Append(queue, n))
  <2>1. \A i \in 1 .. Len(queue) : queue[i] # n
    BY <1>2 DEF Queue
  <2>2. \A i \in 1 .. Len(queue) + 1 : i \in 1 .. Len(queue) \/ i = Len(queue) + 1
    BY <1>1
  <2> QED BY <1>1, <2>1, <2>2 DEF Queue, Distinct
<1>5. CASE stopped /\ phase' = [phase EXCEPT ![n] = "muted"]
           /\ UNCHANGED <<queue, active, polling, breakerVars>>
  <2>1. TypeOK' /\ AttemptLeft'
    BY <1>5 DEF TypeOK, AttemptLeft, breakerVars, Final, InFlight
  <2>2. Flying' = Flying
    BY <1>5 DEF Flying, InFlight, TypeOK
  <2>3. {m \in Note : phase'[m] = "queued"} = {m \in Note : phase[m] = "queued"}
    BY <1>5 DEF TypeOK
  <2> QED BY <1>5, <2>1, <2>2, <2>3 DEF Slots, Queue
<1>6. CASE ~stopped /\ polling /\ queue' = Append(queue, n)
           /\ phase' = [phase EXCEPT ![n] = "queued"] /\ UNCHANGED <<active, polling, breakerVars>>
  <2>1. TypeOK' /\ AttemptLeft'
    BY <1>1, <1>6 DEF TypeOK, AttemptLeft, breakerVars, Final, InFlight
  <2>2. Flying' = Flying
    BY <1>6 DEF Flying, InFlight, TypeOK
  <2>3. {m \in Note : phase'[m] = "queued"} = {m \in Note : phase[m] = "queued"} \cup {n}
    BY <1>6 DEF TypeOK
  <2> QED BY <1>3, <1>4, <1>6, <2>1, <2>2, <2>3 DEF Slots, Queue
<1>7. CASE ~stopped /\ ~polling /\ processQueue(Append(queue, n))
  <2>1. Dispatchable(Append(queue, n))
    BY <1>1, <1>3, <1>4 DEF Dispatchable, Queue
  <2> QED BY <1>7, <2>1, Dispatches
<1> QED BY <1>5, <1>6, <1>7 DEF Enqueue

LEMMA IInvNext == IInv /\ [Next]_vars => IInv'
<1> SUFFICES ASSUME IInv, [Next]_vars PROVE IInv' OBVIOUS
<1> USE DEF IInv
<1>1. ASSUME NEW n \in Note, SendPushNotification(n) \/ Retry(n) PROVE IInv'
  BY <1>1, EnqueueInv DEF SendPushNotification, Retry
<1>2. ASSUME NEW n \in Note, Posted(n) \/ PostFails(n) PROVE IInv'
  <2>1. /\ phase[n] = "posting" /\ phase' = [phase EXCEPT ![n] = phase'[n]]
        /\ phase'[n] \in {"posted", "erred"}
        /\ UNCHANGED <<url, attempts, queue, active, polling, stopped>>
        /\ onSuccess(url[n]) \/ onFailure(url[n])
    BY <1>2 DEF Posted, PostFails, TypeOK
  <2>2. BreakerOK'
    <3>1. BreakerOK /\ url[n] \in Url
      BY DEF BreakerOK, TypeOK
    <3> QED BY <2>1, <3>1, BreakerSteps
  <2>3. TypeOK'
    BY <2>1, <2>2 DEF TypeOK, BreakerOK, InFlight
  <2>4. AttemptLeft'
    BY <2>1 DEF AttemptLeft, InFlight, TypeOK
  <2>5. Flying' = Flying /\ {m \in Note : phase'[m] = "queued"} = {m \in Note : phase[m] = "queued"}
    BY <2>1 DEF Flying, InFlight, TypeOK
  <2> QED BY <2>1, <2>3, <2>4, <2>5 DEF Slots, Queue
<1>3. ASSUME NEW n \in Note, Settles(n) PROVE IInv'
  <2>1. /\ phase[n] \in {"posted", "erred", "refused"} /\ active' = active - 1
        /\ attempts' = [attempts EXCEPT ![n] = IF phase[n] = "erred" THEN @ + 1 ELSE @]
        /\ phase' = [phase EXCEPT ![n] = phase'[n]]
        /\ phase'[n] \in {"delivered", "skipped", "backoff", "failed"}
        /\ phase'[n] = "backoff" => attempts'[n] < MaxAttempts
        /\ UNCHANGED <<url, queue, polling, stopped, breakerVars>>
    BY <1>3 DEF Settles, TypeOK
  <2>2. attempts[n] < MaxAttempts /\ attempts[n] \in Nat /\ MaxAttempts \in Nat
    BY <2>1, PushAssumption DEF AttemptLeft, InFlight, TypeOK
  <2>3. Flying' = Flying \ {n} /\ n \in Flying
    BY <2>1 DEF Flying, InFlight, TypeOK
  <2>4. IsFiniteSet(Flying) /\ Cardinality(Flying) \in Nat
        /\ Cardinality(Flying \ {n}) \in Nat /\ Cardinality(Flying \ {n}) = Cardinality(Flying) - 1
    BY <2>3, FlyingFinite, FS_RemoveElement, FS_CardinalityType
  <2>5. Slots' /\ active' \in Nat
    BY <2>1, <2>3, <2>4, PushAssumption DEF Slots
  <2>6. attempts' \in [Note -> 0 .. MaxAttempts]
    BY SMTT(20), <2>1, <2>2 DEF TypeOK
  <2>7. TypeOK'
    BY <2>1, <2>5, <2>6 DEF TypeOK, Final, breakerVars
  <2>8. AttemptLeft'
    <3>1. \A m \in Note \ {n} : phase'[m] = phase[m] /\ attempts'[m] = attempts[m]
      BY <2>1 DEF TypeOK
    <3> QED BY <2>1, <3>1 DEF AttemptLeft, InFlight
  <2>9. {m \in Note : phase'[m] = "queued"} = {m \in Note : phase[m] = "queued"}
    BY <2>1 DEF TypeOK
  <2> QED BY <2>1, <2>5, <2>7, <2>8, <2>9 DEF Queue
<1>4. ASSUME NEW u \in Url, CoolDown(u) PROVE IInv'
  BY <1>4 DEF CoolDown, TypeOK, AttemptLeft, Slots, Flying, Queue
<1>5. CASE Poll
  <2>1. CASE stopped
    <3>1. polling' = FALSE /\ UNCHANGED <<phase, queue, active, breakerVars, url, attempts, stopped>>
      BY <1>5, <2>1 DEF Poll
    <3> QED BY <2>1, <3>1 DEF TypeOK, AttemptLeft, Slots, Flying, Queue, breakerVars
  <2>2. CASE ~stopped
    <3>1. Dispatchable(queue)
      BY DEF Dispatchable, Queue, TypeOK
    <3> QED BY <1>5, <2>2, <3>1, Dispatches DEF Poll
  <2> QED BY <2>1, <2>2
<1>6. CASE Stop
  <2>1. /\ phase' = [n \in Note |-> IF phase[n] = "queued" THEN "dropped" ELSE phase[n]]
        /\ queue' = <<>> /\ stopped' = TRUE
        /\ UNCHANGED <<url, attempts, active, polling, breakerVars>>
    BY <1>6 DEF Stop
  <2>2. TypeOK'
    BY <2>1, EmptySeq DEF TypeOK, Final, breakerVars
  <2>3. AttemptLeft' /\ Flying' = Flying
    BY <2>1 DEF AttemptLeft, InFlight, Flying
  <2>4. Range(<<>>) = {} /\ Distinct(<<>>)
    <3>1. Len(<<>>) = 0 /\ <<>> \in Seq(Note) /\ 1 .. 0 = {}
      BY EmptySeq
    <3>2. Range(<<>>) = {<<>>[i] : i \in 1 .. Len(<<>>)}
      BY <3>1, RangeOf
    <3> QED BY <3>1, <3>2 DEF Distinct
  <2>5. {n \in Note : phase'[n] = "queued"} = {}
    BY <2>1
  <2> QED BY <2>1, <2>2, <2>3, <2>4, <2>5 DEF Slots, Queue
<1>7. CASE UNCHANGED vars
  BY <1>7 DEF vars, breakerVars, TypeOK, AttemptLeft, Slots, Flying, Queue
<1> QED BY <1>1, <1>2, <1>3, <1>4, <1>5, <1>6, <1>7 DEF Next, Delivery

LEMMA IInvAlways == Spec => []IInv
BY IInvInit, IInvNext, PTL DEF Spec

\* Every variable keeps its type, and a breaker's counters fit its state whenever
\* the results of the calls it admitted come in.
THEOREM TypeCorrect == Spec => []TypeOK
<1>1. IInv => TypeOK
  BY DEF IInv
<1> QED BY <1>1, IInvAlways, PTL

\* For every limit and whatever the webhooks do, slots are neither lost nor used
\* twice, and a queued notification is in the queue, once, with the dispatcher awake.
THEOREM NoSlotIsLost == Spec => []SlotsAndQueue
<1>1. IInv => SlotsAndQueue
  <2> SUFFICES ASSUME IInv PROVE SlotsAndQueue OBVIOUS
  <2>1. Len(queue) \in 0 .. Len(queue) /\ queue \in Seq(Note) /\ Distinct(queue)
    BY LenProperties DEF IInv, TypeOK, Queue
  <2>2. Range(queue) = {queue[i] : i \in 1 .. Len(queue)}
    BY <2>1, RangeOf
  <2>3. Len(queue) = Cardinality(Range(queue))
    BY <2>1, <2>2, DistinctCounted
  <2> QED BY <2>3 DEF IInv, Slots, Queue, SlotsAndQueue, SlotsAreExact, QueueIsServed, Flying
<1> QED BY <1>1, IInvAlways, PTL

\* No POST starts while its circuit cools down, and none is closed without a trial.
THEOREM CircuitsProtect == Spec => OpenCircuitIsQuiet
<1> DEFINE Quiet ==
      /\ \A n \in Note : phase[n] # "posting" /\ phase'[n] = "posting" => ~cooling[url[n]]
      /\ \A u \in Url : circuit[u] = "OPEN" => circuit'[u] # "CLOSED"
<1>1. IInv /\ [Next]_vars => [Quiet]_vars
  <2> SUFFICES ASSUME IInv, Next PROVE Quiet OBVIOUS
  <2>1. ASSUME NEW q, processQueue(q) PROVE Quiet
    BY <2>1 DEF processQueue, Probe, Admits, IInv, TypeOK
  <2>2. ASSUME NEW n \in Note, SendPushNotification(n) \/ Retry(n) PROVE Quiet
    BY <2>1, <2>2 DEF SendPushNotification, Retry, Enqueue, breakerVars, IInv, TypeOK
  <2>3. ASSUME NEW n \in Note, Posted(n) \/ PostFails(n) PROVE Quiet
    BY ZenonT(40), <2>3 DEF Posted, PostFails, onSuccess, onFailure, IInv, TypeOK
  <2>4. ASSUME NEW n \in Note, Settles(n) PROVE Quiet
    BY <2>4 DEF Settles, breakerVars, IInv, TypeOK
  <2>5. ASSUME NEW u \in Url, CoolDown(u) PROVE Quiet
    BY <2>5 DEF CoolDown
  <2>6. CASE Poll
    BY <2>1, <2>6 DEF Poll, breakerVars
  <2>7. CASE Stop
    BY <2>7 DEF Stop, breakerVars
  <2> QED BY <2>2, <2>3, <2>4, <2>5, <2>6, <2>7 DEF Next, Delivery
<1> QED BY <1>1, IInvAlways, PTL DEF Spec, OpenCircuitIsQuiet
=============================================================================
