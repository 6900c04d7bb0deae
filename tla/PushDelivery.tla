---------------------------- MODULE PushDelivery ----------------------------
(***************************************************************************)
(* Delivery of task updates to webhooks: PushNotificationService with its  *)
(* CircuitBreakers, and the retries of sendPushNotification.               *)
(*                                                                         *)
(* Every change of a task's state makes one notification.  It waits in a   *)
(* queue for one of Limit slots; a dispatcher, processQueue, hands the     *)
(* slots out and polls while there is none.  The POST itself goes through  *)
(* the circuit breaker of its URL.                                         *)
(***************************************************************************)
EXTENDS Naturals, Sequences, FiniteSets, Functions

CONSTANTS
  Note,             \* notifications: calls of sendPushNotification
  Url,              \* webhook URLs
  Limit,            \* maxConcurrent
  MaxAttempts,      \* maxRetries of retryWithBackoff
  FailureThreshold, \* failures that open a circuit
  SuccessThreshold  \* successes that close it again

ASSUME PushAssumption ==
  /\ IsFiniteSet(Note)
  /\ {Limit, MaxAttempts, FailureThreshold, SuccessThreshold} \subseteq Nat \ {0}

VARIABLES
  url,       \* url[n]: the URL of the configuration n was sent with
  phase,     \* phase[n]: where notification n is
  attempts,  \* attempts[n]: the attempts of n that failed
  queue,     \* the queue of sendNotification
  active,    \* activeCount
  polling,   \* isProcessing: the dispatcher waits for its 100 ms timer
  stopped,   \* isStopped
  circuit,   \* circuit[u]: the state of u's breaker
  failures,  \* failures[u]: its failureCount
  successes, \* successes[u]: its successCount
  cooling    \* cooling[u]: Date.now() < nextAttemptAt

breakerVars == <<circuit, failures, successes, cooling>>
vars == <<url, phase, attempts, queue, active, polling, stopped, breakerVars>>

\* executeDelivery was called and its slot is not given back yet.
InFlight == {"posting", "posted", "erred", "refused"}

\* The promise of retryWithBackoff is settled; for "dropped" it never is.
Final == {"delivered", "skipped", "failed", "muted", "dropped"}

Init ==
  /\ url \in [Note -> Url]
  /\ phase = [n \in Note |-> "idle"]
  /\ attempts = [n \in Note |-> 0]
  /\ queue = <<>>
  /\ active = 0
  /\ polling = FALSE
  /\ stopped = FALSE
  /\ circuit = [u \in Url |-> "CLOSED"]
  /\ failures = [u \in Url |-> 0]
  /\ successes = [u \in Url |-> 0]
  /\ cooling = [u \in Url |-> FALSE]

-----------------------------------------------------------------------------
(***************************************************************************)
(* CircuitBreaker.  A call that execute admits reports its result whenever *)
(* it ends, in whatever state the breaker is then.                         *)
(***************************************************************************)
\* Mutant: an OPEN circuit lets calls through.
AdmitsAll(u) == TRUE
Admits(u) == circuit[u] = "OPEN" => ~cooling[u]

\* execute is called, and lets the call through, for the URLs in probed.
Probe(probed) ==
  LET reopened == {u \in probed : circuit[u] = "OPEN"}
  IN /\ circuit' = [u \in Url |-> IF u \in reopened THEN "HALF_OPEN" ELSE circuit[u]]
     /\ successes' = [u \in Url |-> IF u \in reopened THEN 0 ELSE successes[u]]
     /\ UNCHANGED <<failures, cooling>>

\* Mutant: every success is counted, whatever the state.
CountsEverySuccess(u) ==
  LET closes == circuit[u] = "HALF_OPEN" /\ successes[u] + 1 >= SuccessThreshold
  IN /\ failures' = [failures EXCEPT ![u] = 0]
     /\ circuit' = [circuit EXCEPT ![u] = IF closes THEN "CLOSED" ELSE @]
     /\ successes' = [successes EXCEPT ![u] = IF closes THEN 0 ELSE @ + 1]
     /\ UNCHANGED cooling

onSuccess(u) ==
  LET closes == circuit[u] = "HALF_OPEN" /\ successes[u] + 1 >= SuccessThreshold
  IN /\ failures' = [failures EXCEPT ![u] = 0]
     /\ circuit' = [circuit EXCEPT ![u] = IF closes THEN "CLOSED" ELSE @]
     /\ successes' = [successes EXCEPT ![u] = IF closes THEN 0
                                              ELSE IF circuit[u] = "HALF_OPEN" THEN @ + 1
                                              ELSE @]
     /\ UNCHANGED cooling

onFailure(u) ==
  LET opens == circuit[u] = "HALF_OPEN" \/ failures[u] + 1 >= FailureThreshold
  IN /\ circuit' = [circuit EXCEPT ![u] = IF opens THEN "OPEN" ELSE @]
     /\ failures' = [failures EXCEPT ![u] = IF opens THEN 0 ELSE @ + 1]
     /\ successes' = [successes EXCEPT ![u] = IF opens THEN 0 ELSE @]
     /\ cooling' = [cooling EXCEPT ![u] = @ \/ opens]

\* nextAttemptAt has come.
CoolDown(u) ==
  /\ cooling[u]
  /\ cooling' = [cooling EXCEPT ![u] = FALSE]
  /\ UNCHANGED <<url, phase, attempts, queue, active, polling, stopped, circuit, failures, successes>>

-----------------------------------------------------------------------------
(***************************************************************************)
(* The loop of processQueue over the queue q, to the end of the queue or   *)
(* to the first time no slot is free: one turn of the event loop, in which *)
(* the clock is read once.                                                 *)
(***************************************************************************)
processQueue(q) ==
  LET free == Limit - active
      k == IF Len(q) < free THEN Len(q) ELSE free
      launched == {q[i] : i \in 1..k}
      admitted == {n \in launched : Admits(url[n])}
  IN /\ queue' = SubSeq(q, k + 1, Len(q))
     /\ active' = active + k
     /\ polling' = (k < Len(q))
     /\ phase' = [n \in Note |-> CASE n \in admitted -> "posting"
                                   [] n \in launched \ admitted -> "refused"
                                   [] n \in Range(q) \ launched -> "queued"
                                   [] OTHER -> phase[n]]
     /\ Probe({url[n] : n \in admitted})

\* sendNotification.
Enqueue(n) ==
  \/ /\ stopped
     /\ phase' = [phase EXCEPT ![n] = "muted"]
     /\ UNCHANGED <<queue, active, polling, breakerVars>>
  \/ /\ ~stopped /\ polling
     /\ queue' = Append(queue, n)
     /\ phase' = [phase EXCEPT ![n] = "queued"]
     /\ UNCHANGED <<active, polling, breakerVars>>
  \/ /\ ~stopped /\ ~polling
     /\ processQueue(Append(queue, n))

\* The state of a task with a push configuration changed.
SendPushNotification(n) ==
  /\ phase[n] = "idle"
  /\ Enqueue(n)
  /\ UNCHANGED <<url, attempts, stopped>>

\* The backoff of retryWithBackoff is over.
Retry(n) ==
  /\ phase[n] = "backoff"
  /\ Enqueue(n)
  /\ UNCHANGED <<url, attempts, stopped>>

\* Mutant: the dispatcher looks at the queue once.
PollOnce ==
  /\ polling
  /\ IF stopped \/ active >= Limit
     THEN polling' = FALSE /\ UNCHANGED <<phase, queue, active, breakerVars>>
     ELSE processQueue(queue)
  /\ UNCHANGED <<url, attempts, stopped>>

\* The timer of the dispatcher fires.
Poll ==
  /\ polling
  /\ IF stopped
     THEN polling' = FALSE /\ UNCHANGED <<phase, queue, active, breakerVars>>
     ELSE processQueue(queue)
  /\ UNCHANGED <<url, attempts, stopped>>

-----------------------------------------------------------------------------
\* The webhook answered with a 2xx status.
Posted(n) ==
  /\ phase[n] = "posting"
  /\ phase' = [phase EXCEPT ![n] = "posted"]
  /\ onSuccess(url[n])
  /\ UNCHANGED <<url, attempts, queue, active, polling, stopped>>

\* Another status, a network error, a refused URL or the timeout.
PostFails(n) ==
  /\ phase[n] = "posting"
  /\ phase' = [phase EXCEPT ![n] = "erred"]
  /\ onFailure(url[n])
  /\ UNCHANGED <<url, attempts, queue, active, polling, stopped>>

\* Mutant: only a success gives the slot back.
SettlesKeepingSlot(n) ==
  /\ phase[n] \in {"posted", "erred", "refused"}
  /\ active' = IF phase[n] = "erred" THEN active ELSE active - 1
  /\ attempts' = [attempts EXCEPT ![n] = IF phase[n] = "erred" THEN @ + 1 ELSE @]
  /\ phase' = [phase EXCEPT ![n] = CASE @ = "posted" -> "delivered"
                                     [] @ = "refused" -> "skipped"
                                     [] attempts'[n] < MaxAttempts -> "backoff"
                                     [] OTHER -> "failed"]
  /\ UNCHANGED <<url, queue, polling, stopped, breakerVars>>

\* The microtasks that follow: the promise of sendNotification settles, its
\* slot comes back, and retryWithBackoff returns, throws or sets its timer.
Settles(n) ==
  /\ phase[n] \in {"posted", "erred", "refused"}
  /\ active' = active - 1
  /\ attempts' = [attempts EXCEPT ![n] = IF phase[n] = "erred" THEN @ + 1 ELSE @]
  /\ phase' = [phase EXCEPT ![n] = CASE @ = "posted" -> "delivered"
                                     [] @ = "refused" -> "skipped"
                                     [] attempts'[n] < MaxAttempts -> "backoff"
                                     [] OTHER -> "failed"]
  /\ UNCHANGED <<url, queue, polling, stopped, breakerVars>>

\* stop(): queued notifications are forgotten, their promises never settle.
Stop ==
  /\ ~stopped
  /\ stopped' = TRUE
  /\ queue' = <<>>
  /\ phase' = [n \in Note |-> IF phase[n] = "queued" THEN "dropped" ELSE phase[n]]
  /\ UNCHANGED <<url, attempts, active, polling, breakerVars>>

-----------------------------------------------------------------------------
Delivery(n) == Posted(n) \/ PostFails(n)

Next ==
  \/ \E n \in Note :
       SendPushNotification(n) \/ Retry(n) \/ Delivery(n) \/ Settles(n)
  \/ \E u \in Url : CoolDown(u)
  \/ Poll
  \/ Stop

Spec == Init /\ [][Next]_vars

(***************************************************************************)
(* Timers fire, microtasks run, and a POST ends: validateAndFetch is given *)
(* a timeout of 10 seconds.  Nothing is assumed of the webhooks.           *)
(***************************************************************************)
Fairness ==
  /\ WF_vars(Poll)
  /\ \A n \in Note : WF_vars(Retry(n)) /\ WF_vars(Delivery(n)) /\ WF_vars(Settles(n))

FairSpec == Spec /\ Fairness

-----------------------------------------------------------------------------
TypeOK ==
  /\ url \in [Note -> Url]
  /\ phase \in [Note -> {"idle", "queued", "backoff"} \cup InFlight \cup Final]
  /\ attempts \in [Note -> 0..MaxAttempts]
  /\ queue \in Seq(Note)
  /\ active \in Nat
  /\ polling \in BOOLEAN
  /\ stopped \in BOOLEAN
  /\ circuit \in [Url -> {"CLOSED", "OPEN", "HALF_OPEN"}]
  /\ failures \in [Url -> 0..FailureThreshold - 1]
  /\ successes \in [Url -> 0..SuccessThreshold - 1]
  /\ cooling \in [Url -> BOOLEAN]
  \* The counters belong to the state, whenever results of admitted calls arrive.
  /\ \A u \in Url : successes[u] > 0 => circuit[u] = "HALF_OPEN"
  /\ \A u \in Url : cooling[u] => circuit[u] = "OPEN"

(***************************************************************************)
(* No slot is lost or used twice: activeCount is the number of deliveries  *)
(* in flight, whatever way each of them ends, and never more than          *)
(* maxConcurrent.  The queue holds the queued notifications, each once,    *)
(* and while it holds one the dispatcher is awake: a notification that     *)
(* found every slot taken is not forgotten when they come back.            *)
(***************************************************************************)
SlotsAreExact ==
  /\ active = Cardinality({n \in Note : phase[n] \in InFlight})
  /\ active <= Limit
QueueIsServed ==
  /\ Range(queue) = {n \in Note : phase[n] = "queued"}
  /\ Len(queue) = Cardinality(Range(queue))
  /\ queue # <<>> => polling /\ ~stopped
SlotsAndQueue == SlotsAreExact /\ QueueIsServed

(***************************************************************************)
(* Once a circuit opened, no POST to its webhook starts before the         *)
(* recovery time is over, and a circuit that is OPEN never closes without  *)
(* a trial.                                                                *)
(***************************************************************************)
OpenCircuitIsQuiet ==
  [][/\ \A n \in Note :
          phase[n] # "posting" /\ phase'[n] = "posting" => ~cooling[url[n]]
     /\ \A u \in Url : circuit[u] = "OPEN" => circuit'[u] # "CLOSED"]_vars

(***************************************************************************)
(* Every notification that was queued is delivered, skipped by an open     *)
(* circuit, or given up after MaxAttempts, unless the service is stopped.  *)
(***************************************************************************)
EveryNotificationSettles ==
  \A n \in Note : phase[n] = "queued" ~> phase[n] \in Final
=============================================================================
