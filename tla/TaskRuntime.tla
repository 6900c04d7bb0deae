----------------------------- MODULE TaskRuntime -----------------------------
(***************************************************************************)
(* The task runtime of packages/core: TaskManager over its task storage,   *)
(* the JSON-RPC methods that change tasks (http/jsonRpcHandler.ts), the    *)
(* processing of accepted messages (A2AServer.processTaskInternal), the    *)
(* metrics observer (http/pushCallbacks.ts, RuntimeMetrics), and the gRPC  *)
(* service (transport-grpc/GrpcServer.ts), which works on the TaskManager  *)
(* of the same server.                                                     *)
(*                                                                         *)
(* The program is one JavaScript thread: what runs between two awaits is   *)
(* one action, and everything else may run at an await.  A message request *)
(* awaits only while the URL of a push configuration is validated, and a   *)
(* processor only while the adapter's handleTask works.                    *)
(***************************************************************************)
EXTENDS TaskLifecycle, Naturals, Sequences, FiniteSets

CONSTANTS
  Task,          \* identifiers randomUUID may give to tasks
  Req,           \* the requests that carry a message
  GrpcReq,       \* those of them that are SendMessage and StreamMessage calls of the
                 \* gRPC service; the others are message/send and message/stream
  PushReq,       \* tasks/pushNotification/set requests
  AdapterStates, \* states an adapter moves its task to while it works
  MaxArtifacts,  \* bound: artifacts one processor stores
  None           \* no task, no request

ASSUME RuntimeAssumption ==
  /\ IsFiniteSet(Task)
  /\ GrpcReq \subseteq Req
  /\ AdapterStates \subseteq OpenTaskStates
  /\ MaxArtifacts \in Nat
  /\ None \notin Task \cup Req \cup PushReq
  /\ Req \cap PushReq = {}

VARIABLES
  state,      \* state[t]: status.state of the stored task, "ABSENT" before insertTask
  history,    \* history[t]: the requests whose messages the task's history holds
  artifacts,  \* artifacts[t]: for each artifact, the request whose handleTask returned it
  extensions, \* extensions[t]: the request whose negotiated extensions the task carries
  push,       \* push[t]: the request that supplied the stored push configuration
  pc,         \* pc[r]: where message request r is
  target,     \* target[r]: the task message request r is about
  held,       \* held[r]: the extensions on the task object r's handler holds; the
              \* task managers hand out copies
  proc,       \* proc[r]: the processTaskInternal call that request r started
  pushPc,     \* pushPc[p]: where push-configuration request p is
  pushTarget, \* pushTarget[p]: the task push-configuration request p is about
  counters    \* the task counters of RuntimeMetrics

taskVars == <<state, history, artifacts, extensions, push>>
reqVars == <<pc, target, held>>
pushVars == <<pushPc, pushTarget>>
vars == <<taskVars, reqVars, proc, pushVars, counters>>

Absent == "ABSENT"
Metric == {"created", "started", "completed", "failed", "canceled"}

Exists(t) == state[t] # Absent
IsTerminal(t) == state[t] \in TERMINAL_TASK_STATES

Init ==
  /\ state = [t \in Task |-> Absent]
  /\ history = [t \in Task |-> <<>>]
  /\ artifacts = [t \in Task |-> <<>>]
  /\ extensions = [t \in Task |-> None]
  /\ push = [t \in Task |-> None]
  /\ pc = [r \in Req |-> "idle"]
  /\ target = [r \in Req |-> None]
  /\ held = [r \in Req |-> None]
  /\ proc = [r \in Req |-> "none"]
  /\ pushPc = [p \in PushReq |-> "idle"]
  /\ pushTarget = [p \in PushReq |-> None]
  /\ counters = [m \in Metric |-> 0]

-----------------------------------------------------------------------------
(***************************************************************************)
(* RuntimeMetrics, called by the observer in the turn that emits the       *)
(* event.                                                                  *)
(***************************************************************************)
\* Mutant: the counter is moved the wrong way.
Decrement(c, m) == [c EXCEPT ![m] = @ - 1]
Increment(c, m) == [c EXCEPT ![m] = @ + 1]

RecordTaskCreated(c) == Increment(c, "created")

\* Mutant: the `break' after the FAILED case is missing.
FailedFallsThrough(c, previous, next) ==
  CASE next = "WORKING" /\ previous # "WORKING" -> Increment(c, "started")
    [] next = "COMPLETED" -> Increment(c, "completed")
    [] next = "FAILED" -> Increment(Increment(c, "failed"), "canceled")
    [] next = "CANCELED" -> Increment(c, "canceled")
    [] OTHER -> c

RecordTaskStateChange(c, previous, next) ==
  CASE next = "WORKING" /\ previous # "WORKING" -> Increment(c, "started")
    [] next = "COMPLETED" -> Increment(c, "completed")
    [] next = "FAILED" -> Increment(c, "failed")
    [] next = "CANCELED" -> Increment(c, "canceled")
    [] OTHER -> c

-----------------------------------------------------------------------------
(***************************************************************************)
(* message/send and message/stream: handleMessageRequest.                  *)
(*                                                                         *)
(* A request without taskId creates its task in its first step, so `from'  *)
(* is the state in which the rest of the handler finds the task and `c'    *)
(* the counters after a possible `created' event.                          *)
(***************************************************************************)
From(t) == IF Exists(t) THEN state[t] ELSE "SUBMITTED"
CountersAfterGetOrCreate(t) ==
  IF Exists(t) THEN counters ELSE RecordTaskCreated(counters)

\* What request r negotiates; nothing over gRPC, which only creates tasks, and
\* without extensions.
Negotiated(r) == IF r \in GrpcReq THEN None ELSE r

\* Mutant: the processor is not started.
AcceptOnly(r, t, from, c, withConfig) ==
  /\ IsMutable(from)
  /\ state' = [state EXCEPT ![t] = "WORKING"]
  /\ history' = [history EXCEPT ![t] = Append(@, r)]
  /\ extensions' = [extensions EXCEPT ![t] = Negotiated(r)]
  /\ push' = IF withConfig THEN [push EXCEPT ![t] = r] ELSE push
  /\ pc' = [pc EXCEPT ![r] = "accepted"]
  /\ counters' = RecordTaskStateChange(c, from, "WORKING")
  /\ UNCHANGED <<artifacts, proc, pushVars>>

\* Extensions negotiated, configuration stored, message appended, state
\* WORKING, processing started: one turn of the event loop.
Accept(r, t, from, c, withConfig) ==
  /\ IsMutable(from)
  /\ state' = [state EXCEPT ![t] = "WORKING"]
  /\ history' = [history EXCEPT ![t] = Append(@, r)]
  /\ extensions' = [extensions EXCEPT ![t] = Negotiated(r)]
  /\ push' = IF withConfig THEN [push EXCEPT ![t] = r] ELSE push
  /\ pc' = [pc EXCEPT ![r] = "accepted"]
  /\ proc' = [proc EXCEPT ![r] = "running"]
  /\ counters' = RecordTaskStateChange(c, from, "WORKING")
  /\ UNCHANGED <<artifacts, pushVars>>

\* The handler throws.  A task it created stays stored in state SUBMITTED.
Refuse(r, t, from, c) ==
  /\ state' = [state EXCEPT ![t] = from]
  /\ counters' = c
  /\ pc' = [pc EXCEPT ![r] = "refused"]
  /\ UNCHANGED <<history, artifacts, extensions, push, proc, pushVars>>

\* Negotiation may throw ExtensionRequired; on a terminal task
\* setTaskExtensions throws TASK_TERMINAL.
Proceed(r, t, from, c, withConfig) ==
  Accept(r, t, from, c, withConfig) \/ Refuse(r, t, from, c)

\* getTask or createTask: the copy the handler goes on with, and hands to
\* handleTask and normalizeArtifacts in the end, is made here.
Fetch(r, t) ==
  /\ target' = [target EXCEPT ![r] = t]
  /\ held' = [held EXCEPT ![r] = extensions[t]]

\* The request carries no push configuration: the handler never awaits.
SendMessage(r, t) ==
  /\ pc[r] = "idle"
  /\ Fetch(r, t)
  /\ Proceed(r, t, From(t), CountersAfterGetOrCreate(t), FALSE)

\* Mutant: the extensions are stored before the await.
NegotiateBeforeAwait(r, t) ==
  /\ pc[r] = "idle"
  /\ Fetch(r, t)
  /\ pc' = [pc EXCEPT ![r] = "validating"]
  /\ state' = [state EXCEPT ![t] = From(t)]
  /\ extensions' = [extensions EXCEPT ![t] = r]
  /\ counters' = CountersAfterGetOrCreate(t)
  /\ UNCHANGED <<history, artifacts, push, proc, pushVars>>

\* The request carries a push configuration: the handler awaits the
\* validation of its URL, with the task already created.
SendMessageWithConfig(r, t) ==
  /\ pc[r] = "idle"
  /\ Fetch(r, t)
  /\ pc' = [pc EXCEPT ![r] = "validating"]
  /\ state' = [state EXCEPT ![t] = From(t)]
  /\ counters' = CountersAfterGetOrCreate(t)
  /\ UNCHANGED <<history, artifacts, extensions, push, proc, pushVars>>

\* The validation resolves, and the handler goes on with the task as it is now.
ConfigAccepted(r) ==
  /\ pc[r] = "validating"
  /\ Proceed(r, target[r], state[target[r]], counters, TRUE)
  /\ UNCHANGED <<target, held>>

\* The validation rejects: InvalidParams.
ConfigRefused(r) ==
  /\ pc[r] = "validating"
  /\ pc' = [pc EXCEPT ![r] = "refused"]
  /\ UNCHANGED <<taskVars, target, held, proc, pushVars, counters>>

\* TaskNotFound, or a task of another principal.
SendMessageDenied(r) ==
  /\ pc[r] = "idle"
  /\ pc' = [pc EXCEPT ![r] = "refused"]
  /\ UNCHANGED <<taskVars, target, held, proc, pushVars, counters>>

\* A SendMessage or StreamMessage call: createGrpcTask creates a task, appends
\* the message, puts the task to work and starts the adapter, in one turn.
GrpcSendMessage(r, t) ==
  /\ pc[r] = "idle"
  /\ ~Exists(t)
  /\ Fetch(r, t)
  /\ Accept(r, t, From(t), CountersAfterGetOrCreate(t), FALSE)

-----------------------------------------------------------------------------
(***************************************************************************)
(* processTaskInternal, and completeGrpcTask for a gRPC call.  The         *)
(* artifacts are appended one by one and the task is closed, all in the    *)
(* turn in which handleTask settles.                                       *)
(***************************************************************************)
Answer(r, n) == [i \in 1..n |-> r]

\* Mutant: the terminal check guards the state change only.
AppendBeforeCheck(r, n) ==
  LET t == target[r]
  IN /\ proc[r] = "running"
     /\ artifacts' = [artifacts EXCEPT ![t] = @ \o Answer(r, n)]
     /\ IF CanTransition(state[t], "COMPLETED")
        THEN /\ state' = [state EXCEPT ![t] = "COMPLETED"]
             /\ counters' = RecordTaskStateChange(counters, state[t], "COMPLETED")
             /\ proc' = [proc EXCEPT ![r] = "completed"]
        ELSE /\ proc' = [proc EXCEPT ![r] = "dropped"]
             /\ UNCHANGED <<state, counters>>
     /\ UNCHANGED <<history, extensions, push, reqVars, pushVars>>

\* handleTask returns n artifacts in time.
HandlerResolves(r, n) ==
  LET t == target[r]
  IN /\ proc[r] = "running"
     /\ CanTransition(state[t], "COMPLETED")
     /\ artifacts' = [artifacts EXCEPT ![t] = @ \o Answer(r, n)]
     /\ state' = [state EXCEPT ![t] = "COMPLETED"]
     /\ counters' = RecordTaskStateChange(counters, state[t], "COMPLETED")
     /\ proc' = [proc EXCEPT ![r] = "completed"]
     /\ UNCHANGED <<history, extensions, push, reqVars, pushVars>>

\* Mutant: the catch block reports the error and forgets the task.
LogAndForget(r, n) ==
  /\ proc[r] = "running"
  /\ proc' = [proc EXCEPT ![r] = "failed"]
  /\ artifacts' = [artifacts EXCEPT ![target[r]] = @ \o Answer(r, n)]
  /\ UNCHANGED <<state, history, extensions, push, reqVars, pushVars, counters>>

\* handleTask rejects, or one of its artifacts cannot be normalized, cloned or
\* stored: the task is FAILED and keeps the n artifacts that were appended
\* before that one.
HandlerRejects(r, n) ==
  LET t == target[r]
  IN /\ proc[r] = "running"
     /\ CanTransition(state[t], "FAILED")
     /\ artifacts' = [artifacts EXCEPT ![t] = @ \o Answer(r, n)]
     /\ state' = [state EXCEPT ![t] = "FAILED"]
     /\ counters' = RecordTaskStateChange(counters, state[t], "FAILED")
     /\ proc' = [proc EXCEPT ![r] = "failed"]
     /\ UNCHANGED <<history, extensions, push, reqVars, pushVars>>

\* handleTask settles after the task was closed by somebody else: the first
\* mutation throws TASK_TERMINAL, so does the FAILED of the catch block, and
\* the result is dropped.
HandlerTooLate(r) ==
  /\ proc[r] = "running"
  /\ IsTerminal(target[r])
  /\ proc' = [proc EXCEPT ![r] = "dropped"]
  /\ UNCHANGED <<taskVars, reqVars, pushVars, counters>>

\* An adapter at work calls getTaskManager().updateTaskState.
AdapterUpdates(r, next) ==
  LET t == target[r]
  IN /\ proc[r] = "running"
     /\ CanTransition(state[t], next)
     /\ state' = [state EXCEPT ![t] = next]
     /\ counters' = RecordTaskStateChange(counters, state[t], next)
     /\ UNCHANGED <<history, artifacts, extensions, push, reqVars, proc, pushVars>>

-----------------------------------------------------------------------------
\* tasks/cancel, and CancelTask of the gRPC service.  On a terminal task it
\* throws and changes nothing.
CancelTask(t) ==
  /\ Exists(t)
  /\ CanTransition(state[t], "CANCELED")
  /\ state' = [state EXCEPT ![t] = "CANCELED"]
  /\ counters' = RecordTaskStateChange(counters, state[t], "CANCELED")
  /\ UNCHANGED <<history, artifacts, extensions, push, reqVars, proc, pushVars>>

(***************************************************************************)
(* tasks/pushNotification/set: the task is looked up before the await and  *)
(* changed after it.                                                       *)
(***************************************************************************)
PushSetBegins(p, t) ==
  /\ pushPc[p] = "idle"
  /\ Exists(t)
  /\ pushPc' = [pushPc EXCEPT ![p] = "validating"]
  /\ pushTarget' = [pushTarget EXCEPT ![p] = t]
  /\ UNCHANGED <<taskVars, reqVars, proc, counters>>

\* Mutant: the check made before the await is trusted after it.
PushSetTrustsOldCheck(p) ==
  /\ pushPc[p] = "validating"
  /\ push' = [push EXCEPT ![pushTarget[p]] = p]
  /\ pushPc' = [pushPc EXCEPT ![p] = "done"]
  /\ UNCHANGED <<state, history, artifacts, extensions, reqVars, proc, pushTarget, counters>>

PushSetStores(p) ==
  /\ pushPc[p] = "validating"
  /\ IsMutable(state[pushTarget[p]])
  /\ push' = [push EXCEPT ![pushTarget[p]] = p]
  /\ pushPc' = [pushPc EXCEPT ![p] = "done"]
  /\ UNCHANGED <<state, history, artifacts, extensions, reqVars, proc, pushTarget, counters>>

\* The URL is refused, or the task was closed during the await.
PushSetRefused(p) ==
  /\ pushPc[p] = "validating"
  /\ pushPc' = [pushPc EXCEPT ![p] = "refused"]
  /\ UNCHANGED <<taskVars, reqVars, proc, pushTarget, counters>>

-----------------------------------------------------------------------------
HandlerSettles(r) ==
  \/ \E n \in 0..MaxArtifacts : HandlerResolves(r, n) \/ HandlerRejects(r, n)
  \/ HandlerTooLate(r)

ValidationSettles(r) == ConfigAccepted(r) \/ ConfigRefused(r)

Next ==
  \/ \E r \in Req \ GrpcReq :
       \/ \E t \in Task : SendMessage(r, t) \/ SendMessageWithConfig(r, t)
       \/ SendMessageDenied(r)
       \/ ValidationSettles(r)
  \/ \E r \in GrpcReq, t \in Task : GrpcSendMessage(r, t)
  \/ \E r \in Req :
       \/ HandlerSettles(r)
       \/ \E next \in AdapterStates : AdapterUpdates(r, next)
  \/ \E t \in Task : CancelTask(t)
  \/ \E p \in PushReq :
       \/ \E t \in Task : PushSetBegins(p, t)
       \/ PushSetStores(p)
       \/ PushSetRefused(p)

Spec == Init /\ [][Next]_vars

(***************************************************************************)
(* The event loop runs a continuation whose promise has settled.  That a   *)
(* URL validation settles is the code's (a DNS lookup ends); that          *)
(* handleTask settles is what the runtime requires of an adapter: it sets  *)
(* no timeout of its own.                                                  *)
(***************************************************************************)
Fairness ==
  \A r \in Req : WF_vars(ValidationSettles(r)) /\ WF_vars(HandlerSettles(r))

FairSpec == Spec /\ Fairness

-----------------------------------------------------------------------------
TypeOK ==
  /\ state \in [Task -> TaskStates \cup {Absent}]
  /\ history \in [Task -> Seq(Req)]
  /\ artifacts \in [Task -> Seq(Req)]
  /\ extensions \in [Task -> Req \cup {None}]
  /\ push \in [Task -> Req \cup PushReq \cup {None}]
  /\ pc \in [Req -> {"idle", "validating", "accepted", "refused"}]
  /\ target \in [Req -> Task \cup {None}]
  /\ held \in [Req -> Req \cup {None}]
  /\ proc \in [Req -> {"none", "running", "completed", "failed", "dropped"}]
  /\ pushPc \in [PushReq -> {"idle", "validating", "done", "refused"}]
  /\ pushTarget \in [PushReq -> Task \cup {None}]
  /\ counters \in [Metric -> Nat]

\* The message of request r is in the history of task t.
Holds(t, r) == \E i \in DOMAIN history[t] : history[t][i] = r

\* What one task holds, as its owner reads it.
Record(t) == <<state[t], history[t], artifacts[t], extensions[t], push[t]>>

(***************************************************************************)
(* A closed task never changes again: not its state, history, artifacts,   *)
(* extensions or push configuration, whatever was in flight when it was    *)
(* closed (docs/development/architecture.md: "Terminal tasks reject        *)
(* additional history messages, artifacts, push notification changes, and  *)
(* state transitions").                                                    *)
(***************************************************************************)
TerminalFrozen ==
  [][\A t \in Task : IsTerminal(t) => UNCHANGED Record(t)]_vars

CompletedBy(t) == {r \in Req : target[r] = t /\ proc[r] = "completed"}
FailedBy(t) == {r \in Req : target[r] = t /\ proc[r] = "failed"}

\* The artifacts of task t all came from the handleTask of request r.
AllFrom(t, r) == \A i \in DOMAIN artifacts[t] : artifacts[t][i] = r

(***************************************************************************)
(* Several processors may work on one task, and one of them at most        *)
(* decides its outcome: a COMPLETED task was completed, and a FAILED task  *)
(* was failed, by exactly one of them, the artifacts of either are all     *)
(* that one's (those a processor stored before it failed stay), and any    *)
(* other task was decided by nobody and holds no artifact.                 *)
(***************************************************************************)
OneAuthor(t) ==
  CASE state[t] = "COMPLETED" ->
         FailedBy(t) = {} /\ \E r \in Req : CompletedBy(t) = {r} /\ AllFrom(t, r)
    [] state[t] = "FAILED" ->
         CompletedBy(t) = {} /\ \E r \in Req : FailedBy(t) = {r} /\ AllFrom(t, r)
    [] OTHER ->
         CompletedBy(t) = {} /\ FailedBy(t) = {} /\ artifacts[t] = <<>>

OutcomeHasOneAuthor == \A t \in Task : OneAuthor(t)

(***************************************************************************)
(* A task that took a message and is still open has a processor at work:   *)
(* no accepted message is left with nobody to close its task.              *)
(***************************************************************************)
NoAbandonedWork ==
  \A t \in Task :
    Exists(t) /\ ~IsTerminal(t) /\ history[t] # <<>> =>
      \E r \in Req : target[r] = t /\ proc[r] = "running"

(***************************************************************************)
(* The extensions a task carries are those negotiated with the last        *)
(* message of its history, and its push configuration came with a message  *)
(* the history holds or from a push request that succeeded: what a refused *)
(* request asked for, however long it was suspended, never shows.          *)
(***************************************************************************)
NegotiationMatchesHistory ==
  \A t \in Task :
    /\ extensions[t] = IF history[t] = <<>> THEN None
                       ELSE Negotiated(history[t][Len(history[t])])
    /\ push[t] \in Req => Holds(t, push[t])
    /\ push[t] \in PushReq => pushPc[push[t]] = "done" /\ pushTarget[push[t]] = t

(***************************************************************************)
(* The counters agree with the store: every task is counted once when it   *)
(* is created and once when it is closed, under its outcome, and every     *)
(* task that took a message was counted as started.                        *)
(***************************************************************************)
CountersMatchStore ==
  LET Number(s) == Cardinality({t \in Task : state[t] = s})
  IN /\ counters["created"] = Cardinality({t \in Task : Exists(t)})
     /\ counters["completed"] = Number("COMPLETED")
     /\ counters["failed"] = Number("FAILED")
     /\ counters["canceled"] = Number("CANCELED")
     /\ counters["started"] >= Cardinality({t \in Task : history[t] # <<>>})

(***************************************************************************)
(* packages/core/tests/A2AServer.test.ts:605 has normalizeArtifacts write  *)
(* the extensions negotiated for a task into each artifact, as             *)
(* `appliedExtensions'.  Through the handler it writes those of the task   *)
(* object it was handed.                                                   *)
(***************************************************************************)
ArtifactsListNegotiated ==
  \A t \in Task : \A i \in DOMAIN artifacts[t] :
    LET author == artifacts[t][i] IN author \notin GrpcReq => held[author] = author

-----------------------------------------------------------------------------
Outcome(s) ==
  CASE s = Absent -> "absent"
    [] s \in OpenTaskStates -> "open"
    [] s \in TERMINAL_TASK_STATES -> s

Contract == INSTANCE TaskContract WITH
  outcome <- [t \in Task |-> Outcome(state[t])],
  messages <- history,
  results <- artifacts

\* The runtime keeps the contract of TaskContract: opened once, closed once,
\* results only in the step that completes or fails the task, and all for one
\* message that the task took.
KeepsContract == Contract!Spec
=============================================================================
