------------------------------ MODULE TaskProofs ------------------------------
(***************************************************************************)
(* What TaskRuntime and TaskStreams satisfy for every set of tasks,        *)
(* requests, subscribers and adapter states.  The first part is about the  *)
(* runtime alone and stands in its variables; the second, about the        *)
(* streams, rests on it.  Wiring is the part of the inductive invariant    *)
(* that the runs need not check by itself: what a suspended request or a   *)
(* processor holds still exists.                                           *)
(***************************************************************************)
EXTENDS TaskStreams, FiniteSetTheorems, TLAPS

Wiring ==
  /\ \A r \in Req :
       /\ pc[r] \in {"validating", "accepted"} =>
            target[r] \in Task /\ Exists(target[r])
       /\ proc[r] # "none" <=> pc[r] = "accepted"
  /\ \A p \in PushReq :
       pushPc[p] \in {"validating", "done"} =>
         pushTarget[p] \in Task /\ Exists(pushTarget[p])

Base == TypeOK /\ Wiring

(***************************************************************************)
(* The lifecycle operators.                                                *)
(***************************************************************************)

\* The states: the three terminal ones are not open, and none is ABSENT.
LEMMA States ==
  /\ OpenTaskStates \subseteq TaskStates
  /\ TERMINAL_TASK_STATES \subseteq TaskStates
  /\ OpenTaskStates \cap TERMINAL_TASK_STATES = {}
  /\ OpenTaskStates \cup TERMINAL_TASK_STATES = TaskStates
  /\ Absent \notin TaskStates
  /\ {"SUBMITTED", "WORKING"} \subseteq OpenTaskStates
  /\ TERMINAL_TASK_STATES = {"COMPLETED", "FAILED", "CANCELED"}
BY DEF OpenTaskStates, TERMINAL_TASK_STATES, TaskStates, Absent

\* assertTransition lets a task move from an open state only, to a task state.
LEMMA TransitionFromOpen ==
  ASSUME NEW s \in TaskStates \cup {Absent}, NEW n, s # Absent, CanTransition(s, n)
  PROVE  s \in OpenTaskStates /\ n \in TaskStates
BY DEF CanTransition, IsMutable, TASK_TRANSITIONS, TaskStates, OpenTaskStates,
       TERMINAL_TASK_STATES

\* The counters stay counters.
LEMMA CountersTyped ==
  ASSUME NEW c \in [Metric -> Nat], NEW previous, NEW next
  PROVE  /\ RecordTaskCreated(c) \in [Metric -> Nat]
         /\ RecordTaskStateChange(c, previous, next) \in [Metric -> Nat]
BY DEF RecordTaskCreated, RecordTaskStateChange, Increment, Metric

-----------------------------------------------------------------------------
(***************************************************************************)
(* Type correctness and wiring.                                            *)
(***************************************************************************)
LEMMA BaseInit == Init => Base
BY DEF Init, Base, TypeOK, Wiring, Metric, Absent

\* The two ways handleMessageRequest ends.
LEMMA BaseProceed ==
  ASSUME Base, NEW r \in Req, NEW t \in Task, NEW withConfig \in BOOLEAN,
         pc[r] \in {"idle", "validating"},
         target' = [target EXCEPT ![r] = t], held' \in [Req -> Req \cup {None}],
         NEW from \in TaskStates, NEW c \in [Metric -> Nat],
         Proceed(r, t, from, c, withConfig)
  PROVE  Base'
<1>1. CASE Accept(r, t, from, c, withConfig)
  <2>1. TypeOK'
    <3>1. /\ state' \in [Task -> TaskStates \cup {Absent}]
          /\ extensions' \in [Task -> Req \cup {None}]
          /\ push' \in [Task -> Req \cup PushReq \cup {None}]
      BY <1>1, States DEF Accept, Negotiated, Base, TypeOK
    <3>2. history' \in [Task -> Seq(Req)]
      BY <1>1 DEF Accept, Base, TypeOK
    <3>3. /\ pc' \in [Req -> {"idle", "validating", "accepted", "refused"}]
          /\ target' \in [Req -> Task \cup {None}]
          /\ proc' \in [Req -> {"none", "running", "completed", "failed", "dropped"}]
      BY <1>1 DEF Accept, Base, TypeOK
    <3>4. counters' \in [Metric -> Nat]
      BY <1>1, CountersTyped DEF Accept
    <3>5. UNCHANGED <<artifacts, pushPc, pushTarget>>
      BY <1>1 DEF Accept, pushVars
    <3> QED BY <3>1, <3>2, <3>3, <3>4, <3>5 DEF Base, TypeOK
  <2>2. Wiring'
    BY <1>1, States DEF Accept, Base, TypeOK, Wiring, Exists, pushVars
  <2> QED BY <2>1, <2>2 DEF Base
<1>2. CASE Refuse(r, t, from, c)
  <2>1. TypeOK'
    BY <1>2, States DEF Refuse, Base, TypeOK, pushVars
  <2>2. Wiring'
    BY <1>2, States DEF Refuse, Base, TypeOK, Wiring, Exists, pushVars
  <2> QED BY <2>1, <2>2 DEF Base
<1> QED BY <1>1, <1>2 DEF Proceed

LEMMA FromTyped ==
  ASSUME TypeOK, NEW t \in Task
  PROVE  From(t) \in TaskStates /\ CountersAfterGetOrCreate(t) \in [Metric -> Nat]
BY CountersTyped, States
   DEF TypeOK, From, CountersAfterGetOrCreate, Exists

\* createGrpcTask does to the runtime what a message/send that is given a new
\* task does, with nothing negotiated.
LEMMA GrpcSends ==
  ASSUME NEW r \in GrpcReq, NEW t \in Task, GrpcSendMessage(r, t)
  PROVE  r \in Req /\ SendMessage(r, t)
BY RuntimeAssumption DEF GrpcSendMessage, SendMessage, Proceed

LEMMA BaseNext == Base /\ [Next]_vars => Base'
<1> SUFFICES ASSUME Base, [Next]_vars PROVE Base' OBVIOUS
<1> USE DEF Base
<1>1. ASSUME NEW r \in Req, NEW t \in Task, SendMessage(r, t) PROVE Base'
  <2>1. held' \in [Req -> Req \cup {None}]
    BY <1>1 DEF SendMessage, Fetch, TypeOK
  <2> QED BY <1>1, <2>1, BaseProceed, FromTyped DEF SendMessage, Fetch
<1>2. ASSUME NEW r \in Req, NEW t \in Task, SendMessageWithConfig(r, t) PROVE Base'
  <2>1. TypeOK'
    BY <1>2, FromTyped DEF SendMessageWithConfig, Fetch, TypeOK, pushVars
  <2>2. Wiring'
    BY <1>2, FromTyped, States
       DEF SendMessageWithConfig, Fetch, TypeOK, Wiring, Exists, pushVars
  <2> QED BY <2>1, <2>2
<1>3. ASSUME NEW r \in Req, SendMessageDenied(r) PROVE Base'
  BY <1>3 DEF SendMessageDenied, TypeOK, Wiring, Exists, taskVars, pushVars
<1>4. ASSUME NEW r \in Req, ConfigAccepted(r) PROVE Base'
  <2>1. target[r] \in Task /\ state[target[r]] \in TaskStates
    BY <1>4 DEF ConfigAccepted, TypeOK, Wiring, Exists
  <2>2. target' = [target EXCEPT ![r] = target[r]]
    BY <1>4 DEF ConfigAccepted, TypeOK
  <2> QED BY <1>4, <2>1, <2>2, BaseProceed DEF ConfigAccepted, TypeOK
<1>5. ASSUME NEW r \in Req, ConfigRefused(r) PROVE Base'
  BY <1>5 DEF ConfigRefused, TypeOK, Wiring, Exists, taskVars, pushVars
<1>6. ASSUME NEW r \in Req, NEW n \in 0..MaxArtifacts, HandlerResolves(r, n) PROVE Base'
  <2>1. target[r] \in Task
    BY <1>6 DEF HandlerResolves, TypeOK, Wiring
  <2>2. artifacts' \in [Task -> Seq(Req)]
    <3>1. Answer(r, n) \in Seq(Req)
      BY RuntimeAssumption DEF Answer
    <3> QED BY <1>6, <2>1, <3>1 DEF HandlerResolves, TypeOK
  <2>3. counters' \in [Metric -> Nat]
    BY <1>6, CountersTyped DEF HandlerResolves, TypeOK
  <2>4. TypeOK'
    BY <1>6, <2>1, <2>2, <2>3, States DEF HandlerResolves, TypeOK, reqVars, pushVars
  <2>5. Wiring'
    BY <1>6, <2>1, States DEF HandlerResolves, TypeOK, Wiring, Exists, reqVars, pushVars
  <2> QED BY <2>4, <2>5
<1>7. ASSUME NEW r \in Req, NEW n \in 0..MaxArtifacts, HandlerRejects(r, n) PROVE Base'
  <2>1. target[r] \in Task
    BY <1>7 DEF HandlerRejects, TypeOK, Wiring
  <2>2. artifacts' \in [Task -> Seq(Req)]
    <3>1. Answer(r, n) \in Seq(Req)
      BY RuntimeAssumption DEF Answer
    <3> QED BY <1>7, <2>1, <3>1 DEF HandlerRejects, TypeOK
  <2>3. counters' \in [Metric -> Nat]
    BY <1>7, CountersTyped DEF HandlerRejects, TypeOK
  <2>4. TypeOK'
    BY <1>7, <2>1, <2>2, <2>3, States DEF HandlerRejects, TypeOK, reqVars, pushVars
  <2>5. Wiring'
    BY <1>7, <2>1, States DEF HandlerRejects, TypeOK, Wiring, Exists, reqVars, pushVars
  <2> QED BY <2>4, <2>5
<1>8. ASSUME NEW r \in Req, HandlerTooLate(r) PROVE Base'
  BY <1>8 DEF HandlerTooLate, TypeOK, Wiring, Exists, taskVars, reqVars, pushVars
<1>9. ASSUME NEW r \in Req, NEW next \in AdapterStates, AdapterUpdates(r, next) PROVE Base'
  <2>1. target[r] \in Task /\ next \in TaskStates
    BY <1>9, RuntimeAssumption, States DEF AdapterUpdates, TypeOK, Wiring
  <2>2. counters' \in [Metric -> Nat]
    BY <1>9, CountersTyped DEF AdapterUpdates, TypeOK
  <2>3. TypeOK'
    BY <1>9, <2>1, <2>2 DEF AdapterUpdates, TypeOK, reqVars, pushVars
  <2>4. Wiring'
    BY <1>9, <2>1, States DEF AdapterUpdates, TypeOK, Wiring, Exists, reqVars, pushVars
  <2> QED BY <2>3, <2>4
<1>10. ASSUME NEW t \in Task, CancelTask(t) PROVE Base'
  <2>1. counters' \in [Metric -> Nat]
    BY <1>10, CountersTyped DEF CancelTask, TypeOK
  <2>2. TypeOK'
    BY <1>10, <2>1, States DEF CancelTask, TypeOK, reqVars, pushVars
  <2>3. Wiring'
    BY <1>10, States DEF CancelTask, TypeOK, Wiring, Exists, reqVars, pushVars
  <2> QED BY <2>2, <2>3
<1>11. ASSUME NEW p \in PushReq, NEW t \in Task, PushSetBegins(p, t) PROVE Base'
  BY <1>11 DEF PushSetBegins, TypeOK, Wiring, Exists, taskVars, reqVars
<1>12. ASSUME NEW p \in PushReq, PushSetStores(p) PROVE Base'
  BY <1>12 DEF PushSetStores, TypeOK, Wiring, Exists, reqVars
<1>13. ASSUME NEW p \in PushReq, PushSetRefused(p) PROVE Base'
  BY <1>13 DEF PushSetRefused, TypeOK, Wiring, Exists, taskVars, reqVars
<1>14. CASE UNCHANGED vars
  BY <1>14 DEF vars, taskVars, reqVars, pushVars, TypeOK, Wiring, Exists
<1> QED
  BY GrpcSends, <1>1, <1>2, <1>3, <1>4, <1>5, <1>6, <1>7, <1>8, <1>9, <1>10, <1>11, <1>12,
     <1>13, <1>14 DEF Next, HandlerSettles, ValidationSettles

LEMMA BaseAlways == Spec => []Base
BY BaseInit, BaseNext, PTL DEF Spec

\* Every variable keeps its type.
THEOREM TypeCorrect == Spec => []TypeOK
<1>1. Base => TypeOK
  BY DEF Base
<1> QED BY <1>1, BaseAlways, PTL

-----------------------------------------------------------------------------
(***************************************************************************)
(* A closed task is frozen.  Only the lifecycle checks stand in the way of *)
(* a late continuation, and every action that writes to a task makes one   *)
(* of them in the step in which it writes.                                 *)
(***************************************************************************)
LEMMA TerminalExists ==
  ASSUME NEW t \in Task, IsTerminal(t)
  PROVE  /\ Exists(t)
         /\ From(t) = state[t]
         /\ ~IsMutable(state[t])
         /\ \A s : ~CanTransition(state[t], s)
BY DEF IsTerminal, Exists, From, IsMutable, CanTransition, TERMINAL_TASK_STATES, Absent

LEMMA FrozenNext ==
  ASSUME Base, [Next]_vars, NEW t \in Task, IsTerminal(t)
  PROVE  UNCHANGED Record(t)
<1> USE TerminalExists DEF Base, TypeOK, Record
<1>1. ASSUME NEW r \in Req, NEW u \in Task, SendMessage(r, u) PROVE UNCHANGED Record(t)
  <2>1. ASSUME Accept(r, u, From(u), CountersAfterGetOrCreate(u), FALSE)
        PROVE  UNCHANGED Record(t)
    BY <2>1 DEF Accept
  <2>2. ASSUME Refuse(r, u, From(u), CountersAfterGetOrCreate(u))
        PROVE  UNCHANGED Record(t)
    BY <2>2 DEF Refuse
  <2> QED BY <1>1, <2>1, <2>2 DEF SendMessage, Proceed
<1>2. ASSUME NEW r \in Req, NEW u \in Task, SendMessageWithConfig(r, u)
      PROVE  UNCHANGED Record(t)
  BY <1>2 DEF SendMessageWithConfig, Fetch
<1>3. ASSUME NEW r \in Req, ConfigAccepted(r) PROVE UNCHANGED Record(t)
  <2>1. ASSUME Accept(r, target[r], state[target[r]], counters, TRUE)
        PROVE  UNCHANGED Record(t)
    BY <2>1 DEF Accept
  <2>2. ASSUME Refuse(r, target[r], state[target[r]], counters)
        PROVE  UNCHANGED Record(t)
    BY <2>2 DEF Refuse
  <2> QED BY <1>3, <2>1, <2>2 DEF ConfigAccepted, Proceed
<1>4. ASSUME NEW r \in Req, NEW n \in 0..MaxArtifacts, HandlerResolves(r, n)
      PROVE  UNCHANGED Record(t)
  BY <1>4 DEF HandlerResolves
<1>5. ASSUME NEW r \in Req, NEW n \in 0..MaxArtifacts, HandlerRejects(r, n)
      PROVE  UNCHANGED Record(t)
  BY <1>5 DEF HandlerRejects
<1>6. ASSUME NEW r \in Req, NEW next \in AdapterStates, AdapterUpdates(r, next)
      PROVE  UNCHANGED Record(t)
  BY <1>6 DEF AdapterUpdates
<1>7. ASSUME NEW u \in Task, CancelTask(u) PROVE UNCHANGED Record(t)
  BY <1>7 DEF CancelTask
<1>8. ASSUME NEW p \in PushReq, PushSetStores(p) PROVE UNCHANGED Record(t)
  BY <1>8 DEF PushSetStores
<1>9. ASSUME UNCHANGED taskVars PROVE UNCHANGED Record(t)
  BY <1>9 DEF taskVars
<1> QED
  BY GrpcSends, <1>1, <1>2, <1>3, <1>4, <1>5, <1>6, <1>7, <1>8, <1>9
     DEF Next, HandlerSettles, ValidationSettles, SendMessageDenied, ConfigRefused,
         HandlerTooLate, PushSetBegins, PushSetRefused, vars

\* A task that is COMPLETED, FAILED or CANCELED keeps its state, history,
\* artifacts, extensions and push configuration for ever.
THEOREM ClosedTasksAreFrozen == Spec => TerminalFrozen
<1>1. Base /\ [Next]_vars =>
        [\A t \in Task : IsTerminal(t) => UNCHANGED Record(t)]_vars
  BY FrozenNext
<1> QED BY <1>1, BaseAlways, PTL DEF Spec, TerminalFrozen

-----------------------------------------------------------------------------
(***************************************************************************)
(* The inductive invariant behind the safety invariants.  Provenance is    *)
(* what they add to Base: a processor works on a message its task holds,   *)
(* and a task that does not exist holds none.                              *)
(***************************************************************************)
Provenance ==
  /\ \A t \in Task : ~Exists(t) => history[t] = <<>>
  /\ \A r \in Req : proc[r] # "none" => Holds(target[r], r)

\* A message appended is held, and so are those held before.
LEMMA HoldsAppended ==
  ASSUME TypeOK, NEW t \in Task, NEW r \in Req,
         history' = [history EXCEPT ![t] = Append(@, r)]
  PROVE  /\ Holds(t, r)'
         /\ history'[t] # <<>> /\ history'[t][Len(history'[t])] = r
         /\ \A u \in Task : \A q : Holds(u, q) => Holds(u, q)'
<1>1. /\ history'[t] = Append(history[t], r) /\ history[t] \in Seq(Req)
      /\ \A u \in Task \ {t} : history'[u] = history[u]
  BY DEF TypeOK
<1>2. /\ Len(history'[t]) = Len(history[t]) + 1 /\ Len(history[t]) \in Nat
      /\ DOMAIN history'[t] = 1..(Len(history[t]) + 1)
      /\ history'[t][Len(history[t]) + 1] = r
      /\ DOMAIN history[t] = 1..Len(history[t])
      /\ \A i \in 1..Len(history[t]) : history'[t][i] = history[t][i]
  BY <1>1
<1>3. Holds(t, r)' /\ history'[t] # <<>> /\ history'[t][Len(history'[t])] = r
  BY <1>2 DEF Holds
<1>4. ASSUME NEW u \in Task, NEW q, Holds(u, q) PROVE Holds(u, q)'
  <2>1. CASE u = t
    BY <1>2, <1>4, <2>1 DEF Holds
  <2>2. CASE u # t
    BY <1>1, <1>4, <2>2 DEF Holds
  <2> QED BY <2>1, <2>2
<1> QED BY <1>3, <1>4

LEMMA ProvenanceProceed ==
  ASSUME Base, Provenance, NEW r \in Req, NEW t \in Task, NEW withConfig \in BOOLEAN,
         pc[r] \in {"idle", "validating"},
         target' = [target EXCEPT ![r] = t],
         NEW from, from = From(t), NEW c,
         Proceed(r, t, from, c, withConfig)
  PROVE  Provenance'
<1>1. CASE Accept(r, t, from, c, withConfig)
  <2>1. Holds(t, r)' /\ \A u \in Task : \A q : Holds(u, q) => Holds(u, q)'
    BY <1>1, HoldsAppended DEF Accept, Base
  <2>2. \A q \in Req \ {r} : proc'[q] # "none" =>
          target'[q] = target[q] /\ target[q] \in Task /\ Holds(target[q], q)
    BY <1>1 DEF Accept, Provenance, Base, TypeOK, Wiring
  <2>3. target'[r] = t
    BY DEF Base, TypeOK
  <2>4. \A u \in Task : ~Exists(u)' => history'[u] = <<>>
    BY <1>1 DEF Accept, Provenance, Base, TypeOK, Exists, Absent
  <2>5. ASSUME NEW q \in Req, proc'[q] # "none" PROVE Holds(target[q], q)'
    <3>1. CASE q = r
      BY <2>1, <2>3, <3>1 DEF Holds
    <3>2. CASE q # r
      <4>1. Holds(target[q], q)
        BY <2>2, <2>5, <3>2
      <4>2. target'[q] = target[q] /\ target[q] \in Task
        BY <2>2, <2>5, <3>2
      <4> QED BY <2>1, <4>1, <4>2 DEF Holds
    <3> QED BY <3>1, <3>2
  <2> QED BY <2>4, <2>5 DEF Provenance
<1>2. CASE Refuse(r, t, from, c)
  <2>1. UNCHANGED <<history, proc>> /\ proc[r] = "none"
    BY <1>2 DEF Refuse, Base, TypeOK, Wiring
  <2>2. \A q \in Req \ {r} : target'[q] = target[q]
    BY DEF Base, TypeOK
  <2>3. \A u \in Task : ~Exists(u)' => ~Exists(u)
    BY <1>2 DEF Refuse, Base, TypeOK, Exists, From
  <2> QED BY <2>1, <2>2, <2>3 DEF Provenance, Holds
<1> QED BY <1>1, <1>2 DEF Proceed

LEMMA ProvenanceNext == Base /\ Provenance /\ [Next]_vars => Provenance'
<1> SUFFICES ASSUME Base, Provenance, [Next]_vars PROVE Provenance' OBVIOUS
<1>1. ASSUME NEW r \in Req, NEW t \in Task, SendMessage(r, t) PROVE Provenance'
  BY <1>1, ProvenanceProceed DEF SendMessage, Fetch
<1>2. ASSUME NEW r \in Req, ConfigAccepted(r) PROVE Provenance'
  <2>1. target[r] \in Task /\ state[target[r]] = From(target[r])
    BY <1>2 DEF ConfigAccepted, Base, Wiring, From
  <2>2. target' = [target EXCEPT ![r] = target[r]]
    BY <1>2 DEF ConfigAccepted, Base, TypeOK
  <2> QED BY <1>2, <2>1, <2>2, ProvenanceProceed DEF ConfigAccepted
<1>3. ASSUME UNCHANGED history,
             \A t \in Task : Exists(t) => Exists(t)',
             \A r \in Req : proc'[r] # "none" => proc[r] # "none" /\ target'[r] = target[r]
      PROVE  Provenance'
  BY <1>3 DEF Provenance, Holds
<1> USE DEF Base, TypeOK
<1>4. ASSUME NEW r \in Req, NEW t \in Task, SendMessageWithConfig(r, t) PROVE Provenance'
  BY <1>3, <1>4, States DEF SendMessageWithConfig, Fetch, Wiring, Exists, From
<1>5. ASSUME NEW r \in Req, HandlerSettles(r) \/ (\E next \in AdapterStates : AdapterUpdates(r, next))
      PROVE  Provenance'
  <2>1. \A t \in Task : Exists(t) => Exists(t)'
    BY <1>5, States, RuntimeAssumption
       DEF HandlerSettles, HandlerResolves, HandlerRejects, HandlerTooLate, AdapterUpdates,
           Exists, taskVars
  <2> QED BY <2>1, <1>3, <1>5
          DEF HandlerSettles, HandlerResolves, HandlerRejects, HandlerTooLate, AdapterUpdates,
              taskVars, reqVars
<1>6. ASSUME NEW t \in Task, CancelTask(t) PROVE Provenance'
  BY <1>3, <1>6, States DEF CancelTask, Exists, reqVars
<1>7. ASSUME UNCHANGED <<state, history, target, proc>> PROVE Provenance'
  BY <1>3, <1>7 DEF Exists
<1> QED
  BY GrpcSends, <1>1, <1>2, <1>4, <1>5, <1>6, <1>7
     DEF Next, ValidationSettles, SendMessageDenied, ConfigRefused, PushSetBegins,
         PushSetStores, PushSetRefused, vars, taskVars, reqVars

-----------------------------------------------------------------------------
(***************************************************************************)
(* One author per outcome.  Two handlers can only both decide a task if    *)
(* the second finds it open, and COMPLETED and FAILED are not open.        *)
(***************************************************************************)

\* A step that does not touch what the outcome of task t is judged by.
LEMMA AuthorKept ==
  ASSUME NEW t \in Task, OneAuthor(t),
         CompletedBy(t)' = CompletedBy(t), FailedBy(t)' = FailedBy(t),
         state'[t] = state[t], artifacts'[t] = artifacts[t]
  PROVE  OneAuthor(t)'
BY DEF OneAuthor, AllFrom

\* A step in which no processor completes or fails and no task enters or
\* leaves COMPLETED or FAILED.
LEMMA OutcomeKept ==
  ASSUME OutcomeHasOneAuthor, UNCHANGED artifacts,
         \A t \in Task : \/ state'[t] = state[t]
                        \/ {state[t], state'[t]} \cap {"COMPLETED", "FAILED"} = {},
         \A r \in Req : \/ proc'[r] = proc[r] /\ target'[r] = target[r]
                       \/ {proc[r], proc'[r]} \cap {"completed", "failed"} = {}
  PROVE  OutcomeHasOneAuthor'
<1>1. \A t \in Task : CompletedBy(t)' = CompletedBy(t) /\ FailedBy(t)' = FailedBy(t)
  BY DEF CompletedBy, FailedBy
<1>2. ASSUME NEW t \in Task PROVE OneAuthor(t)'
  <2>1. OneAuthor(t)
    BY DEF OutcomeHasOneAuthor
  <2> QED BY <1>1, <2>1 DEF OneAuthor, AllFrom
<1> QED BY <1>2 DEF OutcomeHasOneAuthor

LEMMA OutcomeProceed ==
  ASSUME Base, OutcomeHasOneAuthor,
         NEW r \in Req, NEW t \in Task, NEW withConfig \in BOOLEAN,
         pc[r] \in {"idle", "validating"},
         target' = [target EXCEPT ![r] = t],
         NEW from, from = From(t), NEW c,
         Proceed(r, t, from, c, withConfig)
  PROVE  OutcomeHasOneAuthor'
<1>1. proc[r] = "none"
  BY DEF Base, TypeOK, Wiring
<1>2. CASE Accept(r, t, from, c, withConfig)
  BY <1>1, <1>2, OutcomeKept
     DEF Accept, Base, TypeOK, IsMutable, TERMINAL_TASK_STATES, From, Exists, Absent
<1>3. CASE Refuse(r, t, from, c)
  BY <1>1, <1>3, OutcomeKept DEF Refuse, Base, TypeOK, From, Exists, Absent
<1> QED BY <1>2, <1>3 DEF Proceed

\* The processor of request r decides its task, which nobody decided before.
LEMMA OutcomeSettled ==
  ASSUME Base, OutcomeHasOneAuthor,
         NEW r \in Req, NEW n \in 0..MaxArtifacts, NEW how \in {"completed", "failed"},
         target[r] \in Task, state[target[r]] \notin {"COMPLETED", "FAILED"},
         state' = [state EXCEPT ![target[r]] =
                     IF how = "completed" THEN "COMPLETED" ELSE "FAILED"],
         artifacts' = [artifacts EXCEPT ![target[r]] = @ \o Answer(r, n)],
         proc' = [proc EXCEPT ![r] = how],
         target' = target
  PROVE  OutcomeHasOneAuthor'
<1> DEFINE t == target[r]
<1> USE DEF Base, TypeOK
<1>1. CompletedBy(t) = {} /\ FailedBy(t) = {} /\ artifacts[t] = <<>>
  BY DEF OutcomeHasOneAuthor, OneAuthor
<1>2. /\ CompletedBy(t)' = IF how = "completed" THEN {r} ELSE {}
      /\ FailedBy(t)' = IF how = "completed" THEN {} ELSE {r}
  BY <1>1 DEF CompletedBy, FailedBy
<1>3. \A i \in DOMAIN artifacts'[t] : artifacts'[t][i] = r
  BY <1>1, RuntimeAssumption DEF Answer
<1>4. ASSUME NEW u \in Task, u # t
      PROVE  /\ CompletedBy(u)' = CompletedBy(u) /\ FailedBy(u)' = FailedBy(u)
             /\ state'[u] = state[u] /\ artifacts'[u] = artifacts[u]
  BY <1>4 DEF CompletedBy, FailedBy
<1>5. OneAuthor(t)'
  <2>1. state'[t] = IF how = "completed" THEN "COMPLETED" ELSE "FAILED"
    OBVIOUS
  <2>2. AllFrom(t, r)'
    BY <1>3 DEF AllFrom
  <2>3. CASE how = "completed"
    BY <1>2, <2>1, <2>2, <2>3 DEF OneAuthor
  <2>4. CASE how = "failed"
    BY <1>2, <2>1, <2>2, <2>4 DEF OneAuthor
  <2> QED BY <2>3, <2>4
<1>6. ASSUME NEW u \in Task PROVE OneAuthor(u)'
  <2>1. OneAuthor(u)
    BY DEF OutcomeHasOneAuthor
  <2> QED BY <1>4, <1>5, <2>1, AuthorKept
<1> QED BY <1>6 DEF OutcomeHasOneAuthor

LEMMA OutcomeNext ==
  Base /\ OutcomeHasOneAuthor /\ [Next]_vars => OutcomeHasOneAuthor'
<1> SUFFICES ASSUME Base, OutcomeHasOneAuthor, [Next]_vars
             PROVE  OutcomeHasOneAuthor' OBVIOUS
<1>1. ASSUME NEW r \in Req, NEW t \in Task, SendMessage(r, t) PROVE OutcomeHasOneAuthor'
  BY <1>1, OutcomeProceed DEF SendMessage, Fetch
<1>2. ASSUME NEW r \in Req, ConfigAccepted(r) PROVE OutcomeHasOneAuthor'
  <2>1. target[r] \in Task /\ state[target[r]] = From(target[r])
    BY <1>2 DEF ConfigAccepted, Base, Wiring, From
  <2>2. target' = [target EXCEPT ![r] = target[r]]
    BY <1>2 DEF ConfigAccepted, Base, TypeOK
  <2> QED BY <1>2, <2>1, <2>2, OutcomeProceed DEF ConfigAccepted
<1> USE DEF Base, TypeOK
<1>3. ASSUME NEW r \in Req, NEW t \in Task, SendMessageWithConfig(r, t)
      PROVE  OutcomeHasOneAuthor'
  BY <1>3, OutcomeKept DEF SendMessageWithConfig, Fetch, Wiring, From, Exists, Absent
<1>4. ASSUME NEW r \in Req, NEW n \in 0..MaxArtifacts, HandlerResolves(r, n)
      PROVE  OutcomeHasOneAuthor'
  BY <1>4, OutcomeSettled
     DEF HandlerResolves, Wiring, CanTransition, IsMutable, TERMINAL_TASK_STATES, reqVars
<1>5. ASSUME NEW r \in Req, NEW n \in 0..MaxArtifacts, HandlerRejects(r, n)
      PROVE  OutcomeHasOneAuthor'
  BY <1>5, OutcomeSettled
     DEF HandlerRejects, Wiring, CanTransition, IsMutable, TERMINAL_TASK_STATES, reqVars
<1>6. ASSUME NEW r \in Req, HandlerTooLate(r) PROVE OutcomeHasOneAuthor'
  BY <1>6, OutcomeKept DEF HandlerTooLate, taskVars, reqVars
<1>7. ASSUME NEW r \in Req, NEW next \in AdapterStates, AdapterUpdates(r, next)
      PROVE  OutcomeHasOneAuthor'
  BY <1>7, OutcomeKept, RuntimeAssumption
     DEF AdapterUpdates, Wiring, CanTransition, IsMutable, TERMINAL_TASK_STATES,
         OpenTaskStates, reqVars
<1>8. ASSUME NEW t \in Task, CancelTask(t) PROVE OutcomeHasOneAuthor'
  BY <1>8, OutcomeKept DEF CancelTask, CanTransition, IsMutable, TERMINAL_TASK_STATES, reqVars
<1>9. ASSUME UNCHANGED <<state, artifacts, target, proc>> PROVE OutcomeHasOneAuthor'
  BY <1>9, OutcomeKept
<1> QED
  BY GrpcSends, <1>1, <1>2, <1>3, <1>4, <1>5, <1>6, <1>7, <1>8, <1>9
     DEF Next, HandlerSettles, ValidationSettles, SendMessageDenied, ConfigRefused,
         PushSetBegins, PushSetStores, PushSetRefused, vars, taskVars, reqVars

-----------------------------------------------------------------------------
(***************************************************************************)
(* Nobody's work is abandoned: a processor stops only in a step that       *)
(* closes its task, or finds it closed.                                    *)
(***************************************************************************)
Working(t) == \E r \in Req : target[r] = t /\ proc[r] = "running"

LEMMA WorkProceed ==
  ASSUME Base, Provenance, NoAbandonedWork,
         NEW r \in Req, NEW t \in Task, NEW withConfig \in BOOLEAN,
         pc[r] \in {"idle", "validating"},
         target' = [target EXCEPT ![r] = t],
         NEW from, from = From(t), NEW c,
         Proceed(r, t, from, c, withConfig)
  PROVE  NoAbandonedWork'
<1>1. proc[r] = "none"
  BY DEF Base, TypeOK, Wiring
<1>2. CASE Accept(r, t, from, c, withConfig)
  <2>1. \A q \in Req \ {r} : proc'[q] = proc[q] /\ target'[q] = target[q]
    BY <1>2 DEF Accept, Base, TypeOK
  <2>2. proc'[r] = "running" /\ target'[r] = t
    BY <1>2 DEF Accept, Base, TypeOK
  <2>3. ASSUME NEW u \in Task, u # t, Exists(u)', ~IsTerminal(u)', history'[u] # <<>>
        PROVE  Working(u)'
    <3>1. state'[u] = state[u] /\ history'[u] = history[u]
      BY <1>2, <2>3 DEF Accept, Base, TypeOK
    <3>2. PICK q \in Req : target[q] = u /\ proc[q] = "running"
      BY <2>3, <3>1 DEF NoAbandonedWork, Exists, IsTerminal
    <3> QED BY <1>1, <2>1, <3>2 DEF Working
  <2> QED BY <2>2, <2>3 DEF NoAbandonedWork, Working
<1>3. CASE Refuse(r, t, from, c)
  BY <1>1, <1>3
     DEF Refuse, NoAbandonedWork, Provenance, Base, TypeOK, From, Exists, IsTerminal, Absent
<1> QED BY <1>2, <1>3 DEF Proceed

LEMMA WorkNext ==
  Base /\ Provenance /\ NoAbandonedWork /\ [Next]_vars => NoAbandonedWork'
<1> SUFFICES ASSUME Base, Provenance, NoAbandonedWork, [Next]_vars
             PROVE  NoAbandonedWork' OBVIOUS
<1>1. ASSUME NEW r \in Req, NEW t \in Task, SendMessage(r, t) PROVE NoAbandonedWork'
  BY <1>1, WorkProceed DEF SendMessage, Fetch
<1>2. ASSUME NEW r \in Req, ConfigAccepted(r) PROVE NoAbandonedWork'
  <2>1. target[r] \in Task /\ state[target[r]] = From(target[r])
    BY <1>2 DEF ConfigAccepted, Base, Wiring, From
  <2>2. target' = [target EXCEPT ![r] = target[r]]
    BY <1>2 DEF ConfigAccepted, Base, TypeOK
  <2> QED BY <1>2, <2>1, <2>2, WorkProceed DEF ConfigAccepted
<1> USE DEF Base, TypeOK
<1>3. ASSUME NEW r \in Req, NEW t \in Task, SendMessageWithConfig(r, t)
      PROVE  NoAbandonedWork'
  <2>1. proc[r] = "none"
    BY <1>3 DEF SendMessageWithConfig, Fetch, Wiring
  <2>2. ASSUME NEW u \in Task, Exists(u)', ~IsTerminal(u)', history'[u] # <<>>
        PROVE  Working(u)'
    <3>1. PICK q \in Req : target[q] = u /\ proc[q] = "running"
      BY <1>3, <2>2
         DEF SendMessageWithConfig, Fetch, NoAbandonedWork, Provenance, From, Exists, IsTerminal, Absent
    <3> QED BY <1>3, <2>1, <3>1 DEF SendMessageWithConfig, Fetch, Working
  <2> QED BY <2>2 DEF NoAbandonedWork, Working
<1>4. ASSUME NEW r \in Req, HandlerSettles(r) PROVE NoAbandonedWork'
  <2>1. PICK t \in Task : t = target[r]
    BY <1>4 DEF HandlerSettles, HandlerResolves, HandlerRejects, HandlerTooLate, Wiring
  <2>2. /\ IsTerminal(t)'
        /\ \A u \in Task \ {t} : state'[u] = state[u]
        /\ UNCHANGED <<history, target>>
        /\ \A q \in Req \ {r} : proc'[q] = proc[q]
    BY <1>4, <2>1
       DEF HandlerSettles, HandlerResolves, HandlerRejects, HandlerTooLate, IsTerminal,
           TERMINAL_TASK_STATES, taskVars, reqVars
  <2>3. ASSUME NEW u \in Task, Exists(u)', ~IsTerminal(u)', history'[u] # <<>>
        PROVE  Working(u)'
    <3>1. u # t
      BY <2>2, <2>3 DEF IsTerminal
    <3>2. PICK q \in Req : target[q] = u /\ proc[q] = "running"
      BY <2>2, <2>3, <3>1 DEF NoAbandonedWork, Exists, IsTerminal
    <3> QED BY <2>1, <2>2, <3>1, <3>2 DEF Working
  <2> QED BY <2>3 DEF NoAbandonedWork, Working
<1>5. ASSUME NEW t \in Task, UNCHANGED <<history, target, proc>>, Exists(t),
             ~IsTerminal(t), \A u \in Task \ {t} : state'[u] = state[u]
      PROVE  NoAbandonedWork'
  BY <1>5 DEF NoAbandonedWork, Exists, IsTerminal
<1>6. ASSUME NEW r \in Req, NEW next \in AdapterStates, AdapterUpdates(r, next)
      PROVE  NoAbandonedWork'
  <2>1. target[r] \in Task /\ Exists(target[r]) /\ ~IsTerminal(target[r])
    BY <1>6 DEF AdapterUpdates, Wiring, CanTransition, IsMutable, IsTerminal
  <2> QED BY <1>5, <1>6, <2>1 DEF AdapterUpdates, reqVars
<1>7. ASSUME NEW t \in Task, CancelTask(t) PROVE NoAbandonedWork'
  BY <1>5, <1>7 DEF CancelTask, CanTransition, IsMutable, IsTerminal, reqVars
<1>8. ASSUME UNCHANGED <<state, history, target, proc>> PROVE NoAbandonedWork'
  BY <1>8 DEF NoAbandonedWork, Exists, IsTerminal
<1> QED
  BY GrpcSends, <1>1, <1>2, <1>3, <1>4, <1>6, <1>7, <1>8
     DEF Next, ValidationSettles, SendMessageDenied, ConfigRefused,
         PushSetBegins, PushSetStores, PushSetRefused, vars, taskVars, reqVars

-----------------------------------------------------------------------------
(***************************************************************************)
(* Extensions and push configuration come from what the history holds.     *)
(***************************************************************************)
LEMMA NegotiationProceed ==
  ASSUME Base, NegotiationMatchesHistory,
         NEW r \in Req, NEW t \in Task, NEW withConfig \in BOOLEAN,
         NEW from, NEW c,
         Proceed(r, t, from, c, withConfig)
  PROVE  NegotiationMatchesHistory'
<1> USE DEF Base, TypeOK
<1>1. CASE Accept(r, t, from, c, withConfig)
  <2>1. /\ Holds(t, r)' /\ \A u \in Task : \A q : Holds(u, q) => Holds(u, q)'
        /\ history'[t] # <<>> /\ history'[t][Len(history'[t])] = r
    BY <1>1, HoldsAppended DEF Accept
  <2>2. \A u \in Task \ {t} : /\ history'[u] = history[u] /\ extensions'[u] = extensions[u]
                            /\ push'[u] = push[u]
    BY <1>1 DEF Accept
  <2>3. /\ extensions'[t] = Negotiated(r) /\ push'[t] \in {push[t], r}
        /\ UNCHANGED <<pushPc, pushTarget>> /\ r \notin PushReq
    BY <1>1, RuntimeAssumption DEF Accept, pushVars
  <2>4. ASSUME NEW u \in Task
        PROVE extensions'[u] = IF history'[u] = <<>> THEN None
                               ELSE Negotiated(history'[u][Len(history'[u])])
    <3>1. CASE u = t
      BY <2>1, <2>3, <3>1
    <3>2. CASE u # t
      BY <2>2, <3>2 DEF NegotiationMatchesHistory
    <3> QED BY <3>1, <3>2
  <2>5. ASSUME NEW u \in Task, push'[u] \in Req PROVE Holds(u, push[u])'
    <3>1. CASE push'[u] = push[u]
      <4>1. Holds(u, push[u])
        BY <2>5, <3>1 DEF NegotiationMatchesHistory
      <4>2. PICK q \in Req : q = push[u]
        BY <2>5, <3>1
      <4>3. Holds(u, q)'
        BY <2>1, <4>1, <4>2
      <4> QED BY <3>1, <4>2, <4>3 DEF Holds
    <3>2. CASE push'[u] # push[u]
      <4>1. u = t /\ push'[u] = r
        BY <2>2, <2>3, <3>2
      <4> QED BY <2>1, <4>1 DEF Holds
    <3> QED BY <3>1, <3>2
  <2>6. ASSUME NEW u \in Task, push'[u] \in PushReq
        PROVE  pushPc'[push'[u]] = "done" /\ pushTarget'[push'[u]] = u
    <3>1. push'[u] = push[u]
      BY <2>2, <2>3, <2>6
    <3>2. push[u] \in PushReq => pushPc[push[u]] = "done" /\ pushTarget[push[u]] = u
      BY DEF NegotiationMatchesHistory
    <3> QED BY <2>3, <2>6, <3>1, <3>2
  <2> QED BY <2>4, <2>5, <2>6 DEF NegotiationMatchesHistory
<1>2. CASE Refuse(r, t, from, c)
  BY <1>2 DEF Refuse, NegotiationMatchesHistory, Holds, pushVars
<1> QED BY <1>1, <1>2 DEF Proceed

LEMMA NegotiationNext ==
  Base /\ NegotiationMatchesHistory /\ [Next]_vars => NegotiationMatchesHistory'
<1> SUFFICES ASSUME Base, NegotiationMatchesHistory, [Next]_vars
             PROVE  NegotiationMatchesHistory' OBVIOUS
<1>1. ASSUME NEW r \in Req, NEW t \in Task, SendMessage(r, t)
      PROVE  NegotiationMatchesHistory'
  BY <1>1, NegotiationProceed DEF SendMessage, Fetch
<1>2. ASSUME NEW r \in Req, ConfigAccepted(r) PROVE NegotiationMatchesHistory'
  BY <1>2, NegotiationProceed DEF ConfigAccepted, Base, Wiring
<1> USE DEF Base, TypeOK
<1>3. ASSUME NEW p \in PushReq, NEW t \in Task, PushSetBegins(p, t)
      PROVE  NegotiationMatchesHistory'
  BY <1>3 DEF PushSetBegins, NegotiationMatchesHistory, Holds, taskVars
<1>4. ASSUME NEW p \in PushReq, PushSetStores(p) PROVE NegotiationMatchesHistory'
  <2>1. /\ pushTarget[p] \in Task /\ p \notin Req
        /\ push' = [push EXCEPT ![pushTarget[p]] = p]
        /\ pushPc' = [pushPc EXCEPT ![p] = "done"]
        /\ UNCHANGED <<history, extensions, pushTarget>>
    BY <1>4, RuntimeAssumption DEF PushSetStores, Wiring
  <2> QED BY <2>1 DEF NegotiationMatchesHistory, Holds
<1>5. ASSUME NEW p \in PushReq, PushSetRefused(p) PROVE NegotiationMatchesHistory'
  BY <1>5 DEF PushSetRefused, NegotiationMatchesHistory, Holds, taskVars
<1>6. ASSUME UNCHANGED <<history, extensions, push, pushPc, pushTarget>>
      PROVE  NegotiationMatchesHistory'
  BY <1>6 DEF NegotiationMatchesHistory, Holds
<1> QED
  BY GrpcSends, <1>1, <1>2, <1>3, <1>4, <1>5, <1>6
     DEF Next, ValidationSettles, HandlerSettles, SendMessageWithConfig, Fetch, SendMessageDenied,
         ConfigRefused, HandlerResolves, HandlerRejects, HandlerTooLate, AdapterUpdates,
         CancelTask, vars, taskVars, pushVars

-----------------------------------------------------------------------------
(***************************************************************************)
(* The inductive invariant and what follows from it.                       *)
(***************************************************************************)
IInv ==
  /\ Base
  /\ Provenance
  /\ OutcomeHasOneAuthor
  /\ NoAbandonedWork
  /\ NegotiationMatchesHistory

LEMMA IInvInit == Init => IInv
<1> SUFFICES ASSUME Init PROVE IInv OBVIOUS
<1>1. Base
  BY BaseInit
<1>2. Provenance
  BY DEF Init, Provenance
<1>3. OutcomeHasOneAuthor
  BY DEF Init, OutcomeHasOneAuthor, OneAuthor, CompletedBy, FailedBy, Absent
<1>4. NoAbandonedWork
  BY DEF Init, NoAbandonedWork
<1>5. NegotiationMatchesHistory
  BY RuntimeAssumption DEF Init, NegotiationMatchesHistory
<1> QED BY <1>1, <1>2, <1>3, <1>4, <1>5 DEF IInv

LEMMA IInvAlways == Spec => []IInv
<1>1. IInv /\ [Next]_vars => IInv'
  BY BaseNext, ProvenanceNext, OutcomeNext, WorkNext, NegotiationNext DEF IInv
<1> QED BY IInvInit, <1>1, PTL DEF Spec

\* At most one processor decides the outcome of a task, whatever number of
\* messages the task took and however their processors interleave.
THEOREM OneAuthorPerOutcome == Spec => []OutcomeHasOneAuthor
<1>1. IInv => OutcomeHasOneAuthor
  BY DEF IInv
<1> QED BY <1>1, IInvAlways, PTL

\* An open task that took a message has a processor at work.
THEOREM NothingIsAbandoned == Spec => []NoAbandonedWork
<1>1. IInv => NoAbandonedWork
  BY DEF IInv
<1> QED BY <1>1, IInvAlways, PTL

\* Extensions are those of the last message accepted, and a push
\* configuration is one that an accepted request brought.
THEOREM NegotiationFollowsHistory == Spec => []NegotiationMatchesHistory
<1>1. IInv => NegotiationMatchesHistory
  BY DEF IInv
<1> QED BY <1>1, IInvAlways, PTL

-----------------------------------------------------------------------------
(***************************************************************************)
(* The runtime implements TaskContract.  Every step opens a task, takes a  *)
(* message, closes a task, or is invisible.                                *)
(***************************************************************************)
LEMMA OutcomeOf ==
  /\ Outcome(Absent) = "absent"
  /\ \A s \in OpenTaskStates : Outcome(s) = "open"
  /\ \A s \in TERMINAL_TASK_STATES : Outcome(s) = s
BY DEF Outcome, OpenTaskStates, TERMINAL_TASK_STATES, Absent

\* Changing the state of one task changes the outcome of that task.
LEMMA OutcomeExcept ==
  ASSUME TypeOK, NEW t \in Task, NEW s, state' = [state EXCEPT ![t] = s]
  PROVE  [u \in Task |-> Outcome(state[u])]' =
           [[u \in Task |-> Outcome(state[u])] EXCEPT ![t] = Outcome(s)]
BY DEF TypeOK

LEMMA ContractInit == Init => Contract!Init
BY OutcomeOf DEF Init, Contract!Init

LEMMA ContractProceed ==
  ASSUME IInv, NEW r \in Req, NEW t \in Task, NEW withConfig \in BOOLEAN,
         NEW from, from = From(t), NEW c,
         Proceed(r, t, from, c, withConfig)
  PROVE  [Contract!Next]_(Contract!cvars)
<1> USE DEF IInv, Base, TypeOK
<1>1. CASE Accept(r, t, from, c, withConfig)
  <2>1. /\ history' = [history EXCEPT ![t] = Append(@, r)] /\ artifacts' = artifacts
        /\ from \in OpenTaskStates
    BY <1>1, States DEF Accept, IsMutable, From, Exists
  <2>2. [u \in Task |-> Outcome(state[u])]' =
           [[u \in Task |-> Outcome(state[u])] EXCEPT ![t] = "open"]
    BY <1>1, OutcomeExcept, OutcomeOf, States DEF Accept
  <2>3. CASE Exists(t)
    <3>1. Outcome(state[t]) = "open"
      BY <2>1, <2>3, OutcomeOf DEF From
    <3>2. Contract!Take(t, r)
      BY ZenonT(40), <2>1, <2>2, <3>1 DEF Contract!Take
    <3> QED BY <3>2 DEF Contract!Next
  <2>4. CASE ~Exists(t)
    <3>1. Outcome(state[t]) = "absent" /\ history[t] = <<>>
      BY <2>4, OutcomeOf DEF Exists, Provenance
    <3>2. Append(history[t], r) = <<r>>
      BY <3>1
    <3>3. Contract!Open(t)
      BY <2>1, <2>2, <3>1, <3>2 DEF Contract!Open
    <3> QED BY <3>3 DEF Contract!Next
  <2> QED BY <2>3, <2>4
<1>2. CASE Refuse(r, t, from, c)
  <2>1. UNCHANGED <<history, artifacts>>
    BY <1>2 DEF Refuse
  <2>2. CASE Exists(t)
    <3>1. state' = state
      BY <1>2, <2>2 DEF Refuse, From
    <3> QED BY <2>1, <3>1 DEF Contract!cvars
  <2>3. CASE ~Exists(t)
    <3>1. [u \in Task |-> Outcome(state[u])]' =
             [[u \in Task |-> Outcome(state[u])] EXCEPT ![t] = "open"]
      BY <1>2, <2>3, OutcomeExcept, OutcomeOf, States DEF Refuse, From
    <3>2. Outcome(state[t]) = "absent"
      BY <2>3, OutcomeOf DEF Exists
    <3>3. Contract!Open(t)
      BY <2>1, <3>1, <3>2 DEF Contract!Open
    <3> QED BY <3>3 DEF Contract!Next
  <2> QED BY <2>2, <2>3
<1> QED BY <1>1, <1>2 DEF Proceed

LEMMA ContractNext ==
  IInv /\ [Next]_vars => [Contract!Next]_(Contract!cvars)
<1> SUFFICES ASSUME IInv, [Next]_vars PROVE [Contract!Next]_(Contract!cvars) OBVIOUS
<1>1. ASSUME NEW r \in Req, NEW t \in Task, SendMessage(r, t)
      PROVE  [Contract!Next]_(Contract!cvars)
  BY <1>1, ContractProceed DEF SendMessage, Fetch
<1>2. ASSUME NEW r \in Req, ConfigAccepted(r) PROVE [Contract!Next]_(Contract!cvars)
  <2>1. target[r] \in Task /\ state[target[r]] = From(target[r])
    BY <1>2 DEF ConfigAccepted, IInv, Base, Wiring, From
  <2> QED BY <1>2, <2>1, ContractProceed DEF ConfigAccepted
<1> USE DEF IInv, Base, TypeOK
<1>3. ASSUME NEW r \in Req, NEW t \in Task, SendMessageWithConfig(r, t)
      PROVE  [Contract!Next]_(Contract!cvars)
  <2>1. CASE Exists(t)
    <3>1. UNCHANGED <<state, history, artifacts>>
      BY <1>3, <2>1 DEF SendMessageWithConfig, Fetch, From
    <3> QED BY <3>1 DEF Contract!cvars
  <2>2. CASE ~Exists(t)
    <3>1. [u \in Task |-> Outcome(state[u])]' =
             [[u \in Task |-> Outcome(state[u])] EXCEPT ![t] = "open"]
      BY <1>3, <2>2, OutcomeExcept, OutcomeOf, States DEF SendMessageWithConfig, Fetch, From
    <3>2. Outcome(state[t]) = "absent"
      BY <2>2, OutcomeOf DEF Exists
    <3>3. Contract!Open(t)
      BY <1>3, <3>1, <3>2 DEF Contract!Open, SendMessageWithConfig, Fetch
    <3> QED BY <3>3 DEF Contract!Next
  <2> QED BY <2>1, <2>2
<1>4. ASSUME NEW r \in Req, NEW n \in 0..MaxArtifacts, NEW how \in {"COMPLETED", "FAILED"},
             proc[r] = "running", CanTransition(state[target[r]], how),
             artifacts' = [artifacts EXCEPT ![target[r]] = @ \o Answer(r, n)],
             state' = [state EXCEPT ![target[r]] = how], UNCHANGED history
      PROVE  [Contract!Next]_(Contract!cvars)
  <2>1. PICK t \in Task : t = target[r] /\ Exists(t) /\ Holds(t, r)
    BY <1>4 DEF Wiring, Provenance
  <2>2. state[t] \in OpenTaskStates /\ artifacts[t] = <<>>
    BY <1>4, <2>1, States
       DEF CanTransition, IsMutable, Exists, OutcomeHasOneAuthor, OneAuthor
  <2>3. [u \in Task |-> Outcome(state[u])]' =
           [[u \in Task |-> Outcome(state[u])] EXCEPT ![t] = how]
    BY <1>4, <2>1, OutcomeExcept, OutcomeOf, States
  <2>4. Outcome(state[t]) = "open"
    BY <2>2, OutcomeOf
  <2>5. Answer(r, n) \in Seq({r})
    BY RuntimeAssumption DEF Answer
  <2>6. artifacts' = [artifacts EXCEPT ![t] = Answer(r, n)]
    BY <1>4, <2>1, <2>2, <2>5
  <2>7. artifacts'[t] \in Seq({r}) /\ artifacts' = [artifacts EXCEPT ![t] = artifacts'[t]]
    BY <2>5, <2>6
  <2>8. Contract!Settle(t, r)
    BY <1>4, <2>1, <2>3, <2>4, <2>7 DEF Contract!Settle, Holds
  <2> QED BY <2>8 DEF Contract!Next
<1>5. ASSUME NEW r \in Req, NEW n \in 0..MaxArtifacts, HandlerResolves(r, n)
      PROVE  [Contract!Next]_(Contract!cvars)
  BY <1>4, <1>5 DEF HandlerResolves
<1>6. ASSUME NEW r \in Req, NEW n \in 0..MaxArtifacts, HandlerRejects(r, n)
      PROVE  [Contract!Next]_(Contract!cvars)
  BY <1>4, <1>6 DEF HandlerRejects
<1>7. ASSUME NEW t \in Task, CancelTask(t) PROVE [Contract!Next]_(Contract!cvars)
  <2>1. Outcome(state[t]) = "open"
    BY <1>7, TransitionFromOpen, OutcomeOf DEF Exists, CancelTask
  <2>2. [u \in Task |-> Outcome(state[u])]' =
           [[u \in Task |-> Outcome(state[u])] EXCEPT ![t] = "CANCELED"]
    BY <1>7, OutcomeExcept, OutcomeOf, States DEF CancelTask
  <2>3. Contract!Cancel(t)
    BY <1>7, <2>1, <2>2 DEF Contract!Cancel, CancelTask
  <2> QED BY <2>3 DEF Contract!Next
<1>8. ASSUME NEW r \in Req, NEW next \in AdapterStates, AdapterUpdates(r, next)
      PROVE  [Contract!Next]_(Contract!cvars)
  <2>1. PICK t \in Task : t = target[r] /\ Exists(t)
    BY <1>8 DEF AdapterUpdates, Wiring
  <2>2. Outcome(state[t]) = "open" /\ Outcome(next) = "open"
    BY <1>8, <2>1, TransitionFromOpen, OutcomeOf, RuntimeAssumption DEF AdapterUpdates, Exists
  <2>3. [u \in Task |-> Outcome(state[u])]' = [u \in Task |-> Outcome(state[u])]
    BY <1>8, <2>1, <2>2, OutcomeExcept DEF AdapterUpdates
  <2> QED BY <1>8, <2>3 DEF AdapterUpdates, Contract!cvars
<1>9. ASSUME UNCHANGED <<state, history, artifacts>> PROVE [Contract!Next]_(Contract!cvars)
  BY <1>9 DEF Contract!cvars
<1> QED
  BY GrpcSends, <1>1, <1>2, <1>3, <1>5, <1>6, <1>7, <1>8, <1>9
     DEF Next, ValidationSettles, HandlerSettles, SendMessageDenied, ConfigRefused,
         HandlerTooLate, PushSetBegins, PushSetStores, PushSetRefused, vars, taskVars

\* The task runtime implements the contract it owes to clients: tasks are
\* opened once, closed once, and all artifacts appear in the step that completes
\* or fails the task, for one of the messages the task took.
THEOREM RuntimeKeepsContract == Spec => KeepsContract
BY ContractInit, ContractNext, IInvAlways, PTL DEF Spec, KeepsContract, Contract!Spec

-----------------------------------------------------------------------------
(***************************************************************************)
(* The counters agree with the store.  `started' needs one fact more: a    *)
(* task with no message is not WORKING, so its first message counts.       *)
(***************************************************************************)
Fresh == \A t \in Task : history[t] = <<>> => state[t] # "WORKING"

Number(s) == Cardinality({t \in Task : state[t] = s})
Created == Cardinality({t \in Task : Exists(t)})
Addressed == Cardinality({t \in Task : history[t] # <<>>})

\* One more member, one more in the count.
LEMMA CountMore ==
  ASSUME NEW S \in SUBSET Task, NEW t \in Task, NEW T, T = S \cup {t}
  PROVE  /\ Cardinality(S) \in Nat
         /\ Cardinality(T) = IF t \in S THEN Cardinality(S) ELSE Cardinality(S) + 1
<1>1. IsFiniteSet(S)
  BY RuntimeAssumption, FS_Subset
<1> QED BY <1>1, FS_AddElement, FS_CardinalityType

\* What moving one task does to the counts.
LEMMA NumberMoves ==
  ASSUME TypeOK, NEW t \in Task, NEW x \in TaskStates, NEW s \in TaskStates,
         state[t] # s \/ x = s, state' = [state EXCEPT ![t] = x]
  PROVE  /\ Number(s) \in Nat
         /\ Number(s)' = IF x = s /\ state[t] # s THEN Number(s) + 1 ELSE Number(s)
<1> DEFINE S == {u \in Task : state[u] = s}
           T == {u \in Task : state'[u] = s}
<1>1. CASE x = s
  <2>1. T = S \cup {t}
    BY <1>1 DEF TypeOK
  <2> QED BY <1>1, <2>1, CountMore DEF Number
<1>2. CASE x # s
  <2>1. T = S
    BY <1>2 DEF TypeOK
  <2> QED BY <1>2, <2>1, CountMore DEF Number
<1> QED BY <1>1, <1>2

LEMMA CreatedMoves ==
  ASSUME TypeOK, NEW t \in Task, NEW x \in TaskStates, state' = [state EXCEPT ![t] = x]
  PROVE  Created \in Nat /\ Created' = IF Exists(t) THEN Created ELSE Created + 1
<1> DEFINE S == {u \in Task : state[u] # Absent}
           T == {u \in Task : state'[u] # Absent}
<1>1. T = S \cup {t} /\ (t \in S <=> Exists(t))
  BY States DEF TypeOK, Exists
<1>2. Created = Cardinality(S) /\ Created' = Cardinality(T)
  BY DEF Created, Exists
<1> HIDE DEF S, T
<1>3. S \subseteq Task
  BY DEF S
<1> QED BY <1>1, <1>2, <1>3, CountMore

LEMMA AddressedMoves ==
  ASSUME NEW t \in Task, \A u \in Task \ {t} : history'[u] = history[u],
         history[t] # <<>> => history'[t] # <<>>
  PROVE  /\ Addressed \in Nat
         /\ Addressed' = IF history[t] = <<>> /\ history'[t] # <<>> THEN Addressed + 1
                                                                 ELSE Addressed
<1>1. CASE history'[t] # <<>>
  <2>1. {u \in Task : history'[u] # <<>>} = {u \in Task : history[u] # <<>>} \cup {t}
    BY <1>1
  <2> QED BY <1>1, <2>1, CountMore DEF Addressed
<1>2. CASE history'[t] = <<>>
  <2>1. {u \in Task : history'[u] # <<>>} = {u \in Task : history[u] # <<>>}
    BY <1>2
  <2> QED BY <1>2, <2>1, CountMore DEF Addressed
<1> QED BY <1>1, <1>2

\* A step that moves one task and counts what it did.
LEMMA CountersMove ==
  ASSUME TypeOK, CountersMatchStore, NEW t \in Task, NEW x \in TaskStates,
         state[t] = x \/ ~IsTerminal(t),
         state' = [state EXCEPT ![t] = x],
         \A u \in Task \ {t} : history'[u] = history[u],
         history[t] # <<>> => history'[t] # <<>>,
         NEW c \in [Metric -> Nat],
         c = IF Exists(t) THEN counters ELSE RecordTaskCreated(counters),
         \/ counters' = c /\ x \notin TERMINAL_TASK_STATES \ {state[t]}
         \/ counters' = RecordTaskStateChange(c, From(t), x) /\ state[t] \notin TERMINAL_TASK_STATES,
         history[t] = <<>> /\ history'[t] # <<>> =>
           counters' = RecordTaskStateChange(c, From(t), x) /\ x = "WORKING" /\ From(t) # "WORKING"
  PROVE  CountersMatchStore'
<1> USE DEF TypeOK, Metric
<1>1. /\ counters["created"] = Created
      /\ counters["completed"] = Number("COMPLETED")
      /\ counters["failed"] = Number("FAILED")
      /\ counters["canceled"] = Number("CANCELED")
      /\ counters["started"] >= Addressed
  BY DEF CountersMatchStore, Created, Number, Addressed
<1>2. counters'["created"] = Created'
  <2>1. counters'["created"] = IF Exists(t) THEN counters["created"] ELSE counters["created"] + 1
    BY ZenonT(40) DEF RecordTaskStateChange, RecordTaskCreated, Increment
  <2> QED BY <1>1, <2>1, CreatedMoves
<1>3. counters'["completed"] = Number("COMPLETED")'
  <2>1. counters'["completed"] =
          IF x = "COMPLETED" /\ state[t] # "COMPLETED" THEN counters["completed"] + 1
                                                       ELSE counters["completed"]
    BY ZenonT(40) DEF RecordTaskStateChange, RecordTaskCreated, Increment, TERMINAL_TASK_STATES, From
  <2>2. (state[t] # "COMPLETED" \/ x = "COMPLETED") /\ "COMPLETED" \in TaskStates
    BY States DEF IsTerminal
  <2>3. Number("COMPLETED")' =
          IF x = "COMPLETED" /\ state[t] # "COMPLETED" THEN Number("COMPLETED") + 1 ELSE Number("COMPLETED")
    BY <2>2, NumberMoves
  <2> QED BY <1>1, <2>1, <2>3
<1>4. counters'["failed"] = Number("FAILED")'
  <2>1. counters'["failed"] =
          IF x = "FAILED" /\ state[t] # "FAILED" THEN counters["failed"] + 1
                                                 ELSE counters["failed"]
    BY ZenonT(40) DEF RecordTaskStateChange, RecordTaskCreated, Increment, TERMINAL_TASK_STATES, From
  <2>2. (state[t] # "FAILED" \/ x = "FAILED") /\ "FAILED" \in TaskStates
    BY States DEF IsTerminal
  <2>3. Number("FAILED")' =
          IF x = "FAILED" /\ state[t] # "FAILED" THEN Number("FAILED") + 1 ELSE Number("FAILED")
    BY <2>2, NumberMoves
  <2> QED BY <1>1, <2>1, <2>3
<1>5. counters'["canceled"] = Number("CANCELED")'
  <2>1. counters'["canceled"] =
          IF x = "CANCELED" /\ state[t] # "CANCELED" THEN counters["canceled"] + 1
                                                     ELSE counters["canceled"]
    BY ZenonT(40) DEF RecordTaskStateChange, RecordTaskCreated, Increment, TERMINAL_TASK_STATES, From
  <2>2. (state[t] # "CANCELED" \/ x = "CANCELED") /\ "CANCELED" \in TaskStates
    BY States DEF IsTerminal
  <2>3. Number("CANCELED")' =
          IF x = "CANCELED" /\ state[t] # "CANCELED" THEN Number("CANCELED") + 1 ELSE Number("CANCELED")
    BY <2>2, NumberMoves
  <2> QED BY <1>1, <2>1, <2>3
<1>6. counters'["started"] >= Addressed'
  <2>1. /\ counters["started"] \in Nat
        /\ counters'["started"] \in {counters["started"], counters["started"] + 1}
    BY ZenonT(40) DEF RecordTaskStateChange, RecordTaskCreated, Increment
  <2>2. history[t] = <<>> /\ history'[t] # <<>> =>
          counters'["started"] = counters["started"] + 1
    BY DEF RecordTaskStateChange, RecordTaskCreated, Increment
  <2>3. /\ Addressed \in Nat
        /\ Addressed' = IF history[t] = <<>> /\ history'[t] # <<>> THEN Addressed + 1
                                                                ELSE Addressed
    BY AddressedMoves
  <2> QED BY <1>1, <2>1, <2>2, <2>3
<1> QED BY <1>2, <1>3, <1>4, <1>5, <1>6 DEF CountersMatchStore, Created, Number, Addressed

LEMMA FreshNext == IInv /\ Fresh /\ [Next]_vars => Fresh'
<1> SUFFICES ASSUME IInv, Fresh, [Next]_vars PROVE Fresh' OBVIOUS
<1> USE DEF IInv, Base, TypeOK
<1>1. ASSUME NEW r \in Req, NEW t \in Task, NEW withConfig \in BOOLEAN, NEW c,
             Proceed(r, t, From(t), c, withConfig)
      PROVE  Fresh'
  <2>1. CASE Accept(r, t, From(t), c, withConfig)
    <3>1. history'[t] # <<>>
      BY <2>1, HoldsAppended DEF Accept
    <3>2. \A u \in Task \ {t} : history'[u] = history[u] /\ state'[u] = state[u]
      BY <2>1 DEF Accept
    <3> QED BY <3>1, <3>2 DEF Fresh
  <2>2. CASE Refuse(r, t, From(t), c)
    BY <2>2 DEF Refuse, From, Fresh
  <2> QED BY <1>1, <2>1, <2>2 DEF Proceed
<1>2. ASSUME NEW r \in Req, NEW t \in Task, SendMessage(r, t) PROVE Fresh'
  BY <1>1, <1>2 DEF SendMessage, Fetch
<1>3. ASSUME NEW r \in Req, ConfigAccepted(r) PROVE Fresh'
  <2>1. target[r] \in Task /\ state[target[r]] = From(target[r])
    BY <1>3 DEF ConfigAccepted, Wiring, From
  <2> QED BY <1>1, <1>3, <2>1 DEF ConfigAccepted
<1>4. ASSUME NEW r \in Req, NEW t \in Task, SendMessageWithConfig(r, t) PROVE Fresh'
  BY <1>4 DEF SendMessageWithConfig, Fetch, From, Fresh
<1>5. ASSUME NEW r \in Req, proc[r] = "running", NEW next,
             state' = [state EXCEPT ![target[r]] = next], history' = history
      PROVE  Fresh'
  <2>1. target[r] \in Task /\ history[target[r]] # <<>>
    BY <1>5 DEF Wiring, Provenance, Holds
  <2> QED BY <1>5, <2>1 DEF Fresh
<1>6. ASSUME NEW r \in Req, HandlerSettles(r) PROVE Fresh'
  BY <1>5, <1>6
     DEF HandlerSettles, HandlerResolves, HandlerRejects, HandlerTooLate, taskVars, Fresh
<1>7. ASSUME NEW r \in Req, NEW next \in AdapterStates, AdapterUpdates(r, next) PROVE Fresh'
  BY <1>5, <1>7 DEF AdapterUpdates
<1>8. ASSUME NEW t \in Task, CancelTask(t) PROVE Fresh'
  BY <1>8 DEF CancelTask, Fresh
<1>9. ASSUME UNCHANGED <<state, history>> PROVE Fresh'
  BY <1>9 DEF Fresh
<1> QED
  BY GrpcSends, <1>2, <1>3, <1>4, <1>6, <1>7, <1>8, <1>9
     DEF Next, ValidationSettles, SendMessageDenied, ConfigRefused, PushSetBegins,
         PushSetStores, PushSetRefused, vars, taskVars

LEMMA CountersProceed ==
  ASSUME IInv, Fresh, CountersMatchStore,
         NEW r \in Req, NEW t \in Task, NEW withConfig \in BOOLEAN,
         Proceed(r, t, From(t), CountersAfterGetOrCreate(t), withConfig)
  PROVE  CountersMatchStore'
<1> USE DEF IInv, Base
<1>1. From(t) \in TaskStates /\ CountersAfterGetOrCreate(t) \in [Metric -> Nat]
  BY FromTyped
<1>2. CASE Accept(r, t, From(t), CountersAfterGetOrCreate(t), withConfig)
  <2>1. /\ state' = [state EXCEPT ![t] = "WORKING"] /\ state[t] \notin TERMINAL_TASK_STATES
        /\ counters' = RecordTaskStateChange(CountersAfterGetOrCreate(t), From(t), "WORKING")
        /\ "WORKING" \in TaskStates
    BY <1>2, States DEF Accept, IsMutable, From, Exists
  <2>2. history'[t] # <<>> /\ \A u \in Task \ {t} : history'[u] = history[u]
    BY <1>2, HoldsAppended DEF Accept, TypeOK
  <2>3. history[t] = <<>> => From(t) # "WORKING"
    BY DEF Fresh, From
  <2>4. CountersAfterGetOrCreate(t) = IF Exists(t) THEN counters ELSE RecordTaskCreated(counters)
    BY DEF CountersAfterGetOrCreate
  <2> QED BY <1>1, <2>1, <2>2, <2>3, <2>4, CountersMove DEF IsTerminal
<1>3. CASE Refuse(r, t, From(t), CountersAfterGetOrCreate(t))
  <2>1. /\ state' = [state EXCEPT ![t] = From(t)] /\ history' = history
        /\ counters' = CountersAfterGetOrCreate(t)
    BY <1>3 DEF Refuse
  <2>2. /\ state[t] = From(t) \/ ~IsTerminal(t)
        /\ From(t) \notin TERMINAL_TASK_STATES \ {state[t]}
    BY States DEF From, IsTerminal, Exists
  <2>3. CountersAfterGetOrCreate(t) = IF Exists(t) THEN counters ELSE RecordTaskCreated(counters)
    BY DEF CountersAfterGetOrCreate
  <2> QED BY <1>1, <2>1, <2>2, <2>3, CountersMove
<1> QED BY <1>2, <1>3 DEF Proceed

LEMMA CountersNext ==
  IInv /\ Fresh /\ CountersMatchStore /\ [Next]_vars => CountersMatchStore'
<1> SUFFICES ASSUME IInv, Fresh, CountersMatchStore, [Next]_vars
             PROVE  CountersMatchStore' OBVIOUS
<1> USE DEF IInv, Base
<1>1. ASSUME NEW r \in Req, NEW t \in Task, SendMessage(r, t) PROVE CountersMatchStore'
  BY <1>1, CountersProceed DEF SendMessage, Fetch
<1>2. ASSUME NEW r \in Req, ConfigAccepted(r) PROVE CountersMatchStore'
  <2>1. /\ target[r] \in Task /\ state[target[r]] = From(target[r])
        /\ counters = CountersAfterGetOrCreate(target[r])
    BY <1>2 DEF ConfigAccepted, Wiring, From, CountersAfterGetOrCreate
  <2> QED BY <1>2, <2>1, CountersProceed DEF ConfigAccepted
<1>3. ASSUME NEW r \in Req, NEW t \in Task, SendMessageWithConfig(r, t)
      PROVE  CountersMatchStore'
  <2>1. From(t) \in TaskStates /\ CountersAfterGetOrCreate(t) \in [Metric -> Nat]
    BY FromTyped
  <2>2. /\ state' = [state EXCEPT ![t] = From(t)] /\ history' = history
        /\ counters' = CountersAfterGetOrCreate(t)
    BY <1>3 DEF SendMessageWithConfig, Fetch
  <2>3. /\ state[t] = From(t) \/ ~IsTerminal(t)
        /\ From(t) \notin TERMINAL_TASK_STATES \ {state[t]}
    BY States DEF From, IsTerminal, Exists
  <2>4. CountersAfterGetOrCreate(t) = IF Exists(t) THEN counters ELSE RecordTaskCreated(counters)
    BY DEF CountersAfterGetOrCreate
  <2> QED BY <2>1, <2>2, <2>3, <2>4, CountersMove
<1>4. ASSUME NEW t \in Task, Exists(t), NEW x, CanTransition(state[t], x),
             state' = [state EXCEPT ![t] = x], history' = history,
             counters' = RecordTaskStateChange(counters, state[t], x)
      PROVE  CountersMatchStore'
  <2>1. state[t] \in OpenTaskStates /\ x \in TaskStates
    BY <1>4, TransitionFromOpen DEF TypeOK, Exists
  <2>2. ~IsTerminal(t) /\ state[t] \notin TERMINAL_TASK_STATES
    BY <2>1, States DEF IsTerminal
  <2>3. From(t) = state[t] /\ counters \in [Metric -> Nat]
    BY <1>4 DEF From, TypeOK
  <2> QED BY <1>4, <2>1, <2>2, <2>3, CountersMove
<1>5. ASSUME NEW r \in Req, HandlerSettles(r) PROVE CountersMatchStore'
  <2>1. CASE HandlerTooLate(r)
    BY <2>1 DEF HandlerTooLate, CountersMatchStore, Exists, taskVars
  <2>2. target[r] \in Task /\ Exists(target[r])
    BY <1>5 DEF HandlerSettles, HandlerResolves, HandlerRejects, HandlerTooLate, Wiring
  <2> QED BY <1>4, <1>5, <2>1, <2>2 DEF HandlerSettles, HandlerResolves, HandlerRejects
<1>6. ASSUME NEW r \in Req, NEW next \in AdapterStates, AdapterUpdates(r, next)
      PROVE  CountersMatchStore'
  BY <1>4, <1>6 DEF AdapterUpdates, Wiring
<1>7. ASSUME NEW t \in Task, CancelTask(t) PROVE CountersMatchStore'
  BY <1>4, <1>7 DEF CancelTask
<1>8. ASSUME UNCHANGED <<state, history, counters>> PROVE CountersMatchStore'
  BY <1>8 DEF CountersMatchStore, Exists
<1> QED
  BY GrpcSends, <1>1, <1>2, <1>3, <1>5, <1>6, <1>7, <1>8
     DEF Next, ValidationSettles, SendMessageDenied, ConfigRefused, PushSetBegins,
         PushSetStores, PushSetRefused, vars, taskVars

\* The metrics counters agree with the task store in every reachable state.
THEOREM CountersAgree == Spec => []CountersMatchStore
<1> DEFINE CInv == IInv /\ Fresh /\ CountersMatchStore
<1>1. Init => CInv
  <2> SUFFICES ASSUME Init PROVE Fresh /\ CountersMatchStore
    BY IInvInit
  <2>1. Fresh
    BY DEF Init, Fresh, Absent
  <2>2. /\ {t \in Task : Exists(t)} = {} /\ {t \in Task : history[t] # <<>>} = {}
        /\ {t \in Task : state[t] = "COMPLETED"} = {}
        /\ {t \in Task : state[t] = "FAILED"} = {}
        /\ {t \in Task : state[t] = "CANCELED"} = {}
    BY DEF Init, Exists, Absent
  <2>3. /\ Created = 0 /\ Addressed = 0
        /\ Number("COMPLETED") = 0 /\ Number("FAILED") = 0 /\ Number("CANCELED") = 0
    BY <2>2, FS_EmptySet, Zenon DEF Created, Addressed, Number
  <2>4. \A m \in Metric : counters[m] = 0
    BY DEF Init
  <2>5. CountersMatchStore
    <3>1. /\ counters["created"] = Created
          /\ counters["completed"] = Number("COMPLETED")
          /\ counters["failed"] = Number("FAILED")
          /\ counters["canceled"] = Number("CANCELED")
          /\ counters["started"] >= Addressed
      BY <2>3, <2>4 DEF Metric
    <3> QED BY <3>1 DEF CountersMatchStore, Created, Number, Addressed
  <2> QED BY <2>1, <2>5
<1>2. CInv /\ [Next]_vars => CInv'
  BY BaseNext, ProvenanceNext, OutcomeNext, WorkNext, NegotiationNext, FreshNext,
     CountersNext DEF IInv
<1>3. CInv => CountersMatchStore
  OBVIOUS
<1> HIDE DEF CInv
<1> QED BY <1>1, <1>2, <1>3, PTL DEF Spec

-----------------------------------------------------------------------------
(* The streams. *)

(***************************************************************************)
(* Where a stream stands: it has a task that is stored, nothing is written *)
(* to it before it opens, and it opened late only after its close event.   *)
(***************************************************************************)
Placed ==
  /\ \A c \in Sub \cup Resub : conn[c] # "none" => onTask[c] \in Task /\ Exists(onTask[c])
  /\ \A c \in StreamReq : conn[c] # "none" => pc[c] = "accepted"
  /\ \A c \in Stream : conn[c] \in {"none", "waiting"} => frame[c] = None
  /\ \A c \in late : peer[c] = "gone"

StreamBase == Base /\ StreamTypeOK /\ Placed

StreamInv == StreamBase /\ StreamsAreCurrent /\ EndedStreamSawOutcome

(***************************************************************************)
(* What a step of the runtime leaves to the streams.                       *)
(***************************************************************************)

\* An accepted request stays accepted, on the same task.
LEMMA AcceptedStays ==
  ASSUME Base, [Next]_vars, NEW r \in Req, pc[r] = "accepted"
  PROVE  pc'[r] = "accepted" /\ target'[r] = target[r]
<1> USE DEF Base, TypeOK
<1>1. ASSUME NEW q \in Req, NEW t \in Task, SendMessage(q, t) \/ SendMessageWithConfig(q, t)
      PROVE  pc'[r] = "accepted" /\ target'[r] = target[r]
  BY <1>1 DEF SendMessage, SendMessageWithConfig, Fetch, Proceed, Accept, Refuse
<1>2. ASSUME NEW q \in Req, ValidationSettles(q) \/ SendMessageDenied(q)
      PROVE  pc'[r] = "accepted" /\ target'[r] = target[r]
  BY <1>2 DEF ValidationSettles, ConfigAccepted, ConfigRefused, SendMessageDenied,
              Proceed, Accept, Refuse
<1>3. ASSUME UNCHANGED reqVars PROVE pc'[r] = "accepted" /\ target'[r] = target[r]
  BY <1>3 DEF reqVars
<1> QED
  BY GrpcSends, <1>1, <1>2, <1>3
     DEF Next, HandlerSettles, HandlerResolves, HandlerRejects, HandlerTooLate,
         AdapterUpdates, CancelTask, PushSetBegins, PushSetStores, PushSetRefused, vars

\* A stored task stays stored.
LEMMA ExistsStays ==
  ASSUME Base, [Next]_vars, NEW t \in Task, Exists(t)
  PROVE  Exists(t)'
<1> USE States DEF Base, TypeOK, Exists
<1>1. ASSUME NEW q \in Req, NEW u \in Task, SendMessage(q, u) \/ SendMessageWithConfig(q, u)
      PROVE  Exists(t)'
  BY <1>1 DEF SendMessage, SendMessageWithConfig, Proceed, Accept, Refuse, From
<1>2. ASSUME NEW q \in Req, ConfigAccepted(q) PROVE Exists(t)'
  BY <1>2 DEF ConfigAccepted, Proceed, Accept, Refuse, Wiring
<1>3. ASSUME NEW q \in Req, NEW n \in 0..MaxArtifacts,
             HandlerResolves(q, n) \/ HandlerRejects(q, n)
      PROVE  Exists(t)'
  BY <1>3 DEF HandlerResolves, HandlerRejects
<1>4. ASSUME NEW q \in Req, NEW next \in AdapterStates, AdapterUpdates(q, next)
      PROVE  Exists(t)'
  BY <1>4, RuntimeAssumption DEF AdapterUpdates
<1>5. ASSUME NEW u \in Task, CancelTask(u) PROVE Exists(t)'
  BY <1>5 DEF CancelTask
<1>6. ASSUME UNCHANGED state PROVE Exists(t)'
  BY <1>6
<1>7. 0 \in 0..MaxArtifacts
  BY RuntimeAssumption
<1> QED
  BY GrpcSends, <1>1, <1>2, <1>3, <1>4, <1>5, <1>6, <1>7
     DEF Next, HandlerSettles, ValidationSettles, HandlerTooLate, SendMessageDenied,
         ConfigRefused, PushSetBegins, PushSetStores, PushSetRefused, vars, taskVars

\* A stream keeps its task.
LEMMA TaskKept ==
  ASSUME StreamBase, [Next]_vars, UNCHANGED onTask, NEW c \in Stream, conn[c] # "none"
  PROVE  TaskOf(c) \in Task /\ TaskOf(c)' = TaskOf(c) /\ Exists(TaskOf(c))'
<1>1. CASE c \in StreamReq
  BY <1>1, AcceptedStays, BaseNext, StreamAssumption
     DEF StreamBase, Base, Wiring, Placed, TaskOf
<1>2. CASE c \in Sub \cup Resub
  BY <1>2, ExistsStays, StreamAssumption DEF StreamBase, Placed, TaskOf
<1> QED BY <1>1, <1>2 DEF Stream, Rpc

LEMMA SnapshotTyped ==
  ASSUME TypeOK, NEW t \in Task, Exists(t)
  PROVE  Snapshot(t) \in TaskStates \X Nat \X Nat \X (Req \cup {None})
BY DEF TypeOK, Exists, Snapshot

LEMMA Frozen ==
  ASSUME Base, [Next]_vars, NEW t \in Task, IsTerminal(t)
  PROVE  Snapshot(t)' = Snapshot(t)
BY FrozenNext DEF Record, Snapshot

LEMMA StreamInvInit == StreamInit => StreamInv
<1> SUFFICES ASSUME StreamInit PROVE StreamInv OBVIOUS
<1>1. Base
  BY BaseInit DEF StreamInit
<1>2. StreamTypeOK
  <2>1. clients = [t \in Task |-> {c \in Sub : conn[c] = "open" /\ onTask[c] = t}]
    BY DEF StreamInit, Stream
  <2> QED BY <2>1 DEF StreamInit, StreamTypeOK
<1>3. Placed
  BY StreamAssumption DEF StreamInit, Placed, Stream, Rpc
<1> QED BY <1>1, <1>2, <1>3 DEF StreamInit, StreamInv, StreamBase,
                                StreamsAreCurrent, EndedStreamSawOutcome

-----------------------------------------------------------------------------
(***************************************************************************)
(* A step of the runtime, and what the observers do with it.               *)
(***************************************************************************)
LEMMA NotifyInv ==
  ASSUME StreamInv, Next, Notify
  PROVE  StreamInv'
<1> DEFINE ended == {c \in Notified : IsTerminal(TaskOf(c))'}
<1> USE DEF StreamInv, StreamBase
<1>1. Base /\ Base'
  BY BaseNext
<1>2. /\ UNCHANGED <<peer, onTask, late>>
      /\ frame' = [c \in Stream |-> IF c \in Notified THEN Snapshot(TaskOf(c))' ELSE frame[c]]
      /\ conn' = [c \in Stream |-> IF c \in ended THEN "ended"
                                   ELSE IF c \in Begun THEN "open" ELSE conn[c]]
      /\ clients' = [t \in Task |-> clients[t] \ ended]
      /\ gauge' = Minus(gauge, Cardinality(Metered(ended)))
  BY DEF Notify
<1>3. Sub \cap Rpc = {} /\ Sub \subseteq Stream /\ Rpc \subseteq Stream /\ StreamReq \subseteq Req
      /\ GrpcStream \subseteq StreamReq /\ StreamReq \subseteq Rpc /\ Resub \cap StreamReq = {}
  BY StreamAssumption DEF Stream, Rpc, GrpcStream
<1>4. ASSUME NEW c \in Begun
      PROVE  /\ c \in GrpcStream /\ conn[c] = "none" /\ pc'[c] = "accepted"
             /\ TaskOf(c)' \in Task /\ Exists(TaskOf(c))'
  BY <1>1, <1>3, <1>4 DEF Begun, Placed, TaskOf, Base, Wiring
<1>5. ASSUME NEW c \in Stream, conn[c] # "none"
      PROVE  TaskOf(c) \in Task /\ TaskOf(c)' = TaskOf(c) /\ Exists(TaskOf(c))'
  BY <1>2, <1>5, TaskKept
<1>6. ASSUME NEW c \in Notified
      PROVE  c \in Stream /\ (c \in Begun \/ conn[c] = "open")
  BY <1>3, <1>6, <1>4 DEF Notified, Changed, Listeners, StreamTypeOK
<1>7. ASSUME NEW c \in Stream, conn[c] = "open", c \notin Notified
      PROVE  Snapshot(TaskOf(c))' = Snapshot(TaskOf(c))
  <2>1. TaskOf(c) \in Task /\ TaskOf(c)' = TaskOf(c)
    BY <1>5, <1>7
  <2>2. c \in clients[TaskOf(c)] \cup Listeners(TaskOf(c))
    BY <1>3, <1>7, <2>1 DEF StreamTypeOK, Listeners, TaskOf, Stream
  <2>3. TaskOf(c) \notin Changed
    BY <1>7, <2>1, <2>2 DEF Notified
  <2>4. Snapshot(TaskOf(c))' = <<state'[TaskOf(c)], Len(history'[TaskOf(c)]),
                                 Len(artifacts'[TaskOf(c)]), extensions'[TaskOf(c)]>>
    BY <2>1 DEF Snapshot
  <2> QED BY <2>1, <2>3, <2>4 DEF Changed, Snapshot
<1>8. ASSUME NEW c \in Notified
      PROVE  TaskOf(c)' \in Task /\ Exists(TaskOf(c))' /\ frame'[c] = Snapshot(TaskOf(c))'
  BY <1>2, <1>4, <1>5, <1>6, <1>8
<1>9. ASSUME NEW c \in Notified
      PROVE  frame'[c] \in TaskStates \X Nat \X Nat \X (Req \cup {None})
  <2>1. ASSUME NEW t \in Task, Exists(t)' PROVE Snapshot(t)' \in TaskStates \X Nat \X Nat \X (Req \cup {None})
    BY <1>1, <2>1 DEF Base, TypeOK, Exists, Snapshot
  <2>2. PICK t \in Task : t = TaskOf(c)' /\ Exists(t)'
    BY <1>8 DEF Exists
  <2> QED BY <1>8, <2>1, <2>2 DEF Snapshot
<1>10. StreamTypeOK'
  <2>1. frame' \in [Stream -> (TaskStates \X Nat \X Nat \X (Req \cup {None})) \cup {None}]
    BY <1>2, <1>9 DEF StreamTypeOK
  <2>2. conn' \in [Stream -> {"none", "waiting", "open", "ended"}]
    BY <1>2 DEF StreamTypeOK
  <2>3. clients' = [t \in Task |-> {c \in Sub : conn'[c] = "open" /\ onTask'[c] = t}]
    BY <1>2, <1>3 DEF StreamTypeOK, Begun
  <2>4. gauge' \in Nat
    <3>1. IsFiniteSet(Metered(ended))
      <4>1. IsFiniteSet(Rpc)
        BY StreamAssumption, FS_Union DEF Rpc
      <4>2. Metered(ended) \subseteq Rpc
        BY DEF Metered
      <4> QED BY <4>1, <4>2, FS_Subset
    <3>2. Cardinality(Metered(ended)) \in Nat
      BY <3>1, FS_CardinalityType
    <3> QED BY <1>2, <3>2 DEF Minus, StreamTypeOK
  <2> QED BY <1>2, <2>1, <2>2, <2>3, <2>4 DEF StreamTypeOK
<1>11. Placed'
  <2>1. ASSUME NEW c \in Sub \cup Resub, conn'[c] # "none"
        PROVE  onTask'[c] \in Task /\ Exists(onTask[c])'
    <3>1. c \in Stream /\ c \notin Begun /\ c \notin StreamReq
      BY <1>3, StreamAssumption DEF Stream, Rpc, Begun, GrpcStream
    <3>2. conn[c] # "none"
      <4>1. CASE c \in Notified
        BY <1>6, <3>1, <4>1
      <4>2. CASE c \notin Notified
        BY <1>2, <2>1, <3>1, <4>2
      <4> QED BY <4>1, <4>2
    <3>3. onTask[c] \in Task /\ Exists(onTask[c])
      BY <2>1, <3>2 DEF Placed
    <3>4. PICK t \in Task : t = onTask[c] /\ onTask'[c] = t /\ Exists(t)
      BY <1>2, <3>3
    <3>5. Exists(t)'
      BY <1>1, <3>4, ExistsStays
    <3> QED BY <3>4, <3>5 DEF Exists
  <2>2. ASSUME NEW c \in StreamReq, conn'[c] # "none" PROVE pc'[c] = "accepted"
    <3>1. CASE c \in Begun
      BY <1>4, <3>1
    <3>2. CASE c \notin Begun
      <4>1. conn[c] # "none"
        BY <1>2, <1>3, <1>6, <2>2, <3>2
      <4> QED BY <1>1, <1>3, <4>1, AcceptedStays DEF Placed
    <3> QED BY <3>1, <3>2
  <2>3. ASSUME NEW c \in Stream, conn'[c] \in {"none", "waiting"} PROVE frame'[c] = None
    BY <1>2, <1>6, <2>3 DEF Placed
  <2>4. \A c \in late' : peer'[c] = "gone"
    BY <1>2 DEF Placed
  <2> QED BY <2>1, <2>2, <2>3, <2>4 DEF Placed, Exists
<1>12. StreamsAreCurrent'
  <2>1. ASSUME NEW c \in Stream, conn'[c] = "open"
        PROVE  frame'[c] = Snapshot(TaskOf(c))' /\ ~IsTerminal(TaskOf(c))'
    <3>1. CASE c \in Notified
      BY <1>2, <1>8, <2>1, <3>1
    <3>2. CASE c \notin Notified
      <4>1. conn[c] = "open" /\ frame'[c] = frame[c]
        BY <1>2, <2>1, <3>2 DEF Notified
      <4>2. Snapshot(TaskOf(c))' = Snapshot(TaskOf(c))
        BY <1>7, <3>2, <4>1
      <4>3. frame[c] = Snapshot(TaskOf(c)) /\ ~IsTerminal(TaskOf(c))
        BY <4>1 DEF StreamsAreCurrent
      <4> QED BY <4>1, <4>2, <4>3 DEF Snapshot, IsTerminal
    <3> QED BY <3>1, <3>2
  <2> QED BY <2>1 DEF StreamsAreCurrent
<1>13. EndedStreamSawOutcome'
  <2>1. ASSUME NEW c \in Stream, Opened(c)', conn'[c] = "ended", peer'[c] = "up" \/ c \in late'
        PROVE  frame'[c] = Snapshot(TaskOf(c))' /\ frame'[c][1] \in TERMINAL_TASK_STATES
    <3>1. CASE c \in Notified
      <4>1. IsTerminal(TaskOf(c))'
        BY <1>2, <1>4, <1>6, <2>1, <3>1
      <4> QED BY <1>8, <3>1, <4>1 DEF Snapshot, IsTerminal
    <3>2. CASE c \notin Notified
      <4>1. conn[c] = "ended" /\ frame'[c] = frame[c] /\ Opened(c)
        BY <1>2, <2>1, <3>2 DEF Notified, Opened
      <4>2. frame[c] = Snapshot(TaskOf(c)) /\ frame[c][1] \in TERMINAL_TASK_STATES
        BY <1>2, <2>1, <4>1 DEF EndedStreamSawOutcome
      <4>3. TaskOf(c) \in Task /\ TaskOf(c)' = TaskOf(c) /\ IsTerminal(TaskOf(c))
        BY <1>5, <4>1, <4>2 DEF Snapshot, IsTerminal
      <4>4. Snapshot(TaskOf(c))' = Snapshot(TaskOf(c))
        <5>1. PICK t \in Task : t = TaskOf(c)
          BY <4>3
        <5>2. Snapshot(t)' = Snapshot(t)
          BY <1>1, <4>3, <5>1, Frozen
        <5> QED BY <4>3, <5>1, <5>2 DEF Snapshot
      <4> QED BY <4>1, <4>2, <4>4
    <3> QED BY <3>1, <3>2
  <2> QED BY <2>1 DEF EndedStreamSawOutcome
<1> QED BY <1>1, <1>10, <1>11, <1>12, <1>13

-----------------------------------------------------------------------------
(***************************************************************************)
(* The steps of the streams themselves: the runtime stands still.          *)
(***************************************************************************)
LEMMA StreamStepInv ==
  ASSUME StreamInv, StreamStep
  PROVE  StreamInv'
<1> USE DEF StreamInv, StreamBase
<1>1. UNCHANGED vars
  BY DEF StreamStep, Subscribe, SubscriptionOpens, RpcStreamOpens, StreamRefused, CloseEvent
<1>2. Base'
  BY <1>1, BaseNext
<1>3. UNCHANGED <<state, history, artifacts, extensions, pc, target>>
  BY <1>1 DEF vars, taskVars, reqVars
<1>4. Sub \cap Rpc = {} /\ Sub \subseteq Stream /\ Rpc \subseteq Stream /\ StreamReq \subseteq Req
      /\ StreamReq \subseteq Rpc /\ Resub \subseteq Rpc /\ Sub \cap StreamReq = {}
      /\ Resub \cap StreamReq = {} /\ GrpcStream \subseteq StreamReq
      /\ Stream = StreamReq \cup Sub \cup Resub
  BY StreamAssumption DEF Stream, Rpc, GrpcStream
<1>5. \A c \in Stream : conn[c] # "none" => TaskOf(c) \in Task /\ Exists(TaskOf(c))
  BY <1>4 DEF Placed, TaskOf, Base, Wiring
<1>6. \A t : Snapshot(t)' = Snapshot(t) /\ (IsTerminal(t)' <=> IsTerminal(t))
      /\ (Exists(t)' <=> Exists(t))
  BY <1>3 DEF Snapshot, IsTerminal, Exists
<1>7. ASSUME NEW c \in Sub \cup Resub, NEW t \in Task, Subscribe(c, t) PROVE StreamInv'
  <2>1. /\ conn[c] = "none" /\ Exists(t) /\ conn' = [conn EXCEPT ![c] = "waiting"]
        /\ onTask' = [onTask EXCEPT ![c] = t] /\ UNCHANGED <<peer, frame, clients, late, gauge>>
    BY <1>7 DEF Subscribe
  <2>2. ASSUME NEW d \in Stream \ {c} PROVE conn'[d] = conn[d] /\ TaskOf(d)' = TaskOf(d)
    BY <1>3, <1>4, <2>1 DEF TaskOf, StreamTypeOK
  <2>3. conn'[c] = "waiting" /\ onTask'[c] = t
    BY <1>4, <2>1 DEF StreamTypeOK
  <2>4. StreamTypeOK'
    <3>1. clients' = [u \in Task |-> {d \in Sub : conn'[d] = "open" /\ onTask'[d] = u}]
      <4>1. \A d \in Sub \ {c} : conn'[d] = conn[d] /\ onTask'[d] = onTask[d]
        BY <1>4, <2>1 DEF StreamTypeOK
      <4> QED BY <2>1, <2>3, <4>1 DEF StreamTypeOK
    <3> QED BY <2>1, <3>1 DEF StreamTypeOK
  <2>5. Placed'
    BY <1>3, <1>4, <2>1 DEF Placed, StreamTypeOK, Exists
  <2>6. StreamsAreCurrent'
    BY <1>6, <2>1, <2>2, <2>3 DEF StreamsAreCurrent, Snapshot, IsTerminal
  <2>7. EndedStreamSawOutcome'
    BY <1>3, <2>1, <2>2, <2>3 DEF EndedStreamSawOutcome, Opened, Snapshot
  <2> QED BY <1>2, <2>4, <2>5, <2>6, <2>7
<1>8. ASSUME UNCHANGED onTask, conn' \in [Stream -> {"none", "waiting", "open", "ended"}]
      PROVE  /\ \A c \in Stream : TaskOf(c)' = TaskOf(c)
             /\ \A c \in Stream : Snapshot(TaskOf(c))' = Snapshot(TaskOf(c))
             /\ \A c \in Stream : IsTerminal(TaskOf(c))' <=> IsTerminal(TaskOf(c))
  BY <1>3, <1>8 DEF TaskOf, Snapshot, IsTerminal
<1>9. ASSUME NEW c \in Sub, SubscriptionOpens(c) PROVE StreamInv'
  <2> DEFINE t == onTask[c]
             all == clients[t] \cup {c}
  <2>1. /\ conn[c] = "waiting"
        /\ frame' = [d \in Stream |-> IF d \in all THEN Snapshot(t) ELSE frame[d]]
        /\ UNCHANGED <<peer, onTask>> /\ gauge' = gauge + 1 /\ MarkLate(c)
    BY <1>9 DEF SubscriptionOpens
  <2>2. /\ TaskOf(c) = t /\ t \in Task /\ Exists(t)
        /\ \A d \in all : d \in Sub /\ onTask[d] = t /\ TaskOf(d) = t
    BY <1>4, <1>5, <2>1 DEF StreamTypeOK, TaskOf
  <2>3. frame' \in [Stream -> (TaskStates \X Nat \X Nat \X (Req \cup {None})) \cup {None}]
    BY <2>1, <2>2, SnapshotTyped DEF StreamTypeOK, Base
  <2>4. late' \subseteq Stream /\ \A d \in late' : peer'[d] = "gone"
    BY <1>4, <2>1 DEF MarkLate, StreamTypeOK, Placed
  <2>7. /\ peer' \in [Stream -> {"up", "gone"}]
        /\ onTask' \in [Sub \cup Resub -> Task \cup {None}]
        /\ gauge' \in Nat
    BY <2>1 DEF StreamTypeOK
  <2>5. CASE IsTerminal(t)
    <3>1. conn' = [d \in Stream |-> IF d \in all THEN "ended" ELSE conn[d]]
          /\ clients' = [clients EXCEPT ![t] = {}]
      BY <1>9, <2>5 DEF SubscriptionOpens
    <3>2. conn' \in [Stream -> {"none", "waiting", "open", "ended"}]
      BY <3>1 DEF StreamTypeOK
    <3>3. clients' = [u \in Task |-> {d \in Sub : conn'[d] = "open" /\ onTask'[d] = u}]
      <4>1. \A d \in Sub : conn'[d] = "open" <=> d \notin all /\ conn[d] = "open"
        BY <1>4, <2>2, <3>1 DEF StreamTypeOK
      <4>2. ASSUME NEW u \in Task
            PROVE  clients'[u] = {d \in Sub : conn'[d] = "open" /\ onTask'[d] = u}
        <5>1. clients[u] = {d \in Sub : conn[d] = "open" /\ onTask[d] = u}
          BY DEF StreamTypeOK
        <5>2. clients'[u] = IF u = t THEN {} ELSE clients[u]
          BY <2>2, <3>1 DEF StreamTypeOK
        <5> QED BY <2>1, <2>2, <4>1, <5>1, <5>2
      <4> QED BY <3>1, <4>2 DEF StreamTypeOK
    <3>4. StreamTypeOK'
      BY <2>3, <2>4, <2>7, <3>2, <3>3 DEF StreamTypeOK
    <3>5. Placed'
      BY <1>3, <1>4, <2>1, <2>2, <2>4, <3>1 DEF Placed, Exists, StreamTypeOK
    <3>6. StreamsAreCurrent'
      BY <1>8, <2>1, <3>1, <3>2 DEF StreamsAreCurrent
    <3>7. EndedStreamSawOutcome'
      <4>1. \A d \in all : frame'[d] = Snapshot(TaskOf(d))' /\ frame'[d][1] \in TERMINAL_TASK_STATES
        BY SMTT(20), <1>4, <1>8, <2>1, <2>2, <2>5, <3>2 DEF Snapshot, IsTerminal
      <4>2. \A d \in Stream \ all : d \in late' => d \in late
        BY <2>1 DEF MarkLate
      <4> QED BY <1>8, <2>1, <3>1, <3>2, <4>1, <4>2 DEF EndedStreamSawOutcome, Opened
    <3> QED BY <1>2, <3>4, <3>5, <3>6, <3>7
  <2>6. CASE ~IsTerminal(t)
    <3>1. conn' = [conn EXCEPT ![c] = "open"] /\ clients' = [clients EXCEPT ![t] = all]
      BY <1>9, <2>6 DEF SubscriptionOpens
    <3>2. conn' \in [Stream -> {"none", "waiting", "open", "ended"}]
      BY <3>1 DEF StreamTypeOK
    <3>3. clients' = [u \in Task |-> {d \in Sub : conn'[d] = "open" /\ onTask'[d] = u}]
      <4>1. \A d \in Sub : conn'[d] = "open" <=> d = c \/ conn[d] = "open"
        BY <1>4, <2>2, <3>1 DEF StreamTypeOK
      <4>2. ASSUME NEW u \in Task
            PROVE  clients'[u] = {d \in Sub : conn'[d] = "open" /\ onTask'[d] = u}
        <5>1. clients[u] = {d \in Sub : conn[d] = "open" /\ onTask[d] = u}
          BY DEF StreamTypeOK
        <5>2. clients'[u] = IF u = t THEN all ELSE clients[u]
          BY <2>2, <3>1 DEF StreamTypeOK
        <5> QED BY <2>1, <2>2, <4>1, <5>1, <5>2
      <4> QED BY <3>1, <4>2 DEF StreamTypeOK
    <3>4. StreamTypeOK'
      BY <2>3, <2>4, <2>7, <3>2, <3>3 DEF StreamTypeOK
    <3>5. Placed'
      BY <1>3, <1>4, <2>1, <2>2, <2>4, <3>1 DEF Placed, Exists, StreamTypeOK
    <3>6. StreamsAreCurrent'
      BY <1>4, <1>8, <2>1, <2>2, <2>6, <3>1, <3>2 DEF StreamsAreCurrent, StreamTypeOK
    <3>7. EndedStreamSawOutcome'
      <4>1. \A d \in all : conn'[d] = "open"
        BY <1>4, <2>2, <3>1 DEF StreamTypeOK
      <4>2. \A d \in Stream \ all : d \in late' => d \in late
        BY <2>1 DEF MarkLate
      <4>3. \A d \in Stream \ all : conn'[d] = conn[d] /\ frame'[d] = frame[d]
        BY <2>1, <3>1 DEF StreamTypeOK
      <4> QED BY <1>8, <2>1, <3>2, <4>1, <4>2, <4>3 DEF EndedStreamSawOutcome, Opened
    <3> QED BY <1>2, <3>4, <3>5, <3>6, <3>7
  <2> QED BY <2>5, <2>6
<1>10. ASSUME NEW c \in Rpc, RpcStreamOpens(c) PROVE StreamInv'
  <2> DEFINE t == TaskOf(c)
  <2>1. /\ conn[c] \in {"none", "waiting"} /\ frame' = [frame EXCEPT ![c] = Snapshot(t)]
        /\ UNCHANGED <<peer, onTask, clients>> /\ MarkLate(c) /\ gauge' \in {gauge, gauge + 1}
        /\ conn' = [conn EXCEPT ![c] = IF IsTerminal(t) THEN "ended" ELSE "open"]
    BY <1>10 DEF RpcStreamOpens, RpcReady
  <2>2. t \in Task /\ Exists(t) /\ (c \in StreamReq => pc[c] = "accepted")
    BY <1>4, <1>10 DEF RpcStreamOpens, RpcReady, TaskOf, Placed, Base, Wiring
  <2>3. c \in Stream /\ c \notin Sub
    BY <1>4
  <2>4. late' \subseteq Stream /\ \A d \in late' : peer'[d] = "gone"
    BY <2>1, <2>3 DEF MarkLate, StreamTypeOK, Placed
  <2>5. conn' \in [Stream -> {"none", "waiting", "open", "ended"}]
    BY <2>1 DEF StreamTypeOK
  <2>6. StreamTypeOK'
    <3>1. frame' \in [Stream -> (TaskStates \X Nat \X Nat \X (Req \cup {None})) \cup {None}]
      BY <2>1, <2>2, SnapshotTyped DEF StreamTypeOK, Base
    <3>2. clients' = [u \in Task |-> {d \in Sub : conn'[d] = "open" /\ onTask'[d] = u}]
      BY <1>4, <2>1, <2>3 DEF StreamTypeOK
    <3> QED BY <2>1, <2>4, <2>5, <3>1, <3>2 DEF StreamTypeOK
  <2>7. ASSUME NEW d \in Stream \ {c}
        PROVE  conn'[d] = conn[d] /\ frame'[d] = frame[d] /\ (d \in late' => d \in late)
    BY <2>1 DEF MarkLate, StreamTypeOK
  <2>8. frame'[c] = Snapshot(t) /\ conn'[c] = IF IsTerminal(t) THEN "ended" ELSE "open"
    BY <2>1, <2>3 DEF StreamTypeOK
  <2>9. Placed'
    <3>1. c \in Resub => onTask[c] \in Task /\ Exists(onTask[c])
      BY <1>4, <2>2 DEF TaskOf
    <3> QED BY <1>3, <1>4, <2>1, <2>2, <2>4, <2>7, <2>8, <3>1 DEF Placed, Exists
  <2>10. StreamsAreCurrent'
    BY <1>8, <2>1, <2>5, <2>7, <2>8 DEF StreamsAreCurrent
  <2>11. EndedStreamSawOutcome'
    <3>1. IsTerminal(t) => Snapshot(t)[1] \in TERMINAL_TASK_STATES
      BY DEF IsTerminal, Snapshot
    <3> QED BY <1>8, <2>1, <2>5, <2>7, <2>8, <3>1 DEF EndedStreamSawOutcome, Opened
  <2> QED BY <1>2, <2>6, <2>9, <2>10, <2>11
\* The close event and a refusal end one stream, and write nothing.
<1>11. ASSUME NEW c \in Stream, UNCHANGED <<onTask, frame, late>>,
             conn' = conn \/ conn' = [conn EXCEPT ![c] = "ended"],
             conn' # conn => (peer'[c] = "gone" /\ c \notin late) \/ frame[c] = None,
             \A d \in Stream : peer'[d] = "up" => peer[d] = "up",
             peer' \in [Stream -> {"up", "gone"}],
             clients' = [u \in Task |-> {d \in Sub : conn'[d] = "open" /\ onTask[d] = u}],
             gauge' \in Nat,
             c \in Sub \cup Resub => (onTask[c] \in Task /\ Exists(onTask[c])) \/ conn' = conn,
             c \in StreamReq => pc[c] = "accepted" \/ conn' = conn
      PROVE  StreamInv'
  <2>1. conn' \in [Stream -> {"none", "waiting", "open", "ended"}]
    BY <1>11 DEF StreamTypeOK
  <2>2. StreamTypeOK'
    BY <1>11, <2>1 DEF StreamTypeOK
  <2>3. \A d \in Stream : conn'[d] = conn[d] \/ (d = c /\ conn'[d] = "ended" /\ conn' # conn)
    BY <1>11 DEF StreamTypeOK
  <2>4. Placed'
    <3>1. \A d \in late' : peer'[d] = "gone"
      BY <1>11 DEF Placed, StreamTypeOK
    <3> QED BY <1>3, <1>4, <1>11, <2>3, <3>1 DEF Placed, Exists
  <2>5. StreamsAreCurrent'
    BY <1>8, <1>11, <2>1, <2>3 DEF StreamsAreCurrent
  <2>6. EndedStreamSawOutcome'
    BY <1>8, <1>11, <2>1, <2>3 DEF EndedStreamSawOutcome, Opened
  <2> QED BY <1>2, <2>2, <2>4, <2>5, <2>6
<1>12. ASSUME NEW c \in Stream, StreamRefused(c) PROVE StreamInv'
  <2>1. /\ conn[c] \in {"none", "waiting"} /\ conn' = [conn EXCEPT ![c] = "ended"]
        /\ UNCHANGED <<peer, onTask, frame, clients, late, gauge>>
        /\ c \in StreamReq => pc[c] = "accepted"
        /\ c \in Sub \cup Resub => conn[c] = "waiting"
    BY <1>4, <1>12 DEF StreamRefused, RpcReady
  <2>2. clients' = [u \in Task |-> {d \in Sub : conn'[d] = "open" /\ onTask[d] = u}]
    BY <1>4, <2>1 DEF StreamTypeOK
  <2>3. frame[c] = None /\ (c \in Sub \cup Resub => onTask[c] \in Task /\ Exists(onTask[c]))
    BY <2>1 DEF Placed
  <2> QED BY <1>11, <2>1, <2>2, <2>3 DEF StreamTypeOK
<1>13. ASSUME NEW c \in Stream, CloseEvent(c) PROVE StreamInv'
  <2>1. /\ peer[c] = "up" /\ peer' = [peer EXCEPT ![c] = "gone"]
        /\ UNCHANGED <<onTask, frame, late>>
    BY <1>13 DEF CloseEvent
  <2>2. peer' \in [Stream -> {"up", "gone"}] /\ peer'[c] = "gone" /\ c \notin late
        /\ \A d \in Stream : peer'[d] = "up" => peer[d] = "up"
    BY <2>1 DEF StreamTypeOK, Placed
  <2>3. CASE Opened(c) /\ (c \in Rpc => conn[c] = "open")
    <3>1. /\ conn' = [conn EXCEPT ![c] = "ended"] /\ clients' = [u \in Task |-> clients[u] \ {c}]
          /\ gauge' \in {gauge, Minus(gauge, 1)}
      BY <1>13, <2>3 DEF CloseEvent
    <3>2. gauge' \in Nat
      BY <3>1 DEF Minus, StreamTypeOK
    <3>3. conn[c] \notin {"none", "waiting"}
      BY <2>3 DEF Placed, Opened
    <3>4. clients' = [u \in Task |-> {d \in Sub : conn'[d] = "open" /\ onTask[d] = u}]
      <4>1. \A d \in Sub : conn'[d] = "open" <=> d # c /\ conn[d] = "open"
        BY <1>4, <3>1 DEF StreamTypeOK
      <4>2. ASSUME NEW u \in Task
            PROVE  clients[u] \ {c} = {d \in Sub : conn'[d] = "open" /\ onTask[d] = u}
        <5>1. clients[u] = {d \in Sub : conn[d] = "open" /\ onTask[d] = u}
          BY DEF StreamTypeOK
        <5> QED BY <4>1, <5>1
      <4> QED BY <3>1, <4>2
    <3>5. /\ c \in Sub \cup Resub => onTask[c] \in Task /\ Exists(onTask[c])
          /\ c \in StreamReq => pc[c] = "accepted"
      BY <3>3 DEF Placed
    <3> QED BY <1>11, <2>1, <2>2, <3>1, <3>2, <3>4, <3>5
  <2>4. CASE ~(Opened(c) /\ (c \in Rpc => conn[c] = "open"))
    <3>1. UNCHANGED <<conn, clients, gauge>>
      BY <1>13, <2>4 DEF CloseEvent
    <3> QED BY <1>11, <2>1, <2>2, <3>1 DEF StreamTypeOK
  <2> QED BY <2>3, <2>4
<1> QED BY <1>7, <1>9, <1>10, <1>12, <1>13 DEF StreamStep

LEMMA StreamInvNext == StreamInv /\ [StreamNext]_allVars => StreamInv'
<1> SUFFICES ASSUME StreamInv, [StreamNext]_allVars PROVE StreamInv' OBVIOUS
<1>1. CASE UNCHANGED allVars
  <2>1. Base'
    BY <1>1, BaseNext DEF allVars, StreamInv, StreamBase
  <2> QED BY <1>1, <2>1
          DEF allVars, vars, taskVars, reqVars, streamVars, StreamInv, StreamBase, StreamTypeOK,
              Placed, StreamsAreCurrent, EndedStreamSawOutcome, Opened, TaskOf, Snapshot,
              IsTerminal, Exists
<1> QED BY <1>1, NotifyInv, StreamStepInv DEF StreamNext

LEMMA StreamInvAlways == StreamSpec => []StreamInv
BY StreamInvInit, StreamInvNext, PTL DEF StreamSpec

\* The streams' variables keep their types, and the SSEStreamer's clients are the
\* GET streams that are open.
THEOREM StreamsTyped == StreamSpec => []StreamTypeOK
<1>1. StreamInv => StreamTypeOK
  BY DEF StreamInv, StreamBase
<1> QED BY <1>1, StreamInvAlways, PTL

\* However requests, subscriptions and updates interleave, an open stream has been
\* written the task as it is now, and its task is not closed.
THEOREM OpenStreamsAreCurrent == StreamSpec => []StreamsAreCurrent
<1>1. StreamInv => StreamsAreCurrent
  BY DEF StreamInv
<1> QED BY <1>1, StreamInvAlways, PTL

\* A stream the server ended told its client the outcome of the task.
THEOREM EndedStreamsToldTheEnd == StreamSpec => []EndedStreamSawOutcome
<1>1. StreamInv => EndedStreamSawOutcome
  BY DEF StreamInv
<1> QED BY <1>1, StreamInvAlways, PTL

-----------------------------------------------------------------------------
(***************************************************************************)
(* The gauge: the open event streams of RPC calls, and the GET streams     *)
(* whose close event is to come, or never will.                            *)
(***************************************************************************)
Counted == Metered({c \in Rpc : conn[c] = "open"})
Attached == {c \in Sub : Opened(c) /\ (peer[c] = "up" \/ c \in late)}

LEMMA CountedFinite ==
  /\ IsFiniteSet(Counted) /\ IsFiniteSet(Attached)
  /\ Cardinality(Counted) \in Nat /\ Cardinality(Attached) \in Nat
<1>1. IsFiniteSet(Rpc) /\ IsFiniteSet(Sub)
  BY StreamAssumption, FS_Union DEF Rpc
<1>2. Counted \subseteq Rpc /\ Attached \subseteq Sub
  BY DEF Counted, Attached, Metered
<1> QED BY <1>1, <1>2, FS_Subset, FS_CardinalityType

\* An open stream was written to.
LEMMA OpenIsOpened ==
  ASSUME StreamInv, NEW c \in Stream, conn[c] = "open"
  PROVE  Opened(c)
<1>1. TaskOf(c) \in Task /\ Exists(TaskOf(c))
  <2>1. CASE c \in StreamReq
    BY <2>1, StreamAssumption DEF StreamInv, StreamBase, Base, Wiring, Placed, TaskOf
  <2>2. CASE c \in Sub \cup Resub
    BY <2>2, StreamAssumption DEF StreamInv, StreamBase, Placed, TaskOf
  <2> QED BY <2>1, <2>2 DEF Stream, Rpc
<1>2. frame[c] \in TaskStates \X Nat \X Nat \X (Req \cup {None})
  BY <1>1, SnapshotTyped DEF StreamInv, StreamBase, StreamsAreCurrent, Base
<1> QED BY <1>2, StreamAssumption DEF Opened

LEMMA GaugeNotified ==
  ASSUME StreamInv, GaugeIsExact, Next, Notify
  PROVE  GaugeIsExact'
<1> DEFINE ended == {c \in Notified : IsTerminal(TaskOf(c))'}
<1> USE DEF StreamInv, StreamBase
<1>1. /\ UNCHANGED <<peer, onTask, late>>
      /\ frame' = [c \in Stream |-> IF c \in Notified THEN Snapshot(TaskOf(c))' ELSE frame[c]]
      /\ conn' = [c \in Stream |-> IF c \in ended THEN "ended"
                                   ELSE IF c \in Begun THEN "open" ELSE conn[c]]
      /\ gauge' = Minus(gauge, Cardinality(Metered(ended)))
  BY DEF Notify
<1>2. Sub \cap Rpc = {} /\ Sub \subseteq Stream /\ Rpc \subseteq Stream /\ GrpcStream \subseteq GrpcReq
      /\ GrpcStream \subseteq Rpc
  BY StreamAssumption DEF Stream, Rpc, GrpcStream
<1>3. Begun \subseteq GrpcStream
  BY DEF Begun
<1>4. \A c \in Notified \ Begun : c \in Stream /\ conn[c] = "open"
  BY <1>2 DEF Notified, Changed, Listeners, StreamTypeOK
<1>5. Metered(ended) \subseteq Counted /\ Counted' = Counted \ Metered(ended)
  <2>1. Metered(ended) \subseteq Counted
    BY <1>3, <1>4, <1>2 DEF Metered, Counted
  <2>2. \A c \in Rpc \ GrpcReq : conn'[c] = "open" <=> conn[c] = "open" /\ c \notin ended
    BY <1>1, <1>2, <1>3
  <2> QED BY <2>1, <2>2 DEF Metered, Counted
<1>6. Attached' = Attached
  <2>1. ASSUME NEW c \in Sub PROVE Opened(c)' <=> Opened(c)
    <3>1. CASE c \in Notified
      <4>1. c \in Stream /\ conn[c] = "open" /\ Opened(c)
        BY <1>2, <1>3, <1>4, <3>1, OpenIsOpened
      <4>2. Opened(c)'
        <5>1. TaskOf(c) \in Task /\ TaskOf(c)' = TaskOf(c) /\ Exists(TaskOf(c))'
          BY <1>1, <4>1, TaskKept
        <5>2. frame'[c] = Snapshot(TaskOf(c))'
          BY <1>1, <1>2, <3>1
        <5>3. PICK t \in Task : t = TaskOf(c) /\ t = TaskOf(c)' /\ Exists(t)'
          BY <5>1 DEF Exists
        <5>4. frame'[c] = Snapshot(t)'
          BY <5>2, <5>3 DEF Snapshot
        <5>5. Base'
          BY BaseNext
        <5>6. Snapshot(t)' \in TaskStates \X Nat \X Nat \X (Req \cup {None})
          BY <5>3, <5>5 DEF Base, TypeOK, Exists, Snapshot
        <5> QED BY <5>4, <5>6, StreamAssumption DEF Opened
      <4> QED BY <4>1, <4>2
    <3>2. CASE c \notin Notified
      BY <1>1, <1>2, <3>2 DEF Opened
    <3> QED BY <3>1, <3>2
  <2> QED BY <1>1, <2>1 DEF Attached
<1>7. /\ Cardinality(Counted') = Cardinality(Counted) - Cardinality(Metered(ended))
      /\ Cardinality(Metered(ended)) \in Nat
      /\ Cardinality(Metered(ended)) <= Cardinality(Counted)
  <2>1. IsFiniteSet(Metered(ended))
    BY <1>5, CountedFinite, FS_Subset
  <2>2. Counted \cap Metered(ended) = Metered(ended)
    BY <1>5
  <2>3. Cardinality(Counted \ Metered(ended))
          = Cardinality(Counted) - Cardinality(Counted \cap Metered(ended))
    BY CountedFinite, FS_Difference
  <2>4. Cardinality(Metered(ended)) \in Nat /\ Cardinality(Metered(ended)) <= Cardinality(Counted)
    BY <1>5, <2>1, CountedFinite, FS_Subset, FS_CardinalityType
  <2> QED BY <1>5, <2>2, <2>3, <2>4
<1>8. gauge = Cardinality(Counted) + Cardinality(Attached)
  BY DEF GaugeIsExact, Counted, Attached
<1> HIDE DEF ended
<1>9. gauge' = Cardinality(Counted') + Cardinality(Attached)
  BY <1>1, <1>7, <1>8, CountedFinite DEF Minus
<1> QED BY <1>6, <1>9 DEF GaugeIsExact, Counted, Attached

LEMMA GaugeStep ==
  ASSUME StreamInv, GaugeIsExact, StreamStep
  PROVE  GaugeIsExact'
<1> USE DEF StreamInv, StreamBase
<1>1. gauge = Cardinality(Counted) + Cardinality(Attached)
  BY DEF GaugeIsExact, Counted, Attached
<1>2. Sub \cap Rpc = {} /\ Sub \subseteq Stream /\ Rpc \subseteq Stream /\ GrpcStream \subseteq GrpcReq
      /\ GrpcStream \subseteq Rpc /\ Resub \cap GrpcReq = {} /\ StreamReq \subseteq Rpc /\ Resub \subseteq Rpc
      /\ Rpc = StreamReq \cup Resub /\ Stream = Sub \cup Rpc
      /\ \A c \in Rpc : c \in GrpcReq => c \in GrpcStream
  BY StreamAssumption, RuntimeAssumption DEF Stream, Rpc, GrpcStream
<1>3. ASSUME NEW c \in Counted' \ Counted, Counted' = Counted \cup {c}, Attached' = Attached,
             gauge' = gauge + 1
      PROVE  GaugeIsExact'
  <2>1. c \notin Counted /\ Cardinality(Counted \cup {c}) = Cardinality(Counted) + 1
    BY <1>3, CountedFinite, FS_AddElement
  <2>2. gauge' = Cardinality(Counted') + Cardinality(Attached')
    BY <1>1, <1>3, <2>1, CountedFinite
  <2> QED BY <2>2 DEF GaugeIsExact, Counted, Attached
<1>4. ASSUME NEW c, c \notin Attached, Attached' = Attached \cup {c}, Counted' = Counted,
             gauge' = gauge + 1
      PROVE  GaugeIsExact'
  <2>1. Cardinality(Attached \cup {c}) = Cardinality(Attached) + 1
    BY <1>4, CountedFinite, FS_AddElement
  <2>2. gauge' = Cardinality(Counted') + Cardinality(Attached')
    BY <1>1, <1>4, <2>1, CountedFinite
  <2> QED BY <2>2 DEF GaugeIsExact, Counted, Attached
<1>5. ASSUME NEW c \in Counted, Counted' = Counted \ {c}, Attached' = Attached,
             gauge' = Minus(gauge, 1)
      PROVE  GaugeIsExact'
  <2>1. Cardinality(Counted \ {c}) = Cardinality(Counted) - 1 /\ Cardinality(Counted) >= 1
    <3>1. Cardinality(Counted \ {c}) = Cardinality(Counted) - 1
      BY CountedFinite, FS_RemoveElement
    <3>2. Cardinality(Counted \ {c}) \in Nat
      BY CountedFinite, FS_Subset, FS_CardinalityType
    <3> QED BY <3>1, <3>2, CountedFinite
  <2>2. gauge' = Cardinality(Counted') + Cardinality(Attached')
    BY <1>1, <1>5, <2>1, CountedFinite DEF Minus
  <2> QED BY <2>2 DEF GaugeIsExact, Counted, Attached
<1>6. ASSUME NEW c \in Attached, Attached' = Attached \ {c}, Counted' = Counted,
             gauge' = Minus(gauge, 1)
      PROVE  GaugeIsExact'
  <2>1. Cardinality(Attached \ {c}) = Cardinality(Attached) - 1 /\ Cardinality(Attached) >= 1
    <3>1. Cardinality(Attached \ {c}) = Cardinality(Attached) - 1
      BY CountedFinite, FS_RemoveElement
    <3>2. Cardinality(Attached \ {c}) \in Nat
      BY CountedFinite, FS_Subset, FS_CardinalityType
    <3> QED BY <3>1, <3>2, CountedFinite
  <2>2. gauge' = Cardinality(Counted') + Cardinality(Attached')
    BY <1>1, <1>6, <2>1, CountedFinite DEF Minus
  <2> QED BY <2>2 DEF GaugeIsExact, Counted, Attached
<1>7. ASSUME Counted' = Counted, Attached' = Attached, gauge' = gauge PROVE GaugeIsExact'
  BY <1>1, <1>7 DEF GaugeIsExact, Counted, Attached
<1>8. ASSUME NEW c \in Sub \cup Resub, NEW t \in Task, Subscribe(c, t) PROVE GaugeIsExact'
  <2>1. conn[c] = "none" /\ conn' = [conn EXCEPT ![c] = "waiting"]
        /\ UNCHANGED <<peer, frame, late, gauge>>
    BY <1>8 DEF Subscribe
  <2>2. Counted' = Counted /\ Attached' = Attached
    BY <1>2, <2>1 DEF Counted, Attached, Metered, Opened, StreamTypeOK
  <2> QED BY <1>7, <2>1, <2>2
<1>9. ASSUME NEW c \in Sub, SubscriptionOpens(c) PROVE GaugeIsExact'
  <2> DEFINE t == onTask[c]
             all == clients[t] \cup {c}
  <2>1. /\ conn[c] = "waiting"
        /\ frame' = [d \in Stream |-> IF d \in all THEN Snapshot(t) ELSE frame[d]]
        /\ UNCHANGED peer /\ gauge' = gauge + 1 /\ MarkLate(c)
    BY <1>9 DEF SubscriptionOpens
  <2>2. t \in Task /\ Exists(t) /\ frame[c] = None
    BY <1>2, <2>1 DEF Placed
  <2>3. Snapshot(t) # None
    BY <2>2, SnapshotTyped, StreamAssumption DEF Base
  <2>4. all \subseteq Sub /\ \A d \in all \ {c} : conn[d] = "open"
    BY <2>2 DEF StreamTypeOK
  <2>5. \A d \in Sub \ {c} : Opened(d)' <=> Opened(d)
    BY <1>2, <2>1, <2>3, <2>4, OpenIsOpened DEF Opened
  <2>6. Opened(c)' /\ (peer'[c] = "up" \/ c \in late') /\ \A d \in Sub \ {c} : d \in late' <=> d \in late
    BY <1>2, <2>1, <2>3 DEF Opened, MarkLate, StreamTypeOK
  <2>7. Attached' = Attached \cup {c} /\ c \notin Attached
    BY <2>1, <2>2, <2>5, <2>6 DEF Attached, Opened
  <2>8. \A d \in Rpc : conn'[d] = conn[d]
    <3>1. \A d \in Rpc : d \notin all /\ d \in Stream
      BY <1>2, <2>4
    <3>2. \/ conn' = [d \in Stream |-> IF d \in all THEN "ended" ELSE conn[d]]
          \/ conn' = [conn EXCEPT ![c] = "open"]
      BY <1>9 DEF SubscriptionOpens
    <3> QED BY <1>2, <3>1, <3>2 DEF StreamTypeOK
  <2>9. Counted' = Counted
    BY <2>8 DEF Counted, Metered
  <2> QED BY <1>4, <2>1, <2>7, <2>9
<1>10. ASSUME NEW c \in Rpc, RpcStreamOpens(c) PROVE GaugeIsExact'
  <2>1. /\ conn[c] \in {"none", "waiting"} /\ c \notin GrpcReq
        /\ frame' = [frame EXCEPT ![c] = Snapshot(TaskOf(c))] /\ UNCHANGED peer /\ MarkLate(c)
    BY <1>2, <1>10 DEF RpcStreamOpens, RpcReady
  <2>2. Attached' = Attached
    BY <1>2, <2>1 DEF Attached, Opened, MarkLate, StreamTypeOK
  <2>3. \/ conn' = [conn EXCEPT ![c] = "ended"] /\ gauge' = gauge
        \/ conn' = [conn EXCEPT ![c] = "open"] /\ gauge' = gauge + 1
    BY <1>10 DEF RpcStreamOpens
  <2>4. CASE conn' = [conn EXCEPT ![c] = "ended"] /\ gauge' = gauge
    <3>1. Counted' = Counted
      BY <1>2, <2>1, <2>4 DEF Counted, Metered, StreamTypeOK
    <3> QED BY <1>7, <2>2, <2>4, <3>1
  <2>5. CASE conn' = [conn EXCEPT ![c] = "open"] /\ gauge' = gauge + 1
    <3>1. Counted' = Counted \cup {c} /\ c \notin Counted
      BY <1>2, <2>1, <2>5 DEF Counted, Metered, StreamTypeOK
    <3> QED BY <1>3, <2>2, <2>5, <3>1
  <2> QED BY <2>3, <2>4, <2>5
<1>11. ASSUME NEW c \in Stream, StreamRefused(c) PROVE GaugeIsExact'
  <2>1. conn[c] \in {"none", "waiting"} /\ conn' = [conn EXCEPT ![c] = "ended"]
        /\ UNCHANGED <<peer, frame, late, gauge>>
    BY <1>11 DEF StreamRefused, RpcReady
  <2>2. Counted' = Counted /\ Attached' = Attached
    BY <1>2, <2>1 DEF Counted, Attached, Metered, Opened, StreamTypeOK
  <2> QED BY <1>7, <2>1, <2>2
<1>12. ASSUME NEW c \in Stream, CloseEvent(c) PROVE GaugeIsExact'
  <2>1. peer[c] = "up" /\ peer' = [peer EXCEPT ![c] = "gone"] /\ UNCHANGED <<frame, late>>
        /\ c \notin late
    BY <1>12 DEF CloseEvent, Placed
  <2>2. CASE Opened(c) /\ c \in Sub
    <3>1. conn' = [conn EXCEPT ![c] = "ended"] /\ gauge' = Minus(gauge, 1)
      <4>1. c \notin Rpc /\ c \notin GrpcStream
        BY <1>2, <2>2
      <4> QED BY <1>12, <2>2, <4>1 DEF CloseEvent
    <3>2. Attached' = Attached \ {c} /\ c \in Attached
      BY <1>2, <2>1, <2>2 DEF Attached, Opened, StreamTypeOK
    <3>3. Counted' = Counted
      BY <1>2, <2>2, <3>1 DEF Counted, Metered, StreamTypeOK
    <3> QED BY <1>6, <3>1, <3>2, <3>3
  <2>3. CASE ~(Opened(c) /\ c \in Sub)
    <3>1. Attached' = Attached
      BY <1>2, <2>1, <2>3 DEF Attached, Opened, StreamTypeOK
    <3>2. CASE Opened(c) /\ c \in Rpc /\ conn[c] = "open"
      <4>1. conn' = [conn EXCEPT ![c] = "ended"]
            /\ gauge' = IF c \in GrpcStream THEN gauge ELSE Minus(gauge, 1)
        BY <1>12, <3>2 DEF CloseEvent
      <4>2. CASE c \in GrpcStream
        <5>1. Counted' = Counted
          BY <1>2, <4>1, <4>2 DEF Counted, Metered, StreamTypeOK
        <5> QED BY <1>7, <3>1, <4>1, <4>2, <5>1
      <4>3. CASE c \notin GrpcStream
        <5>1. Counted' = Counted \ {c} /\ c \in Counted
          BY <1>2, <3>2, <4>1, <4>3 DEF Counted, Metered, StreamTypeOK
        <5> QED BY <1>5, <3>1, <4>1, <4>3, <5>1
      <4> QED BY <4>2, <4>3
    <3>3. CASE ~(Opened(c) /\ c \in Rpc /\ conn[c] = "open")
      <4>1. UNCHANGED <<conn, gauge>>
        BY <1>2, <1>12, <2>3, <3>3 DEF CloseEvent
      <4> QED BY <1>7, <3>1, <4>1 DEF Counted, Metered
    <3> QED BY <3>2, <3>3
  <2> QED BY <2>2, <2>3
<1> QED BY <1>8, <1>9, <1>10, <1>11, <1>12 DEF StreamStep

\* Whichever of the terminal update and the close event comes first, a stream
\* leaves the gauge once.
THEOREM GaugeCounts == StreamSpec => []GaugeIsExact
<1>1. StreamInit => GaugeIsExact
  <2> SUFFICES ASSUME StreamInit PROVE GaugeIsExact OBVIOUS
  <2>1. Counted = {} /\ Attached = {}
    BY DEF StreamInit, Counted, Attached, Metered, Opened, Stream
  <2>2. Cardinality(Counted) = 0 /\ Cardinality(Attached) = 0
    BY <2>1, FS_EmptySet
  <2> QED BY <2>2 DEF StreamInit, GaugeIsExact, Counted, Attached
<1>2. StreamInv /\ GaugeIsExact /\ [StreamNext]_allVars => GaugeIsExact'
  <2> SUFFICES ASSUME StreamInv, GaugeIsExact, [StreamNext]_allVars PROVE GaugeIsExact' OBVIOUS
  <2>1. CASE UNCHANGED allVars
    BY <2>1 DEF allVars, streamVars, GaugeIsExact, Metered, Opened
  <2> QED BY <2>1, GaugeNotified, GaugeStep DEF StreamNext
<1> QED BY <1>1, <1>2, StreamInvAlways, PTL DEF StreamSpec
=============================================================================
