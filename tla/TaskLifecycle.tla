---------------------------- MODULE TaskLifecycle ----------------------------
(***************************************************************************)
(* The mutation rules that packages/core/src/server/taskLifecycle.ts gives *)
(* to both task managers.  They are the operators every module that        *)
(* changes a task is built from; TaskRuntime makes a state machine of      *)
(* them.                                                                   *)
(***************************************************************************)

TERMINAL_TASK_STATES == {"COMPLETED", "FAILED", "CANCELED"}

OpenTaskStates ==
  {"SUBMITTED", "QUEUED", "WORKING", "INPUT_REQUIRED", "WAITING_ON_EXTERNAL"}

TaskStates == OpenTaskStates \cup TERMINAL_TASK_STATES

(***************************************************************************)
(* TASK_TRANSITIONS[s] is the set of states a task in state s may be put   *)
(* in.  A state may be entered again from itself, and nothing goes back to *)
(* SUBMITTED or QUEUED once work has begun.                                *)
(***************************************************************************)
TASK_TRANSITIONS ==
  [s \in TaskStates |->
     CASE s = "SUBMITTED" -> TaskStates
       [] s = "QUEUED" -> TaskStates \ {"SUBMITTED"}
       [] s \in {"WORKING", "INPUT_REQUIRED", "WAITING_ON_EXTERNAL"} ->
            TaskStates \ {"SUBMITTED", "QUEUED"}
       [] s \in TERMINAL_TASK_STATES -> {}]

(***************************************************************************)
(* assertTaskMutable and assertTransition as predicates: the code throws a *)
(* TaskLifecycleError exactly when they are false.                         *)
(***************************************************************************)
\* Mutant: CANCELED is forgotten.
IsMutableForgetsCanceled(s) == s \notin {"COMPLETED", "FAILED"}
IsMutable(s) == s \notin TERMINAL_TASK_STATES

CanTransition(s, next) == IsMutable(s) /\ next \in TASK_TRANSITIONS[s]
=============================================================================
