---------------------------- MODULE SerialTasks ----------------------------
(***************************************************************************)
(* What the asynchronous task manager promises to its callers, with        *)
(* nothing of queues and transactions: every mutation takes effect in one  *)
(* step, at most once, on the task as the mutations before it left it, or  *)
(* is refused and has no effect; a closed task takes no mutation of the    *)
(* manager.  The exceptions are said beforehand: an operation announced as *)
(* bare may be refused after a part of its effect, and leaves that part.   *)
(* AsyncTasks is shown to implement this module.                           *)
(***************************************************************************)
EXTENDS Sequences

CONSTANTS Task,  \* the task identifiers
          Stored, \* those of the tasks that exist from the start
          Op,    \* the mutations
          None   \* no task, no mutation

VARIABLES
  tasks,    \* tasks[t] is [open, log], or None: its edits in order, while it exists
  push,     \* push[t] is the mutation that set the push configuration of t
  bare,     \* the operations of the storage that are not atomic
  partial,  \* those a part of which took effect, and not yet, or never, the rest
  applied,  \* the mutations that took effect
  refused   \* the mutations whose callers were told so, or never will be told

svars == <<tasks, push, bare, partial, applied, refused>>

Init ==
  /\ tasks = [t \in Task |-> IF t \in Stored THEN [open |-> TRUE, log |-> <<>>] ELSE None]
  /\ push = [t \in Task |-> None]
  /\ bare = {}
  /\ partial = {}
  /\ applied = {}
  /\ refused = {}

Edited(task, o) == [task EXCEPT !.log = Append(@, o)]

Create(t, o) ==
  /\ tasks[t] = None
  /\ tasks' = [tasks EXCEPT ![t] = [open |-> TRUE, log |-> <<o>>]]
  /\ UNCHANGED push

Edit(t, o) ==
  /\ tasks[t] # None /\ tasks[t].open
  /\ \E open \in BOOLEAN : tasks' = [tasks EXCEPT ![t] = [Edited(@, o) EXCEPT !.open = open]]
  /\ UNCHANGED push

Configure(t, o) ==
  /\ tasks[t] # None /\ tasks[t].open
  /\ push' = [push EXCEPT ![t] = o]
  /\ UNCHANGED tasks

\* A transaction of the application writes the task without the manager's rules.
Overwrite(t, o) ==
  /\ tasks[t] # None
  /\ tasks' = [tasks EXCEPT ![t] = Edited(@, o)]
  /\ UNCHANGED push

Remove(t) ==
  /\ tasks' = [tasks EXCEPT ![t] = None]
  /\ push' = [push EXCEPT ![t] = None]

\* The task does not exist: the mutation succeeds and changes nothing.
Miss(t) ==
  /\ tasks[t] = None
  /\ UNCHANGED <<tasks, push>>

Unconfigure(t) ==
  /\ push' = [push EXCEPT ![t] = None]
  /\ UNCHANGED tasks

Announce(o) ==
  /\ o \notin bare \cup applied \cup refused
  /\ bare' = bare \cup {o}
  /\ UNCHANGED <<tasks, push, partial, applied, refused>>

Apply(o) ==
  /\ o \notin partial \cup applied \cup refused
  /\ applied' = applied \cup {o}
  /\ UNCHANGED <<bare, partial, refused>>
  /\ \E t \in Task :
       Create(t, o) \/ Edit(t, o) \/ Configure(t, o) \/ Overwrite(t, o) \/ Remove(t) \/ Miss(t)

\* A bare operation in two steps, between which it may be refused.
Start(o) ==
  /\ o \in bare \ (partial \cup applied \cup refused)
  /\ partial' = partial \cup {o}
  /\ UNCHANGED <<bare, applied, refused>>
  /\ \E t \in Task : Overwrite(t, o) \/ Unconfigure(t)

Finish(o) ==
  /\ o \in partial \ refused
  /\ partial' = partial \ {o}
  /\ applied' = applied \cup {o}
  /\ UNCHANGED <<bare, refused>>
  /\ UNCHANGED <<tasks, push>> \/ \E t \in Task : Remove(t)

Refuse(ops) ==
  /\ ops \cap (applied \cup refused) = {}
  /\ refused' = refused \cup ops
  /\ UNCHANGED <<tasks, push, bare, partial, applied>>

Next ==
  \/ \E o \in Op : Announce(o) \/ Apply(o) \/ Start(o) \/ Finish(o)
  \/ \E ops \in SUBSET Op : Refuse(ops)

Spec == Init /\ [][Next]_svars
=============================================================================
