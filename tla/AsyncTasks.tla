----------------------------- MODULE AsyncTasks -----------------------------
(***************************************************************************)
(* AsyncTaskManager of packages/core over its asynchronous storages:       *)
(*   "sqlite"   AsyncSqliteTaskStorage, whose transactions are SQLite's,   *)
(*   "adapter"  SyncTaskStorageAdapter over InMemoryTaskStorage,           *)
(*   "plain"    a storage without transactions, which the manager queues.  *)
(* An operation is queued behind the operations called before it, on one   *)
(* promise, and runs its callback over several awaits.  A step is the code *)
(* between two awaits.  The caller resumes, and the event is emitted, in a *)
(* microtask that precedes the next operation of the queue.                *)
(***************************************************************************)
EXTENDS Naturals, FiniteSets, SequencesExt

CONSTANTS
  Task,     \* the task identifiers
  Stored,   \* those of the tasks the storage holds when the process starts
  Calls,    \* the number of calls of the manager and of the storage
  Storages, \* the kinds of storage considered
  None      \* no task, no operation

\* The calls, numbered in the order they are made.
Op == 1 .. Calls

Record == [open : BOOLEAN, log : Seq(Op)]
Contents == [Task -> Record \cup {None}] \X [Task -> Op \cup {None}]

ASSUME StorageAssumption ==
  /\ Calls \in Nat
  /\ Storages \subseteq {"sqlite", "adapter", "plain"}
  /\ None \notin Task \cup Record \cup Contents
  /\ Stored \subseteq Task

VARIABLES
  storage, \* the storage the manager was given
  kind,    \* kind[o]: the method called
  target,  \* target[o]: the task it was called for
  pc,      \* pc[o]: where o is
  out,     \* out[o]: the task o read, as o changed it; None before and if missing
  tasks,   \* tasks[t]: the stored task, [open, log]; log lists the edits in it
  push,    \* push[t]: who set the push configuration stored for t
  backup,  \* <<tasks, push>> at BEGIN, while a SQLite transaction is open
  queue,   \* the operations not finished, the running one first
  events   \* history: the taskUpdated events emitted

callVars == <<storage, kind, target>>
vars == <<callVars, pc, out, tasks, push, backup, queue, events>>

\* Methods of the manager, then methods the application calls on the storage.
Mutations == {"create", "edit", "close", "extend", "push"}
Kinds == Mutations \cup {"batch", "remove"}
Emitting == {"create", "edit", "close", "push"}

Init ==
  /\ storage \in Storages
  /\ kind = [o \in Op |-> "none"]
  /\ target = [o \in Op |-> None]
  /\ pc = [o \in Op |-> "idle"]
  /\ out = [o \in Op |-> None]
  /\ tasks = [t \in Task |-> IF t \in Stored THEN [open |-> TRUE, log |-> <<>>] ELSE None]
  /\ push = [t \in Task |-> None]
  /\ backup = None
  /\ queue = <<>>
  /\ events = <<>>

-----------------------------------------------------------------------------
\* An identifier is fresh when its task is created, and known afterwards.
Fresh(t) == t \notin Stored /\ \A p \in Op : target[p] # t
Known(t) ==
  \/ t \in Stored
  \/ \E p \in Op : kind[p] = "create" /\ target[p] = t /\ pc[p] \in {"done", "unanswered"}

\* A storage without transaction() offers no batch; nothing in the repository
\* removes a task of such a storage while the manager works on it.
Offers(k) == storage = "plain" => k \in Mutations

\* runStorageMutation or runOperation: the call joins the chain of promises.
Call(o, k, t) ==
  /\ pc[o] = "idle" /\ \A p \in 1 .. o - 1 : pc[p] # "idle"
  /\ Offers(k)
  /\ IF k = "create" THEN Fresh(t) ELSE Known(t)
  /\ kind' = [kind EXCEPT ![o] = k]
  /\ target' = [target EXCEPT ![o] = t]
  /\ pc' = [pc EXCEPT ![o] = "queued"]
  /\ queue' = Append(queue, o)
  /\ UNCHANGED <<storage, out, tasks, push, backup, events>>

\* Mutant: operations are not chained.
IsQueued(o) == pc[o] = "queued" /\ \A p \in Op : pc[p] # "resolved"

\* The promise of the operation before o is settled and its caller resumed.
IsNext(o) ==
  /\ pc[o] = "queued"
  /\ o = Head(queue)
  /\ \A p \in Op : pc[p] # "resolved"

Transactional(o) == storage = "sqlite" /\ kind[o] # "remove"

\* The operations that nothing can undo: deleteTask of SQLite is two statements
\* outside of a transaction, and transaction() of the adapter has no rollback.
Bare(o) ==
  \/ kind[o] = "remove" /\ storage = "sqlite"
  \/ kind[o] = "batch" /\ storage = "adapter"

\* A part of what o is to do is in the storage, and o may still fail.
HalfDone(o) ==
  /\ Bare(o)
  /\ \/ pc[o] = "halfway"
     \/ pc[o] = "written" /\ kind[o] = "batch" /\ out[o] # None

\* The callback is entered, after BEGIN IMMEDIATE in SQLite.
Begin(o) ==
  /\ IsNext(o)
  /\ pc' = [pc EXCEPT ![o] = "begun"]
  /\ backup' = IF Transactional(o) THEN <<tasks, push>> ELSE backup
  /\ UNCHANGED <<callVars, out, tasks, push, queue, events>>

\* Mutant: a rejected operation stays on the chain.
RejectKeepsQueue(o) ==
  /\ pc' = [pc EXCEPT ![o] = "rejected"]
  /\ UNCHANGED <<callVars, out, events, queue>>

\* The promise of o is rejected; the chain swallows the rejection.
Reject(o) ==
  /\ pc' = [pc EXCEPT ![o] = IF HalfDone(o) THEN "torn" ELSE "rejected"]
  /\ queue' = Tail(queue)
  /\ UNCHANGED <<callVars, out, events>>

\* Another process holds the write lock: BEGIN IMMEDIATE throws, nothing is open.
BeginFails(o) ==
  /\ IsNext(o)
  /\ Transactional(o)
  /\ Reject(o)
  /\ UNCHANGED <<tasks, push, backup>>

\* Mutant: the catch does not roll back.
NoRollback == backup' = None /\ UNCHANGED <<tasks, push>>

\* ROLLBACK in SQLite; the adapter and a plain storage have nothing to undo with.
Rollback ==
  /\ backup' = None
  /\ IF backup = None THEN UNCHANGED <<tasks, push>>
     ELSE tasks' = backup[1] /\ push' = backup[2]

\* The task is read; if there is none the callback returns undefined.
Read(o) ==
  LET task == tasks[target[o]]
  IN /\ pc[o] = "begun"
     /\ kind[o] \notin {"create", "remove"}
     /\ task # None => task.open \/ kind[o] = "batch"
     /\ pc' = [pc EXCEPT ![o] = IF task = None THEN "written" ELSE "read"]
     /\ out' = [out EXCEPT ![o] = task]
     /\ UNCHANGED <<callVars, tasks, push, backup, queue, events>>

\* assertTaskMutable or assertTransition throws in the callback.
ReadRefused(o) ==
  /\ pc[o] = "begun"
  /\ kind[o] \in {"edit", "close", "extend", "push"}
  /\ tasks[target[o]] # None
  /\ ~tasks[target[o]].open
  /\ Reject(o)
  /\ Rollback

Changed(o) ==
  [open |-> IF kind[o] = "close" THEN FALSE ELSE out[o].open, log |-> Append(out[o].log, o)]

\* saveTask is an UPDATE in SQLite and a plain write elsewhere; the callback has
\* held the queue since it read the task, so that the row exists.
Save(o) ==
  /\ pc[o] = "read"
  /\ kind[o] \in {"edit", "close", "extend", "batch"}
  /\ pc' = [pc EXCEPT ![o] = "written"]
  /\ out' = [out EXCEPT ![o] = Changed(o)]
  /\ tasks' = [tasks EXCEPT ![target[o]] =
                 IF storage = "sqlite" /\ @ = None THEN None ELSE Changed(o)]
  /\ UNCHANGED <<callVars, push, backup, queue, events>>

\* setPushNotification of the storage, which looks for the task once more.
SavePush(o) ==
  /\ pc[o] = "read"
  /\ kind[o] = "push"
  /\ pc' = [pc EXCEPT ![o] = "written"]
  /\ push' = [push EXCEPT ![target[o]] = IF tasks[target[o]] = None THEN @ ELSE o]
  /\ UNCHANGED <<callVars, out, tasks, backup, queue, events>>

Insert(o) ==
  LET task == [open |-> TRUE, log |-> <<o>>]
  IN /\ pc[o] = "begun"
     /\ kind[o] = "create"
     /\ pc' = [pc EXCEPT ![o] = "written"]
     /\ out' = [out EXCEPT ![o] = task]
     /\ tasks' = [tasks EXCEPT ![target[o]] = task]
     /\ UNCHANGED <<callVars, push, backup, queue, events>>

\* deleteTaskFromSqlite, its first DELETE; the process may die after it.
DeleteConfig(o) ==
  /\ pc[o] = "begun"
  /\ kind[o] = "remove" /\ storage = "sqlite"
  /\ pc' = [pc EXCEPT ![o] = "halfway"]
  /\ push' = [push EXCEPT ![target[o]] = None]
  /\ UNCHANGED <<callVars, out, tasks, backup, queue, events>>

\* The second DELETE, or deleteTask of a storage in memory.
DeleteTask(o) ==
  /\ pc[o] = IF storage = "sqlite" THEN "halfway" ELSE "begun"
  /\ kind[o] = "remove"
  /\ pc' = [pc EXCEPT ![o] = "written"]
  /\ tasks' = [tasks EXCEPT ![target[o]] = None]
  /\ push' = [push EXCEPT ![target[o]] = None]
  /\ UNCHANGED <<callVars, out, backup, queue, events>>

\* A statement or a write of the storage throws in the callback.
WriteFails(o) ==
  /\ \/ pc[o] \in {"read", "halfway"}
     \/ pc[o] = "begun" /\ kind[o] \in {"create", "remove"}
  /\ Reject(o)
  /\ Rollback

\* The application's own callback throws after it wrote.
BatchThrows(o) ==
  /\ pc[o] = "written"
  /\ kind[o] = "batch"
  /\ Reject(o)
  /\ Rollback

Resolve(o) ==
  /\ pc' = [pc EXCEPT ![o] = "resolved"]
  /\ queue' = Tail(queue)
  /\ UNCHANGED <<callVars, out, events>>

\* COMMIT in SQLite; the promise of the operation is resolved.
Commit(o) ==
  /\ pc[o] = "written"
  /\ Resolve(o)
  /\ backup' = None
  /\ UNCHANGED <<tasks, push>>

\* COMMIT throws, and so the catch rolls back.
CommitFails(o) ==
  /\ pc[o] = "written"
  /\ Transactional(o)
  /\ Reject(o)
  /\ Rollback

\* Mutant: an update of a missing task emits as well.
AlwaysHasEvent(o) == kind[o] \in Emitting
HasEvent(o) == kind[o] \in Emitting /\ out[o] # None

Event(o) == [task |-> target[o], record |-> out[o], by |-> o]

\* Mutant: the callback emits, before the transaction is committed.
AnswerEarly(o) ==
  /\ pc[o] = "written"
  /\ HasEvent(o) /\ \A i \in DOMAIN events : events[i].by # o
  /\ events' = Append(events, Event(o))
  /\ UNCHANGED <<callVars, pc, out, tasks, push, backup, queue>>

\* The caller resumes: the event is emitted and the call returns.
Answer(o) ==
  /\ pc[o] = "resolved"
  /\ pc' = [pc EXCEPT ![o] = "done"]
  /\ events' = IF HasEvent(o) THEN Append(events, Event(o)) ELSE events
  /\ UNCHANGED <<callVars, out, tasks, push, backup, queue>>

\* The effect of o is in the file, and its caller has not resumed.
Outlives(o) == pc[o] = "resolved" \/ (pc[o] = "written" /\ backup = None)

\* The process dies with SQLite's file left behind, and a new one opens it.
Crash ==
  /\ storage = "sqlite"
  /\ queue # <<>> \/ \E o \in Op : pc[o] = "resolved"
  /\ Rollback
  /\ pc' = [o \in Op |-> IF Outlives(o) THEN "unanswered"
                         ELSE IF HalfDone(o) THEN "torn"
                         ELSE IF pc[o] \in {"queued", "begun", "read", "written"} THEN "lost"
                         ELSE pc[o]]
  /\ queue' = <<>>
  /\ UNCHANGED <<callVars, out, events>>

-----------------------------------------------------------------------------
Run(o) ==
  \/ Begin(o) \/ BeginFails(o)
  \/ Read(o) \/ ReadRefused(o)
  \/ Save(o) \/ SavePush(o) \/ Insert(o)
  \/ DeleteConfig(o) \/ DeleteTask(o) \/ WriteFails(o)
  \/ BatchThrows(o) \/ Commit(o) \/ CommitFails(o)
  \/ Answer(o)

Next ==
  \/ \E o \in Op :
       \/ \E k \in Kinds, t \in Task : Call(o, k, t)
       \/ Run(o)
  \/ Crash

Spec == Init /\ [][Next]_vars

\* The event loop runs what is ready; a callback and a statement settle.
FairSpec == Spec /\ \A o \in Op : WF_vars(Run(o))

-----------------------------------------------------------------------------
TypeOK ==
  /\ storage \in Storages
  /\ kind \in [Op -> Kinds \cup {"none"}]
  /\ target \in [Op -> Task \cup {None}]
  /\ pc \in [Op -> {"idle", "queued", "begun", "read", "halfway", "written", "resolved",
                    "done", "rejected", "torn", "unanswered", "lost"}]
  /\ out \in [Op -> Record \cup {None}]
  /\ <<tasks, push>> \in Contents
  /\ backup \in Contents \cup {None}
  /\ queue \in Seq(Op)
  /\ events \in Seq([task : Task, record : Record, by : Op])

\* What a reader of the storage would find if the process died now.
Committed == IF backup = None THEN <<tasks, push>> ELSE backup

Edits(o) == kind[o] \in {"create", "edit", "close", "extend", "batch"} /\ out[o] # None

(***************************************************************************)
(* A mutation that was answered with a task is in the stored task, once,   *)
(* until the task is removed: overlapping read-modify-writes, rejections   *)
(* before or after it and a crash of the process lose nothing that was     *)
(* answered (docs/packages/core.md:11 "queues operations so concurrent     *)
(* async task mutations do not lose state within one process").            *)
(***************************************************************************)
AnsweredUpdatesLast ==
  \A o \in Op :
    LET task == Committed[1][target[o]]
    IN pc[o] = "done" /\ Edits(o) =>
         \/ \E r \in Op : /\ kind[r] = "remove" /\ target[r] = target[o]
                          /\ pc[r] \in {"resolved", "done", "unanswered", "written"}
         \/ /\ task # None
            /\ Cardinality({i \in DOMAIN task.log : task.log[i] = o}) = 1

(***************************************************************************)
(* A subscriber sees each task grow: the snapshot of an event extends that *)
(* of every earlier event of the task, nothing follows the event of the    *)
(* closing update, and no event tells of an update that was rejected or    *)
(* undone.                                                                 *)
(***************************************************************************)
EventsTellCommittedHistory ==
  \A i \in DOMAIN events :
    /\ pc[events[i].by] \notin {"rejected", "torn", "lost"}
    /\ \A j \in 1 .. i - 1 :
         events[j].task = events[i].task =>
           /\ events[j].record.open
           /\ IsPrefix(events[j].record.log, events[i].record.log)

(***************************************************************************)
(* A call that was made settles, whatever the operations before it did.    *)
(***************************************************************************)
EveryCallSettles ==
  \A o \in Op : pc[o] = "queued" ~>
                 pc[o] \in {"done", "rejected", "torn", "unanswered", "lost"}

-----------------------------------------------------------------------------
TookEffect(o) ==
  \/ pc[o] \in {"resolved", "done", "unanswered"}
  \/ /\ pc[o] = "written" /\ backup = None /\ ~HalfDone(o)
     /\ kind[o] = "remove" \/ out[o] # None

Serial == INSTANCE SerialTasks WITH
  tasks <- Committed[1],
  push <- Committed[2],
  bare <- {o \in Op : Bare(o)},
  partial <- {o \in Op : pc[o] = "torn" \/ HalfDone(o)},
  applied <- {o \in Op : TookEffect(o)},
  refused <- {o \in Op : pc[o] \in {"rejected", "torn", "lost"}}

(***************************************************************************)
(* The manager is a serial object: each of its mutations takes effect at   *)
(* one instant, on what the mutations before it left, and one that rejects *)
(* takes none, over every storage.  Of the operations of the storages, the *)
(* two that are `bare' may reject with a part of their effect done: the    *)
(* removal of SQLite and the transaction of the adapter, of which the      *)
(* interface asks to "roll back if it throws or rejects"                   *)
(* (AsyncTaskStorage.ts:30).                                               *)
(***************************************************************************)
TakesEffectAtOnce == Serial!Spec
=============================================================================
