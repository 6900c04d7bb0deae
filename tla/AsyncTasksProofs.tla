--------------------------- MODULE AsyncTasksProofs ---------------------------
(***************************************************************************)
(* What AsyncTasks satisfies for every set of tasks, any number of calls,  *)
(* and every storage: it implements SerialTasks.                           *)
(***************************************************************************)
EXTENDS AsyncTasks, FiniteSetTheorems, TLAPS

Early == {"idle", "queued", "begun", "read", "halfway"}
Active(o) == pc[o] \in {"begun", "read", "halfway", "written"}
Waiting(o) == pc[o] = "queued" \/ Active(o)

\* The operation at work is the first of the queue, so that there is but one.
QueueIsServed ==
  /\ \A o \in Op : Waiting(o) => \E i \in DOMAIN queue : queue[i] = o
  /\ \A o \in Op : Active(o) => queue[1] = o

\* A transaction is open exactly while an operation that has one is at work.
TransactionIsHeld ==
  /\ backup # None => \E o \in Op : Active(o) /\ Transactional(o)
  /\ \A o \in Op : Active(o) /\ Transactional(o) => backup # None

CallsAreMade ==
  \A o \in Op :
    /\ kind[o] # "none" => target[o] \in Task
    /\ Waiting(o) => kind[o] # "none"
    /\ pc[o] = "idle" => target[o] = None /\ kind[o] = "none"
    /\ storage = "plain" => kind[o] # "batch"

\* What a mutation of task t makes of the contents <<ts, ps>>.
Effect(o, ts, ps, ts2, ps2) ==
  LET t == target[o]
  IN \/ ps2 = ps /\ ts[t] = None /\ ts2 = [ts EXCEPT ![t] = [open |-> TRUE, log |-> <<o>>]]
     \/ /\ ps2 = ps /\ ts[t] # None
        /\ \E open \in BOOLEAN :
             /\ ts[t].open \/ open = ts[t].open
             /\ ts2 = [ts EXCEPT ![t] = [open |-> open, log |-> Append(ts[t].log, o)]]
     \/ ts2 = ts /\ ts[t] # None /\ ts[t].open /\ ps2 = [ps EXCEPT ![t] = o]
     \/ ts2 = [ts EXCEPT ![t] = None] /\ ps2 = [ps EXCEPT ![t] = None]
     \/ ts2 = ts /\ ps2 = ps /\ ts[t] = None

\* The operation at work: what it read is still stored, what it wrote is its own.
WorkIsFresh ==
  \A o \in Op :
    /\ pc[o] = "read" =>
         /\ out[o] \in Record /\ out[o] = tasks[target[o]]
         /\ kind[o] \in {"edit", "close", "extend", "push", "batch"}
         /\ out[o].open \/ kind[o] = "batch"
    /\ pc[o] = "halfway" => kind[o] = "remove" /\ storage = "sqlite"
    /\ pc[o] \in {"begun", "read", "halfway"} /\ backup # None => backup = <<tasks, push>>
    /\ pc[o] = "written" =>
         /\ backup # None => Effect(o, backup[1], backup[2], tasks, push)
         /\ backup = None /\ kind[o] # "remove" /\ out[o] = None => tasks[target[o]] = None
         /\ kind[o] = "batch" /\ out[o] # None => out[o].log # <<>> /\ Last(out[o].log) = o

\* No task is stored before it is created.
UnknownIn(contents) ==
  /\ \A t \in Task \ Stored : (\A o \in Op : target[o] # t) => contents[1][t] = None
  /\ \A o \in Op : pc[o] \in {"queued", "begun"} /\ kind[o] = "create" =>
       contents[1][target[o]] = None
CreatesAreFirst ==
  /\ UnknownIn(<<tasks, push>>) /\ UnknownIn(Committed)
  /\ \A o \in Op : pc[o] \in {"queued", "begun"} /\ kind[o] = "create" =>
       target[o] \notin Stored /\ \A p \in Op \ {o} : target[p] # target[o]

\* A log names operations that wrote.
WrittenIn(contents) ==
  \A t \in Task : contents[1][t] # None =>
    \A i \in DOMAIN contents[1][t].log : pc[contents[1][t].log[i]] \notin Early
LogsAreWritten == WrittenIn(<<tasks, push>>) /\ WrittenIn(Committed)

IInv == /\ TypeOK /\ QueueIsServed /\ TransactionIsHeld /\ CallsAreMade
        /\ WorkIsFresh /\ CreatesAreFirst /\ LogsAreWritten

-----------------------------------------------------------------------------
LEMMA NoneIsApart ==
  /\ None \notin Task /\ None \notin Record
  /\ TypeOK => <<tasks, push>> # None /\ <<tasks, push>> \in Contents
BY StorageAssumption DEF TypeOK

LEMMA OneActive ==
  ASSUME QueueIsServed, NEW o \in Op, Active(o)
  PROVE  \A p \in Op : Active(p) => p = o
BY DEF QueueIsServed

\* What a reader would find is what is stored, unless a transaction is open.
LEMMA CommittedIs ==
  /\ backup = None => Committed = <<tasks, push>>
  /\ backup # None => Committed = backup
  /\ TypeOK => Committed \in Contents
BY NoneIsApart DEF Committed, TypeOK

LEMMA IInvInit == Init => IInv
<1> SUFFICES ASSUME Init PROVE IInv OBVIOUS
<1>1. \A t \in Stored : t \in Task
  BY StorageAssumption
<1>2. [open |-> TRUE, log |-> <<>>] \in Record
  BY DEF Record
<1>3. tasks \in [Task -> Record \cup {None}] /\ push \in [Task -> Op \cup {None}]
  BY <1>2 DEF Init
<1>4. TypeOK
  <2>1. <<tasks, push>> \in Contents /\ backup \in Contents \cup {None}
    BY <1>3 DEF Init, Contents
  <2>2. queue \in Seq(Op) /\ events \in Seq([task : Task, record : Record, by : Op])
    BY DEF Init
  <2> QED BY <2>1, <2>2 DEF Init, TypeOK
<1>5. QueueIsServed /\ TransactionIsHeld /\ CallsAreMade /\ WorkIsFresh
  BY DEF Init, QueueIsServed, TransactionIsHeld, CallsAreMade, WorkIsFresh, Waiting, Active
<1>6. Committed = <<tasks, push>>
  BY CommittedIs DEF Init
<1>7. CreatesAreFirst /\ LogsAreWritten
  BY <1>6, NoneIsApart DEF Init, CreatesAreFirst, LogsAreWritten, UnknownIn, WrittenIn
<1> QED BY <1>4, <1>5, <1>7 DEF IInv

\* The first operation leaves the queue.
LEMMA QueuePops ==
  ASSUME TypeOK, QueueIsServed, NEW o \in Op, Waiting(o), queue[1] = o,
         \A p \in Op \ {o} : ~Active(p),
         queue' = Tail(queue),
         NEW stage, stage \notin {"queued", "begun", "read", "halfway", "written"},
         pc' = [pc EXCEPT ![o] = stage]
  PROVE  QueueIsServed' /\ queue' \in Seq(Op) /\ \A p \in Op : ~Active(p)'
<1>1. queue \in Seq(Op) /\ queue # <<>>
  BY DEF TypeOK, QueueIsServed
<1>2. \A p \in Op : ~Active(p)'
  BY DEF Active, TypeOK
<1>3. ASSUME NEW p \in Op, Waiting(p)' PROVE \E i \in DOMAIN queue' : queue'[i] = p
  <2>1. p # o /\ Waiting(p)
    BY <1>3 DEF Waiting, Active, TypeOK
  <2>2. PICK i \in DOMAIN queue : queue[i] = p
    BY <2>1 DEF QueueIsServed
  <2>3. i # 1 /\ i \in 1 .. Len(queue)
    BY <1>1, <2>1, <2>2
  <2>4. i - 1 \in DOMAIN Tail(queue) /\ Tail(queue)[i - 1] = queue[i]
    BY <1>1, <2>3
  <2> QED BY <2>2, <2>4
<1> QED BY <1>1, <1>2, <1>3 DEF QueueIsServed

LEMMA CallKeeps ==
  ASSUME IInv, NEW o \in Op, NEW k \in Kinds, NEW t \in Task, Call(o, k, t)
  PROVE  IInv'
<1> USE DEF IInv
<1>1. /\ pc[o] = "idle" /\ pc' = [pc EXCEPT ![o] = "queued"] /\ queue' = Append(queue, o)
      /\ kind' = [kind EXCEPT ![o] = k] /\ target' = [target EXCEPT ![o] = t]
      /\ UNCHANGED <<storage, out, tasks, push, backup, events>>
  BY DEF Call
<1>2. /\ \A p \in Op \ {o} : pc'[p] = pc[p] /\ kind'[p] = kind[p] /\ target'[p] = target[p]
      /\ pc'[o] = "queued" /\ kind'[o] = k /\ target'[o] = t
  BY <1>1 DEF TypeOK
<1>3. TypeOK'
  BY <1>1 DEF TypeOK
<1>4. QueueIsServed'
  <2>1. queue \in Seq(Op) /\ DOMAIN queue' = 1 .. Len(queue) + 1 /\ queue'[Len(queue) + 1] = o
        /\ \A i \in DOMAIN queue : queue'[i] = queue[i] /\ i \in DOMAIN queue'
    BY <1>1 DEF TypeOK
  <2>2. \A p \in Op : Waiting(p)' => \E i \in DOMAIN queue' : queue'[i] = p
    BY <1>2, <2>1 DEF QueueIsServed, Waiting, Active
  <2>3. ASSUME NEW p \in Op, Active(p)' PROVE queue'[1] = p
    <3>1. p # o /\ Active(p)
      BY <1>2, <2>3 DEF Active
    <3>2. queue[1] = p /\ \E i \in DOMAIN queue : queue[i] = p
      BY <3>1 DEF QueueIsServed, Waiting
    <3>3. 1 \in DOMAIN queue
      BY <2>1, <3>2
    <3> QED BY <2>1, <3>2, <3>3
  <2> QED BY <2>2, <2>3 DEF QueueIsServed
<1>5. TransactionIsHeld'
  BY <1>1, <1>2 DEF TransactionIsHeld, Active, Transactional
<1>6. CallsAreMade'
  BY <1>1, <1>2 DEF CallsAreMade, Waiting, Active, Call, Offers, Kinds, Mutations
<1>7. WorkIsFresh'
  <2>1. ASSUME NEW p \in Op, pc'[p] \in {"begun", "read", "halfway", "written"}
        PROVE  pc'[p] = pc[p] /\ kind'[p] = kind[p] /\ target'[p] = target[p]
    BY <1>2, <2>1
  <2>2. \A p \in Op : target'[p] = target[p] =>
          (Effect(p, backup[1], backup[2], tasks, push) => Effect(p, backup[1], backup[2], tasks, push)')
    BY <1>1 DEF Effect
  <2> QED BY <1>1, <2>1, <2>2 DEF WorkIsFresh
<1>8. Committed' = Committed
  BY <1>1 DEF Committed
<1>9. LogsAreWritten'
  BY <1>1, <1>2, <1>8 DEF LogsAreWritten, WrittenIn, Early, TypeOK
<1>10. target[o] = None /\ None \notin Task
  BY <1>1, NoneIsApart DEF CallsAreMade
<1>11. k = "create" => t \notin Stored /\ \A p \in Op : target[p] # t
  BY DEF Call, Fresh
<1>12. ASSUME NEW p \in Op \ {o}, pc[p] \in {"queued", "begun"}, kind[p] = "create"
       PROVE  target[p] # t
  BY <1>12, <1>1, <1>11 DEF Call, Known, CreatesAreFirst
<1>13. CreatesAreFirst'
  <2>1. ASSUME NEW contents, UnknownIn(contents)
        PROVE  /\ \A u \in Task \ Stored : (\A p \in Op : target'[p] # u) => contents[1][u] = None
               /\ \A p \in Op : pc'[p] \in {"queued", "begun"} /\ kind'[p] = "create" =>
                    contents[1][target'[p]] = None
    BY <1>1, <1>2, <1>10, <1>11, <2>1 DEF UnknownIn
  <2>2. UnknownIn(<<tasks, push>>)' /\ UnknownIn(Committed)'
    <3>1. UnknownIn(<<tasks, push>>) /\ UnknownIn(Committed)
      BY DEF IInv, CreatesAreFirst
    <3>2. tasks' = tasks /\ push' = push /\ Committed' = Committed
      BY <1>1, <1>8
    <3>3. UnknownIn(<<tasks, push>>)'
      <4>1. /\ \A u \in Task \ Stored : (\A p \in Op : target'[p] # u) => tasks[u] = None
            /\ \A p \in Op : pc'[p] \in {"queued", "begun"} /\ kind'[p] = "create" =>
                 tasks[target'[p]] = None
        BY <2>1, <3>1
      <4> QED BY <3>2, <4>1 DEF UnknownIn
    <3>4. UnknownIn(Committed)'
      BY <2>1, <3>1, <3>2 DEF UnknownIn
    <3> QED BY <3>3, <3>4
  <2>3. \A p \in Op : pc'[p] \in {"queued", "begun"} /\ kind'[p] = "create" =>
          target'[p] \notin Stored /\ \A q \in Op \ {p} : target'[q] # target'[p]
    BY <1>2, <1>11, <1>12 DEF CreatesAreFirst
  <2> QED BY <2>2, <2>3 DEF CreatesAreFirst
<1> QED BY <1>3, <1>4, <1>5, <1>6, <1>7, <1>9, <1>13

LEMMA NextIsAlone ==
  ASSUME IInv, NEW o \in Op, IsNext(o)
  PROVE  Waiting(o) /\ queue[1] = o /\ backup = None /\ \A p \in Op : ~Active(p)
<1>1. Waiting(o) /\ queue \in Seq(Op)
  BY DEF IsNext, Waiting, IInv, TypeOK
<1>2. queue # <<>>
  BY <1>1 DEF IInv, QueueIsServed
<1>3. queue[1] = o
  BY <1>1, <1>2 DEF IsNext
<1>4. \A p \in Op : ~Active(p)
  BY <1>3 DEF IInv, QueueIsServed, IsNext, Active
<1> QED BY <1>1, <1>3, <1>4 DEF IInv, TransactionIsHeld

LEMMA BeginKeeps ==
  ASSUME IInv, NEW o \in Op, Begin(o)
  PROVE  IInv' /\ Committed' = Committed
<1> USE DEF IInv
<1>1. /\ Waiting(o) /\ queue[1] = o /\ backup = None /\ \A p \in Op : ~Active(p)
      /\ pc[o] = "queued"
  BY NextIsAlone DEF Begin, IsNext
<1>2. /\ pc' = [pc EXCEPT ![o] = "begun"]
      /\ backup' = IF Transactional(o) THEN <<tasks, push>> ELSE None
      /\ UNCHANGED <<storage, kind, target, out, tasks, push, queue, events>>
  BY <1>1 DEF Begin, callVars
<1>3. pc'[o] = "begun" /\ \A p \in Op \ {o} : pc'[p] = pc[p] /\ ~Active(p)'
  BY <1>1, <1>2 DEF TypeOK, Active
<1>4. TypeOK'
  BY <1>2 DEF TypeOK
<1>5. QueueIsServed' /\ CallsAreMade'
  BY <1>1, <1>2, <1>3 DEF QueueIsServed, CallsAreMade, Waiting, Active
<1>6. TransactionIsHeld'
  BY <1>2, <1>3, NoneIsApart DEF TransactionIsHeld, Active, Transactional
<1>7. WorkIsFresh'
  BY <1>2, <1>3 DEF WorkIsFresh, Active
<1>8. Committed = <<tasks, push>> /\ Committed' = <<tasks, push>>
  BY <1>1, <1>2, NoneIsApart DEF Committed
<1>9. CreatesAreFirst'
  BY <1>1, <1>2, <1>3, <1>8 DEF CreatesAreFirst, UnknownIn
<1>10. \A x : pc[x] \notin Early => pc'[x] \notin Early
  BY <1>1, <1>2 DEF Early, TypeOK
<1>11. LogsAreWritten'
  BY <1>2, <1>8, <1>10 DEF LogsAreWritten, WrittenIn
<1> QED BY <1>4, <1>5, <1>6, <1>7, <1>8, <1>9, <1>11

\* The operation at work leaves the queue; what it wrote stays or is undone.
LEMMA SettlingKeeps ==
  ASSUME IInv, NEW o \in Op, Waiting(o), queue[1] = o, \A p \in Op \ {o} : ~Active(p),
         NEW stage \in {"rejected", "torn", "resolved"}, pc' = [pc EXCEPT ![o] = stage],
         queue' = Tail(queue), UNCHANGED <<callVars, out, events>>, backup' = None,
         \/ UNCHANGED <<tasks, push>>
         \/ tasks' = Committed[1] /\ push' = Committed[2]
  PROVE  IInv'
<1> USE DEF IInv
<1>1. UNCHANGED <<storage, kind, target, out, events>>
  BY DEF callVars
<1>2. <<tasks', push'>> = Committed \/ (UNCHANGED <<tasks, push>>)
  BY CommittedIs DEF Contents
<1>3. <<tasks', push'>> \in Contents /\ Committed' = <<tasks', push'>>
  BY <1>2, CommittedIs, NoneIsApart DEF Committed
<1>4. QueueIsServed' /\ queue' \in Seq(Op) /\ \A p \in Op : ~Active(p)'
  BY QueuePops
<1>5. TypeOK'
  BY <1>1, <1>3, <1>4 DEF TypeOK
<1>6. \A p \in Op : (Waiting(p)' => Waiting(p)) /\ (pc'[p] = "idle" => pc[p] = "idle")
        /\ (pc'[p] \in {"queued", "begun"} => pc'[p] = pc[p])
  BY DEF Waiting, Active, TypeOK
<1>7. CallsAreMade' /\ TransactionIsHeld'
  BY <1>1, <1>4, <1>6 DEF CallsAreMade, TransactionIsHeld
<1>8. WorkIsFresh'
  BY <1>4 DEF WorkIsFresh, Active
<1>9. ASSUME NEW contents, UnknownIn(contents), WrittenIn(contents)
      PROVE  UnknownIn(contents)' /\ WrittenIn(contents)'
  <2>1. \A x : pc[x] \notin Early => pc'[x] \notin Early
    BY DEF Early, TypeOK
  <2> QED BY <1>1, <1>6, <1>9, <2>1 DEF UnknownIn, WrittenIn
<1>10. UnknownIn(Committed)' /\ WrittenIn(Committed)'
  BY <1>2, <1>3, <1>9 DEF CreatesAreFirst, LogsAreWritten
<1>11. CreatesAreFirst' /\ LogsAreWritten'
  BY <1>1, <1>3, <1>6, <1>10 DEF CreatesAreFirst, LogsAreWritten
<1> QED BY <1>5, <1>4, <1>7, <1>8, <1>11

LEMMA RejectionKeeps ==
  ASSUME IInv, NEW o \in Op, Waiting(o), queue[1] = o, \A p \in Op \ {o} : ~Active(p),
         Reject(o), Rollback
  PROVE  IInv' /\ Committed' = Committed
<1>1. backup = None => UNCHANGED <<tasks, push>>
  BY DEF Rollback
<1>2. backup # None => tasks' = Committed[1] /\ push' = Committed[2]
  BY CommittedIs DEF Rollback
<1>3. IInv'
  <2>1. CASE HalfDone(o)
    BY <1>1, <1>2, <2>1, SettlingKeeps DEF Reject, Rollback
  <2>2. CASE ~HalfDone(o)
    BY <1>1, <1>2, <2>2, SettlingKeeps DEF Reject, Rollback
  <2> QED BY <2>1, <2>2
<1>4. Committed' = <<tasks', push'>>
  BY NoneIsApart DEF Committed, Rollback
<1>5. Committed \in Contents
  BY CommittedIs DEF IInv
<1> QED BY <1>1, <1>2, <1>3, <1>4, <1>5, CommittedIs DEF Contents

LEMMA ActiveIsFirst ==
  ASSUME IInv, NEW o \in Op, Active(o)
  PROVE  Waiting(o) /\ queue[1] = o /\ \A p \in Op \ {o} : ~Active(p)
BY DEF IInv, QueueIsServed, Waiting

LEMMA ReadKeeps ==
  ASSUME IInv, NEW o \in Op, Read(o)
  PROVE  IInv' /\ Committed' = Committed
<1> USE DEF IInv
<1> DEFINE task == tasks[target[o]]
<1>1. /\ pc[o] = "begun" /\ kind[o] \notin {"create", "remove"} /\ kind[o] # "none"
      /\ task # None => task.open \/ kind[o] = "batch"
      /\ pc' = [pc EXCEPT ![o] = IF task = None THEN "written" ELSE "read"]
      /\ out' = [out EXCEPT ![o] = task]
      /\ UNCHANGED <<storage, kind, target, tasks, push, backup, queue, events>>
  BY DEF Read, callVars, CallsAreMade, Waiting, Active
<1>2. target[o] \in Task /\ task \in Record \cup {None}
  BY <1>1 DEF CallsAreMade, TypeOK, Contents
<1>3. \A p \in Op \ {o} : pc'[p] = pc[p] /\ out'[p] = out[p] /\ ~Active(p) /\ ~Active(p)'
  BY <1>1, ActiveIsFirst DEF Active, TypeOK
<1>4. /\ out'[o] = task /\ Active(o) /\ Active(o)'
      /\ pc'[o] = IF task = None THEN "written" ELSE "read"
  BY <1>1 DEF Active, TypeOK
<1>5. TypeOK'
  BY <1>1, <1>2 DEF TypeOK
<1>6. QueueIsServed' /\ CallsAreMade' /\ TransactionIsHeld'
  <2>1. \A p \in Op : (Waiting(p)' <=> Waiting(p)) /\ (Active(p)' <=> Active(p))
          /\ (pc'[p] = "idle" => pc[p] = "idle") /\ (Transactional(p)' <=> Transactional(p))
    BY <1>1, <1>3, <1>4 DEF Waiting, Active, Transactional
  <2> QED BY <1>1, <2>1 DEF QueueIsServed, CallsAreMade, TransactionIsHeld
<1>7. WorkIsFresh'
  <2>1. backup # None => backup = <<tasks, push>>
    BY <1>1 DEF WorkIsFresh
  <2>2. CASE task = None
    <3>1. backup # None => Effect(o, backup[1], backup[2], tasks, push)'
      BY <1>1, <2>1, <2>2 DEF Effect
    <3> QED BY <1>1, <1>3, <1>4, <2>2, <3>1 DEF WorkIsFresh, Active
  <2>3. CASE task # None
    <3>1. kind[o] \in {"edit", "close", "extend", "push", "batch"}
      BY <1>1 DEF TypeOK, Kinds, Mutations
    <3> QED BY <1>1, <1>2, <1>3, <1>4, <2>1, <2>3, <3>1 DEF WorkIsFresh, Active
  <2> QED BY <2>2, <2>3
<1>8. Committed' = Committed
  BY <1>1 DEF Committed
<1>9. \A p \in Op : pc'[p] \in {"queued", "begun"} => pc'[p] = pc[p]
  BY <1>3, <1>4
<1>10. CreatesAreFirst'
  BY <1>1, <1>8, <1>9 DEF CreatesAreFirst, UnknownIn
<1>11. \A x : pc[x] \notin Early => pc'[x] \notin Early
  BY <1>1 DEF Early, TypeOK
<1>12. LogsAreWritten'
  BY <1>1, <1>8, <1>11 DEF LogsAreWritten, WrittenIn
<1> QED BY <1>5, <1>6, <1>7, <1>8, <1>10, <1>12

LEMMA ChangedIs ==
  ASSUME TypeOK, NEW o \in Op, out[o] \in Record
  PROVE  \E open \in BOOLEAN :
           /\ Changed(o) = [open |-> open, log |-> Append(out[o].log, o)]
           /\ Changed(o) \in Record
           /\ kind[o] # "close" => open = out[o].open
<1>1. out[o].open \in BOOLEAN /\ Append(out[o].log, o) \in Seq(Op)
  BY DEF Record
<1> DEFINE open == IF kind[o] = "close" THEN FALSE ELSE out[o].open
<1>2. open \in BOOLEAN /\ (kind[o] # "close" => open = out[o].open)
  BY <1>1
<1>3. Changed(o) = [open |-> open, log |-> Append(out[o].log, o)]
  BY DEF Changed
<1> HIDE DEF open
<1>4. [open |-> open, log |-> Append(out[o].log, o)] \in Record
  BY <1>1, <1>2 DEF Record
<1> QED BY <1>2, <1>3, <1>4

\* A write of the operation at work.
LEMMA WriteKeeps ==
  ASSUME IInv, NEW o \in Op, pc[o] \in {"begun", "read", "halfway"},
         pc' = [pc EXCEPT ![o] = "written"], UNCHANGED <<callVars, backup, queue, events>>,
         \A p \in Op \ {o} : out'[p] = out[p], out' \in [Op -> Record \cup {None}],
         kind[o] = "remove" \/ out'[o] # None,
         kind[o] = "batch" => out'[o].log # <<>> /\ Last(out'[o].log) = o,
         <<tasks', push'>> \in Contents, Effect(o, tasks, push, tasks', push')
  PROVE  IInv' /\ (backup # None => Committed' = Committed)
<1> USE DEF IInv
<1>1. UNCHANGED <<storage, kind, target, backup, queue, events>>
  BY DEF callVars
<1>2. target[o] \in Task
  BY DEF CallsAreMade, Waiting, Active
<1>3. /\ \A p \in Op \ {o} : pc'[p] = pc[p] /\ ~Active(p) /\ ~Active(p)'
      /\ pc'[o] = "written" /\ Active(o) /\ Active(o)'
  BY ActiveIsFirst DEF Active, TypeOK
<1>4. TypeOK'
  BY <1>1 DEF TypeOK
<1>5. QueueIsServed' /\ CallsAreMade' /\ TransactionIsHeld'
  <2>1. \A p \in Op : (Waiting(p)' <=> Waiting(p)) /\ (Active(p)' <=> Active(p))
          /\ (pc'[p] = "idle" => pc[p] = "idle") /\ (Transactional(p)' <=> Transactional(p))
    BY <1>1, <1>3 DEF Waiting, Active, Transactional
  <2> QED BY <1>1, <2>1 DEF QueueIsServed, CallsAreMade, TransactionIsHeld
<1>6. WorkIsFresh'
  <2>1. backup # None => backup = <<tasks, push>>
    BY DEF WorkIsFresh
  <2>2. backup # None => Effect(o, backup[1], backup[2], tasks, push)'
    <3>1. SUFFICES ASSUME backup # None PROVE Effect(o, backup[1], backup[2], tasks, push)'
      OBVIOUS
    <3>2. backup'[1] = tasks /\ backup'[2] = push /\ target'[o] = target[o]
      BY <1>1, <2>1, <3>1
    <3> QED BY <3>2 DEF Effect
  <2> QED BY <1>1, <1>3, <2>2 DEF WorkIsFresh, Active
<1>7. /\ backup # None => Committed' = Committed /\ Committed = backup
      /\ backup = None => Committed' = <<tasks', push'>>
  BY <1>1 DEF Committed
<1>8. \A t \in Task \ {target[o]} : tasks'[t] = tasks[t]
  BY <1>2 DEF Effect, TypeOK, Contents
<1>9. tasks'[target[o]] # None =>
         \/ tasks'[target[o]].log = <<o>>
         \/ tasks[target[o]] # None /\ tasks'[target[o]].log = tasks[target[o]].log
         \/ tasks[target[o]] # None /\ tasks'[target[o]].log = Append(tasks[target[o]].log, o)
  BY <1>2 DEF Effect, TypeOK, Contents
<1>10. \A x : (pc[x] \notin Early => pc'[x] \notin Early)
  BY DEF Early, TypeOK
<1>11. WrittenIn(<<tasks, push>>)'
  <2>1. ASSUME NEW t \in Task, tasks'[t] # None, NEW i \in DOMAIN tasks'[t].log
        PROVE  pc'[tasks'[t].log[i]] \notin Early
    <3>1. CASE t # target[o]
      BY <1>8, <1>10, <2>1, <3>1 DEF LogsAreWritten, WrittenIn
    <3>2. CASE t = target[o]
      <4>1. pc'[o] \notin Early
        BY <1>3 DEF Early
      <4>2. tasks[t] # None => tasks[t].log \in Seq(Op)
        BY <3>2, <1>2 DEF TypeOK, Contents, Record
      <4>3. CASE tasks'[t].log = <<o>>
        BY <2>1, <4>1, <4>3
      <4>4. CASE tasks[t] # None /\ tasks'[t].log = tasks[t].log
        BY <1>10, <2>1, <4>4 DEF LogsAreWritten, WrittenIn
      <4>5. CASE tasks[t] # None /\ tasks'[t].log = Append(tasks[t].log, o)
        <5>1. i = Len(tasks[t].log) + 1 \/ i \in DOMAIN tasks[t].log
          BY <2>1, <4>2, <4>5
        <5>2. i \in DOMAIN tasks[t].log => tasks'[t].log[i] = tasks[t].log[i]
          BY <4>2, <4>5
        <5>3. i = Len(tasks[t].log) + 1 => tasks'[t].log[i] = o
          BY <4>2, <4>5
        <5> QED BY <1>10, <4>1, <4>5, <5>1, <5>2, <5>3 DEF LogsAreWritten, WrittenIn
      <4> QED BY <1>9, <2>1, <3>2, <4>3, <4>4, <4>5
    <3> QED BY <3>1, <3>2
  <2> QED BY <2>1 DEF WrittenIn
<1>12. LogsAreWritten'
  <2>1. CASE backup = None
    BY <1>7, <1>11, <2>1 DEF LogsAreWritten, WrittenIn
  <2>2. CASE backup # None
    BY <1>1, <1>7, <1>10, <1>11, <2>2 DEF LogsAreWritten, WrittenIn
  <2> QED BY <2>1, <2>2
<1>13. UnknownIn(<<tasks, push>>)'
  <2>1. ASSUME NEW p \in Op, pc'[p] \in {"queued", "begun"}, kind[p] = "create"
        PROVE  tasks'[target[p]] = None
    <3>1. p # o /\ pc[p] = pc'[p] /\ target[p] # target[o]
      BY <1>3, <2>1 DEF CreatesAreFirst
    <3>2. target[p] \in Task /\ tasks[target[p]] = None
      BY <2>1, <3>1 DEF CreatesAreFirst, UnknownIn, CallsAreMade
    <3> QED BY <1>8, <3>1, <3>2
  <2>2. \A t \in Task \ Stored : (\A p \in Op : target[p] # t) => tasks'[t] = None
    BY <1>8 DEF CreatesAreFirst, UnknownIn
  <2> QED BY <1>1, <2>1, <2>2 DEF UnknownIn
<1>14. CreatesAreFirst'
  <2>1. \A p \in Op : pc'[p] \in {"queued", "begun"} => pc[p] = pc'[p]
    BY <1>3
  <2>2. UnknownIn(Committed)'
    <3>1. CASE backup = None
      BY <1>7, <1>13, <3>1 DEF UnknownIn
    <3>2. CASE backup # None
      BY <1>1, <1>7, <2>1, <3>2 DEF CreatesAreFirst, UnknownIn
    <3> QED BY <3>1, <3>2
  <2> QED BY <1>1, <1>13, <2>1, <2>2 DEF CreatesAreFirst
<1> QED BY <1>4, <1>5, <1>6, <1>7, <1>12, <1>14

Writes(o) == Save(o) \/ SavePush(o) \/ Insert(o) \/ DeleteTask(o)

LEMMA WritesAre ==
  ASSUME IInv, NEW o \in Op, Writes(o)
  PROVE  /\ pc[o] \in {"begun", "read", "halfway"} /\ pc' = [pc EXCEPT ![o] = "written"]
         /\ UNCHANGED <<callVars, backup, queue, events>>
         /\ \A p \in Op \ {o} : out'[p] = out[p]
         /\ out' \in [Op -> Record \cup {None}]
         /\ kind[o] = "remove" \/ out'[o] # None
         /\ kind[o] = "batch" => out'[o].log # <<>> /\ Last(out'[o].log) = o
         /\ <<tasks', push'>> \in Contents
         /\ Effect(o, tasks, push, tasks', push')
<1> USE DEF IInv
<1> DEFINE t == target[o]
<1>1. pc[o] \in {"begun", "read", "halfway"}
  BY DEF Writes, Save, SavePush, Insert, DeleteTask
<1>2. t \in Task /\ None \notin Record
  BY <1>1, NoneIsApart DEF CallsAreMade, Waiting, Active
<1>3. /\ out \in [Op -> Record \cup {None}] /\ tasks \in [Task -> Record \cup {None}]
      /\ push \in [Task -> Op \cup {None}]
  BY DEF TypeOK, Contents
<1>4. CASE Save(o)
  <2>1. /\ out[o] \in Record /\ out[o] = tasks[t] /\ tasks[t] # None
        /\ out[o].open \/ kind[o] = "batch"
    BY <1>2, <1>4 DEF Save, WorkIsFresh
  <2>2. PICK open \in BOOLEAN :
          /\ Changed(o) = [open |-> open, log |-> Append(out[o].log, o)]
          /\ Changed(o) \in Record
          /\ kind[o] # "close" => open = out[o].open
    BY <2>1, ChangedIs
  <2>3. /\ pc' = [pc EXCEPT ![o] = "written"] /\ out' = [out EXCEPT ![o] = Changed(o)]
        /\ UNCHANGED <<callVars, push, backup, queue, events>> /\ kind[o] # "remove"
    BY <1>4 DEF Save
  <2>4. tasks' = [tasks EXCEPT ![t] = Changed(o)]
    BY <1>4, <2>1 DEF Save
  <2>5. out[o].log \in Seq(Op)
    BY <2>1 DEF Record
  <2>6. Changed(o).log # <<>> /\ Last(Changed(o).log) = o
    BY <2>2, <2>5 DEF Last
  <2>7. tasks[t].open \/ open = tasks[t].open
    BY <2>1, <2>2
  <2>8. Effect(o, tasks, push, tasks', push')
    BY <2>1, <2>2, <2>3, <2>4, <2>7 DEF Effect
  <2>9. <<tasks', push'>> \in Contents
    BY <1>2, <1>3, <2>2, <2>3, <2>4 DEF Contents
  <2>10. out'[o] = Changed(o) /\ out'[o] # None
    BY <1>2, <1>3, <2>2, <2>3
  <2> QED BY <1>1, <1>3, <2>2, <2>3, <2>6, <2>8, <2>9, <2>10
<1>5. CASE SavePush(o)
  <2>1. /\ out[o] \in Record /\ out[o] = tasks[t] /\ tasks[t] # None /\ tasks[t].open
        /\ out[o] # None
    BY <1>2, <1>5 DEF SavePush, WorkIsFresh
  <2>2. /\ pc' = [pc EXCEPT ![o] = "written"] /\ push' = [push EXCEPT ![t] = o] /\ out' = out
        /\ UNCHANGED <<callVars, tasks, backup, queue, events>> /\ kind[o] = "push"
    BY <1>5, <2>1 DEF SavePush
  <2>3. Effect(o, tasks, push, tasks', push')
    BY <2>1, <2>2 DEF Effect
  <2>4. <<tasks', push'>> \in Contents
    BY <1>2, <1>3, <2>2 DEF Contents
  <2> QED BY <1>1, <1>3, <2>1, <2>2, <2>3, <2>4
<1>6. CASE Insert(o)
  <2> DEFINE task == [open |-> TRUE, log |-> <<o>>]
  <2>1. tasks[t] = None
    BY <1>6 DEF Insert, CreatesAreFirst, UnknownIn
  <2>2. task \in Record
    BY DEF Record
  <2>3. /\ pc' = [pc EXCEPT ![o] = "written"] /\ out' = [out EXCEPT ![o] = task]
        /\ tasks' = [tasks EXCEPT ![t] = task] /\ push' = push
        /\ UNCHANGED <<callVars, backup, queue, events>> /\ kind[o] = "create"
    BY <1>6 DEF Insert
  <2>4. Effect(o, tasks, push, tasks', push')
    BY <2>1, <2>3 DEF Effect
  <2>5. <<tasks', push'>> \in Contents
    BY <1>2, <1>3, <2>2, <2>3 DEF Contents
  <2> HIDE DEF task
  <2>6. out'[o] # None /\ out' \in [Op -> Record \cup {None}]
    BY <1>2, <1>3, <2>2, <2>3
  <2> QED BY <1>1, <1>3, <2>3, <2>4, <2>5, <2>6
<1>7. CASE DeleteTask(o)
  <2>1. /\ pc' = [pc EXCEPT ![o] = "written"] /\ kind[o] = "remove"
        /\ tasks' = [tasks EXCEPT ![t] = None] /\ push' = [push EXCEPT ![t] = None]
        /\ UNCHANGED <<callVars, out, backup, queue, events>>
    BY <1>7 DEF DeleteTask
  <2>2. Effect(o, tasks, push, tasks', push')
    BY <2>1 DEF Effect
  <2>3. <<tasks', push'>> \in Contents
    BY <1>2, <1>3, <2>1 DEF Contents
  <2> QED BY <1>1, <1>3, <2>1, <2>2, <2>3
<1> QED BY <1>4, <1>5, <1>6, <1>7 DEF Writes

\* The first half of a removal in SQLite, which no transaction covers.
LEMMA DeleteConfigKeeps ==
  ASSUME IInv, NEW o \in Op, DeleteConfig(o)
  PROVE  /\ IInv' /\ backup = None /\ Committed = <<tasks, push>>
         /\ Committed' = <<tasks, [push EXCEPT ![target[o]] = None]>>
<1> USE DEF IInv
<1>1. /\ pc[o] = "begun" /\ kind[o] = "remove" /\ storage = "sqlite"
      /\ pc' = [pc EXCEPT ![o] = "halfway"] /\ push' = [push EXCEPT ![target[o]] = None]
      /\ UNCHANGED <<storage, kind, target, out, tasks, backup, queue, events>>
  BY DEF DeleteConfig, callVars
<1>2. /\ \A p \in Op \ {o} : pc'[p] = pc[p] /\ ~Active(p) /\ ~Active(p)'
      /\ pc'[o] = "halfway" /\ Active(o) /\ Active(o)'
  BY <1>1, ActiveIsFirst DEF Active, TypeOK
<1>3. backup = None
  BY <1>1, <1>2 DEF TransactionIsHeld, Transactional
<1>4. Committed = <<tasks, push>> /\ Committed' = <<tasks, [push EXCEPT ![target[o]] = None]>>
  BY <1>1, <1>3 DEF Committed
<1>5. TypeOK'
  <2>1. <<tasks', push'>> \in Contents
    BY <1>1 DEF TypeOK, Contents
  <2> QED BY <1>1, <2>1 DEF TypeOK
<1>6. QueueIsServed' /\ CallsAreMade' /\ TransactionIsHeld'
  <2>1. \A p \in Op : (Waiting(p)' <=> Waiting(p)) /\ (Active(p)' <=> Active(p))
          /\ (pc'[p] = "idle" => pc[p] = "idle") /\ (Transactional(p)' <=> Transactional(p))
    BY <1>1, <1>2 DEF Waiting, Active, Transactional
  <2> QED BY <1>1, <2>1 DEF QueueIsServed, CallsAreMade, TransactionIsHeld
<1>7. WorkIsFresh'
  BY <1>1, <1>2, <1>3 DEF WorkIsFresh, Active
<1>8. CreatesAreFirst' /\ LogsAreWritten'
  <2>1. \A p \in Op : pc'[p] \in {"queued", "begun"} => pc'[p] = pc[p]
    BY <1>2
  <2>2. \A x : pc[x] \notin Early => pc'[x] \notin Early
    BY <1>1 DEF Early, TypeOK
  <2> QED BY <1>1, <1>4, <2>1, <2>2
          DEF CreatesAreFirst, UnknownIn, LogsAreWritten, WrittenIn
<1> QED BY <1>3, <1>4, <1>5, <1>6, <1>7, <1>8

LEMMA CommitKeeps ==
  ASSUME IInv, NEW o \in Op, Commit(o)
  PROVE  IInv' /\ Committed' = <<tasks, push>>
<1>1. Waiting(o) /\ queue[1] = o /\ \A p \in Op \ {o} : ~Active(p)
  BY ActiveIsFirst DEF Commit, Active
<1>2. /\ pc' = [pc EXCEPT ![o] = "resolved"] /\ queue' = Tail(queue) /\ backup' = None
      /\ UNCHANGED <<callVars, out, events, tasks, push>>
  BY DEF Commit, Resolve
<1>3. IInv'
  BY <1>1, <1>2, SettlingKeeps
<1> QED BY <1>2, <1>3 DEF Committed

LEMMA AnswerKeeps ==
  ASSUME IInv, NEW o \in Op, Answer(o)
  PROVE  IInv' /\ Committed' = Committed
<1> USE DEF IInv
<1>1. /\ pc[o] = "resolved" /\ pc' = [pc EXCEPT ![o] = "done"]
      /\ UNCHANGED <<storage, kind, target, out, tasks, push, backup, queue>>
  BY DEF Answer, callVars
<1>2. events' \in Seq([task : Task, record : Record, by : Op])
  <2>1. CASE HasEvent(o)
    <3>1. target[o] \in Task /\ out[o] \in Record
      BY <2>1 DEF HasEvent, Emitting, CallsAreMade, TypeOK
    <3>2. Event(o) \in [task : Task, record : Record, by : Op]
      BY <3>1 DEF Event
    <3> QED BY <2>1, <3>2 DEF Answer, TypeOK
  <2>2. CASE ~HasEvent(o)
    BY <2>2 DEF Answer, TypeOK
  <2> QED BY <2>1, <2>2
<1>3. TypeOK'
  BY <1>1, <1>2 DEF TypeOK
<1>4. /\ \A p \in Op : (Waiting(p)' <=> Waiting(p)) /\ (Active(p)' <=> Active(p))
        /\ (Transactional(p)' <=> Transactional(p))
      /\ \A p \in Op : pc'[p] \in {"idle", "queued", "begun", "read", "halfway", "written"} =>
                         pc'[p] = pc[p]
      /\ \A x : pc[x] \notin Early => pc'[x] \notin Early
  BY <1>1 DEF Waiting, Active, Transactional, Early, TypeOK
<1>5. QueueIsServed' /\ CallsAreMade' /\ TransactionIsHeld'
  BY <1>1, <1>4 DEF QueueIsServed, CallsAreMade, TransactionIsHeld
<1>6. WorkIsFresh'
  <2>1. \A p \in Op : Effect(p, backup[1], backup[2], tasks, push)' <=>
                      Effect(p, backup[1], backup[2], tasks, push)
    BY <1>1 DEF Effect
  <2> QED BY <1>1, <1>4, <2>1 DEF WorkIsFresh
<1>7. Committed' = Committed
  BY <1>1 DEF Committed
<1>8. CreatesAreFirst' /\ LogsAreWritten'
  BY <1>1, <1>4, <1>7 DEF CreatesAreFirst, UnknownIn, LogsAreWritten, WrittenIn
<1> QED BY <1>3, <1>5, <1>6, <1>7, <1>8

LEMMA CrashKeeps ==
  ASSUME IInv, Crash
  PROVE  IInv' /\ Committed' = Committed
<1> USE DEF IInv
<1>1. UNCHANGED <<storage, kind, target, out, events>> /\ queue' = <<>> /\ backup' = None
  BY DEF Crash, callVars, Rollback
<1>2. \A p \in Op : pc'[p] = IF Outlives(p) THEN "unanswered"
                             ELSE IF HalfDone(p) THEN "torn"
                             ELSE IF pc[p] \in {"queued", "begun", "read", "written"} THEN "lost"
                             ELSE pc[p]
  BY DEF Crash
<1>3. \A p \in Op : /\ pc'[p] \notin {"queued", "begun", "read", "halfway", "written"}
                    /\ pc'[p] = "idle" => pc[p] = "idle"
                    /\ pc[p] \notin Early => pc'[p] \notin Early
  <2>1. \A p \in Op : pc[p] = "halfway" => HalfDone(p)
    BY DEF WorkIsFresh, HalfDone, Bare
  <2> QED BY <1>2, <2>1 DEF Early
<1>4. <<tasks', push'>> = Committed
  <2>1. backup = None => UNCHANGED <<tasks, push>>
    BY DEF Crash, Rollback
  <2>2. backup # None => tasks' = Committed[1] /\ push' = Committed[2]
    BY CommittedIs DEF Crash, Rollback
  <2> QED BY <2>1, <2>2, CommittedIs DEF Contents
<1>5. Committed' = Committed /\ Committed \in Contents
  BY <1>1, <1>4, CommittedIs DEF Committed
<1>6. pc' \in [Op -> {"idle", "queued", "begun", "read", "halfway", "written", "resolved",
                      "done", "rejected", "torn", "unanswered", "lost"}]
  BY DEF Crash, TypeOK
<1>7. queue' \in Seq(Op)
  BY <1>1
<1>8. TypeOK'
  BY <1>1, <1>4, <1>5, <1>6, <1>7 DEF TypeOK
<1>9. \A p \in Op : ~Waiting(p)' /\ ~Active(p)'
  BY <1>3 DEF Waiting, Active
<1>10. QueueIsServed' /\ TransactionIsHeld' /\ CallsAreMade'
  BY <1>1, <1>3, <1>9 DEF QueueIsServed, TransactionIsHeld, CallsAreMade
<1>11. WorkIsFresh'
  BY <1>3 DEF WorkIsFresh
<1>12. UnknownIn(Committed)' /\ CreatesAreFirst'
  BY <1>1, <1>3, <1>4, <1>5 DEF CreatesAreFirst, UnknownIn
<1>13. WrittenIn(Committed)'
  <2>1. ASSUME NEW t \in Task, Committed[1][t] # None, NEW i \in DOMAIN Committed[1][t].log
        PROVE  pc'[Committed[1][t].log[i]] \notin Early
    <3>1. Committed[1][t].log \in Seq(Op)
      BY <1>5, <2>1 DEF Contents, Record
    <3>2. Committed[1][t].log[i] \in Op
      BY <2>1, <3>1
    <3> QED BY <1>3, <2>1, <3>2 DEF LogsAreWritten, WrittenIn
  <2> QED BY <1>5, <2>1 DEF WrittenIn
<1>14. LogsAreWritten'
  BY <1>4, <1>5, <1>13 DEF LogsAreWritten
<1> QED BY <1>5, <1>8, <1>10, <1>11, <1>12, <1>14

\* The operations that reject at work, and the one that cannot begin.
Rejects(o) ==
  BeginFails(o) \/ ReadRefused(o) \/ WriteFails(o) \/ BatchThrows(o) \/ CommitFails(o)

LEMMA RejectsAre ==
  ASSUME IInv, NEW o \in Op, Rejects(o)
  PROVE  /\ Waiting(o) /\ queue[1] = o /\ \A p \in Op \ {o} : ~Active(p)
         /\ Reject(o) /\ Rollback
<1>1. CASE BeginFails(o)
  BY <1>1, NextIsAlone DEF BeginFails, Reject, Rollback
<1>2. CASE ~BeginFails(o)
  BY <1>2, ActiveIsFirst
     DEF Rejects, ReadRefused, WriteFails, BatchThrows, CommitFails, Active
<1> QED BY <1>1, <1>2

LEMMA IInvNext == IInv /\ [Next]_vars => IInv'
<1> SUFFICES ASSUME IInv, [Next]_vars PROVE IInv' OBVIOUS
<1>1. ASSUME NEW o \in Op, Rejects(o) PROVE IInv'
  BY <1>1, RejectsAre, RejectionKeeps
<1>2. ASSUME NEW o \in Op, Writes(o) PROVE IInv'
  BY <1>2, WritesAre, WriteKeeps
<1>3. CASE UNCHANGED vars
  <2>1. UNCHANGED <<storage, kind, target, pc, out, tasks, push, backup, queue, events>>
    BY <1>3 DEF vars, callVars
  <2>2. TypeOK' /\ QueueIsServed' /\ TransactionIsHeld' /\ CallsAreMade'
    BY <2>1 DEF IInv, TypeOK, QueueIsServed, TransactionIsHeld, CallsAreMade, Waiting, Active,
                Transactional
  <2>3. Committed' = Committed
    BY <2>1 DEF Committed
  <2>4. WorkIsFresh'
    <3>1. \A p \in Op : Effect(p, backup[1], backup[2], tasks, push)' <=>
                        Effect(p, backup[1], backup[2], tasks, push)
      BY <2>1 DEF Effect
    <3> QED BY <2>1, <3>1 DEF IInv, WorkIsFresh
  <2>5. CreatesAreFirst' /\ LogsAreWritten'
    BY <2>1, <2>3 DEF IInv, CreatesAreFirst, LogsAreWritten, UnknownIn, WrittenIn
  <2> QED BY <2>2, <2>4, <2>5 DEF IInv
<1> QED BY <1>1, <1>2, <1>3, CallKeeps, BeginKeeps, ReadKeeps, CommitKeeps, AnswerKeeps, CrashKeeps,
           DeleteConfigKeeps DEF Next, Run, Rejects, Writes

LEMMA IInvAlways == Spec => []IInv
BY IInvInit, IInvNext, PTL DEF Spec

\* Every variable keeps its type, and so does what a transaction would restore.
THEOREM TypeCorrect == Spec => []TypeOK
<1>1. IInv => TypeOK
  BY DEF IInv
<1> QED BY <1>1, IInvAlways, PTL

-----------------------------------------------------------------------------
(***************************************************************************)
(* AsyncTasks implements SerialTasks.  An operation takes effect when its  *)
(* transaction commits, or with its write where there is no transaction.   *)
(***************************************************************************)
Bares == {o \in Op : Bare(o)}
Partial == {o \in Op : pc[o] = "torn" \/ HalfDone(o)}
Applied == {o \in Op : TookEffect(o)}
Refused == {o \in Op : pc[o] \in {"rejected", "torn", "lost"}}

LEMMA SerialInit == Init => Serial!Init
<1> SUFFICES ASSUME Init PROVE Serial!Init OBVIOUS
<1>1. Committed = <<tasks, push>>
  BY CommittedIs DEF Init
<1>2. \A o \in Op : ~TookEffect(o) /\ pc[o] = "idle" /\ ~Bare(o)
  BY DEF Init, TookEffect, Bare
<1> QED BY <1>1, <1>2 DEF Init, Serial!Init, HalfDone

LEMMA SerialStutters ==
  ASSUME Committed' = Committed, UNCHANGED <<Bares, Partial, Applied, Refused>>
  PROVE  UNCHANGED Serial!svars
BY DEF Serial!svars, Bares, Partial, Applied, Refused

LEMMA SerialRefuses ==
  ASSUME Committed' = Committed, UNCHANGED <<Bares, Partial, Applied>>, NEW ops \in SUBSET Op,
         ops \cap (Applied \cup Refused) = {}, Refused' = Refused \cup ops
  PROVE  Serial!Next
<1>1. Serial!Refuse(ops)
  BY DEF Serial!Refuse, Bares, Partial, Applied, Refused
<1> QED BY <1>1 DEF Serial!Next

\* What an edit makes of a record.
LEMMA EditedIs ==
  ASSUME NEW task \in Record, NEW o \in Op, NEW open \in BOOLEAN
  PROVE  /\ Serial!Edited(task, o) = [open |-> task.open, log |-> Append(task.log, o)]
         /\ [Serial!Edited(task, o) EXCEPT !.open = open]
              = [open |-> open, log |-> Append(task.log, o)]
<1>1. task = [open |-> task.open, log |-> task.log]
  BY DEF Record
<1>2. Serial!Edited(task, o) = [open |-> task.open, log |-> Append(task.log, o)]
  BY SMTT(20), <1>1 DEF Serial!Edited
<1>3. [[open |-> task.open, log |-> Append(task.log, o)] EXCEPT !.open = open]
        = [open |-> open, log |-> Append(task.log, o)]
  BY SMTT(20)
<1> QED BY <1>2, <1>3, Zenon

LEMMA SerialApplies ==
  ASSUME TypeOK, NEW o \in Op, target[o] \in Task, o \notin Partial \cup Applied \cup Refused,
         Applied' = Applied \cup {o}, UNCHANGED <<Bares, Partial, Refused>>,
         Effect(o, Committed[1], Committed[2], Committed'[1], Committed'[2])
  PROVE  Serial!Next
<1> DEFINE t == target[o]
<1>1. \/ Serial!Create(t, o) \/ Serial!Edit(t, o) \/ Serial!Configure(t, o)
      \/ Serial!Overwrite(t, o) \/ Serial!Remove(t) \/ Serial!Miss(t)
  <2> DEFINE ts == Committed[1]
  <2>1. CASE Committed'[2] = Committed[2] /\ ts[t] = None
             /\ Committed'[1] = [ts EXCEPT ![t] = [open |-> TRUE, log |-> <<o>>]]
    BY <2>1 DEF Serial!Create
  <2>2. ASSUME Committed'[2] = Committed[2], ts[t] # None, NEW open \in BOOLEAN,
               ts[t].open \/ open = ts[t].open,
               Committed'[1] = [ts EXCEPT ![t] = [open |-> open, log |-> Append(ts[t].log, o)]]
        PROVE  Serial!Edit(t, o) \/ Serial!Overwrite(t, o)
    <3>1. ts[t] \in Record
      BY <2>2, CommittedIs DEF Contents
    <3>2. [Serial!Edited(ts[t], o) EXCEPT !.open = open]
            = [open |-> open, log |-> Append(ts[t].log, o)]
      BY <3>1, EditedIs
    <3>3. CASE ts[t].open
      BY <2>2, <3>2, <3>3 DEF Serial!Edit
    <3>4. CASE open = ts[t].open
      BY <2>2, <3>1, EditedIs, <3>4 DEF Serial!Overwrite
    <3> QED BY <2>2, <3>3, <3>4
  <2>3. CASE Committed'[1] = ts /\ ts[t] # None /\ ts[t].open
             /\ Committed'[2] = [Committed[2] EXCEPT ![t] = o]
    BY <2>3 DEF Serial!Configure
  <2>4. CASE Committed'[1] = [ts EXCEPT ![t] = None] /\ Committed'[2] = [Committed[2] EXCEPT ![t] = None]
    BY <2>4 DEF Serial!Remove
  <2>5. CASE Committed'[1] = ts /\ Committed'[2] = Committed[2] /\ ts[t] = None
    BY <2>5 DEF Serial!Miss
  <2> HIDE DEF ts
  <2> QED BY <2>1, <2>2, <2>3, <2>4, <2>5 DEF Effect, ts
<1>2. Serial!Apply(o)
  BY <1>1 DEF Serial!Apply, Bares, Partial, Applied, Refused
<1> QED BY <1>2 DEF Serial!Next

\* A bare operation takes a part of its effect, or the rest.
LEMMA SerialStarts ==
  ASSUME NEW o \in Op, NEW t \in Task, o \in Bares \ (Partial \cup Applied \cup Refused),
         Partial' = Partial \cup {o}, UNCHANGED <<Bares, Applied, Refused>>,
         Serial!Overwrite(t, o) \/ Serial!Unconfigure(t)
  PROVE  Serial!Next
<1>1. Serial!Start(o)
  BY DEF Serial!Start, Bares, Partial, Applied, Refused
<1> QED BY <1>1 DEF Serial!Next

LEMMA SerialFinishes ==
  ASSUME NEW o \in Op, NEW t \in Task, o \in Partial \ Refused,
         Partial' = Partial \ {o}, Applied' = Applied \cup {o}, UNCHANGED <<Bares, Refused>>,
         Serial!Remove(t) \/ Committed' = Committed
  PROVE  Serial!Next
<1>1. Serial!Finish(o)
  BY DEF Serial!Finish, Bares, Partial, Applied, Refused
<1> QED BY <1>1 DEF Serial!Next

\* Only o moves, and no call is made.
Moves(o) ==
  /\ UNCHANGED callVars
  /\ \A p \in Op \ {o} : pc'[p] = pc[p] /\ out'[p] = out[p]
  /\ backup' = backup \/ \A p \in Op \ {o} : ~Active(p)

LEMMA MovesOnly ==
  ASSUME NEW o \in Op, Moves(o)
  PROVE  /\ Bares' = Bares
         /\ Partial' \ {o} = Partial \ {o}
         /\ Applied' \ {o} = Applied \ {o}
         /\ Refused' \ {o} = Refused \ {o}
<1>1. \A p \in Op : Bare(p)' <=> Bare(p)
  BY DEF Moves, Bare, callVars
<1>2. ASSUME NEW p \in Op \ {o}
      PROVE  /\ HalfDone(p)' <=> HalfDone(p)
             /\ TookEffect(p)' <=> TookEffect(p)
  <2>1. pc'[p] = pc[p] /\ out'[p] = out[p] /\ kind'[p] = kind[p]
        /\ (pc[p] = "written" => backup' = backup)
    BY DEF Moves, Active, callVars
  <2>2. HalfDone(p)' <=> HalfDone(p)
    BY <1>1, <2>1 DEF HalfDone
  <2> QED BY <2>1, <2>2 DEF TookEffect
<1>3. \A p \in Op \ {o} : /\ p \in Partial' <=> p \in Partial
                          /\ p \in Applied' <=> p \in Applied
                          /\ p \in Refused' <=> p \in Refused
  BY <1>2 DEF Moves, Partial, Applied, Refused
<1>4. \A p \in Op : p \in Bares' <=> p \in Bares
  BY <1>1 DEF Bares
<1>5. /\ Bares \subseteq Op /\ Partial \subseteq Op /\ Applied \subseteq Op /\ Refused \subseteq Op
      /\ Bares' \subseteq Op /\ Partial' \subseteq Op /\ Applied' \subseteq Op
      /\ Refused' \subseteq Op
  BY DEF Bares, Partial, Applied, Refused
<1> QED BY <1>3, <1>4, <1>5

\* An operation at work in a transaction is not bare.
LEMMA BareIsOpen ==
  ASSUME IInv, NEW o \in Op, Active(o), Bare(o)
  PROVE  backup = None
BY OneActive DEF IInv, TransactionIsHeld, Transactional, Bare

LEMMA SerialRejects ==
  ASSUME IInv, NEW o \in Op, Rejects(o)
  PROVE  [Serial!Next]_(Serial!svars)
<1> USE DEF IInv
<1>1. /\ Waiting(o) /\ queue[1] = o /\ \A p \in Op \ {o} : ~Active(p)
      /\ Reject(o) /\ Rollback /\ Committed' = Committed
  BY RejectsAre, RejectionKeeps
<1>2. /\ pc'[o] = IF HalfDone(o) THEN "torn" ELSE "rejected"
      /\ \A p \in Op \ {o} : pc'[p] = pc[p]
      /\ UNCHANGED <<storage, kind, target, out>> /\ UNCHANGED callVars
  BY <1>1 DEF Reject, callVars, TypeOK
<1>3. Moves(o)
  BY <1>1, <1>2 DEF Moves, TypeOK
<1>4. pc[o] \in {"queued", "begun", "read", "halfway", "written"}
  BY <1>1 DEF Waiting, Active
<1>5. o \notin Applied
  <2>1. CASE pc[o] # "written"
    BY <1>4, <2>1 DEF Applied, TookEffect
  <2>2. CASE BatchThrows(o)
    <3>1. pc[o] = "written" /\ kind[o] = "batch" /\ Active(o) /\ storage # "plain"
      BY <2>2 DEF BatchThrows, CallsAreMade, Active
    <3>2. storage = "sqlite" => backup # None
      BY <3>1 DEF TransactionIsHeld, Transactional
    <3>3. storage = "sqlite" \/ storage = "adapter"
      BY <3>1, StorageAssumption DEF TypeOK
    <3>4. storage = "adapter" /\ out[o] # None => HalfDone(o)
      BY <3>1 DEF HalfDone, Bare
    <3> QED BY <3>1, <3>2, <3>3, <3>4 DEF Applied, TookEffect
  <2>3. CASE CommitFails(o)
    <3>1. pc[o] = "written" /\ Active(o) /\ Transactional(o)
      BY <2>3 DEF CommitFails, Active
    <3>2. backup # None
      BY <3>1 DEF TransactionIsHeld
    <3> QED BY <3>1, <3>2 DEF Applied, TookEffect
  <2> QED BY <2>1, <2>2, <2>3 DEF Rejects, BeginFails, IsNext, ReadRefused, WriteFails
<1>6. o \notin Refused /\ o \in Refused' /\ o \notin Applied'
  BY <1>2, <1>4 DEF Refused, Applied, TookEffect
<1>7. o \in Partial' <=> o \in Partial
  BY <1>2, <1>4 DEF Partial, HalfDone
<1>8. UNCHANGED <<Bares, Partial, Applied>> /\ Refused' = Refused \cup {o}
  BY <1>3, <1>5, <1>6, <1>7, MovesOnly
<1>9. {o} \cap (Applied \cup Refused) = {}
  BY <1>5, <1>6
<1> QED BY <1>1, <1>8, <1>9, SerialRefuses

LEMMA SerialHalves ==
  ASSUME IInv, NEW o \in Op, DeleteConfig(o)
  PROVE  Serial!Next
<1> USE DEF IInv
<1>1. /\ pc[o] = "begun" /\ kind[o] = "remove" /\ storage = "sqlite" /\ pc'[o] = "halfway"
      /\ UNCHANGED <<storage, kind, target, out>> /\ UNCHANGED callVars
      /\ \A p \in Op \ {o} : pc'[p] = pc[p]
  BY DEF DeleteConfig, callVars, TypeOK
<1>2. Moves(o)
  BY <1>1 DEF Moves, DeleteConfig
<1>3. o \in Bares /\ o \notin Partial \cup Applied \cup Refused
  BY <1>1 DEF Bares, Bare, Partial, HalfDone, Applied, TookEffect, Refused
<1>4. o \in Partial' /\ o \notin Applied' \cup Refused'
  BY <1>1 DEF Bare, Partial, HalfDone, Applied, TookEffect, Refused
<1>5. Partial' = Partial \cup {o} /\ UNCHANGED <<Bares, Applied, Refused>>
  BY <1>2, <1>3, <1>4, MovesOnly
<1>6. target[o] \in Task
  BY <1>1 DEF CallsAreMade
<1>7. Serial!Unconfigure(target[o])
  BY DeleteConfigKeeps DEF Serial!Unconfigure
<1> QED BY <1>3, <1>5, <1>6, <1>7, SerialStarts

LEMMA SerialWrites ==
  ASSUME IInv, NEW o \in Op, Writes(o)
  PROVE  [Serial!Next]_(Serial!svars)
<1> USE DEF IInv
<1>1. /\ pc[o] \in {"begun", "read", "halfway"} /\ pc' = [pc EXCEPT ![o] = "written"]
      /\ pc'[o] = "written"
      /\ UNCHANGED <<storage, kind, target, backup>> /\ UNCHANGED callVars
      /\ kind[o] = "remove" \/ out'[o] # None
      /\ Effect(o, tasks, push, tasks', push')
      /\ Active(o)
  BY WritesAre DEF callVars, TypeOK, Active
<1>2. Moves(o)
  BY <1>1, WritesAre DEF Moves, TypeOK
<1>3. backup # None => Committed' = Committed
  BY WritesAre, WriteKeeps
<1>4. o \notin Applied \cup Refused /\ o \notin Refused'
  BY <1>1 DEF Applied, Refused, TookEffect
<1>5. /\ o \in Partial <=> pc[o] = "halfway"
      /\ o \in Partial' <=> storage = "adapter" /\ kind[o] = "batch"
  BY <1>1 DEF Partial, HalfDone, Bare, WorkIsFresh
<1>6. o \in Applied' <=> backup = None /\ o \notin Partial'
  BY <1>1 DEF Applied, TookEffect, Partial
<1>7. Refused' = Refused /\ Bares' = Bares
  BY <1>2, <1>4, MovesOnly
<1>8. target[o] \in Task
  BY <1>1 DEF CallsAreMade, Waiting
<1>9. backup = None => Committed = <<tasks, push>> /\ Committed' = <<tasks', push'>>
  BY <1>1 DEF Committed
<1>10. CASE backup # None
  <2>1. ~Bare(o)
    BY <1>1, <1>10, BareIsOpen
  <2>2. o \notin Partial /\ o \notin Partial' /\ o \notin Applied'
    BY <1>5, <1>6, <1>10, <2>1 DEF Bare, WorkIsFresh
  <2>3. UNCHANGED <<Partial, Applied>>
    BY <1>2, <1>4, <2>2, MovesOnly
  <2> QED BY <1>3, <1>7, <1>10, <2>3, SerialStutters
<1>11. CASE backup = None /\ storage = "adapter" /\ kind[o] = "batch"
  <2>1. Save(o) /\ pc[o] = "read"
    BY <1>11 DEF Writes, Save, SavePush, Insert, DeleteTask
  <2>2. /\ out[o] \in Record /\ out[o] = tasks[target[o]] /\ tasks[target[o]] # None
    BY <1>8, <2>1, NoneIsApart DEF Save, WorkIsFresh
  <2>3. tasks' = [tasks EXCEPT ![target[o]] = Changed(o)] /\ push' = push
    BY <2>1, <2>2 DEF Save
  <2>4. Changed(o) = Serial!Edited(tasks[target[o]], o)
    BY <1>11, <2>2, EditedIs DEF Changed
  <2>5. Serial!Overwrite(target[o], o)
    BY <1>9, <1>11, <2>2, <2>3, <2>4 DEF Serial!Overwrite
  <2>6. o \in Bares /\ o \notin Partial /\ o \in Partial' /\ o \notin Applied'
    BY <1>5, <1>6, <1>11, <2>1 DEF Bares, Bare
  <2>7. Partial' = Partial \cup {o} /\ Applied' = Applied
    BY <1>2, <1>4, <2>6, MovesOnly
  <2> QED BY <1>4, <1>7, <1>8, <2>5, <2>6, <2>7, SerialStarts
<1>12. CASE backup = None /\ pc[o] = "halfway"
  <2>1. kind[o] = "remove" /\ DeleteTask(o)
    BY <1>12 DEF WorkIsFresh, Writes, Save, SavePush, Insert, DeleteTask
  <2>2. Serial!Remove(target[o])
    BY <1>9, <1>12, <2>1 DEF DeleteTask, Serial!Remove
  <2>3. o \in Partial /\ o \notin Partial' /\ o \in Applied'
    BY <1>5, <1>6, <1>12, <2>1
  <2>4. Partial' = Partial \ {o} /\ Applied' = Applied \cup {o}
    BY <1>2, <2>3, MovesOnly
  <2> QED BY <1>4, <1>7, <1>8, <2>2, <2>3, <2>4, SerialFinishes
<1>13. CASE backup = None /\ pc[o] # "halfway" /\ ~(storage = "adapter" /\ kind[o] = "batch")
  <2>1. o \notin Partial /\ o \notin Partial' /\ o \in Applied'
    BY <1>5, <1>6, <1>13
  <2>2. Partial' = Partial /\ Applied' = Applied \cup {o}
    BY <1>2, <2>1, MovesOnly
  <2>3. Effect(o, Committed[1], Committed[2], Committed'[1], Committed'[2])
    BY <1>1, <1>9, <1>13
  <2> QED BY <1>4, <1>7, <1>8, <2>1, <2>2, <2>3, SerialApplies
<1> QED BY <1>10, <1>11, <1>12, <1>13

LEMMA SerialCommits ==
  ASSUME IInv, NEW o \in Op, Commit(o)
  PROVE  [Serial!Next]_(Serial!svars)
<1> USE DEF IInv
<1>1. /\ pc[o] = "written" /\ pc' = [pc EXCEPT ![o] = "resolved"] /\ pc'[o] = "resolved"
      /\ UNCHANGED <<storage, kind, target, out, tasks, push>> /\ UNCHANGED callVars
      /\ Active(o)
  BY DEF Commit, Resolve, callVars, TypeOK, Active
<1>2. Moves(o) /\ Committed' = <<tasks, push>>
  BY <1>1, ActiveIsFirst, CommitKeeps DEF Moves, TypeOK
<1>3. o \in Applied' /\ o \notin Refused /\ o \notin Refused' /\ o \notin Partial'
  BY <1>1 DEF Applied, Refused, Partial, HalfDone, TookEffect
<1>4. Bares' = Bares /\ Refused' = Refused /\ Applied' = Applied \cup {o} /\ Partial' = Partial \ {o}
  BY <1>2, <1>3, MovesOnly
<1>5. target[o] \in Task
  BY <1>1 DEF CallsAreMade, Waiting
<1>6. backup = None => Committed' = Committed
  BY <1>2, CommittedIs
<1>7. CASE o \in Applied
  <2>1. backup = None /\ o \notin Partial
    BY <1>1, <1>7 DEF Applied, TookEffect, Partial
  <2>2. Applied' = Applied /\ Partial' = Partial
    BY <1>4, <1>7, <2>1
  <2> QED BY <1>4, <1>6, <2>1, <2>2, SerialStutters
<1>8. CASE o \in Partial
  <2>1. backup = None
    BY <1>1, <1>8, BareIsOpen DEF Partial, HalfDone
  <2> QED BY <1>3, <1>4, <1>5, <1>6, <1>8, <2>1, SerialFinishes
<1>9. CASE o \notin Applied /\ o \notin Partial
  <2>1. Effect(o, Committed[1], Committed[2], Committed'[1], Committed'[2])
    <3>1. CASE backup # None
      <4>1. Effect(o, backup[1], backup[2], tasks, push)
        BY <1>1, <3>1 DEF WorkIsFresh
      <4> QED BY <1>2, <3>1, <4>1, CommittedIs
    <3>2. CASE backup = None
      <4>1. tasks[target[o]] = None
        BY <1>1, <1>9, <3>2 DEF WorkIsFresh, Applied, Partial, TookEffect
      <4>2. Committed = <<tasks, push>>
        BY <3>2, CommittedIs
      <4> QED BY <1>2, <4>1, <4>2 DEF Effect
    <3> QED BY <3>1, <3>2
  <2>2. Partial' = Partial
    BY <1>4, <1>9
  <2> QED BY <1>3, <1>4, <1>5, <1>9, <2>1, <2>2, SerialApplies
<1> QED BY <1>7, <1>8, <1>9

LEMMA SerialCrashes ==
  ASSUME IInv, Crash
  PROVE  [Serial!Next]_(Serial!svars)
<1> USE DEF IInv
<1> DEFINE lost == {o \in Op : pc'[o] \in {"lost", "torn"} /\ pc[o] \notin {"lost", "torn"}}
<1>1. /\ storage = "sqlite" /\ UNCHANGED <<storage, kind, out>> /\ Committed' = Committed
      /\ \A o \in Op : pc'[o] = IF Outlives(o) THEN "unanswered"
                                ELSE IF HalfDone(o) THEN "torn"
                                ELSE IF pc[o] \in {"queued", "begun", "read", "written"} THEN "lost"
                                ELSE pc[o]
  BY CrashKeeps DEF Crash, callVars
<1>2. ASSUME NEW o \in Op
      PROVE  /\ o \in Bares' <=> o \in Bares
             /\ o \in Partial' <=> o \in Partial
             /\ o \in Applied' <=> o \in Applied
             /\ o \in Refused' <=> o \in Refused \/ o \in lost
             /\ o \in lost => o \notin Applied \cup Refused
  <2>1. HalfDone(o) <=> pc[o] = "halfway"
    BY <1>1 DEF HalfDone, Bare, WorkIsFresh
  <2>2. pc[o] = "written" /\ backup = None => kind[o] = "remove"
    BY <1>1 DEF TransactionIsHeld, Active, Transactional
  <2>3. Bare(o)' <=> Bare(o)
    BY <1>1 DEF Bare
  <2>4. pc'[o] \notin {"halfway", "written"}
    BY <1>1, <2>1
  <2>5. ~HalfDone(o)'
    BY <2>4 DEF HalfDone
  <2> QED BY <1>1, <2>1, <2>2, <2>3, <2>4, <2>5
          DEF Bares, Partial, Applied, Refused, TookEffect, Outlives
<1>3. /\ UNCHANGED <<Bares, Partial, Applied>> /\ Refused' = Refused \cup lost
      /\ lost \in SUBSET Op /\ lost \cap (Applied \cup Refused) = {}
  <2>1. /\ Bares \subseteq Op /\ Partial \subseteq Op /\ Applied \subseteq Op /\ Refused \subseteq Op
        /\ Bares' \subseteq Op /\ Partial' \subseteq Op /\ Applied' \subseteq Op
        /\ Refused' \subseteq Op
    BY DEF Bares, Partial, Applied, Refused
  <2> QED BY <1>2, <2>1
<1> HIDE DEF lost
<1> QED BY <1>1, <1>3, SerialRefuses

\* A call announces whether the operation is bare.
LEMMA SerialCalls ==
  ASSUME IInv, NEW o \in Op, NEW k \in Kinds, NEW t \in Task, Call(o, k, t)
  PROVE  [Serial!Next]_(Serial!svars)
<1> USE DEF IInv
<1>1. /\ pc[o] = "idle" /\ pc'[o] = "queued" /\ Committed' = Committed
      /\ \A p \in Op \ {o} : pc'[p] = pc[p] /\ kind'[p] = kind[p]
      /\ UNCHANGED <<storage, out, backup>>
  BY DEF Call, TypeOK, Committed
<1>2. ASSUME NEW p \in Op
      PROVE  /\ p # o => (p \in Bares' <=> p \in Bares)
             /\ p \in Partial' <=> p \in Partial
             /\ p \in Applied' <=> p \in Applied
             /\ p \in Refused' <=> p \in Refused
  <2>1. p # o => (Bare(p)' <=> Bare(p))
    BY <1>1 DEF Bare
  <2>2. HalfDone(p)' <=> HalfDone(p)
    BY <1>1, <2>1 DEF HalfDone
  <2> QED BY <1>1, <2>1, <2>2 DEF Bares, Partial, Applied, Refused, TookEffect
<1>3. /\ Bares \subseteq Op /\ Partial \subseteq Op /\ Applied \subseteq Op /\ Refused \subseteq Op
      /\ Bares' \subseteq Op /\ Partial' \subseteq Op /\ Applied' \subseteq Op
      /\ Refused' \subseteq Op
  BY DEF Bares, Partial, Applied, Refused
<1>4. UNCHANGED <<Partial, Applied, Refused>> /\ Bares' \ {o} = Bares \ {o}
  BY <1>2, <1>3
<1>5. o \notin Partial \cup Applied \cup Refused
  BY <1>1 DEF Partial, HalfDone, Applied, TookEffect, Refused
<1>6. o \notin Bares
  BY <1>1 DEF Bares, Bare, CallsAreMade
<1>7. CASE o \in Bares'
  <2>1. Bares' = Bares \cup {o}
    BY <1>4, <1>7
  <2>2. Serial!Announce(o)
    BY <1>1, <1>4, <1>5, <1>6, <2>1 DEF Serial!Announce, Bares, Partial, Applied, Refused
  <2> QED BY <2>2 DEF Serial!Next
<1>8. CASE o \notin Bares'
  <2>1. Bares' = Bares
    BY <1>4, <1>6, <1>8
  <2> QED BY <1>1, <1>4, <2>1, SerialStutters
<1> QED BY <1>7, <1>8

LEMMA SerialNext == IInv /\ [Next]_vars => [Serial!Next]_(Serial!svars)
<1> SUFFICES ASSUME IInv, [Next]_vars PROVE [Serial!Next]_(Serial!svars) OBVIOUS
<1> USE DEF IInv
<1>1. ASSUME NEW o \in Op, Begin(o) \/ Read(o) \/ Answer(o) PROVE UNCHANGED Serial!svars
  <2>1. Committed' = Committed
    BY <1>1, BeginKeeps, ReadKeeps, AnswerKeeps
  <2>2. Moves(o)
    BY <1>1, NextIsAlone DEF Moves, Begin, Read, Answer, TypeOK, callVars
  <2>3. /\ o \in Partial' <=> o \in Partial
        /\ o \in Applied' <=> o \in Applied
        /\ o \in Refused' <=> o \in Refused
    <3>1. CASE Begin(o)
      BY <3>1 DEF Begin, IsNext, Partial, HalfDone, Applied, Refused, TookEffect, TypeOK
    <3>2. CASE Read(o)
      <4>1. /\ pc[o] = "begun" /\ kind[o] # "remove" /\ kind'[o] = kind[o]
            /\ pc'[o] = "read" \/ (pc'[o] = "written" /\ out'[o] = None)
        BY <3>2 DEF Read, TypeOK, callVars
      <4> QED BY <4>1 DEF Partial, HalfDone, Applied, Refused, TookEffect
    <3>3. CASE Answer(o)
      BY <3>3 DEF Answer, Partial, HalfDone, Applied, Refused, TookEffect, TypeOK
    <3> QED BY <1>1, <3>1, <3>2, <3>3
  <2>4. UNCHANGED <<Bares, Partial, Applied, Refused>>
    BY <2>2, <2>3, MovesOnly
  <2> QED BY <2>1, <2>4, SerialStutters
<1>2. CASE UNCHANGED vars
  <2>1. UNCHANGED <<storage, kind, target, pc, out, tasks, push, backup>>
    BY <1>2 DEF vars, callVars
  <2>2. Committed' = Committed /\ UNCHANGED <<Bares, Partial, Applied, Refused>>
    BY <2>1 DEF Committed, Bares, Bare, Partial, HalfDone, Applied, Refused, TookEffect
  <2> QED BY <2>2, SerialStutters
<1> QED BY <1>1, <1>2, SerialCalls, SerialRejects, SerialHalves, SerialWrites, SerialCommits,
           SerialCrashes DEF Next, Run, Rejects, Writes

\* The manager is a serial object over every storage: a mutation takes effect at
\* once, on what those before it left, or not at all.  What may be left half done
\* are the operations of the storages that SerialTasks is told are bare: a removal
\* in SQLite, and a transaction of the adapter.
THEOREM ManagerIsSerial == Spec => TakesEffectAtOnce
BY SerialInit, SerialNext, IInvAlways, PTL DEF Spec, TakesEffectAtOnce, Serial!Spec

-----------------------------------------------------------------------------
(***************************************************************************)
(* Answered updates last: an update that is committed is once in the log   *)
(* of its task, in what is stored and in what a rollback would restore,    *)
(* until the task is removed; one that is written is in what is stored.    *)
(***************************************************************************)
Gone == {"resolved", "done", "unanswered", "written"}
Removed(t) == \E r \in Op : kind[r] = "remove" /\ target[r] = t /\ pc[r] \in Gone

Once(log, o) == \E i \in DOMAIN log : log[i] = o /\ \A j \in DOMAIN log : log[j] = o => j = i
Logged(o, ts) == ts[target[o]] # None /\ Once(ts[target[o]].log, o)
Kept(o, ts) == Removed(target[o]) \/ Logged(o, ts)

Lasts ==
  \A o \in Op : Edits(o) =>
    /\ pc[o] = "written" => Logged(o, tasks)
    /\ pc[o] \in {"resolved", "done"} => Kept(o, tasks) /\ Kept(o, Committed[1])

LEMMA OnceAppended ==
  ASSUME NEW log \in Seq(Op), NEW o \in Op
  PROVE  /\ (\A i \in DOMAIN log : log[i] # o) => Once(Append(log, o), o)
         /\ \A p \in Op \ {o} : Once(log, p) => Once(Append(log, o), p)
<1>1. /\ DOMAIN Append(log, o) = 1 .. Len(log) + 1 /\ Append(log, o)[Len(log) + 1] = o
      /\ DOMAIN log = 1 .. Len(log) /\ Len(log) \in Nat
      /\ \A i \in DOMAIN log : Append(log, o)[i] = log[i]
  OBVIOUS
<1>2. \A i \in 1 .. Len(log) + 1 : i \in 1 .. Len(log) \/ i = Len(log) + 1
  BY <1>1
<1> QED BY <1>1, <1>2 DEF Once

LEMMA RemovedStays ==
  ASSUME IInv, [Next]_vars, NEW t, Removed(t)
  PROVE  Removed(t)'
<1> USE DEF IInv
<1>1. PICK r \in Op : kind[r] = "remove" /\ target[r] = t /\ pc[r] \in Gone
  BY DEF Removed
<1>2. ASSUME kind'[r] = kind[r], target'[r] = target[r], pc'[r] \in Gone PROVE Removed(t)'
  BY <1>1, <1>2 DEF Removed
<1>3. ASSUME NEW o \in Op, NEW k \in Kinds, NEW u \in Task, Call(o, k, u) PROVE Removed(t)'
  BY <1>1, <1>2, <1>3 DEF Call, Gone, TypeOK
<1>4. ASSUME NEW o \in Op,
             Begin(o) \/ Read(o) \/ DeleteConfig(o) \/ Writes(o) \/ Commit(o) \/ Answer(o)
      PROVE  Removed(t)'
  <2>1. UNCHANGED <<kind, target>>
    BY <1>4, WritesAre DEF Begin, Read, DeleteConfig, Commit, Resolve, Answer, callVars
  <2>2. pc'[r] \in Gone
    BY <1>1, <1>4, WritesAre 
       DEF Begin, IsNext, Read, DeleteConfig, Commit, Resolve, Answer, Gone, TypeOK
  <2> QED BY <1>2, <2>1, <2>2
<1>5. ASSUME NEW o \in Op, Rejects(o) PROVE Removed(t)'
  <2>1. r # o
    BY <1>1, <1>5 DEF Rejects, BeginFails, IsNext, ReadRefused, WriteFails, BatchThrows,
                      CommitFails, Transactional, Gone
  <2>2. UNCHANGED <<kind, target>> /\ pc'[r] = pc[r]
    BY <1>5, <2>1, RejectsAre DEF Reject, callVars, TypeOK
  <2> QED BY <1>1, <1>2, <2>2
<1>6. CASE Crash
  <2>1. pc[r] = "written" => backup = None
    BY <1>1, ActiveIsFirst DEF TransactionIsHeld, Active, Transactional
  <2>2. pc'[r] \in Gone /\ UNCHANGED <<kind, target>>
    BY <1>1, <1>6, <2>1 DEF Crash, Outlives, HalfDone, Gone, callVars
  <2> QED BY <1>2, <2>2
<1>7. CASE UNCHANGED vars
  BY <1>1, <1>2, <1>7 DEF vars, callVars
<1> QED BY <1>3, <1>4, <1>5, <1>6, <1>7 DEF Next, Run, Rejects, Writes

\* What a write does to the log of its task.
LEMMA WritesLog ==
  ASSUME IInv, NEW o \in Op, Writes(o)
  PROVE  LET t == target[o]
         IN /\ \A u \in Task \ {t} : tasks'[u] = tasks[u]
            /\ \/ kind[o] = "remove"
               \/ kind[o] = "push" /\ tasks' = tasks
               \/ tasks'[t] # None /\ tasks[t] = None /\ tasks'[t].log = <<o>>
               \/ /\ tasks'[t] # None /\ tasks[t] # None /\ tasks[t].log \in Seq(Op)
                  /\ tasks'[t].log = Append(tasks[t].log, o)
                  /\ \A i \in DOMAIN tasks[t].log : tasks[t].log[i] # o
<1> USE DEF IInv
<1> DEFINE t == target[o]
<1>1. pc[o] \in {"begun", "read", "halfway"} /\ pc[o] \in Early
  BY WritesAre DEF Early
<1>2. t \in Task /\ None \notin Record /\ tasks \in [Task -> Record \cup {None}]
  BY <1>1, NoneIsApart DEF CallsAreMade, Waiting, Active, TypeOK, Contents
<1>3. CASE Save(o)
  <2>1. /\ out[o] \in Record /\ out[o] = tasks[t] /\ tasks[t] # None
    BY <1>2, <1>3 DEF Save, WorkIsFresh
  <2>2. /\ Changed(o).log = Append(out[o].log, o) /\ Changed(o) \in Record
    BY <2>1, ChangedIs
  <2>3. tasks' = [tasks EXCEPT ![t] = Changed(o)]
    BY <1>3, <2>1 DEF Save
  <2>4. \A i \in DOMAIN tasks[t].log : tasks[t].log[i] # o
    BY <1>1, <1>2, <2>1 DEF LogsAreWritten, WrittenIn
  <2>5. tasks[t].log \in Seq(Op)
    BY <2>1 DEF Record
  <2> QED BY <1>2, <2>1, <2>2, <2>3, <2>4, <2>5
<1>4. CASE SavePush(o)
  BY <1>4 DEF SavePush
<1>5. CASE Insert(o)
  <2> DEFINE task == [open |-> TRUE, log |-> <<o>>]
  <2>1. tasks[t] = None
    BY <1>5 DEF Insert, CreatesAreFirst, UnknownIn
  <2>2. task \in Record /\ task.log = <<o>>
    BY DEF Record
  <2>3. tasks' = [tasks EXCEPT ![t] = task]
    BY <1>5 DEF Insert
  <2> HIDE DEF task
  <2> QED BY <1>2, <2>1, <2>2, <2>3
<1>6. CASE DeleteTask(o)
  BY <1>2, <1>6 DEF DeleteTask
<1> QED BY <1>3, <1>4, <1>5, <1>6 DEF Writes

LEMMA LastsInit == Init => Lasts
BY DEF Init, Lasts

\* Steps that write nothing.
LEMMA LastsIdle ==
  ASSUME IInv, Lasts, [Next]_vars, NEW o \in Op,
         \A p \in Op \ {o} : /\ pc'[p] = pc[p] /\ out'[p] = out[p]
                             /\ kind'[p] = kind[p] /\ target'[p] = target[p],
         pc'[o] \in {"written", "resolved", "done"} /\ Edits(o)' =>
           /\ UNCHANGED <<kind, target, out>>
           /\ pc'[o] = "written" => pc[o] = "written"
           /\ pc'[o] \in {"resolved", "done"} => pc[o] \in {"resolved", "done"},
         UNCHANGED tasks, Committed'[1] = Committed[1]
  PROVE  Lasts'
<1>1. ASSUME NEW p \in Op, Edits(p)', pc'[p] \in {"written", "resolved", "done"}
      PROVE  /\ Edits(p) /\ kind'[p] = kind[p] /\ target'[p] = target[p]
             /\ pc'[p] = "written" => pc[p] = "written"
             /\ pc'[p] \in {"resolved", "done"} => pc[p] \in {"resolved", "done"}
  BY <1>1 DEF Edits
<1>2. ASSUME NEW p \in Op, NEW ts, target'[p] = target[p]
      PROVE  (Logged(p, ts) => Logged(p, ts)') /\ (Kept(p, ts) => Kept(p, ts)')
  <2>1. Logged(p, ts) => Logged(p, ts)'
    BY <1>2 DEF Logged
  <2>2. Removed(target[p]) => Removed(target[p])'
    <3>1. \A t : Removed(t) => Removed(t)'
      BY RemovedStays
    <3> QED BY <1>2, <3>1 DEF Removed
  <2> QED BY <2>1, <2>2 DEF Kept
<1>3. ASSUME NEW p \in Op, Edits(p)'
      PROVE  /\ pc'[p] = "written" => Logged(p, tasks)'
             /\ pc'[p] \in {"resolved", "done"} => Kept(p, tasks)' /\ Kept(p, Committed[1])'
  BY <1>1, <1>2, <1>3 DEF Lasts, Logged, Kept
<1> QED BY <1>3 DEF Lasts

LEMMA LastsWrites ==
  ASSUME IInv, Lasts, [Next]_vars, NEW o \in Op, Writes(o)
  PROVE  Lasts'
<1> USE DEF IInv
<1> DEFINE t == target[o]
<1>1. /\ pc[o] \in {"begun", "read", "halfway"} /\ pc'[o] = "written"
      /\ \A p \in Op \ {o} : pc'[p] = pc[p] /\ out'[p] = out[p] /\ ~Active(p)
      /\ UNCHANGED <<kind, target, backup>>
      /\ kind[o] = "remove" \/ out'[o] # None
  BY WritesAre, ActiveIsFirst DEF callVars, TypeOK, Active
<1>2. /\ \A u \in Task \ {t} : tasks'[u] = tasks[u]
      /\ \/ kind[o] = "remove"
         \/ kind[o] = "push" /\ tasks' = tasks
         \/ tasks'[t] # None /\ tasks[t] = None /\ tasks'[t].log = <<o>>
         \/ /\ tasks'[t] # None /\ tasks[t] # None /\ tasks[t].log \in Seq(Op)
            /\ tasks'[t].log = Append(tasks[t].log, o)
            /\ \A i \in DOMAIN tasks[t].log : tasks[t].log[i] # o
  BY WritesLog
<1>3. \A u : Removed(u) => Removed(u)'
  BY RemovedStays
<1>4. kind[o] = "remove" => Removed(t)'
  BY <1>1 DEF Removed, Gone
<1>5. ASSUME Edits(o)' PROVE Logged(o, tasks)'
  <2>1. kind[o] \notin {"remove", "push"}
    BY <1>1, <1>5 DEF Edits
  <2>2. Once(<<o>>, o)
    BY DEF Once
  <2> QED BY <1>1, <1>2, <2>1, <2>2, OnceAppended DEF Logged
<1>6. ASSUME NEW p \in Op \ {o}, Kept(p, tasks), target[p] \in Task PROVE Kept(p, tasks)'
  <2>1. CASE Removed(target[p])
    BY <1>1, <1>3, <2>1 DEF Kept, Removed
  <2>2. CASE Logged(p, tasks) /\ target[p] # t
    BY <1>1, <1>2, <1>6, <2>2 DEF Kept, Logged
  <2>3. CASE Logged(p, tasks) /\ target[p] = t
    <3>1. CASE kind[o] = "remove"
      BY <1>1, <1>4, <2>3, <3>1 DEF Kept, Removed
    <3>2. CASE kind[o] # "remove"
      <4>1. Logged(p, tasks)'
        BY ZenonT(40), <1>1, <1>2, <2>3, <3>2, OnceAppended DEF Logged
      <4> QED BY <4>1 DEF Kept
    <3> QED BY <3>1, <3>2
  <2> QED BY <1>6, <2>1, <2>2, <2>3 DEF Kept
<1>7. ASSUME NEW p \in Op \ {o}, Kept(p, tasks), Kept(p, Committed[1]), target[p] \in Task
      PROVE  Kept(p, tasks)' /\ Kept(p, Committed[1])'
  <2>1. Kept(p, tasks)'
    BY <1>6, <1>7
  <2>2. CASE backup = None
    <3>1. Committed'[1] = tasks'
      BY <1>1, <2>2 DEF Committed
    <3> QED BY <2>1, <3>1 DEF Kept, Logged
  <2>3. CASE backup # None
    <3>1. Committed'[1] = Committed[1]
      BY <1>1, <2>3 DEF Committed
    <3>2. Removed(target[p]) => Removed(target[p])'
      BY <1>1, <1>3 DEF Removed
    <3> QED BY <1>1, <1>7, <2>1, <3>1, <3>2 DEF Kept, Logged
  <2> QED BY <2>2, <2>3
<1>8. ASSUME NEW p \in Op \ {o}, Edits(p)', pc'[p] \in {"resolved", "done", "written"}
      PROVE  /\ pc'[p] \in {"resolved", "done"} /\ Edits(p) /\ pc[p] = pc'[p]
             /\ target[p] \in Task
  BY <1>1, <1>8 DEF Edits, Active, CallsAreMade
<1>9. ASSUME NEW p \in Op, Edits(p)'
      PROVE  /\ pc'[p] = "written" => Logged(p, tasks)'
             /\ pc'[p] \in {"resolved", "done"} => Kept(p, tasks)' /\ Kept(p, Committed[1])'
  BY <1>1, <1>5, <1>7, <1>8, <1>9 DEF Lasts
<1> QED BY <1>9 DEF Lasts

\* The contents become one of the two that readers and rollbacks would find.
LEMMA LastsSettles ==
  ASSUME IInv, Lasts, [Next]_vars, UNCHANGED <<kind, target, out>>,
         \A p \in Op : pc'[p] \in {"written", "resolved", "done"} =>
           \/ pc'[p] \in {"resolved", "done"} /\ pc[p] \in {"resolved", "done"}
           \/ /\ pc[p] = "written" /\ pc'[p] = "resolved" /\ tasks' = tasks
              /\ Edits(p) => Logged(p, tasks),
         Committed'[1] = tasks', tasks' = tasks \/ tasks' = Committed[1]
  PROVE  Lasts'
<1>1. ASSUME NEW p \in Op, Edits(p)', pc'[p] \in {"written", "resolved", "done"}
      PROVE  pc'[p] # "written" /\ Kept(p, tasks)' /\ Kept(p, Committed[1])'
  <2>1. Removed(target[p]) => Removed(target[p])'
    <3>1. \A t : Removed(t) => Removed(t)'
      BY RemovedStays
    <3> QED BY <3>1 DEF Removed
  <2>2. Edits(p) /\ target'[p] = target[p]
    BY <1>1 DEF Edits
  <2>3. Kept(p, tasks')
    BY <1>1, <2>2 DEF Lasts, Kept
  <2> QED BY <1>1, <2>1, <2>2, <2>3 DEF Kept, Logged
<1> QED BY <1>1 DEF Lasts

LEMMA LastsNext == IInv /\ Lasts /\ [Next]_vars => Lasts'
<1> SUFFICES ASSUME IInv, Lasts, [Next]_vars PROVE Lasts' OBVIOUS
<1> USE DEF IInv
<1>1. ASSUME NEW o \in Op, NEW k \in Kinds, NEW t \in Task, Call(o, k, t) PROVE Lasts'
  <2>1. /\ \A p \in Op \ {o} : /\ pc'[p] = pc[p] /\ out'[p] = out[p]
                               /\ kind'[p] = kind[p] /\ target'[p] = target[p]
        /\ pc'[o] = "queued" /\ UNCHANGED tasks /\ Committed' = Committed
    BY <1>1 DEF Call, Committed, TypeOK
  <2> QED BY <2>1, LastsIdle
<1>2. ASSUME NEW o \in Op, Begin(o) \/ Read(o) \/ Answer(o) PROVE Lasts'
  <2>1. /\ \A p \in Op \ {o} : /\ pc'[p] = pc[p] /\ out'[p] = out[p]
                               /\ kind'[p] = kind[p] /\ target'[p] = target[p]
        /\ UNCHANGED <<tasks, kind, target>>
    BY <1>2 DEF Begin, Read, Answer, callVars, TypeOK
  <2>2. Committed' = Committed
    BY <1>2, BeginKeeps, ReadKeeps, AnswerKeeps
  <2>3. /\ pc'[o] = "written" => out'[o] = None
        /\ pc'[o] \in {"resolved", "done"} => pc[o] = "resolved" /\ UNCHANGED out
    BY <1>2 DEF Begin, Read, Answer, TypeOK
  <2> QED BY <2>1, <2>2, <2>3, LastsIdle DEF Edits
<1>8. ASSUME NEW o \in Op, DeleteConfig(o) PROVE Lasts'
  <2>1. /\ \A p \in Op \ {o} : /\ pc'[p] = pc[p] /\ out'[p] = out[p]
                               /\ kind'[p] = kind[p] /\ target'[p] = target[p]
        /\ pc'[o] = "halfway" /\ UNCHANGED tasks
    BY <1>8 DEF DeleteConfig, callVars, TypeOK
  <2>2. Committed'[1] = Committed[1]
    BY <1>8, DeleteConfigKeeps
  <2> QED BY <2>1, <2>2, LastsIdle
<1>3. ASSUME NEW o \in Op, Rejects(o) PROVE Lasts'
  <2>1. /\ \A p \in Op \ {o} : ~Active(p)
        /\ Reject(o) /\ Rollback /\ Committed' = Committed
    BY <1>3, RejectsAre, RejectionKeeps
  <2>2. /\ UNCHANGED <<kind, target, out>> /\ pc'[o] \in {"rejected", "torn"}
        /\ \A p \in Op \ {o} : pc'[p] = pc[p] /\ pc[p] # "written"
    BY <2>1 DEF Reject, callVars, TypeOK, Active
  <2>3. Committed'[1] = tasks'
    BY <2>1 DEF Rollback, Committed
  <2> QED BY <2>1, <2>2, <2>3, LastsSettles
<1>4. ASSUME NEW o \in Op, Writes(o) PROVE Lasts'
  BY <1>4, LastsWrites
<1>5. ASSUME NEW o \in Op, Commit(o) PROVE Lasts'
  <2>1. /\ pc[o] = "written" /\ pc'[o] = "resolved" /\ UNCHANGED <<kind, target, out, tasks>>
        /\ \A p \in Op \ {o} : pc'[p] = pc[p] /\ pc[p] # "written"
    BY <1>5, ActiveIsFirst DEF Commit, Resolve, callVars, TypeOK, Active
  <2>2. Committed'[1] = tasks'
    BY <1>5 DEF Commit, Committed
  <2>3. Edits(o) => Logged(o, tasks)
    BY <2>1 DEF Lasts
  <2> QED BY <2>1, <2>2, <2>3, LastsSettles
<1>6. CASE Crash
  <2>1. /\ UNCHANGED <<kind, target, out>> /\ Committed' = Committed /\ backup' = None
        /\ \A p \in Op : pc'[p] = IF Outlives(p) THEN "unanswered"
                                  ELSE IF HalfDone(p) THEN "torn"
                             ELSE IF pc[p] \in {"queued", "begun", "read", "written"} THEN "lost"
                                  ELSE pc[p]
    BY <1>6, CrashKeeps DEF Crash, callVars, Rollback
  <2>2. Committed'[1] = tasks'
    BY <2>1 DEF Committed
  <2>3. \A p \in Op : pc'[p] \in {"written", "resolved", "done"} =>
          pc'[p] \in {"resolved", "done"} /\ pc[p] \in {"resolved", "done"}
    BY <2>1
  <2> QED BY <2>1, <2>2, <2>3, LastsSettles
<1>7. CASE UNCHANGED vars
  <2>1. UNCHANGED <<kind, target, pc, out, tasks, backup, push>>
    BY <1>7 DEF vars, callVars
  <2>2. Committed' = Committed
    BY <2>1 DEF Committed
  <2> QED BY <2>1, <2>2 DEF Lasts, Edits, Kept, Logged, Removed
<1> QED BY <1>1, <1>2, <1>3, <1>4, <1>5, <1>6, <1>7, <1>8 DEF Next, Run, Rejects, Writes

\* However operations overlap, are rejected or crash, an update that was answered
\* is in the log of its task, once, until the task is removed.
THEOREM AnswersAreKept == Spec => []AnsweredUpdatesLast
<1>1. IInv /\ Lasts => AnsweredUpdatesLast
  <2> SUFFICES ASSUME IInv, Lasts, NEW o \in Op, pc[o] = "done", Edits(o), ~Removed(target[o])
               PROVE  LET task == Committed[1][target[o]]
                      IN task # None /\ Cardinality({i \in DOMAIN task.log : task.log[i] = o}) = 1
    BY DEF AnsweredUpdatesLast, Removed, Gone
  <2> DEFINE task == Committed[1][target[o]]
  <2>1. task # None /\ Once(task.log, o)
    BY DEF Lasts, Kept, Logged
  <2>2. PICK i \in DOMAIN task.log : {j \in DOMAIN task.log : task.log[j] = o} = {i}
    BY <2>1 DEF Once
  <2>3. Cardinality({i}) = 1
    BY FS_Singleton
  <2> QED BY <2>1, <2>2, <2>3
<1> QED BY <1>1, IInvAlways, LastsInit, LastsNext, PTL DEF Spec

-----------------------------------------------------------------------------
(***************************************************************************)
(* Events tell committed history: what is stored, and what a rollback      *)
(* would restore, extends every snapshot that was emitted, and so does the *)
(* snapshot of an operation that has yet to be answered.                   *)
(***************************************************************************)
Extends(new, old) == IsPrefix(old.log, new.log) /\ (old.open \/ ~new.open)

ToldIn(ts) ==
  \A i \in DOMAIN events : ts[events[i].task] # None => Extends(ts[events[i].task], events[i].record)
EventsAreDone ==
  \A i \in DOMAIN events : pc[events[i].by] = "done" /\ target[events[i].by] = events[i].task
Told == EventsAreDone /\ ToldIn(tasks) /\ ToldIn(Committed[1])

\* The snapshot follows on every event of task t.
Follows(record, t) ==
  \A i \in DOMAIN events : events[i].task = t =>
    events[i].record.open /\ IsPrefix(events[i].record.log, record.log)
ToTell ==
  \A o \in Op : pc[o] \in {"written", "resolved"} /\ HasEvent(o) =>
    tasks[target[o]] = out[o] /\ Follows(out[o], target[o])

OneResolved ==
  \A o \in Op : pc[o] = "resolved" => \A p \in Op \ {o} : pc[p] # "resolved" /\ ~Active(p)

Tells == EventsTellCommittedHistory /\ Told /\ ToTell /\ OneResolved

LEMMA PrefixIs ==
  ASSUME NEW a \in Seq(Op), NEW b \in Seq(Op)
  PROVE  IsPrefix(a, b) <=> Len(a) <= Len(b) /\ \A i \in 1 .. Len(a) : a[i] = b[i]
<1>1. CASE Len(a) <= Len(b)
  <2>1. /\ Len(a) \in Nat /\ Len(b) \in Nat
        /\ SubSeq(b, 1, Len(a)) \in Seq(Op) /\ Len(SubSeq(b, 1, Len(a))) = Len(a)
        /\ \A i \in 1 .. Len(a) : SubSeq(b, 1, Len(a))[i] = b[i]
    BY <1>1
  <2>2. SubSeq(a, 1, Len(a)) = a
    OBVIOUS
  <2>3. a = SubSeq(b, 1, Len(a)) <=> \A i \in 1 .. Len(a) : a[i] = b[i]
    BY <2>1
  <2> QED BY <1>1, <2>2, <2>3 DEF IsPrefix
<1>2. CASE ~(Len(a) <= Len(b))
  BY <1>2 DEF IsPrefix
<1> QED BY <1>1, <1>2

LEMMA PrefixOfAppended ==
  ASSUME NEW a \in Seq(Op), NEW b \in Seq(Op), NEW o \in Op
  PROVE  /\ IsPrefix(a, a)
         /\ IsPrefix(a, b) => IsPrefix(a, Append(b, o))
<1>1. IsPrefix(a, a)
  BY PrefixIs
<1>2. ASSUME IsPrefix(a, b) PROVE IsPrefix(a, Append(b, o))
  <2>1. Len(a) <= Len(b) /\ \A i \in 1 .. Len(a) : a[i] = b[i]
    BY <1>2, PrefixIs
  <2>2. /\ Append(b, o) \in Seq(Op) /\ Len(a) <= Len(Append(b, o))
        /\ \A i \in 1 .. Len(a) : a[i] = Append(b, o)[i]
    BY <2>1
  <2> QED BY <2>2, PrefixIs
<1> QED BY <1>1, <1>2

LEMMA EventIs ==
  ASSUME TypeOK, NEW i \in DOMAIN events
  PROVE  /\ events[i].task \in Task /\ events[i].by \in Op
         /\ events[i].record \in Record /\ events[i].record.log \in Seq(Op)
         /\ events[i].record.open \in BOOLEAN
<1> DEFINE EventSet == [task : Task, record : Record, by : Op]
<1>1. events \in Seq(EventSet)
  BY DEF TypeOK
<1> HIDE DEF EventSet
<1>2. events[i] \in EventSet
  BY <1>1
<1> USE DEF EventSet
<1> QED BY <1>2 DEF Record

LEMMA TellsInit == Init => Tells
BY DEF Init, Tells, Told, EventsTellCommittedHistory, EventsAreDone, ToldIn, ToTell, OneResolved

\* Steps that emit nothing.
LEMMA NothingTold ==
  ASSUME IInv, Tells, UNCHANGED events,
         \A o \in Op : pc[o] = "done" => pc'[o] = "done" /\ target'[o] = target[o],
         \A o \in Op : pc'[o] \in {"written", "resolved"} /\ HasEvent(o)' =>
           tasks'[target'[o]] = out'[o] /\ Follows(out'[o], target'[o]),
         ToldIn(tasks'), ToldIn(Committed'[1]), OneResolved'
  PROVE  Tells'
<1> USE DEF IInv
<1>1. EventsAreDone'
  BY EventIs DEF Tells, Told, EventsAreDone
<1>2. EventsTellCommittedHistory'
  <2>1. \A i \in DOMAIN events : pc'[events[i].by] = "done"
    BY <1>1 DEF EventsAreDone
  <2> QED BY <2>1 DEF Tells, EventsTellCommittedHistory
<1>3. Told'
  BY <1>1 DEF Told, ToldIn
<1>4. ToTell'
  BY DEF ToTell, Follows
<1> QED BY <1>2, <1>3, <1>4 DEF Tells

LEMMA NoneResolved ==
  ASSUME OneResolved, NEW o \in Op, Active(o) \/ IsNext(o)
  PROVE  \A p \in Op : pc[p] # "resolved"
BY DEF OneResolved, IsNext, Active

LEMMA TellsWrites ==
  ASSUME IInv, Tells, NEW o \in Op, Writes(o)
  PROVE  Tells'
<1> USE DEF IInv
<1> DEFINE t == target[o]
<1>1. /\ pc[o] \in {"begun", "read", "halfway"} /\ pc'[o] = "written" /\ Active(o)
      /\ \A p \in Op \ {o} : pc'[p] = pc[p] /\ out'[p] = out[p] /\ ~Active(p)
      /\ UNCHANGED <<storage, kind, target, backup, events>>
  BY WritesAre, ActiveIsFirst DEF callVars, TypeOK, Active
<1>2. /\ t \in Task /\ None \notin Record /\ tasks \in [Task -> Record \cup {None}]
      /\ out \in [Op -> Record \cup {None}]
  BY <1>1, NoneIsApart DEF CallsAreMade, Waiting, Active, TypeOK, Contents
<1>3. \A p \in Op : pc[p] # "resolved"
  BY <1>1, NoneResolved DEF Tells
<1>4. OneResolved'
  BY <1>1, <1>3 DEF OneResolved
<1>5. \A i \in DOMAIN events : tasks[events[i].task] # None =>
                              Extends(tasks[events[i].task], events[i].record)
  BY DEF Tells, Told, ToldIn
<1>6. /\ ToldIn(tasks')
      /\ HasEvent(o)' => tasks'[t] = out'[o] /\ Follows(out'[o], t)
  <2>1. ASSUME \A u \in Task \ {t} : tasks'[u] = tasks[u],
               \A i \in DOMAIN events : events[i].task = t /\ tasks'[t] # None =>
                 Extends(tasks'[t], events[i].record)
        PROVE  ToldIn(tasks')
    BY <1>5, <2>1, EventIs DEF ToldIn
  <2>2. CASE Save(o)
    <3>1. out[o] \in Record /\ out[o] = tasks[t] /\ out[o].log \in Seq(Op)
          /\ (out[o].open \/ kind[o] = "batch")
      BY <2>2 DEF Save, WorkIsFresh, Record
    <3>2. /\ Changed(o).log = Append(out[o].log, o) /\ Changed(o) \in Record
          /\ out[o].open \/ ~Changed(o).open
      BY <3>1, ChangedIs DEF Changed
    <3>3. tasks' = [tasks EXCEPT ![t] = Changed(o)] /\ out' = [out EXCEPT ![o] = Changed(o)]
      BY <1>2, <2>2, <3>1 DEF Save
    <3>4. tasks'[t] = Changed(o) /\ out'[o] = Changed(o) /\ \A u \in Task \ {t} : tasks'[u] = tasks[u]
      BY <1>2, <3>3
    <3>5. ASSUME NEW i \in DOMAIN events, events[i].task = t
          PROVE  /\ Extends(Changed(o), events[i].record)
                 /\ kind[o] # "batch" => events[i].record.open
      <4>1. IsPrefix(events[i].record.log, out[o].log) /\ (events[i].record.open \/ ~out[o].open)
        BY <1>2, <1>5, <3>1, <3>5 DEF Extends
      <4>2. IsPrefix(events[i].record.log, Changed(o).log)
        BY <3>1, <3>2, <4>1, EventIs, PrefixOfAppended
      <4> QED BY <3>1, <3>2, <4>1, <4>2 DEF Extends
    <3>6. ToldIn(tasks')
      BY <2>1, <3>4, <3>5
    <3>7. kind'[o] # "batch" => Follows(out'[o], t)
      BY <1>1, <3>4, <3>5 DEF Follows, Extends
    <3> QED BY <3>4, <3>6, <3>7 DEF HasEvent, Emitting
  <2>3. CASE SavePush(o)
    <3>1. /\ out[o] \in Record /\ out[o] = tasks[t] /\ out[o].open
          /\ tasks' = tasks /\ out' = out
      BY <2>3 DEF SavePush, WorkIsFresh
    <3>2. Follows(out[o], t)
      BY <1>2, <1>5, <3>1 DEF Follows, Extends
    <3> QED BY <1>5, <3>1, <3>2 DEF ToldIn
  <2>4. CASE Insert(o)
    <3>1. /\ kind[o] = "create" /\ pc[o] = "begun"
          /\ tasks' = [tasks EXCEPT ![t] = [open |-> TRUE, log |-> <<o>>]]
          /\ out' = [out EXCEPT ![o] = [open |-> TRUE, log |-> <<o>>]]
      BY <2>4 DEF Insert
    <3>2. tasks'[t] = out'[o] /\ \A u \in Task \ {t} : tasks'[u] = tasks[u]
      BY <1>2, <3>1
    <3>3. \A i \in DOMAIN events : events[i].task # t
      BY <3>1, EventIs DEF Tells, Told, EventsAreDone, CreatesAreFirst
    <3> QED BY <2>1, <3>2, <3>3 DEF Follows
  <2>5. CASE DeleteTask(o)
    <3>1. tasks' = [tasks EXCEPT ![t] = None] /\ kind[o] = "remove"
      BY <2>5 DEF DeleteTask
    <3>2. tasks'[t] = None /\ \A u \in Task \ {t} : tasks'[u] = tasks[u]
      BY <1>2, <3>1
    <3> QED BY <1>1, <2>1, <3>1, <3>2 DEF HasEvent, Emitting
  <2> QED BY <2>2, <2>3, <2>4, <2>5 DEF Writes
<1>7. ToldIn(Committed'[1])
  <2>1. CASE backup = None
    BY <1>1, <1>6, <2>1 DEF Committed
  <2>2. CASE backup # None
    BY <1>1, <2>2 DEF Committed, Tells, Told
  <2> QED BY <2>1, <2>2
<1>8. \A p \in Op : pc'[p] \in {"written", "resolved"} => p = o
  BY <1>1, <1>3 DEF Active
<1>9. \A p \in Op : pc[p] = "done" => pc'[p] = "done" /\ target'[p] = target[p]
  BY <1>1
<1> QED BY <1>1, <1>4, <1>6, <1>7, <1>8, <1>9, NothingTold

LEMMA TellsAnswer ==
  ASSUME IInv, Tells, NEW o \in Op, Answer(o)
  PROVE  Tells'
<1> USE DEF IInv
<1>1. /\ pc[o] = "resolved" /\ pc'[o] = "done" /\ \A p \in Op \ {o} : pc'[p] = pc[p]
      /\ UNCHANGED <<kind, target, out, tasks, push, backup>>
      /\ events' = IF HasEvent(o) THEN Append(events, Event(o)) ELSE events
  BY DEF Answer, callVars, TypeOK
<1>2. \A p \in Op \ {o} : pc[p] # "resolved" /\ ~Active(p)
  BY <1>1 DEF Tells, OneResolved
<1>3. \A p \in Op : pc'[p] \notin {"written", "resolved"}
  BY <1>1, <1>2 DEF Active
<1>4. Committed' = Committed /\ Committed[1] = tasks
  <2>1. backup = None
    BY <1>1, <1>2 DEF TransactionIsHeld, Active
  <2> QED BY <1>1, <2>1 DEF Committed
<1>5. OneResolved' /\ ToTell'
  BY <1>3 DEF OneResolved, ToTell
<1>6. CASE ~HasEvent(o)
  <2>1. ToldIn(tasks') /\ ToldIn(Committed'[1]) /\ UNCHANGED events
    BY <1>1, <1>4, <1>6 DEF Tells, Told
  <2>2. \A p \in Op : pc[p] = "done" => pc'[p] = "done" /\ target'[p] = target[p]
    BY <1>1
  <2> QED BY <1>3, <1>5, <2>1, <2>2, NothingTold
<1>7. CASE HasEvent(o)
  <2> DEFINE n == Len(events) + 1
  <2>1. /\ target[o] \in Task /\ out[o] \in Record /\ out[o] # None
        /\ tasks[target[o]] = out[o] /\ Follows(out[o], target[o])
    BY <1>1, <1>7 DEF HasEvent, Emitting, CallsAreMade, TypeOK, Tells, ToTell
  <2>2. /\ DOMAIN events = 1 .. Len(events) /\ Len(events) \in Nat
        /\ DOMAIN events' = 1 .. n /\ events'[n] = Event(o)
        /\ \A i \in DOMAIN events : events'[i] = events[i]
    BY <1>1, <1>7 DEF TypeOK
  <2>3. \A i \in 1 .. n : i \in DOMAIN events \/ i = n
    BY <2>2
  <2>4. Event(o).task = target[o] /\ Event(o).record = out[o] /\ Event(o).by = o
    BY DEF Event
  <2>5. EventsAreDone'
    BY <1>1, <2>2, <2>3, <2>4, EventIs DEF Tells, Told, EventsAreDone
  <2>6. out[o].log \in Seq(Op) /\ out[o].open \in BOOLEAN
    BY <2>1 DEF Record
  <2>7. Extends(tasks[target[o]], out[o])
    BY <2>1, <2>6, PrefixOfAppended DEF Extends
  <2>8. ToldIn(tasks)'
    <3>1. ASSUME NEW i \in 1 .. n, tasks[events'[i].task] # None
          PROVE  Extends(tasks[events'[i].task], events'[i].record)
      <4>1. CASE i \in DOMAIN events
        BY <2>2, <3>1, <4>1 DEF Tells, Told, ToldIn
      <4>2. CASE i = n
        BY <2>2, <2>4, <2>7, <4>2
      <4> QED BY <2>3, <4>1, <4>2
    <3> HIDE DEF n
    <3> QED BY <1>1, <2>2, <3>1 DEF ToldIn
  <2>9. EventsTellCommittedHistory'
    <3>1. ASSUME NEW i \in 1 .. n, NEW j \in 1 .. i - 1, events'[j].task = events'[i].task
          PROVE  /\ events'[j].record.open
                 /\ IsPrefix(events'[j].record.log, events'[i].record.log)
      <4>1. j \in DOMAIN events
        BY <2>2, <3>1
      <4>2. CASE i \in DOMAIN events
        BY <2>2, <3>1, <4>1, <4>2 DEF Tells, EventsTellCommittedHistory
      <4>3. CASE i = n
        BY <2>1, <2>2, <2>4, <3>1, <4>1, <4>3 DEF Follows
      <4> QED BY <2>3, <4>2, <4>3
    <3>2. \A i \in 1 .. n : pc'[events'[i].by] = "done"
      BY <2>2, <2>5 DEF EventsAreDone
    <3> HIDE DEF n
    <3> QED BY <2>2, <3>1, <3>2 DEF EventsTellCommittedHistory
  <2> QED BY <1>1, <1>4, <1>5, <2>5, <2>8, <2>9 DEF Tells, Told
<1> QED BY <1>6, <1>7

LEMMA TellsNext == IInv /\ Tells /\ [Next]_vars => Tells'
<1> SUFFICES ASSUME IInv, Tells, [Next]_vars PROVE Tells' OBVIOUS
<1> USE DEF IInv
<1>1. ASSUME UNCHANGED <<tasks, events>>, Committed'[1] = Committed[1],
             \A p \in Op : pc[p] = "done" => pc'[p] = "done" /\ target'[p] = target[p],
             \A p \in Op : pc'[p] \in {"written", "resolved"} /\ HasEvent(p)' =>
               pc'[p] = pc[p] /\ kind'[p] = kind[p] /\ target'[p] = target[p] /\ out'[p] = out[p],
             OneResolved'
      PROVE  Tells'
  <2>1. ASSUME NEW p \in Op, pc'[p] \in {"written", "resolved"}, HasEvent(p)'
        PROVE  tasks'[target'[p]] = out'[p] /\ Follows(out'[p], target'[p])
    BY <1>1, <2>1 DEF Tells, ToTell, HasEvent
  <2>2. ToldIn(tasks') /\ ToldIn(Committed'[1])
    BY <1>1 DEF Tells, Told
  <2> QED BY <1>1, <2>1, <2>2, NothingTold
<1>2. ASSUME NEW o \in Op, NEW k \in Kinds, NEW t \in Task, Call(o, k, t) PROVE Tells'
  <2>1. /\ \A p \in Op \ {o} : /\ pc'[p] = pc[p] /\ out'[p] = out[p]
                               /\ kind'[p] = kind[p] /\ target'[p] = target[p]
        /\ pc[o] = "idle" /\ pc'[o] = "queued" /\ UNCHANGED <<tasks, events>> /\ Committed' = Committed
    BY <1>2 DEF Call, Committed, TypeOK
  <2>2. OneResolved'
    BY <2>1 DEF Tells, OneResolved, Active
  <2> QED BY <1>1, <2>1, <2>2
<1>3. ASSUME NEW o \in Op, Begin(o) \/ Read(o) PROVE Tells'
  <2>1. /\ \A p \in Op \ {o} : pc'[p] = pc[p] /\ out'[p] = out[p]
        /\ UNCHANGED <<tasks, events, kind, target>>
        /\ pc[o] # "done" /\ pc'[o] # "resolved" /\ (pc'[o] = "written" => out'[o] = None)
    BY <1>3 DEF Begin, IsNext, Read, callVars, TypeOK
  <2>2. Committed' = Committed
    BY <1>3, BeginKeeps, ReadKeeps
  <2>3. \A p \in Op : pc[p] # "resolved"
    BY <1>3, NoneResolved DEF Tells, Begin, Read, Active
  <2>4. OneResolved'
    BY <2>1, <2>3 DEF OneResolved
  <2> QED BY <1>1, <2>1, <2>2, <2>4 DEF HasEvent
<1>8. ASSUME NEW o \in Op, DeleteConfig(o) PROVE Tells'
  <2>1. /\ \A p \in Op \ {o} : pc'[p] = pc[p] /\ out'[p] = out[p]
        /\ UNCHANGED <<tasks, events, kind, target>> /\ pc[o] # "done" /\ pc'[o] = "halfway"
    BY <1>8 DEF DeleteConfig, callVars, TypeOK
  <2>2. Committed'[1] = Committed[1]
    BY <1>8, DeleteConfigKeeps
  <2>3. \A p \in Op : pc[p] # "resolved"
    BY <1>8, NoneResolved DEF Tells, DeleteConfig, Active
  <2>4. OneResolved'
    BY <2>1, <2>3 DEF OneResolved
  <2> QED BY <1>1, <2>1, <2>2, <2>4 DEF HasEvent
<1>4. ASSUME NEW o \in Op, Rejects(o) PROVE Tells'
  <2>1. /\ \A p \in Op \ {o} : ~Active(p)
        /\ Reject(o) /\ Rollback /\ Committed' = Committed
    BY <1>4, RejectsAre, RejectionKeeps
  <2>2. IsNext(o) \/ Active(o)
    BY <1>4 DEF Rejects, BeginFails, ReadRefused, WriteFails, BatchThrows, CommitFails, Active
  <2>3. /\ UNCHANGED <<kind, target, out, events>> /\ pc'[o] \in {"rejected", "torn"}
        /\ \A p \in Op \ {o} : pc'[p] = pc[p] /\ pc[p] # "written"
    BY <2>1 DEF Reject, callVars, TypeOK, Active
  <2>4. \A p \in Op : pc[p] # "resolved"
    BY <2>2, NoneResolved DEF Tells
  <2>5. \A p \in Op : pc'[p] \notin {"written", "resolved"}
    BY <2>3, <2>4
  <2>6. tasks' = tasks \/ tasks' = Committed[1]
    BY <2>1, CommittedIs DEF Rollback
  <2>7. ToldIn(tasks') /\ ToldIn(Committed'[1])
    BY <2>1, <2>6 DEF Tells, Told
  <2>8. pc[o] # "done"
    BY <2>2 DEF IsNext, Active
  <2>9. OneResolved'
    BY <2>5 DEF OneResolved
  <2> QED BY <2>3, <2>5, <2>7, <2>8, <2>9, NothingTold
<1>5. ASSUME NEW o \in Op, Commit(o) PROVE Tells'
  <2>1. /\ pc[o] = "written" /\ pc'[o] = "resolved" /\ UNCHANGED <<kind, target, out, tasks, events>>
        /\ \A p \in Op \ {o} : pc'[p] = pc[p] /\ ~Active(p)
    BY <1>5, ActiveIsFirst DEF Commit, Resolve, callVars, TypeOK, Active
  <2>2. \A p \in Op : pc[p] # "resolved"
    BY <2>1, NoneResolved DEF Tells, Active
  <2>3. Committed'[1] = tasks
    BY <1>5, CommitKeeps
  <2>4. OneResolved'
    BY <2>1, <2>2 DEF OneResolved, Active
  <2>5. \A p \in Op : pc'[p] \in {"written", "resolved"} => p = o
    BY <2>1, <2>2 DEF Active
  <2>6. HasEvent(o)' => tasks'[target'[o]] = out'[o] /\ Follows(out'[o], target'[o])
    BY <2>1 DEF Tells, ToTell, HasEvent
  <2>7. ToldIn(tasks') /\ ToldIn(Committed'[1])
    BY <2>1, <2>3 DEF Tells, Told
  <2> QED BY <2>1, <2>4, <2>5, <2>6, <2>7, NothingTold
<1>6. CASE Crash
  <2>1. /\ UNCHANGED <<kind, target, out, events>> /\ Committed' = Committed /\ backup' = None
        /\ \A p \in Op : pc'[p] = IF Outlives(p) THEN "unanswered"
                                  ELSE IF HalfDone(p) THEN "torn"
                             ELSE IF pc[p] \in {"queued", "begun", "read", "written"} THEN "lost"
                                  ELSE pc[p]
    BY <1>6, CrashKeeps DEF Crash, callVars, Rollback
  <2>2. tasks' = Committed[1]
    BY <2>1 DEF Committed
  <2>3. \A p \in Op : /\ pc'[p] \notin {"written", "resolved"}
                      /\ pc[p] = "done" => pc'[p] = "done"
    BY <2>1 DEF Outlives, HalfDone
  <2>4. OneResolved'
    BY <2>3 DEF OneResolved
  <2>5. ToldIn(tasks') /\ ToldIn(Committed'[1])
    BY <2>1, <2>2 DEF Tells, Told
  <2> QED BY <2>1, <2>3, <2>4, <2>5, NothingTold
<1>7. CASE UNCHANGED vars
  <2>1. UNCHANGED <<kind, target, pc, out, tasks, push, backup, events>>
    BY <1>7 DEF vars, callVars
  <2>2. Committed' = Committed /\ OneResolved'
    BY <2>1 DEF Committed, Tells, OneResolved, Active
  <2> QED BY <1>1, <2>1, <2>2
<1> QED BY <1>2, <1>3, <1>4, <1>5, <1>6, <1>7, <1>8, TellsWrites, TellsAnswer
        DEF Next, Run, Rejects, Writes

\* A subscriber of taskUpdated sees each task grow, sees nothing after the closing
\* update, and hears of no update that was rejected, rolled back or lost.
THEOREM EventsAreHistory == Spec => []EventsTellCommittedHistory
<1>1. Tells => EventsTellCommittedHistory
  BY DEF Tells
<1> QED BY <1>1, IInvAlways, TellsInit, TellsNext, PTL DEF Spec
=============================================================================
