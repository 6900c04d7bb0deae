--------------------------- MODULE RegistryServer ---------------------------
(***************************************************************************)
(* The registry server of packages/registry over InMemoryStorage, whose    *)
(* methods run without waiting: the routes that change agents, the health  *)
(* checks and task polls that setInterval starts (and starts again while   *)
(* earlier ones still wait for answers), the projection of polled tasks,   *)
(* the /tasks/stream connections, and the task list of apps/registry-ui,   *)
(* which is loaded, and loaded again at will, and follows its stream.      *)
(*                                                                         *)
(* Every agent has one task, known by the agent's name, of which it shows  *)
(* what it likes: a version of 1 .. MaxVersion, which is also the time of  *)
(* the task's last update, or 0 for no task.  An event reaches the screens *)
(* of the open streams at once.                                            *)
(***************************************************************************)
EXTENDS Naturals, Sequences, SequencesExt, FiniteSetsExt

CONSTANTS
  Agent,        \* agent identifiers
  Screen,       \* the task lists open in browsers
  Overlap,      \* bound: runs of each interval under way at a time
  PageSize,     \* of each interval: healthCheckBatchSize, taskPollingBatchSize
  Concurrency,  \* of each interval: healthCheckConcurrency, taskPollingConcurrency
  MaxRecents,   \* the values of maxRecentTasks a server may have
  SnapshotSize, \* tasks a stream begins with
  ScreenLimit,  \* tasks a screen asks for and shows, the limit of useTaskStream
  MaxVersion    \* bound: versions of a task

Kinds == {"health", "tasks"}

ASSUME RegistryServerAssumption ==
  /\ {Overlap, PageSize, Concurrency} \subseteq [Kinds -> Nat \ {0}]
  /\ MaxRecents \subseteq Nat \ {0} /\ ScreenLimit \in Nat \ {0}
  /\ {SnapshotSize, MaxVersion} \subseteq Nat

VARIABLES
  running,  \* stop() has not been called
  agents,   \* the stored agents in the order of list(), newest first
  kind,     \* the interval this behaviour follows: "health" or "tasks"
  maxRecent, \* the server's maxRecentTasks
  cursor,   \* its healthCursor or taskCursor, 0 for null
  next,     \* its nextHealthCheckAt or nextTaskPollAt: "none", "later" or "past"
  run,      \* run[i]: the agents of its page the i-th run has to do, and those it waits for
  recent,   \* recentTasks and taskVersions: the version recorded for a, or 0
  stream,   \* stream[c]: the stream of screen c
  loading,  \* loading[c]: the response of /tasks/recent on its way to c, if any
  screen,   \* screen[c][a]: the version c shows, or 0
  late,     \* history: late[c] are the tasks recorded since that response was made
  behind,   \* history: the tasks recorded while the stream of c was down, or since
            \* the response was made that replaced the list, and not sent again
  haunted   \* history: deleted agents that a run was then going to contact

options == <<kind, maxRecent>>
runVars == <<options, cursor, next, run>>
listVars == <<loading, screen, late, behind>>
screenVars == <<stream, listVars>>
vars == <<running, agents, runVars, recent, screenVars, haunted>>

Stored == ToSet(agents)
NoRun == [todo |-> {}, flying |-> {}]
NoTask == [a \in Agent |-> 0]

Init ==
  /\ running = TRUE
  /\ agents = <<>>
  /\ kind \in Kinds
  /\ maxRecent \in MaxRecents
  /\ cursor = 0
  /\ next = [a \in Agent |-> "none"]
  /\ run = [i \in 1 .. Overlap[kind] |-> NoRun]
  /\ recent = NoTask
  /\ stream = [c \in Screen |-> "none"]
  /\ loading = [c \in Screen |-> <<>>]
  /\ screen = [c \in Screen |-> NoTask]
  /\ late = [c \in Screen |-> {}]
  /\ behind = [c \in Screen |-> {}]
  /\ haunted = {}

-----------------------------------------------------------------------------
(* The routes. *)

\* The other agents, in their order.
Others(a) ==
  IF a \in Stored THEN RemoveAt(agents, CHOOSE place \in DOMAIN agents : agents[place] = a)
  ELSE agents

\* POST /agents/register: a new agent, first in the list.
Register(a) ==
  /\ a \notin Stored
  /\ agents' = <<a>> \o agents
  /\ haunted' = haunted \ {a}
  /\ UNCHANGED <<running, runVars, recent, screenVars>>

\* POST /admin/agents/import of one agent, as old as the document says.  One that
\* is stored already is replaced and keeps its timers; one that was deleted is back.
Import(a, place) ==
  /\ place <= Len(Others(a)) + 1
  /\ agents' = InsertAt(Others(a), place, a)
  /\ haunted' = haunted \ {a}
  /\ UNCHANGED <<running, runVars, recent, screenVars>>

Heartbeat(a) ==
  /\ a \in Stored
  /\ next' = IF kind = "health" THEN [next EXCEPT ![a] = "later"] ELSE next
  /\ UNCHANGED <<running, agents, options, cursor, run, recent, screenVars, haunted>>

Contacting(i) == {copy.agent : copy \in run[i].todo} \cup run[i].flying
Contacted(a) == \E i \in 1 .. Overlap[kind] : a \in Contacting(i)

\* Mutant: the tasks of the agent are forgotten, its timers are not.
PurgeTasksOnly(a) == recent' = [recent EXCEPT ![a] = 0] /\ UNCHANGED next
\* purgeAgentTaskState
Purge(a) ==
  /\ next' = [next EXCEPT ![a] = "none"]
  /\ recent' = [recent EXCEPT ![a] = 0]

Delete(a) ==
  /\ a \in Stored
  /\ agents' = Others(a)
  /\ Purge(a)
  /\ haunted' = IF Contacted(a) THEN haunted \cup {a} ELSE haunted
  /\ UNCHANGED <<running, options, cursor, run, screenVars>>

-----------------------------------------------------------------------------
(* The intervals. *)

IsDue(a) == next[a] # "later"

\* Mutant: the page after the last one is not the first.
NextCursorStuck(from, shown) ==
  IF from + shown <= Len(agents) THEN from + shown ELSE 0
\* The nextCursor of list().
NextCursor(from, shown) == IF from + shown < Len(agents) THEN from + shown ELSE 0

\* The next chunk of what the i-th run has to do is sent, in the order of the page.
Chunk(i, todo) ==
  \E chunk \in SUBSET todo :
    /\ Cardinality(chunk) = Min({Concurrency[kind], Cardinality(todo)})
    /\ \A first \in chunk, later \in todo \ chunk : first.place < later.place
    /\ run' = [run EXCEPT ![i] = [todo |-> todo \ chunk, flying |-> {copy.agent : copy \in chunk}]]

\* The interval fires: a page is listed, and those due of it are contacted.
Tick(i) ==
  LET page == cursor + 1 .. Min({cursor + PageSize[kind], Len(agents)})
      due == {j \in page : IsDue(agents[j])}
  IN /\ running
     /\ run[i] = NoRun
     /\ cursor' = NextCursor(cursor, Cardinality(page))
     /\ Chunk(i, {[agent |-> agents[j], place |-> j - cursor] : j \in due})
     /\ UNCHANGED <<running, agents, options, next, recent, screenVars, haunted>>

\* One request of a chunk is settled; after the last one the next chunk is sent.
Settle(i, a) ==
  LET left == run[i].flying \ {a}
  IN /\ a \in run[i].flying
     /\ IF left = {} THEN Chunk(i, run[i].todo)
        ELSE run' = [run EXCEPT ![i].flying = left]

Schedule(a) == next' = [next EXCEPT ![a] = "later"]

\* A health check is answered, or fails: updateStatus, which ignores a deleted
\* agent, and the next check.
HealthAnswer(i, a) ==
  /\ Settle(i, a)
  /\ Schedule(a)
  /\ UNCHANGED <<running, agents, options, cursor, recent, screenVars, haunted>>

Listed(tasks) == {a \in Agent : tasks[a] > 0}

\* The n newest of some tasks, and those alone: sort and slice(0, n).
Newest(tasks, n) ==
  {top \in SUBSET Listed(tasks) :
     /\ Cardinality(top) = Min({n, Cardinality(Listed(tasks))})
     /\ \A a \in top, b \in Listed(tasks) \ top : tasks[b] <= tasks[a]}
Only(tasks, top) == [a \in Agent |-> IF a \in top THEN tasks[a] ELSE 0]
Slice(tasks, n) == {Only(tasks, top) : top \in Newest(tasks, n)}

\* Mutant: nothing is dropped.
Untrimmed(tasks) == {tasks}
\* recordTask and trimRecentTasks: the oldest of one task too many is dropped.
Trimmed(tasks) == Slice(tasks, maxRecent)

\* The task event reaches the open streams, and mergeTaskEvent their screens.
Shows(a, v) ==
  LET open == {c \in Screen : stream[c] = "open"}
      Merged(c) == [screen[c] EXCEPT ![a] = v]
  IN /\ \E top \in [open -> SUBSET Agent] :
          /\ \A c \in open : top[c] \in Newest(Merged(c), ScreenLimit)
          /\ screen' = [c \in Screen |-> IF c \in open THEN Only(Merged(c), top[c]) ELSE screen[c]]
     /\ behind' = [c \in Screen |-> IF c \in open THEN behind[c] \ {a} ELSE behind[c] \cup {a}]
     /\ late' = [c \in Screen |-> IF loading[c] = <<>> THEN late[c] ELSE late[c] \cup {a}]
     /\ UNCHANGED <<stream, loading>>

\* A task poll is answered with whatever version of its task the agent gives.
TasksAnswer(i, a, v) ==
  /\ Settle(i, a)
  /\ Schedule(a)
  /\ IF v \in {0, recent[a]}
     THEN UNCHANGED <<recent, screenVars>>
     ELSE /\ recent' \in Trimmed([recent EXCEPT ![a] = v])
          /\ Shows(a, v)
  /\ UNCHANGED <<running, agents, options, cursor, haunted>>

\* A poll fails, or is answered with something that is no list.
TasksFail(i, a) ==
  /\ Settle(i, a)
  /\ Schedule(a)
  /\ UNCHANGED <<running, agents, options, cursor, recent, screenVars, haunted>>

\* A poll is answered with an error status, and no next poll is scheduled.
TasksRefused(i, a) ==
  /\ Settle(i, a)
  /\ UNCHANGED <<running, agents, options, cursor, next, recent, screenVars, haunted>>

TimePasses(a) ==
  /\ next[a] = "later"
  /\ next' = [next EXCEPT ![a] = "past"]
  /\ UNCHANGED <<running, agents, options, cursor, run, recent, screenVars, haunted>>

-----------------------------------------------------------------------------
(* Task streams and screens. *)

\* useTaskStream loads the recent tasks and opens its stream; where nothing polls
\* for tasks there is nothing for it to show.
OpenScreen(c) ==
  /\ running /\ kind = "tasks"
  /\ stream[c] = "none"
  /\ stream' = [stream EXCEPT ![c] = "authenticating"]
  /\ UNCHANGED <<running, agents, runVars, recent, listVars, haunted>>

\* GET /tasks/recent, of the first load or of one the user asks for; with nothing
\* recorded yet it starts a run of its own first, which is one more Tick.
LoadAnswered(c) ==
  /\ stream[c] \in {"authenticating", "open"}
  /\ loading[c] = <<>>
  /\ \E tasks \in Slice(recent, ScreenLimit) : loading' = [loading EXCEPT ![c] = <<tasks>>]
  /\ UNCHANGED <<running, agents, runVars, recent, stream, screen, late, behind, haunted>>

\* setTasks replaces whatever the stream has brought meanwhile.
LoadArrives(c) ==
  /\ Len(loading[c]) = 1
  /\ screen' = [screen EXCEPT ![c] = loading[c][1]]
  /\ loading' = [loading EXCEPT ![c] = <<>>]
  /\ late' = [late EXCEPT ![c] = {}]
  /\ behind' = [behind EXCEPT ![c] = late[c]]
  /\ UNCHANGED <<running, agents, runVars, recent, stream, haunted>>

\* Mutant: the listener is registered, the recorded tasks are not sent.
StreamOpensBlank(c) ==
  /\ stream[c] = "authenticating"
  /\ stream' = [stream EXCEPT ![c] = "open"]
  /\ \E top \in Newest(recent, SnapshotSize) : behind' = [behind EXCEPT ![c] = @ \ top]
  /\ UNCHANGED <<running, agents, runVars, recent, loading, screen, late, haunted>>

\* The stream is authenticated, starts with a snapshot and follows the events.
StreamOpens(c) ==
  /\ stream[c] = "authenticating"
  /\ stream' = [stream EXCEPT ![c] = "open"]
  /\ \E top \in Newest(recent, SnapshotSize) :
       LET merged == [a \in Agent |-> IF a \in top THEN recent[a] ELSE screen[c][a]]
       IN /\ \E tasks \in Slice(merged, ScreenLimit) : screen' = [screen EXCEPT ![c] = tasks]
          /\ behind' = [behind EXCEPT ![c] = @ \ top]
  /\ UNCHANGED <<running, agents, runVars, recent, loading, late, haunted>>

\* The connection of a stream breaks, and its EventSource connects anew.
Reconnect(c) ==
  /\ stream[c] = "open"
  /\ stream' = [stream EXCEPT ![c] = "authenticating"]
  /\ UNCHANGED <<running, agents, runVars, recent, listVars, haunted>>

\* stop(): no more intervals, and every open stream is ended.
Stop ==
  /\ running
  /\ running' = FALSE
  /\ stream' = [c \in Screen |-> IF stream[c] = "open" THEN "closed" ELSE stream[c]]
  /\ UNCHANGED <<agents, runVars, recent, listVars, haunted>>

-----------------------------------------------------------------------------
\* stop() closes the server, and no request is accepted after it.
Route(a) ==
  /\ running
  /\ \/ Register(a) \/ Heartbeat(a) \/ Delete(a)
     \/ \E place \in 1 .. Len(agents) + 1 : Import(a, place)

Ticks == \E i \in 1 .. Overlap[kind] : Tick(i)

Answers(i) ==
  \E a \in run[i].flying :
    \/ kind = "health" /\ HealthAnswer(i, a)
    \/ kind = "tasks" /\ (TasksFail(i, a) \/ TasksRefused(i, a))
    \/ kind = "tasks" /\ \E v \in 0 .. MaxVersion : TasksAnswer(i, a, v)

Next ==
  \/ \E a \in Agent : Route(a) \/ TimePasses(a)
  \/ Ticks
  \/ \E i \in 1 .. Overlap[kind] : Answers(i)
  \/ \E c \in Screen : OpenScreen(c) \/ LoadAnswered(c) \/ LoadArrives(c) \/ StreamOpens(c) \/ Reconnect(c)
  \/ Stop

Spec == Init /\ [][Next]_vars

\* Intervals fire until they are cleared, requests have a timeout, time passes.
Fairness ==
  /\ WF_vars(Ticks)
  /\ \A k \in Kinds : \A i \in 1 .. Overlap[k] : WF_vars(k = kind /\ Answers(i))
  /\ \A a \in Agent : WF_vars(TimePasses(a))

FairSpec == Spec /\ Fairness

-----------------------------------------------------------------------------
Places == [agent : Agent, place : Nat]

TypeOK ==
  /\ running \in BOOLEAN
  /\ agents \in Seq(Agent) /\ IsInjective(agents)
  /\ kind \in Kinds /\ maxRecent \in MaxRecents
  /\ cursor \in Nat
  /\ next \in [Agent -> {"none", "later", "past"}]
  /\ \A i \in 1 .. Overlap[kind] :
       /\ run[i].todo \subseteq Places
       /\ run[i].flying \subseteq Agent
       /\ Cardinality(run[i].flying) <= Concurrency[kind]
  /\ recent \in [Agent -> 0 .. MaxVersion]
  /\ Cardinality(Listed(recent)) <= maxRecent
  /\ stream \in [Screen -> {"none", "authenticating", "open", "closed"}]
  /\ loading \in [Screen -> Seq([Agent -> 0 .. MaxVersion])]
  /\ screen \in [Screen -> [Agent -> 0 .. MaxVersion]]
  /\ \A c \in Screen : Cardinality(Listed(screen[c])) <= ScreenLimit
  /\ {late, behind} \subseteq [Screen -> SUBSET Agent]
  /\ haunted \subseteq Agent

(***************************************************************************)
(* A deleted agent leaves nothing in the timers and the recorded tasks,    *)
(* unless a run that was going to contact it was under way: the maps of    *)
(* the server do not grow with the agents it once had.                     *)
(***************************************************************************)
NothingOutlivesAgent ==
  \A a \in Agent \ (Stored \cup haunted) :
    recent[a] = 0 /\ next[a] = "none"

\* A list has the recorded version of a task, or has no room for it.
Current(tasks, excused) ==
  \A a \in Agent \ excused : recent[a] > 0 =>
    \/ tasks[a] = recent[a]
    \/ tasks[a] = 0 /\ Cardinality(Listed(tasks)) = ScreenLimit

(***************************************************************************)
(* A screen never shows a version of a recorded task other than the        *)
(* recorded one, and a recorded task it does not show is missing because   *)
(* the screen is full, however loads, events and reconnections interleave. *)
(* The tasks that may be otherwise are those recorded while the stream was *)
(* down and not in the snapshot it began with anew, and those recorded     *)
(* between the making of a load response and its arrival: no event falls   *)
(* between the snapshot of a stream and its events.                        *)
(***************************************************************************)
ScreenIsCurrent == \A c \in Screen : Current(screen[c], behind[c])

(***************************************************************************)
(* An agent that stays registered is checked and polled again and again    *)
(* while the server runs, whatever pages, cursors, due times and slow runs *)
(* do; only heartbeats that never cease put its health checks off, and     *)
(* agents that come and go without end may shift it out of every page.     *)
(***************************************************************************)
EveryAgentIsContacted ==
  \A a \in Agent :
    <>[](running /\ a \in Stored)
      => \/ []<>Contacted(a)
         \/ kind = "health" /\ []<><<Heartbeat(a)>>_vars
         \/ []<><<TRUE>>_agents
=============================================================================
