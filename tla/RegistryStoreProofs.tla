-------------------------- MODULE RegistryStoreProofs --------------------------
(***************************************************************************)
(* What RegistryStore satisfies for every set of agents, tenants, records, *)
(* queries, writers and searches, and for each kind of client.             *)
(***************************************************************************)
EXTENDS RegistryStore, SequenceTheorems, TLAPS

\* What the writers work on has its type, and what delete() stores is nothing.
Base ==
  /\ client \in {"memory", "multi", "sets"}
  /\ record \in [Agent -> AllRecords \cup {None}]
  /\ index \in [TermSet -> SUBSET Agent]
  /\ pc \in [Writer -> {"idle", "load", "get", "write", "set", "add", "done"}]
  /\ job \in [Writer -> Jobs \cup {None}]
  /\ copy \in [Writer -> AllRecords \cup {None}]
  /\ prev \in [Writer -> AllRecords \cup {None}]
  /\ overlap \subseteq Agent /\ gone \subseteq Agent /\ torn \subseteq Agent
  /\ \A w \in Writer : pc[w] # "idle" => job[w] \in Jobs
  /\ \A w \in Writer : pc[w] = "load" => job[w].kind \in {"update", "beat"}
  /\ \A w \in Writer : pc[w] # "idle" /\ job[w].kind = "delete" => copy[w] = None

LEMMA JobFields ==
  ASSUME NEW j \in Jobs
  PROVE  /\ j.agent \in Agent
         /\ j.kind \in {"put", "update", "beat", "delete"}
         /\ j.kind = "put" => j.arg \in AllRecords
         /\ j.kind \in {"update", "beat"} => j.arg \in Status
BY RegistryStoreAssumption DEF Jobs, Job, Status

LEMMA StatusChanged ==
  ASSUME NEW r \in AllRecords, NEW st \in Status
  PROVE  [r EXCEPT !.status = st] \in AllRecords
BY DEF AllRecords

LEMMA ReindexedTyped ==
  ASSUME index \in [TermSet -> SUBSET Agent], NEW a \in Agent, NEW old, NEW new
  PROVE  Reindexed(a, old, new) \in [TermSet -> SUBSET Agent]
BY DEF Reindexed

LEMMA BaseInit == Init => Base
BY RegistryStoreAssumption DEF Init, Base

LEMMA BaseSearch ==
  ASSUME Base, NEW s \in Search, List(s)
  PROVE  Base' /\ UNCHANGED <<client, record, index, writerVars, overlap, gone, torn>>
BY DEF Base, List, StartSearch, ListInMemory, ReadIndex, LoadAgents, writerVars

\* What is left where a mutation breaks off.
LEMMA BrokenOff ==
  ASSUME Base, NEW w \in Writer, BreakOff(w)
  PROVE  LET a == job[w].agent
         IN /\ pc[w] \notin {"idle", "done"} /\ pc' = [pc EXCEPT ![w] = "done"]
            /\ client # "memory"
            /\ UNCHANGED <<client, record, job, copy, prev, searchVars, overlap, gone>>
            /\ index' \in [TermSet -> SUBSET Agent] /\ torn' \subseteq Agent
            /\ \A term \in TermSet :
                 /\ \A b \in Agent \ {a} : b \in index'[term] <=> b \in index[term]
                 /\ a \in index'[term] => \/ a \in index[term]
                                          \/ pc[w] = "add" /\ term \in TermsOf(copy[w])
            /\ IF client = "sets" /\ pc[w] \in {"write", "set", "add"}
               THEN torn' = torn \cup {a} /\ Unsteady({a})
               ELSE UNCHANGED <<torn, steady>> /\ (pc[w] # "add" => index' = index)
<1> DEFINE a == job[w].agent
<1>1. /\ pc[w] \notin {"idle", "done"} /\ client # "memory" /\ index' \in Partly(w)
      /\ pc' = [pc EXCEPT ![w] = "done"]
      /\ UNCHANGED <<client, record, job, copy, prev, searchVars, overlap, gone>>
      /\ IF client = "sets" /\ pc[w] \in {"write", "set", "add"}
         THEN torn' = torn \cup {a} /\ Unsteady({a})
         ELSE UNCHANGED <<torn, steady>>
  BY DEF BreakOff
<1>2. a \in Agent
  BY <1>1, JobFields DEF Base
<1>3. \/ index' = index
      \/ /\ client = "sets" /\ pc[w] = "write"
         /\ \E sent : index' = [term \in TermSet |->
                                 IF term \in sent THEN index[term] \ {a} ELSE index[term]]
      \/ /\ pc[w] = "add"
         /\ \E sent \in SUBSET TermsOf(copy[w]) :
              index' = [term \in TermSet |->
                          IF term \in sent THEN index[term] \cup {a} ELSE index[term]]
  BY <1>1 DEF Partly
<1>4. torn' \subseteq Agent
  BY <1>1, <1>2 DEF Base
<1> HIDE DEF a
<1>5. /\ index' \in [TermSet -> SUBSET Agent]
      /\ \A term \in TermSet :
           /\ \A b \in Agent \ {a} : b \in index'[term] <=> b \in index[term]
           /\ a \in index'[term] => \/ a \in index[term]
                                    \/ pc[w] = "add" /\ term \in TermsOf(copy[w])
  BY <1>2, <1>3 DEF Base
<1> USE DEF a
<1> QED BY <1>1, <1>3, <1>4, <1>5

LEMMA BaseNext == Base /\ [Next]_vars => Base'
<1> SUFFICES ASSUME Base, [Next]_vars PROVE Base' OBVIOUS
<1> USE DEF Base
<1>1. ASSUME NEW w \in Writer, NEW j \in Jobs, Call(w, j) PROVE Base'
  <2>1. /\ j.agent \in Agent
        /\ j.kind \in {"put", "update", "beat", "delete"}
        /\ j.kind = "put" => j.arg \in AllRecords
    BY JobFields
  <2> QED BY <1>1, <2>1 DEF Call
<1>2. ASSUME NEW w \in Writer, pc[w] # "idle"
      PROVE  /\ job[w] \in Jobs /\ job[w].agent \in Agent
             /\ job[w].kind \in {"put", "update", "beat", "delete"}
             /\ job[w].kind \in {"update", "beat"} => job[w].arg \in Status
             /\ Forgotten(w) \subseteq Agent
  <2>1. job[w] \in Jobs
    BY <1>2
  <2> QED BY <2>1, JobFields DEF Forgotten
<1>3. ASSUME NEW w \in Writer, Load(w) PROVE Base'
  <2>1. pc[w] = "load"
    BY <1>3 DEF Load
  <2>2. record[job[w].agent] \in AllRecords \cup {None}
    BY <1>2, <2>1
  <2>3. CASE record[job[w].agent] = None
    BY <1>3, <2>1, <2>3 DEF Load
  <2>4. CASE record[job[w].agent] # None
    <3>1. [record[job[w].agent] EXCEPT !.status = job[w].arg] \in AllRecords
      BY <1>2, <2>1, <2>2, <2>4, StatusChanged
    <3> QED BY <1>3, <2>1, <2>4, <3>1 DEF Load
  <2> QED BY <2>3, <2>4
<1>4. ASSUME NEW w \in Writer, Get(w) PROVE Base'
  <2>1. pc[w] = "get"
    BY <1>4 DEF Get
  <2>2. record[job[w].agent] \in AllRecords \cup {None}
    BY <1>2, <2>1
  <2> QED BY <1>4, <2>1, <2>2 DEF Get
<1>5. ASSUME NEW w \in Writer, Exec(w) \/ RemoveTerms(w) \/ SetRecord(w) \/ AddTerms(w)
      PROVE  Base'
  <2>1. pc[w] \in {"write", "set", "add"}
    BY <1>5 DEF Exec, RemoveTerms, SetRecord, AddTerms
  <2>2. index' \in [TermSet -> SUBSET Agent]
    BY <1>2, <1>5, <2>1, ReindexedTyped DEF Exec, RemoveTerms, SetRecord, AddTerms
  <2>3. record' \in [Agent -> AllRecords \cup {None}]
    BY <1>5 DEF Exec, RemoveTerms, SetRecord, AddTerms
  <2>4. gone' \subseteq Agent /\ torn' \subseteq Agent
    BY <1>2, <1>5, <2>1 DEF Exec, RemoveTerms, SetRecord, AddTerms
  <2>5. /\ UNCHANGED <<client, job, copy, prev, overlap>>
        /\ pc' \in [Writer -> {"idle", "load", "get", "write", "set", "add", "done"}]
        /\ \A v \in Writer : pc[v] = "idle" => pc'[v] = "idle"
        /\ \A v \in Writer : pc'[v] = "load" => pc[v] = "load"
    BY <1>5, <2>1 DEF Exec, RemoveTerms, SetRecord, AddTerms, searchVars
  <2> QED BY <2>2, <2>3, <2>4, <2>5
<1>6. ASSUME NEW w \in Writer, RunInMemory(w) PROVE Base'
  <2> DEFINE a == job[w].agent
  <2>1. pc[w] \in {"get", "load"}
    BY <1>6 DEF RunInMemory
  <2>2. record[a] \in AllRecords \cup {None}
    BY <1>2, <2>1
  <2>3. job[w].kind = "update" /\ record[a] # None =>
          [record[a] EXCEPT !.status = job[w].arg] \in AllRecords
    BY <1>2, <2>1, <2>2, StatusChanged
  <2>4. PICK new \in AllRecords \cup {None} :
          record' = [record EXCEPT ![a] = new] /\ index' = Reindexed(a, record[a], new)
    BY <1>2, <1>6, <2>1, <2>2, <2>3 DEF RunInMemory
  <2>5. index' \in [TermSet -> SUBSET Agent]
    BY <1>2, <2>1, <2>4, ReindexedTyped
  <2>6. gone' \subseteq Agent
    BY <1>2, <1>6, <2>1 DEF RunInMemory
  <2>7. pc' = [pc EXCEPT ![w] = "done"] /\ UNCHANGED <<client, job, copy, prev, overlap, torn>>
    BY <1>6 DEF RunInMemory
  <2> QED BY <2>1, <2>4, <2>5, <2>6, <2>7
<1>7. CASE \E s \in Search : List(s)
  BY <1>7, BaseSearch
<1>8. CASE UNCHANGED vars
  BY <1>8 DEF vars, writerVars
<1>9. ASSUME NEW w \in Writer, BreakOff(w) PROVE Base'
  BY <1>9, BrokenOff
<1> QED BY <1>1, <1>3, <1>4, <1>5, <1>6, <1>7, <1>8, <1>9 DEF Next, Write

LEMMA BaseAlways == Spec => []Base
BY BaseInit, BaseNext, PTL DEF Spec

-----------------------------------------------------------------------------
(***************************************************************************)
(* The inductive invariant, agent by agent: while no two writes of it were *)
(* ever under way at a time, its one writer still has the record it read   *)
(* when it writes, has taken every entry out of the index before it goes   *)
(* on to the record, and stores what it will then list.                    *)
(***************************************************************************)
Works(w, b) == pc[w] \notin {"idle", "done"} /\ job[w].agent = b

Unlisted(b) == \A term \in TermSet : b \notin index[term]

OnlyWriter(b) == \A w, v \in Writer : Works(w, b) /\ Works(v, b) => w = v

WriterIsCurrent(b) ==
  \A w \in Writer : Works(w, b) =>
    /\ pc[w] = "write" => prev[w] = record[b]
    /\ pc[w] \in {"set", "add"} => Unlisted(b)
    /\ pc[w] = "add" => copy[w] = record[b]

Truthful(b) == \A term \in TermSet : b \in index[term] => term \in TermsOf(record[b])

Settled(b) == OnlyWriter(b) /\ WriterIsCurrent(b) /\ Truthful(b)

IInv == \A b \in Agent \ overlap : Settled(b)

LEMMA IInvInit == Init => IInv
BY DEF Init, IInv, Settled, OnlyWriter, WriterIsCurrent, Truthful, Works

\* A step of a writer leaves the other agents as they are.
LEMMA Elsewhere ==
  ASSUME NEW w \in Writer, NEW b \in Agent \ overlap, Settled(b),
         ~Works(w, b), ~Works(w, b)',
         \A v \in Writer \ {w} :
           pc'[v] = pc[v] /\ job'[v] = job[v] /\ copy'[v] = copy[v] /\ prev'[v] = prev[v],
         record'[b] = record[b],
         \A term \in TermSet : b \in index'[term] => b \in index[term]
  PROVE  Settled(b)'
BY DEF Settled, OnlyWriter, WriterIsCurrent, Truthful, Unlisted, Works

\* What Reindexed does to the entries of its agent, and of the others.
LEMMA Entries ==
  ASSUME Base, NEW a \in Agent, NEW old, NEW new, NEW term \in TermSet
  PROVE  /\ a \in Reindexed(a, old, new)[term] <=>
              \/ term \in TermsOf(new)
              \/ a \in index[term] /\ term \notin TermsOf(old)
         /\ \A b \in Agent \ {a} : b \in Reindexed(a, old, new)[term] <=> b \in index[term]
BY DEF Base, Reindexed

LEMMA IInvCall ==
  ASSUME Base, IInv, NEW w \in Writer, NEW j \in Jobs, Call(w, j)
  PROVE  IInv'
<1>1. SUFFICES ASSUME NEW b \in Agent \ overlap' PROVE Settled(b)'
  BY DEF IInv
<1>2. b \notin overlap /\ Settled(b)
  BY <1>1 DEF Call, IInv
<1>3. /\ pc[w] = "idle" /\ pc' = [pc EXCEPT ![w] = IF j.kind \in {"update", "beat"} THEN "load" ELSE "get"]
      /\ job' = [job EXCEPT ![w] = j] /\ copy' = [copy EXCEPT ![w] = IF j.kind = "put" THEN j.arg ELSE None]
      /\ gone' = IF j.kind = "put" THEN gone \ {j.agent} ELSE gone
      /\ UNCHANGED <<record, index, prev>>
  BY DEF Call
<1>4. CASE j.agent # b
  <2>1. ~Works(w, b) /\ ~Works(w, b)'
    BY <1>3, <1>4 DEF Works, Base
  <2> QED BY <1>2, <1>3, <1>4, <2>1, Elsewhere DEF Base
<1>5. CASE j.agent = b
  <2>1. \A v \in Writer : ~Works(v, b)
    BY <1>1, <1>2, <1>5 DEF Call, UnderWay, Works
  <2>2. \A v \in Writer : Works(v, b)' => v = w
    BY <1>3, <2>1 DEF Works, Base
  <2>3. pc'[w] \in {"load", "get"}
    BY <1>3 DEF Base
  <2> QED BY <1>2, <1>3, <2>2, <2>3
          DEF Settled, OnlyWriter, WriterIsCurrent, Truthful, Works, Base
<1> QED BY <1>4, <1>5

\* A writer at work has an agent, and is the only one of it unless two overlapped.
LEMMA Worker ==
  ASSUME Base, NEW w \in Writer, pc[w] \notin {"idle", "done"}
  PROVE  job[w] \in Jobs /\ job[w].agent \in Agent /\ Works(w, job[w].agent)
BY JobFields DEF Base, Works

LEMMA IInvRead ==
  ASSUME Base, IInv, NEW w \in Writer, Load(w) \/ Get(w)
  PROVE  IInv'
<1>1. SUFFICES ASSUME NEW b \in Agent \ overlap' PROVE Settled(b)'
  BY DEF IInv
<1>2. /\ pc[w] \in {"load", "get"} /\ pc' = [pc EXCEPT ![w] = pc'[w]]
      /\ copy' = [copy EXCEPT ![w] = copy'[w]] /\ prev' = [prev EXCEPT ![w] = prev'[w]]
      /\ UNCHANGED <<record, index, job, overlap>>
  BY DEF Load, Get, Base
<1>3. b \notin overlap /\ Settled(b)
  BY <1>1, <1>2 DEF IInv
<1>4. CASE job[w].agent # b
  BY <1>2, <1>3, <1>4, Elsewhere DEF Works, Base
<1>5. CASE job[w].agent = b
  <2>1. Works(w, b) /\ \A v \in Writer : Works(v, b) => v = w
    BY <1>2, <1>3, <1>5 DEF Works, Settled, OnlyWriter
  <2>2. \A v \in Writer : Works(v, b)' => v = w
    BY <1>2, <2>1 DEF Works, Base
  <2>3. CASE Load(w)
    <3>1. pc'[w] \in {"get", "done"}
      BY <2>3 DEF Load, Base
    <3> QED BY <1>2, <1>3, <2>2, <3>1
            DEF Settled, OnlyWriter, WriterIsCurrent, Truthful, Works, Base
  <2>4. CASE Get(w)
    <3>1. pc'[w] = "done" \/ (pc'[w] = "write" /\ prev'[w] = record[b])
      BY <1>5, <2>4 DEF Get, Base
    <3> QED BY <1>2, <1>3, <2>2, <3>1
            DEF Settled, OnlyWriter, WriterIsCurrent, Truthful, Works, Base
  <2> QED BY <2>3, <2>4
<1> QED BY <1>4, <1>5

\* A step that ends the write, or takes it one command further.
LEMMA IInvWrite ==
  ASSUME Base, IInv, NEW w \in Writer,
         Exec(w) \/ RemoveTerms(w) \/ SetRecord(w) \/ AddTerms(w) \/ RunInMemory(w)
  PROVE  IInv'
<1> DEFINE a == job[w].agent
<1>1. SUFFICES ASSUME NEW b \in Agent \ overlap' PROVE Settled(b)'
  BY DEF IInv
<1>2. /\ pc[w] \notin {"idle", "done"} /\ pc' = [pc EXCEPT ![w] = pc'[w]]
      /\ UNCHANGED <<job, copy, prev, overlap>>
  BY DEF Exec, RemoveTerms, SetRecord, AddTerms, RunInMemory, Base
<1>3. b \notin overlap /\ Settled(b)
  BY <1>1, <1>2 DEF IInv
<1>4. a \in Agent
  BY <1>2, Worker
<1>5. CASE a # b
  <2>1. ~Works(w, b) /\ ~Works(w, b)'
    BY <1>2, <1>5 DEF Works
  <2>2. record'[b] = record[b]
    BY <1>4, <1>5 DEF Exec, RemoveTerms, SetRecord, AddTerms, RunInMemory, Base
  <2>3. \A term \in TermSet : b \in index'[term] => b \in index[term]
    <3>1. index' = index \/ \E old, new : index' = Reindexed(a, old, new)
      BY DEF Exec, RemoveTerms, SetRecord, AddTerms, RunInMemory
    <3> QED BY <1>4, <1>5, <3>1, Entries
  <2> QED BY <1>2, <1>3, <2>1, <2>2, <2>3, Elsewhere DEF Base
<1>6. CASE a = b
  <2>1. Works(w, b) /\ \A v \in Writer : Works(v, b) => v = w
    BY <1>2, <1>3, <1>6 DEF Works, Settled, OnlyWriter
  <2>2. \A v \in Writer : Works(v, b)' => v = w
    BY <1>2, <2>1 DEF Works, Base
  <2>3. pc'[w] # "load" /\ pc'[w] # "get" /\ pc'[w] # "write"
    BY <1>2 DEF Exec, RemoveTerms, SetRecord, AddTerms, RunInMemory, Base
  <2>4. SUFFICES /\ pc'[w] \in {"set", "add"} => Unlisted(b)'
                 /\ pc'[w] = "add" => copy[w] = record'[b]
                 /\ Truthful(b)'
    BY <1>2, <2>2, <2>3 DEF Settled, OnlyWriter, WriterIsCurrent, Works
  <2>6. CASE Exec(w)
    <3>1. /\ pc'[w] = "done" /\ prev[w] = record[b] /\ record'[b] = copy[w]
          /\ index' = Reindexed(b, record[b], copy[w])
      BY <1>3, <1>4, <1>6, <2>1, <2>6 DEF Exec, Settled, WriterIsCurrent, Base
    <3>2. Truthful(b)'
      BY <1>3, <1>4, <1>6, <3>1, Entries DEF Truthful, Settled
    <3> QED BY <3>1, <3>2
  <2>7. CASE RemoveTerms(w)
    <3>1. /\ pc'[w] = "set" /\ prev[w] = record[b] /\ UNCHANGED record
          /\ index' = Reindexed(b, record[b], None)
      BY <1>3, <1>6, <2>1, <2>7 DEF RemoveTerms, Settled, WriterIsCurrent, Base
    <3>2. Unlisted(b)'
      <4>1. TermsOf(None) = {}
        BY DEF TermsOf
      <4> QED BY <1>3, <1>4, <1>6, <3>1, <4>1, Entries DEF Truthful, Settled, Unlisted
    <3>3. Truthful(b)'
      BY <3>2 DEF Unlisted, Truthful
    <3> QED BY <3>1, <3>2, <3>3
  <2>8. CASE SetRecord(w)
    <3>1. pc'[w] \in {"add", "done"} /\ record'[b] = copy[w] /\ UNCHANGED index
      BY <1>4, <1>6, <2>8 DEF SetRecord, Base
    <3>2. Unlisted(b)' /\ Truthful(b)'
      BY <1>3, <2>1, <2>8, <3>1 DEF SetRecord, Settled, WriterIsCurrent, Unlisted, Truthful
    <3> QED BY <3>1, <3>2
  <2>9. CASE AddTerms(w)
    <3>1. /\ pc'[w] = "done" /\ copy[w] = record[b] /\ UNCHANGED record
          /\ index' = Reindexed(b, None, record[b])
      BY <1>3, <1>6, <2>1, <2>9 DEF AddTerms, Settled, WriterIsCurrent, Base
    <3>2. Truthful(b)'
      BY <1>3, <1>4, <1>6, <3>1, Entries DEF Truthful, Settled
    <3> QED BY <3>1, <3>2
  <2>10. CASE RunInMemory(w)
    <3>1. PICK new :
            record' = [record EXCEPT ![b] = new] /\ index' = Reindexed(b, record[b], new)
      BY <1>6, <2>10 DEF RunInMemory
    <3>2. pc'[w] = "done" /\ record'[b] = new
      BY <1>4, <1>6, <2>10, <3>1 DEF RunInMemory, Base
    <3>3. Truthful(b)'
      BY <1>3, <1>4, <1>6, <3>1, <3>2, Entries DEF Truthful, Settled
    <3> QED BY <3>2, <3>3
  <2> QED BY <2>6, <2>7, <2>8, <2>9, <2>10
<1> QED BY <1>5, <1>6

\* A mutation that breaks off leaves entries that are too few, never untrue.
LEMMA IInvBreak ==
  ASSUME Base, IInv, NEW w \in Writer, BreakOff(w)
  PROVE  IInv'
<1> DEFINE a == job[w].agent
<1>1. SUFFICES ASSUME NEW b \in Agent \ overlap' PROVE Settled(b)'
  BY DEF IInv
<1>2. /\ pc[w] \notin {"idle", "done"} /\ pc' = [pc EXCEPT ![w] = "done"]
      /\ UNCHANGED <<record, job, copy, prev, overlap>>
      /\ \A term \in TermSet :
           /\ \A c \in Agent \ {a} : c \in index'[term] <=> c \in index[term]
           /\ a \in index'[term] => \/ a \in index[term]
                                    \/ pc[w] = "add" /\ term \in TermsOf(copy[w])
  BY BrokenOff
<1>3. b \notin overlap /\ Settled(b)
  BY <1>1, <1>2 DEF IInv
<1>4. CASE a # b
  <2>1. ~Works(w, b) /\ ~Works(w, b)'
    BY <1>2, <1>4 DEF Works
  <2> QED BY <1>2, <1>3, <1>4, <2>1, Elsewhere DEF Base
<1>5. CASE a = b
  <2>1. Works(w, b) /\ \A v \in Writer : Works(v, b) => v = w
    BY <1>2, <1>3, <1>5 DEF Works, Settled, OnlyWriter
  <2>2. \A v \in Writer : ~Works(v, b)'
    BY <1>2, <2>1 DEF Works, Base
  <2>3. pc[w] = "add" => copy[w] = record[b]
    BY <1>3, <2>1 DEF Settled, WriterIsCurrent
  <2>4. Truthful(b)'
    BY <1>2, <1>3, <1>5, <2>3 DEF Truthful, Settled
  <2> QED BY <2>2, <2>4 DEF Settled, OnlyWriter, WriterIsCurrent
<1> QED BY <1>4, <1>5

LEMMA IInvNext == Base /\ IInv /\ [Next]_vars => IInv'
<1> SUFFICES ASSUME Base, IInv, [Next]_vars PROVE IInv' OBVIOUS
<1>1. ASSUME UNCHANGED <<client, record, index, writerVars, overlap>> PROVE IInv'
  BY <1>1 DEF writerVars, IInv, Settled, OnlyWriter, WriterIsCurrent, Truthful, Unlisted, Works
<1>2. CASE \E s \in Search : List(s)
  BY <1>1, <1>2, BaseSearch
<1>3. CASE UNCHANGED vars
  BY <1>1, <1>3 DEF vars
<1>4. CASE \E w \in Writer : Write(w)
  BY <1>4, IInvCall, IInvRead, IInvWrite, IInvBreak DEF Write
<1> QED BY <1>2, <1>3, <1>4 DEF Next

LEMMA IInvAlways == Spec => []IInv
BY IInvInit, IInvNext, BaseAlways, PTL DEF Spec

\* The index entries of an agent no two writes of which overlapped say what its
\* record says, also when a write is sent command by command.
THEOREM IndexesAreTruthful == Spec => []StaleOnlyByOverlap
<1>1. Base /\ IInv => StaleOnlyByOverlap
  BY DEF Base, IInv, Settled, Truthful, StaleOnlyByOverlap
<1> QED BY <1>1, BaseAlways, IInvAlways, PTL

-----------------------------------------------------------------------------
(***************************************************************************)
(* What was deleted with no write under way: the writes called since have  *)
(* not read a record, for there was none, and have nothing to store.       *)
(***************************************************************************)
Harmless(w) ==
  \/ pc[w] = "load"
  \/ pc[w] = "get" /\ job[w].kind = "delete"

Buried ==
  \A b \in gone : record[b] = None /\ \A w \in Writer : Works(w, b) => Harmless(w)

LEMMA BuriedInit == Init => Buried
BY DEF Init, Buried

\* A step of a writer that leaves the agents that stay buried as they are.
LEMMA StaysBuried ==
  ASSUME Base, Buried, NEW w \in Writer, NEW b \in gone,
         record'[b] = record[b], Works(w, b)' => Harmless(w)',
         \A v \in Writer \ {w} : pc'[v] = pc[v] /\ job'[v] = job[v]
  PROVE  record'[b] = None /\ \A v \in Writer : Works(v, b)' => Harmless(v)'
BY DEF Buried, Works, Harmless

LEMMA BuriedWrite ==
  ASSUME Base, Buried, NEW w \in Writer,
         Exec(w) \/ RemoveTerms(w) \/ SetRecord(w) \/ AddTerms(w) \/ RunInMemory(w)
  PROVE  Buried'
<1> DEFINE a == job[w].agent
<1>1. /\ pc[w] \notin {"idle", "done"} /\ pc' = [pc EXCEPT ![w] = pc'[w]]
      /\ UNCHANGED <<job, copy, prev>>
  BY DEF Exec, RemoveTerms, SetRecord, AddTerms, RunInMemory, Base
<1>2. a \in Agent /\ Works(w, a)
  BY <1>1, Worker
<1>3. ASSUME a \in gone PROVE RunInMemory(w) /\ record' = record
  <2>1. Harmless(w) /\ record[a] = None
    BY <1>2, <1>3 DEF Buried
  <2>2. RunInMemory(w)
    BY <2>1 DEF Harmless, Exec, RemoveTerms, SetRecord, AddTerms
  <2>3. record' = [record EXCEPT ![a] = None]
    BY <2>1, <2>2 DEF Harmless, RunInMemory
  <2> QED BY <2>1, <2>2, <2>3 DEF Base
<1>4. ASSUME NEW b \in gone
      PROVE  record'[b] = None /\ \A v \in Writer : Works(v, b)' => Harmless(v)'
  <2>1. b \in Agent
    BY DEF Base
  <2>2. record'[b] = record[b]
    BY <1>2, <1>3, <2>1 DEF Exec, RemoveTerms, SetRecord, AddTerms, RunInMemory, Base
  <2>3. Works(w, b)' => Harmless(w)'
    BY <1>1, <1>3 DEF Works, RunInMemory, Base
  <2> QED BY <1>1, <2>2, <2>3, StaysBuried DEF Base
<1>5. ASSUME NEW b \in gone' \ gone
      PROVE  record'[b] = None /\ \A v \in Writer : Works(v, b)' => Harmless(v)'
  <2>1. b = a /\ job[w].kind = "delete" /\ UnderWay(a) = {w} /\ pc'[w] = "done"
    BY <1>1, <1>5 DEF Exec, RemoveTerms, SetRecord, AddTerms, RunInMemory, Forgotten, Base
  <2>2. copy[w] = None
    BY <1>1, <2>1 DEF Base
  <2>3. record'[b] = None
    BY <1>2, <1>5, <2>1, <2>2 DEF Exec, RemoveTerms, SetRecord, AddTerms, RunInMemory, Base
  <2>4. \A v \in Writer : ~Works(v, b)'
    BY <1>1, <2>1 DEF Works, UnderWay, Base
  <2> QED BY <2>3, <2>4
<1> QED BY <1>4, <1>5 DEF Buried

LEMMA BuriedNext == Base /\ Buried /\ [Next]_vars => Buried'
<1> SUFFICES ASSUME Base, Buried, [Next]_vars PROVE Buried' OBVIOUS
<1>1. ASSUME UNCHANGED <<record, pc, job, gone>> PROVE Buried'
  BY <1>1 DEF Buried, Works, Harmless
<1>2. ASSUME NEW w \in Writer, NEW j \in Jobs, Call(w, j) PROVE Buried'
  <2>1. /\ pc[w] = "idle" /\ pc' = [pc EXCEPT ![w] = IF j.kind \in {"update", "beat"} THEN "load" ELSE "get"]
        /\ job' = [job EXCEPT ![w] = j] /\ UNCHANGED record
        /\ gone' = IF j.kind = "put" THEN gone \ {j.agent} ELSE gone
    BY <1>2 DEF Call
  <2>2. SUFFICES ASSUME NEW b \in gone'
                 PROVE  record'[b] = None /\ \A v \in Writer : Works(v, b)' => Harmless(v)'
    BY DEF Buried
  <2>3. b \in gone /\ (Works(w, b)' => Harmless(w)')
    BY <2>1, <2>2, JobFields DEF Works, Harmless, Base
  <2> QED BY <2>1, <2>3, StaysBuried DEF Base
<1>3. ASSUME NEW w \in Writer, Load(w) \/ Get(w) PROVE Buried'
  <2>1. /\ pc[w] \in {"load", "get"} /\ pc' = [pc EXCEPT ![w] = pc'[w]]
        /\ UNCHANGED <<record, job, gone>>
    BY <1>3 DEF Load, Get, Base
  <2>2. SUFFICES ASSUME NEW b \in gone
                 PROVE  record'[b] = None /\ \A v \in Writer : Works(v, b)' => Harmless(v)'
    BY <2>1 DEF Buried
  <2>3. Works(w, b)' => Harmless(w)'
    <3>1. CASE job[w].agent # b
      BY <2>1, <3>1 DEF Works
    <3>2. CASE job[w].agent = b
      <4>1. record[b] = None /\ Harmless(w)
        BY <2>1, <3>2 DEF Buried, Works
      <4>2. pc'[w] = "done"
        BY <1>3, <3>2, <4>1 DEF Load, Get, Harmless, Base
      <4> QED BY <4>2 DEF Works
    <3> QED BY <3>1, <3>2
  <2> QED BY <2>1, <2>3, StaysBuried DEF Base
<1>4. ASSUME NEW w \in Writer, BreakOff(w) PROVE Buried'
  <2>1. pc' = [pc EXCEPT ![w] = "done"] /\ UNCHANGED <<record, job, gone>>
    BY <1>4, BrokenOff
  <2>2. ~ \E b : Works(w, b)'
    BY <2>1 DEF Works, Base
  <2> QED BY <2>1, <2>2, StaysBuried DEF Base, Buried
<1>5. CASE \E s \in Search : List(s)
  BY <1>1, <1>5, BaseSearch DEF writerVars
<1>6. CASE UNCHANGED vars
  BY <1>1, <1>6 DEF vars, writerVars
<1> QED BY <1>2, <1>3, <1>4, <1>5, <1>6, BuriedWrite DEF Next, Write

\* An agent deleted while no write of it was under way stays deleted until it is
\* registered or imported again, whatever status updates and heartbeats begin later.
THEOREM NothingIsResurrected == Spec => []DeletedStaysDeleted
<1>1. Buried => DeletedStaysDeleted
  BY DEF Buried, DeletedStaysDeleted
<1> QED BY <1>1, BuriedInit, BuriedNext, BaseAlways, PTL DEF Spec

-----------------------------------------------------------------------------
(***************************************************************************)
(* An agent is listed under every term of its record, unless a writer is   *)
(* between its commands or broke off there.  This holds whether writes     *)
(* overlap or not: who stored the record last is still to list it, or has  *)
(* listed it since.                                                        *)
(***************************************************************************)
Listed(b) == \A term \in TermsOf(record[b]) : b \in index[term]

\* A writer of b whose list entries are still to come.
Owes(w, b) ==
  /\ job[w].agent = b
  /\ pc[w] = "set" \/ (pc[w] = "add" /\ copy[w] = record[b])

Complete ==
  /\ \A w \in Writer : pc[w] \in {"set", "add"} => client = "sets"
  /\ torn # {} => client = "sets"
  /\ \A b \in Agent : Listed(b) \/ b \in torn \/ \E w \in Writer : Owes(w, b)

LEMMA TermsTyped ==
  ASSUME NEW r \in AllRecords \cup {None}
  PROVE  TermsOf(r) \subseteq TermSet
BY DEF TermsOf, TermSet

LEMMA CompleteInit == Init => Complete
<1> SUFFICES ASSUME Init PROVE Complete OBVIOUS
<1>1. ASSUME NEW b \in Agent PROVE Listed(b)
  <2>1. TermsOf(record[b]) \subseteq TermSet
    BY BaseInit, TermsTyped DEF Base
  <2> QED BY <2>1 DEF Init, Listed
<1> QED BY <1>1 DEF Init, Complete

LEMMA CompleteWrite ==
  ASSUME Base, Complete, NEW w \in Writer,
         Exec(w) \/ RemoveTerms(w) \/ SetRecord(w) \/ AddTerms(w) \/ RunInMemory(w)
  PROVE  Complete'
<1> DEFINE a == job[w].agent
<1>1. /\ pc[w] \notin {"idle", "done"} /\ pc' = [pc EXCEPT ![w] = pc'[w]]
      /\ UNCHANGED <<client, job, copy, prev>>
  BY DEF Exec, RemoveTerms, SetRecord, AddTerms, RunInMemory, Base
<1>2. a \in Agent
  BY <1>1, Worker
<1>3. /\ \A v \in Writer : pc'[v] \in {"set", "add"} => client' = "sets"
      /\ torn' # {} => client' = "sets"
  BY <1>1 DEF Complete, Base, Exec, RemoveTerms, SetRecord, AddTerms, RunInMemory
<1>4. SUFFICES ASSUME NEW b \in Agent
               PROVE  Listed(b)' \/ b \in torn' \/ \E v \in Writer : Owes(v, b)'
  BY <1>3 DEF Complete
<1>5. TermsOf(record[b]) \subseteq TermSet
  BY TermsTyped DEF Base
<1>6. CASE a # b
  <2>1. record'[b] = record[b]
    BY <1>2, <1>6 DEF Exec, RemoveTerms, SetRecord, AddTerms, RunInMemory, Base
  <2>2. index' = index \/ \E old, new : index' = Reindexed(a, old, new)
    BY DEF Exec, RemoveTerms, SetRecord, AddTerms, RunInMemory
  <2>3. Listed(b) => Listed(b)'
    BY <1>2, <1>5, <1>6, <2>1, <2>2, Entries DEF Listed
  <2>4. \A v \in Writer : Owes(v, b) => Owes(v, b)'
    BY <1>1, <1>6, <2>1 DEF Owes, Base
  <2>5. b \in torn => b \in torn'
    BY <1>6 DEF Exec, RemoveTerms, SetRecord, AddTerms, RunInMemory
  <2> QED BY <2>3, <2>4, <2>5 DEF Complete
<1>7. CASE a = b
  <2>1. CASE Exec(w) \/ RunInMemory(w)
    <3>1. PICK old, new :
            record' = [record EXCEPT ![b] = new] /\ index' = Reindexed(b, old, new)
      BY <1>7, <2>1 DEF Exec, RunInMemory
    <3>2. record'[b] = new /\ new \in AllRecords \cup {None}
      BY <3>1, BaseNext, <2>1 DEF Base, Next, Write
    <3>3. TermsOf(new) \subseteq TermSet
      BY <3>2, TermsTyped
    <3> QED BY <3>1, <3>2, <3>3, Entries DEF Listed
  <2>2. CASE RemoveTerms(w)
    BY <1>1, <1>7, <2>2 DEF RemoveTerms, Owes, Base
  <2>3. CASE SetRecord(w) /\ job[w].kind # "delete"
    BY <1>1, <1>7, <2>3 DEF SetRecord, Owes, Base
  <2>4. CASE SetRecord(w) /\ job[w].kind = "delete"
    BY <1>1, <1>7, <2>4 DEF SetRecord, Listed, TermsOf, Base
  <2>5. CASE AddTerms(w)
    <3>1. record' = record /\ index' = Reindexed(b, None, copy[w]) /\ pc' = [pc EXCEPT ![w] = "done"]
      BY <1>7, <2>5 DEF AddTerms
    <3>2. Listed(b) => Listed(b)'
      BY <1>5, <1>7, <3>1, Entries DEF Listed, TermsOf
    <3>3. copy[w] = record[b] => Listed(b)'
      BY <1>5, <1>7, <3>1, Entries DEF Listed
    <3>4. \A v \in Writer : Owes(v, b) => v = w \/ Owes(v, b)'
      BY <1>1, <3>1 DEF Owes, Base
    <3>5. Owes(w, b) => copy[w] = record[b]
      BY <2>5 DEF AddTerms, Owes
    <3>6. b \in torn => b \in torn' \/ copy[w] = record[b]
      BY <1>7, <2>5 DEF AddTerms
    <3> QED BY <3>2, <3>3, <3>4, <3>5, <3>6 DEF Complete
  <2> QED BY <2>1, <2>2, <2>3, <2>4, <2>5
<1> QED BY <1>6, <1>7

LEMMA CompleteBreak ==
  ASSUME Base, Complete, NEW w \in Writer, BreakOff(w)
  PROVE  Complete'
<1> DEFINE a == job[w].agent
<1>1. /\ pc[w] \notin {"idle", "done"} /\ pc' = [pc EXCEPT ![w] = "done"]
      /\ UNCHANGED <<client, record, job, copy>> /\ torn \subseteq torn'
      /\ torn' # {} => client' = "sets"
      /\ \A term \in TermSet : \A c \in Agent \ {a} : c \in index'[term] <=> c \in index[term]
      /\ a \in torn' \/ (index' = index /\ pc[w] \notin {"set", "add"})
  BY BrokenOff DEF Complete
<1>2. SUFFICES ASSUME NEW b \in Agent
               PROVE  Listed(b)' \/ b \in torn' \/ \E v \in Writer : Owes(v, b)'
  BY <1>1 DEF Complete, Base
<1>3. \A v \in Writer : Owes(v, b) => Owes(v, b)' \/ (v = w /\ a = b)
  BY <1>1 DEF Owes, Base
<1>4. TermsOf(record[b]) \subseteq TermSet
  BY TermsTyped DEF Base
<1>5. CASE a # b
  BY <1>1, <1>3, <1>4, <1>5 DEF Complete, Listed
<1>6. CASE a = b
  BY <1>1, <1>3, <1>6 DEF Complete, Listed, Owes
<1> QED BY <1>5, <1>6

LEMMA CompleteNext == Base /\ Complete /\ [Next]_vars => Complete'
<1> SUFFICES ASSUME Base, Complete, [Next]_vars PROVE Complete' OBVIOUS
<1>1. ASSUME UNCHANGED <<client, record, index, writerVars, torn>> PROVE Complete'
  BY <1>1 DEF writerVars, Complete, Listed, Owes
<1>2. ASSUME NEW w \in Writer, pc[w] \in {"idle", "load", "get"},
             UNCHANGED <<client, record, index, torn>>,
             pc' = [pc EXCEPT ![w] = pc'[w]], pc'[w] \notin {"set", "add"},
             \A v \in Writer \ {w} : job'[v] = job[v] /\ copy'[v] = copy[v]
      PROVE  Complete'
  BY <1>2 DEF Complete, Listed, Owes, Base
<1>3. ASSUME NEW w \in Writer, NEW j \in Jobs, Call(w, j) PROVE Complete'
  BY <1>2, <1>3 DEF Call, Base
<1>4. ASSUME NEW w \in Writer, Load(w) \/ Get(w) PROVE Complete'
  BY <1>2, <1>4 DEF Load, Get, Base
<1>5. CASE \E s \in Search : List(s)
  BY <1>1, <1>5, BaseSearch
<1>6. CASE UNCHANGED vars
  BY <1>1, <1>6 DEF vars
<1> QED BY <1>3, <1>4, <1>5, <1>6, CompleteWrite, CompleteBreak DEF Next, Write

-----------------------------------------------------------------------------
(***************************************************************************)
(* A search under way keeps every agent that has matched it so far by one  *)
(* term, or is yet to read the index of public agents, which is added to   *)
(* what it has: none of these agents is between commands, so each is       *)
(* listed wherever it should be.                                           *)
(***************************************************************************)
Part == {"all", "tenant", "orPublic", "public", "status", "mcp", "noMcp"}

Allowed(q) ==
  {p \in Part :
     /\ p = "public" => q.public
     /\ p \in {"tenant", "orPublic"} => ~q.public /\ q.tenant # None
     /\ p = "status" => q.status # None
     /\ p = "mcp" => q.mcp = "yes"
     /\ p = "noMcp" => q.mcp = "no"}

\* The read of the tenant's index is followed by that of the public one.
Paired(parts) ==
  \A i \in 1 .. Len(parts) :
    parts[i] = "tenant" => i + 1 \in 1 .. Len(parts) /\ parts[i + 1] = "orPublic"

Excused(b, q) == q.mcp = "no" /\ b \in overlap

\* The public index is read next, and the agent is expected to be there.
Awaited(s, m) ==
  todo[s] # <<>> /\ Head(todo[s]) = "orPublic" /\ m[2] = <<"public", TRUE>>

Kept(s, m) == m[1] \in found[s] \/ Awaited(s, m) \/ Excused(m[1], query[s])

Searching(s) ==
  /\ query[s] \in Query
  /\ todo[s] \in Seq(Allowed(query[s])) /\ Paired(todo[s])
  /\ steady[s] \subseteq Matching(query[s])
  /\ \A m \in steady[s] : m[1] \notin InPieces \cup torn /\ Kept(s, m)

SearchInv ==
  /\ spc \in [Search -> {"idle", "reading", "done"}]
  /\ query \in [Search -> Query \cup {None}]
  /\ todo = [s \in Search |-> todo[s]]
  /\ found \in [Search -> SUBSET Agent]
  /\ result = [s \in Search |-> result[s]]
  /\ steady \in [Search -> SUBSET (Agent \X TermSet)]
  /\ \A s \in Search : spc[s] = "reading" => Searching(s)
  /\ SearchFindsSteady

LEMMA SearchInit == Init => SearchInv
BY DEF Init, SearchInv, SearchFindsSteady

LEMMA Short ==
  ASSUME NEW S
  PROVE  /\ <<>> \in Seq(S)
         /\ \A x \in S : <<x>> \in Seq(S)
         /\ \A x, y \in S : <<x, y>> \in Seq(S)
OBVIOUS

LEMMA PublicIsTerm == <<"public", TRUE>> \in TermSet
<1> DEFINE r == [status |-> "unknown", tenant |-> None, public |-> TRUE, mcp |-> FALSE]
<1>1. r \in AllRecords
  BY DEF AllRecords, Status
<1>2. <<"public", TRUE>> \in Terms(r)
  BY DEF Terms
<1> QED BY <1>1, <1>2 DEF TermSet

LEMMA HeadIsFirst ==
  ASSUME NEW S, NEW seq \in Seq(S), Len(seq) >= 1
  PROVE  seq # <<>> /\ Head(seq) = seq[1]
OBVIOUS

\* Two runs of reads, one after the other.
LEMMA PairedRuns ==
  ASSUME NEW S, NEW first \in Seq(S), NEW second \in Seq(S), Paired(first), Paired(second)
  PROVE  first \o second \in Seq(S) /\ Paired(first \o second)
<1> DEFINE both == first \o second
<1>1. /\ both \in Seq(S) /\ Len(both) = Len(first) + Len(second)
      /\ \A i \in 1 .. Len(both) :
           both[i] = IF i <= Len(first) THEN first[i] ELSE second[i - Len(first)]
      /\ Len(first) \in Nat /\ Len(second) \in Nat
  BY ConcatProperties
<1> HIDE DEF both
<1>2. ASSUME NEW i \in 1 .. Len(both), both[i] = "tenant"
      PROVE  i + 1 \in 1 .. Len(both) /\ both[i + 1] = "orPublic"
  <2>1. CASE i <= Len(first)
    <3>1. i + 1 \in 1 .. Len(first) /\ first[i + 1] = "orPublic"
      BY <1>1, <1>2, <2>1 DEF Paired
    <3> QED BY <1>1, <3>1
  <2>2. CASE i > Len(first)
    <3> DEFINE k == i - Len(first)
    <3>1. k \in 1 .. Len(second) /\ second[k] = "tenant"
      BY <1>1, <1>2, <2>2
    <3>2. k + 1 \in 1 .. Len(second) /\ second[k + 1] = "orPublic"
      BY <3>1 DEF Paired
    <3>3. i + 1 \in 1 .. Len(both) /\ ~(i + 1 <= Len(first)) /\ (i + 1) - Len(first) = k + 1
      BY <1>1, <2>2, <3>2
    <3> QED BY <1>1, <3>2, <3>3
  <2> QED BY <1>1, <2>1, <2>2
<1>3. Paired(both)
  BY <1>2 DEF Paired
<1> QED BY <1>1, <1>3 DEF both

LEMMA PartsTyped ==
  ASSUME NEW q \in Query
  PROVE  Parts(q) \in Seq(Allowed(q)) /\ Paired(Parts(q))
<1> DEFINE visible == IF q.public THEN <<"public">>
                      ELSE IF q.tenant # None THEN <<"tenant", "orPublic">> ELSE <<>>
           status == IF q.status # None THEN <<"status">> ELSE <<>>
           mcp == CASE q.mcp = "yes" -> <<"mcp">>
                    [] q.mcp = "no" -> <<"all", "noMcp">>
                    [] OTHER -> <<>>
<1>1. visible \in Seq(Allowed(q)) /\ Paired(visible)
  <2>1. /\ q.public => "public" \in Allowed(q)
        /\ ~q.public /\ q.tenant # None => "tenant" \in Allowed(q) /\ "orPublic" \in Allowed(q)
    BY DEF Allowed, Part
  <2>2. visible \in Seq(Allowed(q))
    BY <2>1, Short
  <2>3. Paired(<<"public">>) /\ Paired(<<>>) /\ Paired(<<"tenant", "orPublic">>)
    BY DEF Paired
  <2> QED BY <2>2, <2>3
<1>2. status \in Seq(Allowed(q)) /\ Paired(status)
  <2>1. q.status # None => "status" \in Allowed(q)
    BY DEF Allowed, Part
  <2>2. Paired(<<"status">>) /\ Paired(<<>>)
    BY DEF Paired
  <2> QED BY <2>1, <2>2, Short
<1>3. mcp \in Seq(Allowed(q)) /\ Paired(mcp)
  <2>1. q.mcp = "yes" => "mcp" \in Allowed(q)
    BY DEF Allowed, Part
  <2>2. q.mcp = "no" => "all" \in Allowed(q) /\ "noMcp" \in Allowed(q)
    BY DEF Allowed, Part
  <2>3. mcp = IF q.mcp = "yes" THEN <<"mcp">>
              ELSE IF q.mcp = "no" THEN <<"all", "noMcp">> ELSE <<>>
    OBVIOUS
  <2>4. Paired(<<"mcp">>) /\ Paired(<<"all", "noMcp">>) /\ Paired(<<>>)
    BY DEF Paired
  <2> QED BY <2>1, <2>2, <2>3, <2>4, Short
<1>4. <<"all">> \in Seq(Allowed(q)) /\ Paired(<<"all">>)
  <2>1. "all" \in Allowed(q)
    BY DEF Allowed, Part
  <2> QED BY <2>1, Short DEF Paired
<1> HIDE DEF visible, status, mcp
<1>5. LET parts == (visible \o status) \o mcp
      IN parts \in Seq(Allowed(q)) /\ Paired(parts)
  BY <1>1, <1>2, <1>3, PairedRuns
<1>6. Parts(q) \in {(visible \o status) \o mcp, <<"all">>}
  BY DEF Parts, visible, status, mcp
<1> QED BY <1>4, <1>5, <1>6

\* An agent that matches and is listed as its record says is in every index the
\* search reads, but that it may be in one only of the tenant's and the public one.
LEMMA HitIfMatching ==
  ASSUME Base, IInv, NEW q \in Query, NEW m \in Matching(q), NEW part \in Allowed(q),
         Listed(m[1])
  PROVE  \/ m[1] \in Hits(part, q)
         \/ Excused(m[1], q)
         \/ part = "tenant" /\ m[2] = <<"public", TRUE>> /\ m[1] \in Hits("orPublic", q)
         \/ part = "orPublic" /\ m[2] = <<"tenant", q.tenant>> /\ m[1] \in Hits("tenant", q)
<1> DEFINE b == m[1]
<1>1. /\ b \in Agent /\ m[2] \in Ways(q) /\ record[b] # None /\ Matches(record[b], q)
      /\ m[2] \in Terms(record[b])
  BY DEF Matching
<1>2. record[b] \in AllRecords /\ TermsOf(record[b]) = Terms(record[b])
  BY <1>1 DEF Base, TermsOf
<1> HIDE DEF b
<1>3. CASE part = "noMcp"
  <2>1. q.mcp = "no" /\ ~record[b].mcp
    BY <1>1, <1>3 DEF Allowed, Matches
  <2>2. <<"mcp", TRUE>> \notin Terms(record[b])
    BY <1>2, <2>1 DEF Terms, AllRecords
  <2>3. b \in index[<<"mcp", TRUE>>] => <<"mcp", TRUE>> \notin TermSet \/ b \in overlap
    BY <1>1, <1>2, <2>2 DEF IInv, Settled, Truthful
  <2>4. <<"mcp", TRUE>> \in TermSet
    <3>1. [record[b] EXCEPT !.mcp = TRUE] \in AllRecords
      BY <1>2 DEF AllRecords
    <3>2. <<"mcp", TRUE>> \in Terms([record[b] EXCEPT !.mcp = TRUE])
      BY <1>2 DEF Terms, AllRecords
    <3> QED BY <3>1, <3>2 DEF TermSet
  <2> QED BY <1>1, <1>3, <2>1, <2>3, <2>4 DEF Hits, Excused, b
<1>4. Listed(b) /\ \A term \in Terms(record[b]) : b \in index[term]
  BY <1>2 DEF Listed, b
<1>5. CASE part = "all"
  BY <1>4, <1>5 DEF Hits, Terms, b
<1>6. CASE part = "status"
  BY <1>1, <1>4, <1>6 DEF Hits, Terms, Allowed, Matches, b
<1>7. CASE part = "mcp"
  BY <1>1, <1>4, <1>7 DEF Hits, Terms, Allowed, Matches, b
<1>8. CASE part = "public"
  BY <1>1, <1>4, <1>8 DEF Hits, Terms, Allowed, Matches, MatchesVisibility, b
<1>9. CASE part \in {"tenant", "orPublic"}
  <2>1. m[2] \in {<<"tenant", q.tenant>>, <<"public", TRUE>>}
    BY <1>1, <1>9 DEF Ways, Allowed
  <2>2. b \in index[m[2]]
    BY <1>1, <1>4
  <2> QED BY <1>9, <2>1, <2>2 DEF Hits, b
<1> QED BY <1>3, <1>5, <1>6, <1>7, <1>8, <1>9 DEF Allowed, Part

\* What a writer does to the searches under way: agents it changes so that they no
\* longer match, or whose entries it takes in pieces, are no longer expected.
LEMMA Disturbed ==
  ASSUME SearchInv, UNCHANGED searchVars, overlap \subseteq overlap',
         steady' \in [Search -> SUBSET (Agent \X TermSet)],
         \A s \in Search : steady'[s] \subseteq steady[s],
         \A s \in Search : spc[s] = "reading" =>
           /\ steady'[s] \subseteq Matching(query[s])'
           /\ \A m \in steady'[s] : m[1] \notin (InPieces \cup torn)'
  PROVE  SearchInv'
<1>1. UNCHANGED <<spc, query, todo, found, result>>
  BY DEF searchVars
<1>2. \A s \in Search : Searching(s) /\ spc[s] = "reading" => Searching(s)'
  BY <1>1 DEF Searching, Kept, Awaited, Excused
<1>3. SearchFindsSteady'
  BY <1>1 DEF SearchInv, SearchFindsSteady
<1> QED BY <1>1, <1>2, <1>3 DEF SearchInv

LEMMA SearchWrite ==
  ASSUME Base, SearchInv, NEW w \in Writer, Write(w)
  PROVE  SearchInv'
<1>1. ASSUME UNCHANGED <<record, searchVars, steady, torn>>, overlap \subseteq overlap',
             InPieces' \subseteq InPieces
      PROVE  SearchInv'
  <2>1. \A s \in Search : Matching(query[s])' = Matching(query[s])
    BY <1>1 DEF Matching, searchVars
  <2> QED BY <1>1, <2>1, Disturbed DEF SearchInv, Searching
<1>2. ASSUME NEW j \in Jobs, Call(w, j) PROVE SearchInv'
  <2>1. InPieces' \subseteq InPieces
    BY <1>2 DEF Call, InPieces, Base
  <2> QED BY <1>1, <1>2, <2>1 DEF Call
<1>3. ASSUME Load(w) \/ Get(w) PROVE SearchInv'
  <2>1. InPieces' \subseteq InPieces
    BY <1>3 DEF Load, Get, InPieces, Base
  <2> QED BY <1>1, <1>3, <2>1 DEF Load, Get
<1>4. ASSUME NEW touched, Unsteady(touched), UNCHANGED <<searchVars, overlap>>,
             (InPieces \cup torn)' \subseteq InPieces \cup torn \cup touched
      PROVE  SearchInv'
  <2>1. \A s \in Search : steady'[s] =
          {m \in steady[s] :
             /\ m[1] \notin touched /\ record'[m[1]] # None
             /\ Matches(record'[m[1]], query[s]) /\ m[2] \in Terms(record'[m[1]])}
    BY <1>4 DEF Unsteady, searchVars
  <2>2. steady' \in [Search -> SUBSET (Agent \X TermSet)]
    BY <1>4 DEF Unsteady, SearchInv
  <2>3. ASSUME NEW s \in Search, spc[s] = "reading"
        PROVE  /\ steady'[s] \subseteq Matching(query[s])'
               /\ \A m \in steady'[s] : m[1] \notin (InPieces \cup torn)'
    <3>1. Searching(s) /\ query'[s] = query[s]
      BY <1>4, <2>3 DEF SearchInv, searchVars
    <3> QED BY <1>4, <2>1, <3>1 DEF Searching, Matching
  <2> QED BY <1>4, <2>1, <2>2, <2>3, Disturbed
<1>5. ASSUME Exec(w) \/ AddTerms(w) \/ RunInMemory(w) PROVE SearchInv'
  <2>1. /\ pc' = [pc EXCEPT ![w] = "done"] /\ UNCHANGED <<job, searchVars, overlap>>
        /\ Unsteady({}) /\ torn' \subseteq torn
    BY <1>5 DEF Exec, AddTerms, RunInMemory
  <2>2. (InPieces \cup torn)' \subseteq InPieces \cup torn \cup {}
    BY <2>1 DEF InPieces, Base
  <2> QED BY <1>4, <2>1, <2>2
<1>6. ASSUME RemoveTerms(w) \/ SetRecord(w) PROVE SearchInv'
  <2>1. /\ pc' = [pc EXCEPT ![w] = pc'[w]] /\ UNCHANGED <<job, searchVars, overlap>>
        /\ Unsteady({job[w].agent}) /\ torn' \subseteq torn
    BY <1>6 DEF RemoveTerms, SetRecord, Base
  <2>2. (InPieces \cup torn)' \subseteq InPieces \cup torn \cup {job[w].agent}
    BY <2>1 DEF InPieces, Base
  <2> QED BY <1>4, <2>1, <2>2
<1>7. ASSUME BreakOff(w) PROVE SearchInv'
  <2>1. /\ pc' = [pc EXCEPT ![w] = "done"] /\ UNCHANGED <<record, job, searchVars, overlap>>
        /\ \/ torn' = torn \cup {job[w].agent} /\ Unsteady({job[w].agent})
           \/ UNCHANGED <<torn, steady>>
    BY <1>7, BrokenOff
  <2>2. InPieces' \subseteq InPieces
    BY <2>1 DEF InPieces, Base
  <2> QED BY <1>1, <1>4, <2>1, <2>2
<1> QED BY <1>2, <1>3, <1>5, <1>6, <1>7 DEF Write

\* What a read leaves still holds the agents that are to be found.
LEMMA NarrowedKeeps ==
  ASSUME Base, IInv, NEW s \in Search, Searching(s), todo[s] # <<>>,
         \A m \in steady[s] : Listed(m[1]),
         found[s] \subseteq Agent,
         NEW m \in steady[s]
  PROVE  \/ m[1] \in Narrowed(found[s], Head(todo[s]), query[s])
         \/ Excused(m[1], query[s])
         \/ /\ Tail(todo[s]) # <<>> /\ Head(Tail(todo[s])) = "orPublic"
            /\ m[2] = <<"public", TRUE>>
<1> DEFINE part == Head(todo[s])
           q == query[s]
<1>1. /\ q \in Query /\ part \in Allowed(q) /\ m \in Matching(q) /\ Listed(m[1])
      /\ Kept(s, m)
  BY HeadTailProperties DEF Searching
<1>2. CASE part = "orPublic"
  <2>1. m[1] \in Hits(part, q) \/ Excused(m[1], q) \/ m[2] = <<"tenant", q.tenant>>
    BY <1>1, <1>2, HitIfMatching
  <2>2. m[2] = <<"tenant", q.tenant>> => ~Awaited(s, m)
    BY DEF Awaited
  <2> QED BY <1>1, <1>2, <2>1, <2>2 DEF Narrowed, Kept
<1>3. CASE part # "orPublic"
  <2>1. m[1] \in found[s] \/ Excused(m[1], q)
    BY <1>1, <1>3 DEF Kept, Awaited
  <2>2. \/ m[1] \in Hits(part, q) \/ Excused(m[1], q)
        \/ part = "tenant" /\ m[2] = <<"public", TRUE>>
    BY <1>1, <1>3, HitIfMatching
  <2>3. part = "tenant" => Tail(todo[s]) # <<>> /\ Head(Tail(todo[s])) = "orPublic"
    <3>1. todo[s] \in Seq(Allowed(q)) /\ Len(todo[s]) \in Nat /\ Len(todo[s]) >= 1
      BY DEF Searching
    <3>2. part = "tenant" => 2 \in 1 .. Len(todo[s]) /\ todo[s][2] = "orPublic"
      BY <3>1 DEF Searching, Paired
    <3>3. /\ Tail(todo[s]) \in Seq(Allowed(q)) /\ Len(Tail(todo[s])) = Len(todo[s]) - 1
          /\ \A i \in 1 .. Len(Tail(todo[s])) : Tail(todo[s])[i] = todo[s][i + 1]
      BY <3>1, HeadTailProperties
    <3> HIDE DEF part
    <3>4. part = "tenant" => Len(Tail(todo[s])) >= 1 /\ Tail(todo[s])[1] = "orPublic"
      BY <3>1, <3>2, <3>3
    <3> QED BY <3>3, <3>4, HeadIsFirst
  <2> QED BY <1>3, <2>1, <2>2, <2>3 DEF Narrowed
<1> QED BY <1>2, <1>3

LEMMA SearchStep ==
  ASSUME Base, IInv, Complete, SearchInv, NEW s \in Search, List(s)
  PROVE  SearchInv'
<1>1. UNCHANGED <<client, record, index, writerVars, overlap, gone, torn>>
  BY BaseSearch
<1>2. InPieces' = InPieces /\ \A q : Matching(q)' = Matching(q)
  BY <1>1 DEF InPieces, Matching, writerVars
<1>3. ASSUME NEW b \in Agent \ (InPieces \cup torn) PROVE Listed(b)
  BY <1>3 DEF Complete, Owes, InPieces
<1>4. \A q : Matching(q) \subseteq Agent \X TermSet
  BY TermsTyped DEF Matching, TermSet, Base
<1>5. ASSUME NEW t \in Search, Searching(t),
             query'[t] = query[t], todo'[t] = todo[t], found'[t] = found[t],
             steady'[t] = steady[t]
      PROVE  Searching(t)'
  BY <1>1, <1>2, <1>5 DEF Searching, Kept, Awaited, Excused
<1>6. ASSUME NEW q \in Query, StartSearch(s, q) PROVE SearchInv'
  <2>1. Parts(q) \in Seq(Allowed(q)) /\ Paired(Parts(q))
    BY PartsTyped
  <2>2. /\ spc' = [spc EXCEPT ![s] = "reading"]
        /\ query' = [query EXCEPT ![s] = q]
        /\ todo' = [todo EXCEPT ![s] = Parts(q)]
        /\ found' = [found EXCEPT ![s] = Agent]
        /\ steady' = [steady EXCEPT ![s] = {m \in Matching(q) : m[1] \notin InPieces \cup torn}]
        /\ UNCHANGED result
    BY <1>6 DEF StartSearch
  <2>3. /\ query'[s] = q /\ todo'[s] = Parts(q) /\ found'[s] = Agent
        /\ steady'[s] = {m \in Matching(q) : m[1] \notin InPieces \cup torn}
    BY <2>2 DEF SearchInv
  <2>4. Searching(s)'
    <3>1. Matching(q) \subseteq Agent \X TermSet
      BY <1>4
    <3> QED BY <1>1, <1>2, <2>1, <2>3, <3>1 DEF Searching, Kept
  <2>5. \A t \in Search \ {s} : Searching(t) => Searching(t)'
    BY <1>5, <2>2 DEF SearchInv
  <2>6. SearchFindsSteady'
    BY <1>1, <2>2 DEF SearchInv, SearchFindsSteady
  <2>7. steady' \in [Search -> SUBSET (Agent \X TermSet)]
    BY <1>4, <2>2 DEF SearchInv
  <2> QED BY <2>2, <2>4, <2>5, <2>6, <2>7 DEF SearchInv
<1>7. ASSUME ReadIndex(s) PROVE SearchInv'
  <2>1. Searching(s) /\ todo[s] # <<>> /\ found[s] \subseteq Agent
    BY <1>7 DEF ReadIndex, SearchInv
  <2>2. /\ found' = [found EXCEPT ![s] = Narrowed(found[s], Head(todo[s]), query[s])]
        /\ todo' = [todo EXCEPT ![s] = Tail(todo[s])]
        /\ UNCHANGED <<spc, query, result, steady>>
    BY <1>7 DEF ReadIndex
  <2>3. Head(todo[s]) \in Allowed(query[s]) /\ Tail(todo[s]) \in Seq(Allowed(query[s]))
    BY <2>1, HeadTailProperties DEF Searching
  <2>4. Paired(Tail(todo[s]))
    BY <2>1 DEF Searching, Paired
  <2>5. Narrowed(found[s], Head(todo[s]), query[s]) \subseteq Agent
    <3>1. index[<<"public", TRUE>>] \subseteq Agent
      BY PublicIsTerm DEF Base
    <3> QED BY <2>1, <3>1 DEF Narrowed, Hits
  <2>6. \A m \in steady[s] : Listed(m[1])
    BY <1>3, <2>1 DEF Searching, Matching
  <2>7. found'[s] = Narrowed(found[s], Head(todo[s]), query[s]) /\ todo'[s] = Tail(todo[s])
    BY <2>2 DEF SearchInv
  <2>8. \A m \in steady[s] : Kept(s, m)'
    BY <1>1, <2>1, <2>2, <2>6, <2>7, NarrowedKeeps DEF Kept, Awaited, Excused
  <2>9. Searching(s)'
    BY <1>1, <1>2, <2>1, <2>2, <2>3, <2>4, <2>7, <2>8 DEF Searching
  <2>10. \A t \in Search \ {s} : Searching(t) => Searching(t)'
    BY <1>5, <2>2 DEF SearchInv
  <2>11. SearchFindsSteady'
    BY <1>1, <2>2 DEF SearchInv, SearchFindsSteady
  <2> QED BY <2>2, <2>5, <2>9, <2>10, <2>11 DEF SearchInv
<1>8. ASSUME NEW ids, NEW q, ids \subseteq Agent, Answer(s, ids, q),
             \A m \in steady'[s] :
               /\ m[1] \in ids \/ Excused(m[1], query'[s])
               /\ record[m[1]] # None /\ MatchesVisibility(record[m[1]], q),
             query' \in [Search -> Query \cup {None}],
             steady' \in [Search -> SUBSET (Agent \X TermSet)],
             UNCHANGED <<todo, found>>,
             \A t \in Search \ {s} : query'[t] = query[t] /\ steady'[t] = steady[t]
      PROVE  SearchInv'
  <2>1. spc'[s] = "done" /\ result'[s] = Loaded(ids, q)
    BY <1>8 DEF Answer, SearchInv
  <2>2. \A t \in Search \ {s} : spc'[t] = spc[t] /\ result'[t] = result[t]
    BY <1>8 DEF Answer, SearchInv
  <2>3. \A t \in Search \ {s} : Searching(t) => Searching(t)'
    BY <1>5, <1>8
  <2>4. \A m \in steady'[s] :
          (\E hit \in result'[s] : hit.agent = m[1]) \/ (query'[s].mcp = "no" /\ m[1] \in overlap)
    <3>1. SUFFICES ASSUME NEW m \in steady'[s], m[1] \in ids
                   PROVE  \E hit \in result'[s] : hit.agent = m[1]
      BY <1>8 DEF Excused
    <3>2. [agent |-> m[1], record |-> record[m[1]]] \in Loaded(ids, q)
      BY <1>8, <3>1 DEF Loaded
    <3> QED BY <2>1, <3>2
  <2>5. SearchFindsSteady'
    BY <1>1, <1>8, <2>2, <2>4 DEF SearchInv, SearchFindsSteady
  <2> QED BY <1>8, <2>1, <2>2, <2>3, <2>5 DEF SearchInv, Answer
<1>9. ASSUME LoadAgents(s) PROVE SearchInv'
  <2>1. Searching(s) /\ todo[s] = <<>>
    BY <1>9 DEF LoadAgents, SearchInv
  <2>2. /\ Answer(s, found[s], query[s]) /\ found[s] \subseteq Agent
        /\ UNCHANGED <<query, steady, found, todo>>
    BY <1>9 DEF LoadAgents, SearchInv
  <2>3. \A m \in steady[s] :
          /\ m[1] \in found[s] \/ Excused(m[1], query[s])
          /\ record[m[1]] # None /\ MatchesVisibility(record[m[1]], query[s])
    BY <2>1 DEF Searching, Kept, Awaited, Matching, Matches
  <2>4. /\ query' \in [Search -> Query \cup {None}]
        /\ steady' \in [Search -> SUBSET (Agent \X TermSet)]
    BY <2>2 DEF SearchInv
  <2> QED BY <1>8, <2>2, <2>3, <2>4
<1>10. ASSUME NEW q \in Query, ListInMemory(s, q) PROVE SearchInv'
  <2> DEFINE ids == Candidates(q)
  <2>1. \A i \in DOMAIN Parts(q) : Parts(q)[i] \in Allowed(q)
    BY PartsTyped
  <2>2. InPieces = {}
    BY <1>10 DEF ListInMemory, InPieces, Complete
  <2>3. torn = {}
    BY <1>10 DEF ListInMemory, Complete
  <2>4. ASSUME NEW m \in Matching(q) PROVE m[1] \in ids \/ Excused(m[1], q)
    <3>1. m[1] \in Agent /\ Listed(m[1])
      BY <1>3, <2>2, <2>3, <2>4 DEF Matching
    <3>2. SUFFICES ASSUME ~Excused(m[1], q), NEW i \in DOMAIN Parts(q)
                   PROVE  LET part == Parts(q)[i]
                              visible == {"tenant", "orPublic"}
                          IN \/ m[1] \in Hits(part, q)
                             \/ part \in visible /\ \E p \in visible : m[1] \in Hits(p, q)
      BY <3>1 DEF Candidates
    <3> QED BY <2>1, <2>4, <3>1, <3>2, HitIfMatching
  <2>5. query' = [query EXCEPT ![s] = q] /\ steady' = [steady EXCEPT ![s] = Matching(q)]
        /\ Answer(s, ids, q) /\ UNCHANGED <<todo, found>>
    BY <1>10 DEF ListInMemory
  <2>6. Matching(q) \subseteq Agent \X TermSet /\ ids \subseteq Agent
        /\ \A m \in Matching(q) : record[m[1]] # None /\ MatchesVisibility(record[m[1]], q)
    BY <1>4 DEF Matching, Matches, Candidates
  <2>7. query'[s] = q /\ steady'[s] = Matching(q)
    BY <2>5 DEF SearchInv
  <2> HIDE DEF ids
  <2>8. /\ query' \in [Search -> Query \cup {None}]
        /\ steady' \in [Search -> SUBSET (Agent \X TermSet)]
        /\ \A t \in Search \ {s} : query'[t] = query[t] /\ steady'[t] = steady[t]
    BY <2>5, <2>6 DEF SearchInv
  <2>9. \A m \in steady'[s] :
          /\ m[1] \in ids \/ Excused(m[1], query'[s])
          /\ record[m[1]] # None /\ MatchesVisibility(record[m[1]], q)
    BY <2>4, <2>6, <2>7
  <2> QED BY <1>8, <2>5, <2>6, <2>8, <2>9
<1> QED BY <1>6, <1>7, <1>9, <1>10 DEF List

LEMMA SearchNext == Base /\ IInv /\ Complete /\ SearchInv /\ [Next]_vars => SearchInv'
<1> SUFFICES ASSUME Base, IInv, Complete, SearchInv, [Next]_vars PROVE SearchInv' OBVIOUS
<1>1. CASE UNCHANGED vars
  <2>1. UNCHANGED <<record, pc, job, searchVars, steady, overlap, torn>>
    BY <1>1 DEF vars, writerVars
  <2>2. InPieces' = InPieces /\ \A s \in Search : Matching(query[s])' = Matching(query[s])
    BY <2>1 DEF InPieces, Matching, searchVars
  <2> QED BY <2>1, <2>2, Disturbed DEF SearchInv, Searching
<1> QED BY <1>1, SearchWrite, SearchStep DEF Next

\* A search answers with every agent that matched it all along by one same term,
\* whatever registrations, polls and deletions go on and wherever they break off, but
\* for the exceptions the property names.
THEOREM SearchesMissNobody == Spec => []SearchFindsSteady
<1>1. SearchInv => SearchFindsSteady
  BY DEF SearchInv
<1> QED BY <1>1, SearchInit, SearchNext, CompleteInit, CompleteNext, BaseAlways, IInvAlways, PTL
        DEF Spec

-----------------------------------------------------------------------------
(***************************************************************************)
(* Types: what the searches work on, next to what Base says of writers.    *)
(***************************************************************************)
SearchesTyped ==
  /\ client \in Clients
  /\ spc \in [Search -> {"idle", "reading", "done"}]
  /\ query \in [Search -> Query \cup {None}]
  /\ found \in [Search -> SUBSET Agent]
  /\ todo \in [Search -> Seq(Part)]
  /\ result \in [Search -> SUBSET [agent : Agent, record : AllRecords]]
  /\ steady \in [Search -> SUBSET (Agent \X TermSet)]

LEMMA PartsNamed ==
  ASSUME NEW q \in Query
  PROVE  Parts(q) \in Seq(Part)
<1>1. Parts(q) \in Seq(Allowed(q))
  BY PartsTyped
<1>2. Allowed(q) \subseteq Part
  BY DEF Allowed
<1> QED BY <1>1, <1>2

LEMMA LoadedTyped ==
  ASSUME Base, NEW ids \in SUBSET Agent, NEW q
  PROVE  Loaded(ids, q) \in SUBSET [agent : Agent, record : AllRecords]
BY DEF Base, Loaded

LEMMA SearchesTypedNext == Base /\ SearchesTyped /\ [Next]_vars => SearchesTyped'
<1> SUFFICES ASSUME Base, SearchesTyped, [Next]_vars PROVE SearchesTyped' OBVIOUS
<1> USE DEF SearchesTyped
<1>0. \A q : Matching(q) \subseteq Agent \X TermSet
  BY TermsTyped DEF Matching, TermSet, Base
<1>1. ASSUME NEW w \in Writer, Write(w) PROVE SearchesTyped'
  <2>1. UNCHANGED <<client, searchVars>>
    BY <1>1 DEF Write, Call, Load, Get, Exec, RemoveTerms, SetRecord, AddTerms, RunInMemory,
                BreakOff
  <2>2. UNCHANGED steady \/ \E touched : Unsteady(touched)
    BY <1>1 DEF Write, Call, Load, Get, Exec, RemoveTerms, SetRecord, AddTerms, RunInMemory,
                BreakOff
  <2>3. steady' \in [Search -> SUBSET (Agent \X TermSet)]
    BY <2>2 DEF Unsteady
  <2> QED BY <2>1, <2>3 DEF searchVars
<1>2. ASSUME NEW s \in Search, NEW q \in Query, StartSearch(s, q) PROVE SearchesTyped'
  <2>1. {m \in Matching(q) : m[1] \notin InPieces \cup torn} \in SUBSET (Agent \X TermSet)
    BY <1>0
  <2>2. Parts(q) \in Seq(Part)
    BY PartsNamed
  <2>3. /\ spc' = [spc EXCEPT ![s] = "reading"]
        /\ query' = [query EXCEPT ![s] = q]
        /\ todo' = [todo EXCEPT ![s] = Parts(q)]
        /\ found' = [found EXCEPT ![s] = Agent]
        /\ steady' = [steady EXCEPT ![s] = {m \in Matching(q) : m[1] \notin InPieces \cup torn}]
        /\ UNCHANGED <<client, result>>
    BY <1>2 DEF StartSearch
  <2> QED BY <2>1, <2>2, <2>3
<1>3. ASSUME NEW s \in Search, NEW q \in Query, ListInMemory(s, q) PROVE SearchesTyped'
  <2>1. Matching(q) \in SUBSET (Agent \X TermSet) /\ Candidates(q) \in SUBSET Agent
    BY <1>0 DEF Candidates
  <2> QED BY <1>3, <2>1, LoadedTyped DEF ListInMemory, Answer
<1>4. ASSUME NEW s \in Search, ReadIndex(s) PROVE SearchesTyped'
  <2>1. Tail(todo[s]) \in Seq(Part)
    BY <1>4, HeadTailProperties DEF ReadIndex
  <2>2. Narrowed(found[s], Head(todo[s]), query[s]) \in SUBSET Agent
    <3>1. index[<<"public", TRUE>>] \subseteq Agent
      BY PublicIsTerm DEF Base
    <3> QED BY <3>1 DEF Narrowed, Hits
  <2> QED BY <1>4, <2>1, <2>2 DEF ReadIndex
<1>5. ASSUME NEW s \in Search, LoadAgents(s) PROVE SearchesTyped'
  BY <1>5, LoadedTyped DEF LoadAgents, Answer
<1>6. CASE UNCHANGED vars
  BY <1>6 DEF vars, searchVars
<1> QED BY <1>1, <1>2, <1>3, <1>4, <1>5, <1>6 DEF Next, List

\* Every variable keeps its type: records, index entries, writers and searches,
\* over each kind of client.
THEOREM TypeCorrect == Spec => []TypeOK
<1>1. Init => SearchesTyped
  BY DEF Init, SearchesTyped
<1>2. Base /\ SearchesTyped => TypeOK
  BY DEF Base, SearchesTyped, Part, TypeOK
<1> QED BY <1>1, <1>2, SearchesTypedNext, BaseAlways, PTL DEF Spec
=============================================================================
