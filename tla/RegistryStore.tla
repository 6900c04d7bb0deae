---------------------------- MODULE RegistryStore ----------------------------
(***************************************************************************)
(* The agent storages of packages/registry, InMemoryStorage and            *)
(* RedisStorage with a client that has set commands:                       *)
(*   "memory"  every method runs without an await,                         *)
(*   "multi"   a mutation reads the record, and then replaces it and its   *)
(*             index entries in one MULTI/EXEC,                            *)
(*   "sets"    a client without multi(): every command is sent by itself.  *)
(* Writers are the calls of upsert, updateStatus and delete that the       *)
(* routes and the health checks make; a search is a call of list.  A step  *)
(* is one command, or the part of a mutation that is one command's worth.  *)
(***************************************************************************)
EXTENDS Naturals, Sequences

CONSTANTS
  Agent,    \* agent identifiers
  Tenant,
  Records,  \* what may be registered: [status, tenant, public, mcp]
  Query,    \* what may be searched: [tenant, public, status, mcp]
  Writer,   \* calls that write
  Search,   \* calls of list
  Clients,  \* the kinds of client considered
  None

Status == {"unknown", "healthy", "unhealthy"}

AllRecords ==
  [status : Status, tenant : Tenant \cup {None}, public : BOOLEAN, mcp : BOOLEAN]

ASSUME RegistryStoreAssumption ==
  /\ Records \subseteq AllRecords
  /\ Query \subseteq [tenant : Tenant \cup {None}, public : BOOLEAN,
                      status : Status \cup {None}, mcp : {"any", "yes", "no"}]
  /\ Clients \subseteq {"memory", "multi", "sets"}
  /\ None \notin Agent \cup Tenant \cup Records

VARIABLES
  client,  \* the client the storage was given
  record,  \* record[a]: the stored record of agent a, or None
  index,   \* index[term]: the identifiers in the index of that term
  pc,      \* pc[w]: where writer w is
  job,     \* job[w]: what w was called for
  copy,    \* copy[w]: the record w will store
  prev,    \* prev[w]: the record w read before it writes
  spc,     \* spc[s]: where search s is
  query,   \* query[s]: what s looks for
  todo,    \* todo[s]: the indexes s has still to read
  found,   \* found[s]: the identifiers in all those it read
  result,  \* result[s]: the agents s answered with
  steady,  \* history: <<a, term>>, if a matched query[s] by that term since s began
  overlap, \* history: the agents of which two writes were once under way at a time
  gone,    \* history: the agents deleted with no write of them under way, not put since
  torn     \* history: the agents a mutation that broke off left entries of to be made

writerVars == <<pc, job, copy, prev>>
searchVars == <<spc, query, todo, found, result>>
vars == <<client, record, index, writerVars, searchVars, steady, overlap, gone, torn>>

-----------------------------------------------------------------------------
\* buildAgentIndexTerms; "agent-ids" is kept with the terms.
Terms(r) ==
  {<<"agent-ids", TRUE>>, <<"status", r.status>>}
  \cup (IF r.tenant = None THEN {} ELSE {<<"tenant", r.tenant>>})
  \cup (IF r.public THEN {<<"public", TRUE>>} ELSE {})
  \cup (IF r.mcp THEN {<<"mcp", TRUE>>} ELSE {})

TermSet == UNION {Terms(r) : r \in AllRecords}
TermsOf(r) == IF r = None THEN {} ELSE Terms(r)

\* matchesVisibility; a query by tenant always includes the public agents.
MatchesVisibility(r, q) ==
  IF q.public THEN r.public
  ELSE q.tenant = None \/ r.tenant = q.tenant \/ r.public

Matches(r, q) ==
  /\ MatchesVisibility(r, q)
  /\ q.status # None => r.status = q.status
  /\ q.mcp = "yes" => r.mcp
  /\ q.mcp = "no" => ~r.mcp

\* The terms of which one makes an agent visible to q.
Ways(q) ==
  IF q.public THEN {<<"public", TRUE>>}
  ELSE IF q.tenant = None THEN {<<"agent-ids", TRUE>>}
  ELSE {<<"tenant", q.tenant>>, <<"public", TRUE>>}

Matching(q) ==
  {m \in Agent \X Ways(q) :
     /\ record[m[1]] # None /\ Matches(record[m[1]], q)
     /\ m[2] \in Terms(record[m[1]])}

\* Redis holds what earlier processes have registered; the memory is empty.
Init ==
  /\ client \in Clients
  /\ record \in [Agent -> Records \cup {None}]
  /\ client = "memory" => \A a \in Agent : record[a] = None
  /\ index = [term \in TermSet |-> {a \in Agent : term \in TermsOf(record[a])}]
  /\ pc = [w \in Writer |-> "idle"]
  /\ job = [w \in Writer |-> None]
  /\ copy = [w \in Writer |-> None]
  /\ prev = [w \in Writer |-> None]
  /\ spc = [s \in Search |-> "idle"]
  /\ query = [s \in Search |-> None]
  /\ todo = [s \in Search |-> <<>>]
  /\ found = [s \in Search |-> {}]
  /\ result = [s \in Search |-> {}]
  /\ steady = [s \in Search |-> {}]
  /\ overlap = {}
  /\ gone = {}
  /\ torn = {}

-----------------------------------------------------------------------------
\* Mutant: the new terms are added before the old ones are removed.
AddThenRemove(a, old, new) ==
  [term \in TermSet |->
     IF term \in TermsOf(old) THEN index[term] \ {a}
     ELSE IF term \in TermsOf(new) THEN index[term] \cup {a} ELSE index[term]]
\* Mutant: the old terms are left in the index.
AddOnly(a, old, new) ==
  [term \in TermSet |-> IF term \in TermsOf(new) THEN index[term] \cup {a} ELSE index[term]]
\* Agent a is taken out of the terms of one record and put under those of another.
Reindexed(a, old, new) ==
  [term \in TermSet |->
     IF term \in TermsOf(new) THEN index[term] \cup {a}
     ELSE IF term \in TermsOf(old) THEN index[term] \ {a} ELSE index[term]]

\* Those agents stay that match by the same term and whose entries are not touched.
Unsteady(touched) ==
  steady' = [s \in Search |->
    {m \in steady[s] :
       /\ m[1] \notin touched /\ record'[m[1]] # None
       /\ Matches(record'[m[1]], query[s]) /\ m[2] \in Terms(record'[m[1]])}]

Job(kind, agent, arg) == [kind |-> kind, agent |-> agent, arg |-> arg]

UnderWay(a) == {w \in Writer : pc[w] \notin {"idle", "done"} /\ job[w].agent = a}

\* upsert (a registration or an import), updateStatus, a heartbeat, delete.
Jobs ==
  {Job("put", a, r) : a \in Agent, r \in Records}
  \cup {Job("update", a, st) : a \in Agent, st \in {"healthy", "unhealthy"}}
  \cup {Job("beat", a, "healthy") : a \in Agent}
  \cup {Job("delete", a, None) : a \in Agent}

Call(w, j) ==
  /\ pc[w] = "idle"
  /\ pc' = [pc EXCEPT ![w] = IF j.kind \in {"update", "beat"} THEN "load" ELSE "get"]
  /\ job' = [job EXCEPT ![w] = j]
  /\ copy' = [copy EXCEPT ![w] = IF j.kind = "put" THEN j.arg ELSE None]
  /\ overlap' = IF UnderWay(j.agent) = {} THEN overlap ELSE overlap \cup {j.agent}
  /\ gone' = IF j.kind = "put" THEN gone \ {j.agent} ELSE gone
  /\ UNCHANGED <<client, record, index, prev, searchVars, steady, torn>>

\* updateStatus, and the heartbeat route: the record is read and changed.
Load(w) ==
  LET current == record[job[w].agent]
  IN /\ pc[w] = "load"
     /\ client # "memory" \/ job[w].kind = "beat"
     /\ pc' = [pc EXCEPT ![w] = IF current = None THEN "done" ELSE "get"]
     /\ copy' = [copy EXCEPT ![w] =
                   IF current = None THEN None ELSE [current EXCEPT !.status = job[w].arg]]
     /\ UNCHANGED <<client, record, index, job, prev, searchVars, steady, overlap, gone, torn>>

\* The previous record is read; delete returns false if there is none.
Get(w) ==
  LET current == record[job[w].agent]
  IN /\ pc[w] = "get"
     /\ client # "memory"
     /\ pc' = [pc EXCEPT ![w] = IF current = None /\ job[w].kind = "delete" THEN "done" ELSE "write"]
     /\ prev' = [prev EXCEPT ![w] = current]
     /\ UNCHANGED <<client, record, index, job, copy, searchVars, steady, overlap, gone, torn>>

Forgotten(w) ==
  IF job[w].kind = "delete" /\ UnderWay(job[w].agent) = {w}
  THEN gone \cup {job[w].agent} ELSE gone

\* Mutant: delete() does not queue the DEL of the record.
ExecForgetsDel(w) ==
  LET a == job[w].agent
  IN /\ pc[w] = "write"
     /\ client = "multi"
     /\ pc' = [pc EXCEPT ![w] = "done"]
     /\ record' = IF copy[w] = None THEN record ELSE [record EXCEPT ![a] = copy[w]]
     /\ index' = Reindexed(a, prev[w], copy[w])
     /\ gone' = Forgotten(w)
     /\ Unsteady({})
     /\ UNCHANGED <<client, job, copy, prev, searchVars, overlap, torn>>

\* EXEC: the old terms, the record and the new terms in one step.
Exec(w) ==
  LET a == job[w].agent
  IN /\ pc[w] = "write"
     /\ client = "multi"
     /\ pc' = [pc EXCEPT ![w] = "done"]
     /\ record' = [record EXCEPT ![a] = copy[w]]
     /\ index' = Reindexed(a, prev[w], copy[w])
     /\ gone' = Forgotten(w)
     /\ Unsteady({})
     /\ UNCHANGED <<client, job, copy, prev, searchVars, overlap, torn>>

\* Without multi(): SREM of the old terms, ...
RemoveTerms(w) ==
  /\ pc[w] = "write"
  /\ client = "sets"
  /\ pc' = [pc EXCEPT ![w] = "set"]
  /\ index' = Reindexed(job[w].agent, prev[w], None)
  /\ UNCHANGED record
  /\ Unsteady({job[w].agent})
  /\ UNCHANGED <<client, job, copy, prev, searchVars, overlap, gone, torn>>

\* ... SET or DEL of the record, ...
SetRecord(w) ==
  /\ pc[w] = "set"
  /\ pc' = [pc EXCEPT ![w] = IF job[w].kind = "delete" THEN "done" ELSE "add"]
  /\ record' = [record EXCEPT ![job[w].agent] = copy[w]]
  /\ gone' = Forgotten(w)
  /\ torn' = IF job[w].kind = "delete" THEN torn \ {job[w].agent} ELSE torn
  /\ Unsteady({job[w].agent})
  /\ UNCHANGED <<client, index, job, copy, prev, searchVars, overlap>>

\* ... SADD of the new terms.
AddTerms(w) ==
  /\ pc[w] = "add"
  /\ pc' = [pc EXCEPT ![w] = "done"]
  /\ index' = Reindexed(job[w].agent, None, copy[w])
  /\ UNCHANGED record
  /\ torn' = IF copy[w] = record[job[w].agent] THEN torn \ {job[w].agent} ELSE torn
  /\ Unsteady({})
  /\ UNCHANGED <<client, job, copy, prev, searchVars, overlap, gone>>

\* The terms of the first n commands that add or remove entries, in their order.
First(n) ==
  LET order == <<"agent-ids", "status", "tenant", "public", "mcp">>
  IN {term \in TermSet : \E i \in 1 .. n : term[1] = order[i]}

\* The entries that may be left when only some of the SREM, or of the SADD, are sent.
Partly(w) ==
  CASE client = "sets" /\ pc[w] = "write" ->
         {[term \in TermSet |->
             IF term \in First(n) \cap TermsOf(prev[w]) THEN index[term] \ {job[w].agent}
             ELSE index[term]] : n \in 0 .. 5}
    [] pc[w] = "add" ->
         {[term \in TermSet |->
             IF term \in First(n) \cap TermsOf(copy[w]) THEN index[term] \cup {job[w].agent}
             ELSE index[term]] : n \in 0 .. 5}
    [] OTHER -> {index}

\* A command fails, or the process dies: what was sent stays, and no more is sent.
BreakOff(w) ==
  /\ pc[w] \notin {"idle", "done"}
  /\ client # "memory"
  /\ pc' = [pc EXCEPT ![w] = "done"]
  /\ index' \in Partly(w)
  /\ UNCHANGED record
  /\ IF client = "sets" /\ pc[w] \in {"write", "set", "add"}
     THEN torn' = torn \cup {job[w].agent} /\ Unsteady({job[w].agent})
     ELSE UNCHANGED <<torn, steady>>
  /\ UNCHANGED <<client, job, copy, prev, searchVars, overlap, gone>>

\* InMemoryStorage: the method runs to its end.  updateStatus and delete of an
\* agent that is not there do nothing; the heartbeat route has read the agent in
\* a call of its own.
RunInMemory(w) ==
  LET a == job[w].agent
      new == CASE job[w].kind \in {"put", "beat"} -> copy[w]
               [] job[w].kind = "delete" \/ record[a] = None -> None
               [] OTHER -> [record[a] EXCEPT !.status = job[w].arg]
  IN /\ client = "memory"
     /\ pc[w] = "get" \/ (pc[w] = "load" /\ job[w].kind = "update")
     /\ pc' = [pc EXCEPT ![w] = "done"]
     /\ record' = [record EXCEPT ![a] = new]
     /\ index' = Reindexed(a, record[a], new)
     /\ gone' = IF record[a] = None THEN gone ELSE Forgotten(w)
     /\ Unsteady({})
     /\ UNCHANGED <<client, job, copy, prev, searchVars, overlap, torn>>

-----------------------------------------------------------------------------
\* The indexes findCandidateIds reads, one after another.
Parts(q) ==
  LET chosen == (IF q.public THEN <<"public">>
                 ELSE IF q.tenant # None THEN <<"tenant", "orPublic">> ELSE <<>>)
             \o (IF q.status # None THEN <<"status">> ELSE <<>>)
             \o (CASE q.mcp = "yes" -> <<"mcp">>
                   [] q.mcp = "no" -> <<"all", "noMcp">>
                   [] OTHER -> <<>>)
  IN IF chosen = <<>> THEN <<"all">> ELSE chosen

\* The identifiers a read gives.
Hits(part, q) ==
  CASE part = "all" -> index[<<"agent-ids", TRUE>>]
    [] part = "status" -> index[<<"status", q.status>>]
    [] part = "mcp" -> index[<<"mcp", TRUE>>]
    [] part = "noMcp" -> Agent \ index[<<"mcp", TRUE>>]
    [] part = "tenant" -> index[<<"tenant", q.tenant>>]
    [] part \in {"public", "orPublic"} -> index[<<"public", TRUE>>]

\* What a read leaves of the candidates ids.  The tenant's index is the first that
\* is read, and the public one is added to it.
Narrowed(ids, part, q) ==
  IF part = "orPublic" THEN ids \cup Hits(part, q) ELSE ids \cap Hits(part, q)

InPieces == {job[w].agent : w \in {v \in Writer : pc[v] \in {"set", "add"}}}

\* Mutant: the agents that were deleted meanwhile are not dropped.
LoadedWithNull(ids, q) ==
  {[agent |-> a, record |-> record[a]] :
     a \in {b \in ids : record[b] # None => MatchesVisibility(record[b], q)}}
Loaded(ids, q) ==
  {[agent |-> a, record |-> record[a]] :
     a \in {b \in ids : record[b] # None /\ MatchesVisibility(record[b], q)}}

Answer(s, ids, q) ==
  /\ spc' = [spc EXCEPT ![s] = "done"]
  /\ result' = [result EXCEPT ![s] = Loaded(ids, q)]

StartSearch(s, q) ==
  /\ spc[s] = "idle"
  /\ client # "memory"
  /\ spc' = [spc EXCEPT ![s] = "reading"]
  /\ query' = [query EXCEPT ![s] = q]
  /\ todo' = [todo EXCEPT ![s] = Parts(q)]
  /\ found' = [found EXCEPT ![s] = Agent]
  /\ steady' = [steady EXCEPT ![s] = {m \in Matching(q) : m[1] \notin InPieces \cup torn}]
  /\ UNCHANGED <<client, record, index, writerVars, result, overlap, gone, torn>>

ReadIndex(s) ==
  /\ spc[s] = "reading"
  /\ todo[s] # <<>>
  /\ found' = [found EXCEPT ![s] = Narrowed(@, Head(todo[s]), query[s])]
  /\ todo' = [todo EXCEPT ![s] = Tail(@)]
  /\ UNCHANGED <<client, record, index, writerVars, spc, query, result, steady, overlap, gone, torn>>

\* The records of the candidates are read, and those not visible are dropped.
LoadAgents(s) ==
  /\ spc[s] = "reading"
  /\ todo[s] = <<>>
  /\ Answer(s, found[s], query[s])
  /\ UNCHANGED <<client, record, index, writerVars, query, found, todo, steady, overlap, gone,
                 torn>>

\* What the same reads leave when nothing comes between them.
Candidates(q) ==
  LET parts == Parts(q)
      visible == {"tenant", "orPublic"}
  IN {a \in Agent : \A i \in DOMAIN parts :
        \/ a \in Hits(parts[i], q)
        \/ parts[i] \in visible /\ \E part \in visible : a \in Hits(part, q)}

ListInMemory(s, q) ==
  /\ spc[s] = "idle"
  /\ client = "memory"
  /\ query' = [query EXCEPT ![s] = q]
  /\ steady' = [steady EXCEPT ![s] = Matching(q)]
  /\ Answer(s, Candidates(q), q)
  /\ UNCHANGED <<client, record, index, writerVars, found, todo, overlap, gone, torn>>

-----------------------------------------------------------------------------
Write(w) ==
  \/ \E j \in Jobs : Call(w, j)
  \/ Load(w) \/ Get(w)
  \/ Exec(w) \/ RemoveTerms(w) \/ SetRecord(w) \/ AddTerms(w)
  \/ RunInMemory(w) \/ BreakOff(w)

List(s) ==
  \/ \E q \in Query : StartSearch(s, q) \/ ListInMemory(s, q)
  \/ ReadIndex(s) \/ LoadAgents(s)

Next == (\E w \in Writer : Write(w)) \/ (\E s \in Search : List(s))

Spec == Init /\ [][Next]_vars

-----------------------------------------------------------------------------
TypeOK ==
  /\ client \in Clients
  /\ record \in [Agent -> AllRecords \cup {None}]
  /\ index \in [TermSet -> SUBSET Agent]
  /\ pc \in [Writer -> {"idle", "load", "get", "write", "set", "add", "done"}]
  /\ job \in [Writer -> Jobs \cup {None}]
  /\ copy \in [Writer -> AllRecords \cup {None}]
  /\ prev \in [Writer -> AllRecords \cup {None}]
  /\ spc \in [Search -> {"idle", "reading", "done"}]
  /\ query \in [Search -> Query \cup {None}]
  /\ found \in [Search -> SUBSET Agent]
  /\ todo \in [Search -> Seq({"all", "tenant", "orPublic", "public", "status", "mcp", "noMcp"})]
  /\ \A s \in Search : result[s] \subseteq [agent : Agent, record : AllRecords]
  /\ steady \in [Search -> SUBSET (Agent \X TermSet)]
  /\ overlap \subseteq Agent /\ gone \subseteq Agent /\ torn \subseteq Agent

(***************************************************************************)
(* A search finds every agent that matched it, and by one same term, from  *)
(* its start to its answer, however many writes of that agent and of       *)
(* others went on meanwhile (docs/packages/registry.md:29 "avoids lost     *)
(* index updates during concurrent registry writes").  An agent that turns *)
(* from public to its tenant's only may be missed by a search of that      *)
(* tenant, between the reads of the two indexes.  Excepted are a client    *)
(* without multi() while it rewrites that very agent or after it broke off *)
(* in doing so, and, for a search of agents that are not MCP compatible,   *)
(* agents of which two writes overlapped.                                  *)
(***************************************************************************)
SearchFindsSteady ==
  \A s \in Search : spc[s] = "done" =>
    \A m \in steady[s] :
      \/ \E hit \in result[s] : hit.agent = m[1]
      \/ query[s].mcp = "no" /\ m[1] \in overlap

(***************************************************************************)
(* An identifier is in the index of a term its agent does not have only    *)
(* if two writes of the agent overlapped at some time, even where a write  *)
(* is sent command by command and may break off: without overlap, a search *)
(* by status or term returns no agent that lacks it.                       *)
(***************************************************************************)
StaleOnlyByOverlap ==
  \A term \in TermSet : \A a \in index[term] :
    term \in TermsOf(record[a]) \/ a \in overlap

(***************************************************************************)
(* An agent that is deleted while no write of it is under way is stored    *)
(* again only by a registration or an import called since: no status       *)
(* update or heartbeat that begins later brings it back.                   *)
(***************************************************************************)
DeletedStaysDeleted == \A a \in gone : record[a] = None
=============================================================================
