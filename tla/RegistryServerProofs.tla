------------------------- MODULE RegistryServerProofs -------------------------
(***************************************************************************)
(* What RegistryServer satisfies for every set of agents and of screens,   *)
(* and for every page size, concurrency, overlap of runs and limit.        *)
(***************************************************************************)
EXTENDS RegistryServer, FiniteSetTheorems, TLAPS

Versions == [Agent -> 0 .. MaxVersion]
Runs == [todo : SUBSET Places, flying : SUBSET Agent]

AgentsOK == agents \in Seq(Agent) /\ IsInjective(agents) /\ haunted \subseteq Agent

TimersOK == running \in BOOLEAN /\ cursor \in Nat /\ next \in [Agent -> {"none", "later", "past"}]

\* A chunk is never larger than the concurrency, and runs are finite.
RunsOK ==
  /\ kind \in Kinds /\ run \in [1 .. Overlap[kind] -> Runs]
  /\ \A i \in 1 .. Overlap[kind] :
       /\ IsFiniteSet(run[i].todo) /\ IsFiniteSet(run[i].flying)
       /\ Cardinality(run[i].flying) <= Concurrency[kind]

\* A list of at most n tasks.
ListOK(tasks, n) ==
  tasks \in Versions /\ IsFiniteSet(Listed(tasks)) /\ Cardinality(Listed(tasks)) <= n

RecentOK == maxRecent \in MaxRecents /\ ListOK(recent, maxRecent)

Arriving(c) == Len(loading[c]) = 1

ScreensOK ==
  /\ stream \in [Screen -> {"none", "authenticating", "open", "closed"}]
  /\ loading \in [Screen -> Seq(Versions)] /\ screen \in [Screen -> Versions]
  /\ late \in [Screen -> SUBSET Agent] /\ behind \in [Screen -> SUBSET Agent]
  /\ \A c \in Screen : ListOK(screen[c], ScreenLimit)
  /\ \A c \in Screen : Arriving(c) => ListOK(loading[c][1], ScreenLimit)
  /\ \A c \in Screen : loading[c] = <<>> => late[c] = {}

Typed == AgentsOK /\ TimersOK /\ RunsOK /\ RecentOK /\ ScreensOK

\* The server has nothing to do with an agent it neither stores nor was about to
\* contact when it was deleted; no run will contact it either.
NoTrace ==
  \A a \in Agent \ (Stored \cup haunted) :
    recent[a] = 0 /\ next[a] = "none" /\ ~Contacted(a)

\* A load response on its way is as current as the screen will be that it replaces.
LoadIsCurrent == \A c \in Screen : Arriving(c) => Current(loading[c][1], late[c])

IInv == Typed /\ NoTrace /\ LoadIsCurrent /\ ScreenIsCurrent

-----------------------------------------------------------------------------
LEMMA ConstantsOK ==
  /\ \A k \in Kinds : Overlap[k] \in Nat \ {0} /\ PageSize[k] \in Nat \ {0} /\ Concurrency[k] \in Nat \ {0}
  /\ MaxRecents \subseteq Nat \ {0} /\ ScreenLimit \in Nat \ {0}
  /\ SnapshotSize \in Nat /\ MaxVersion \in Nat
BY RegistryServerAssumption

LEMMA MinOfTwo ==
  ASSUME NEW m \in Int, NEW n \in Int
  PROVE  Min({m, n}) \in {m, n} /\ Min({m, n}) <= m /\ Min({m, n}) <= n
<1>1. PICK x \in {m, n} : \A y \in {m, n} : x <= y
  <2>1. m <= n \/ n <= m
    OBVIOUS
  <2> QED BY <2>1
<1>2. Min({m, n}) \in {m, n} /\ \A y \in {m, n} : Min({m, n}) <= y
  BY <1>1 DEF Min
<1> QED BY <1>2

\* What an insertion and a removal do to the list of agents.
LEMMA InsertedAt ==
  ASSUME NEW s \in Seq(Agent), IsInjective(s), NEW a \in Agent, a \notin ToSet(s),
         NEW p \in 1 .. Len(s) + 1
  PROVE  /\ InsertAt(s, p, a) \in Seq(Agent) /\ IsInjective(InsertAt(s, p, a))
         /\ ToSet(InsertAt(s, p, a)) = ToSet(s) \cup {a}
<1> DEFINE r == InsertAt(s, p, a)
<1>1. /\ r \in Seq(Agent) /\ Len(r) = Len(s) + 1
      /\ \A j \in 1 .. Len(s) + 1 : r[j] = IF j < p THEN s[j] ELSE IF j = p THEN a ELSE s[j - 1]
  <2> DEFINE before == SubSeq(s, 1, p - 1)
             after == SubSeq(s, p, Len(s))
  <2>1. /\ before \in Seq(Agent) /\ Len(before) = p - 1
        /\ \A j \in 1 .. p - 1 : before[j] = s[j]
    OBVIOUS
  <2>2. /\ after \in Seq(Agent) /\ Len(after) = Len(s) - p + 1
        /\ \A j \in 1 .. Len(s) - p + 1 : after[j] = s[j + p - 1]
    OBVIOUS
  <2>3. r = before \o <<a>> \o after
    BY DEF InsertAt
  <2> HIDE DEF before, after, r
  <2>4. /\ before \o <<a>> \in Seq(Agent) /\ Len(before \o <<a>>) = p
        /\ \A j \in 1 .. p : (before \o <<a>>)[j] = IF j < p THEN s[j] ELSE a
    BY <2>1
  <2>5. r \in Seq(Agent) /\ Len(r) = Len(s) + 1
    <3> DEFINE upto == before \o <<a>>
    <3>1. upto \in Seq(Agent) /\ Len(upto) = p /\ r = upto \o after
      BY <2>3, <2>4
    <3> HIDE DEF upto
    <3> QED BY <2>2, <3>1
  <2>6. ASSUME NEW j \in 1 .. Len(s) + 1
        PROVE  r[j] = IF j < p THEN s[j] ELSE IF j = p THEN a ELSE s[j - 1]
    <3>1. CASE j <= p
      BY <2>2, <2>3, <2>4, <3>1
    <3>2. CASE j > p
      <4>1. r[j] = after[j - p] /\ j - p \in 1 .. Len(s) - p + 1
        BY <2>2, <2>3, <2>4, <3>2
      <4> QED BY <2>2, <3>2, <4>1
    <3> QED BY <3>1, <3>2
  <2> QED BY <2>5, <2>6
<1> HIDE DEF r
<1>2. \A j \in 1 .. Len(s) : s[j] # a /\ s[j] \in ToSet(s)
  BY DEF ToSet
<1>3. IsInjective(r)
  <2> SUFFICES ASSUME NEW j \in 1 .. Len(r), NEW k \in 1 .. Len(r), r[j] = r[k] PROVE j = k
    BY <1>1 DEF IsInjective
  <2>1. \A u, v \in 1 .. Len(s) : s[u] = s[v] => u = v
    BY DEF IsInjective
  <2> DEFINE Was(i) == IF i < p THEN i ELSE i - 1
  <2>2. \A i \in 1 .. Len(r) : i # p => Was(i) \in 1 .. Len(s) /\ r[i] = s[Was(i)]
    BY <1>1
  <2>3. j = p <=> k = p
    BY <1>1, <1>2, <2>2
  <2>4. j # p /\ k # p => Was(j) = Was(k)
    BY <2>1, <2>2
  <2> QED BY <1>1, <2>3, <2>4
<1>4. ToSet(r) = ToSet(s) \cup {a}
  <2>1. \A j \in 1 .. Len(r) : r[j] \in ToSet(s) \cup {a}
    BY <1>1, <1>2
  <2>2. a \in ToSet(r)
    BY <1>1 DEF ToSet
  <2>3. ASSUME NEW j \in 1 .. Len(s) PROVE s[j] \in ToSet(r)
    <3>1. CASE j < p
      BY <1>1, <3>1 DEF ToSet
    <3>2. CASE j >= p
      <4>1. j + 1 \in DOMAIN r /\ r[j + 1] = s[j]
        BY <1>1, <3>2
      <4> QED BY <4>1 DEF ToSet
    <3> QED BY <3>1, <3>2
  <2>4. ToSet(r) \subseteq ToSet(s) \cup {a}
    BY <2>1 DEF ToSet
  <2>5. ToSet(s) \subseteq ToSet(r)
    BY <2>3 DEF ToSet
  <2> QED BY <2>2, <2>4, <2>5
<1> QED BY <1>1, <1>3, <1>4 DEF r

LEMMA RemovedAt ==
  ASSUME NEW s \in Seq(Agent), IsInjective(s), NEW p \in DOMAIN s
  PROVE  /\ RemoveAt(s, p) \in Seq(Agent) /\ IsInjective(RemoveAt(s, p))
         /\ ToSet(RemoveAt(s, p)) = ToSet(s) \ {s[p]}
<1> DEFINE r == RemoveAt(s, p)
<1>0. p \in 1 .. Len(s) /\ Len(s) \in Nat
  OBVIOUS
<1>1. /\ r \in Seq(Agent) /\ Len(r) = Len(s) - 1
      /\ \A j \in 1 .. Len(s) - 1 : r[j] = IF j < p THEN s[j] ELSE s[j + 1]
  <2> DEFINE before == SubSeq(s, 1, p - 1)
             after == SubSeq(s, p + 1, Len(s))
  <2>1. /\ before \in Seq(Agent) /\ Len(before) = p - 1
        /\ \A j \in 1 .. p - 1 : before[j] = s[j]
    BY <1>0
  <2>2. /\ after \in Seq(Agent) /\ Len(after) = Len(s) - p
        /\ \A j \in 1 .. Len(s) - p : after[j] = s[j + p]
    BY <1>0
  <2>3. r = before \o after
    BY DEF RemoveAt
  <2> HIDE DEF before, after, r
  <2>4. r \in Seq(Agent) /\ Len(r) = Len(s) - 1
    BY <1>0, <2>1, <2>2, <2>3
  <2>5. ASSUME NEW j \in 1 .. Len(s) - 1
        PROVE  r[j] = IF j < p THEN s[j] ELSE s[j + 1]
    <3>1. CASE j < p
      BY <1>0, <2>1, <2>2, <2>3, <3>1
    <3>2. CASE j >= p
      <4>1. r[j] = after[j - p + 1] /\ j - p + 1 \in 1 .. Len(s) - p
        BY <1>0, <2>1, <2>2, <2>3, <3>2
      <4>2. after[j - p + 1] = s[(j - p + 1) + p] /\ (j - p + 1) + p = j + 1
        BY <1>0, <2>2, <4>1
      <4> QED BY <1>0, <3>2, <4>1, <4>2
    <3> QED BY <1>0, <3>1, <3>2
  <2> QED BY <2>4, <2>5
<1> HIDE DEF r
<1>2. \A u, v \in 1 .. Len(s) : s[u] = s[v] => u = v
  BY DEF IsInjective
<1>3. IsInjective(r)
  <2> SUFFICES ASSUME NEW j \in 1 .. Len(r), NEW k \in 1 .. Len(r), r[j] = r[k] PROVE j = k
    BY <1>1 DEF IsInjective
  <2>1. PICK u \in 1 .. Len(s) : r[j] = s[u] /\ u = IF j < p THEN j ELSE j + 1
    BY <1>0, <1>1
  <2>2. PICK v \in 1 .. Len(s) : r[k] = s[v] /\ v = IF k < p THEN k ELSE k + 1
    BY <1>0, <1>1
  <2>3. u = v
    BY <1>2, <2>1, <2>2
  <2> QED BY <1>0, <1>1, <2>1, <2>2, <2>3
<1>4. ToSet(r) = ToSet(s) \ {s[p]}
  <2>1. ASSUME NEW j \in 1 .. Len(r) PROVE r[j] \in ToSet(s) \ {s[p]}
    <3>1. PICK u \in 1 .. Len(s) : r[j] = s[u] /\ u # p
      BY <1>0, <1>1
    <3>2. s[u] \in ToSet(s) /\ s[u] # s[p]
      BY <1>0, <1>2, <3>1 DEF ToSet
    <3> QED BY <3>1, <3>2
  <2>2. ASSUME NEW j \in 1 .. Len(s), j # p PROVE s[j] \in ToSet(r)
    <3>1. CASE j < p
      BY <1>0, <1>1, <3>1 DEF ToSet
    <3>2. CASE j > p
      <4>0. j - 1 \in 1 .. Len(s) - 1 /\ ~(j - 1 < p) /\ (j - 1) + 1 = j
        BY <1>0, <3>2
      <4>1. j - 1 \in DOMAIN r /\ r[j - 1] = s[j]
        BY <1>0, <1>1, <4>0
      <4> QED BY <4>1 DEF ToSet
    <3> QED BY <1>0, <2>2, <3>1, <3>2
  <2>3. ToSet(r) \subseteq ToSet(s) \ {s[p]}
    BY <2>1 DEF ToSet
  <2>4. ToSet(s) \ {s[p]} \subseteq ToSet(r)
    BY <1>0, <2>2 DEF ToSet
  <2> QED BY <2>3, <2>4
<1> QED BY <1>1, <1>3, <1>4 DEF r

LEMMA OthersAre ==
  ASSUME AgentsOK, NEW a \in Agent
  PROVE  /\ Others(a) \in Seq(Agent) /\ IsInjective(Others(a)) /\ a \notin ToSet(Others(a))
         /\ ToSet(Others(a)) = Stored \ {a}
<1>1. agents \in Seq(Agent) /\ IsInjective(agents)
  BY DEF AgentsOK
<1>2. CASE a \in Stored
  <2> DEFINE place == CHOOSE p \in DOMAIN agents : agents[p] = a
  <2>1. place \in DOMAIN agents /\ agents[place] = a
    BY <1>2 DEF Stored, ToSet
  <2>2. Others(a) = RemoveAt(agents, place)
    BY <1>2 DEF Others
  <2> HIDE DEF place
  <2> QED BY <1>1, <2>1, <2>2, RemovedAt DEF Stored
<1>3. CASE a \notin Stored
  BY <1>1, <1>3 DEF Others, Stored
<1> QED BY <1>2, <1>3

-----------------------------------------------------------------------------
(* The runs of the interval. *)

\* Sending a chunk leaves a run that is no larger than what it was given.
LEMMA ChunkIs ==
  ASSUME RunsOK, NEW i \in 1 .. Overlap[kind], UNCHANGED kind,
         NEW todo \in SUBSET Places, IsFiniteSet(todo), Chunk(i, todo)
  PROVE  /\ RunsOK'
         /\ \A a : Contacted(a)' => Contacted(a) \/ \E copy \in todo : copy.agent = a
<1>1. PICK chunk \in SUBSET todo :
        /\ Cardinality(chunk) = Min({Concurrency[kind], Cardinality(todo)})
        /\ run' = [run EXCEPT ![i] = [todo |-> todo \ chunk, flying |-> {copy.agent : copy \in chunk}]]
  BY DEF Chunk
<1> DEFINE flying == {copy.agent : copy \in chunk}
           sent == [copy \in chunk |-> copy.agent]
<1>2. IsFiniteSet(chunk) /\ IsFiniteSet(todo \ chunk)
  BY FS_Subset
<1>3. flying \subseteq Agent
  BY DEF Places
<1>4. IsFiniteSet(flying) /\ Cardinality(flying) <= Cardinality(chunk)
  <2>1. sent \in Surjection(chunk, flying)
    BY DEF Surjection
  <2> HIDE DEF sent, flying
  <2> QED BY <1>2, <2>1, FS_Surjection
<1>5. Cardinality(flying) <= Concurrency[kind]
  <2>1. /\ Concurrency[kind] \in Nat /\ Cardinality(todo) \in Nat
        /\ Cardinality(flying) \in Nat /\ Cardinality(chunk) \in Nat
    BY <1>2, <1>4, FS_CardinalityType, ConstantsOK DEF RunsOK
  <2>2. Min({Concurrency[kind], Cardinality(todo)}) <= Concurrency[kind]
    BY <2>1, MinOfTwo
  <2> HIDE DEF flying
  <2> QED BY <1>1, <1>4, <2>1, <2>2
<1> DEFINE new == [todo |-> todo \ chunk, flying |-> flying]
<1>6. new \in Runs
  BY <1>3 DEF Runs
<1>7. run'[i] = new /\ \A j \in 1 .. Overlap[kind] : j # i => run'[j] = run[j]
  BY <1>1 DEF RunsOK
<1>8. RunsOK'
  <2> HIDE DEF flying
  <2>1. run' \in [1 .. Overlap[kind] -> Runs]
    BY <1>1, <1>6 DEF RunsOK, flying
  <2>2. IsFiniteSet(run'[i].todo) /\ IsFiniteSet(run'[i].flying) /\ Cardinality(run'[i].flying) <= Concurrency[kind]
    BY <1>2, <1>4, <1>5, <1>7
  <2> QED BY <1>7, <2>1, <2>2 DEF RunsOK
<1>9. ASSUME NEW a, Contacted(a)' PROVE Contacted(a) \/ \E copy \in todo : copy.agent = a
  <2>1. PICK j \in 1 .. Overlap[kind] : \/ \E copy \in run'[j].todo : copy.agent = a
                                       \/ a \in run'[j].flying
    BY <1>9 DEF Contacted, Contacting
  <2>2. CASE j = i
    BY <1>7, <2>1, <2>2
  <2>3. CASE j # i
    BY <1>7, <2>1, <2>3 DEF Contacted, Contacting
  <2> QED BY <2>2, <2>3
<1> QED BY <1>8, <1>9

\* After an answer the server is going to contact nobody else.
LEMMA SettleIs ==
  ASSUME RunsOK, NEW i \in 1 .. Overlap[kind], UNCHANGED kind,
         NEW a \in run[i].flying, Settle(i, a)
  PROVE  /\ RunsOK' /\ \A b : Contacted(b)' => Contacted(b)
         /\ a \in Agent /\ Contacted(a)
<1> DEFINE left == run[i].flying \ {a}
<1>1. run[i] \in Runs /\ a \in Agent /\ Contacted(a)
  BY DEF RunsOK, Runs, Contacted, Contacting
<1>2. CASE left = {}
  <2>1. Chunk(i, run[i].todo) /\ run[i].todo \in SUBSET Places /\ IsFiniteSet(run[i].todo)
    BY <1>1, <1>2 DEF Settle, Runs, RunsOK
  <2>2. \A b : (\E c \in run[i].todo : c.agent = b) => Contacted(b)
    BY DEF Contacted, Contacting
  <2> QED BY <1>1, <2>1, <2>2, ChunkIs
<1>3. CASE left # {}
  <2>1. run' = [run EXCEPT ![i].flying = left]
    BY <1>3 DEF Settle
  <2>2. /\ run'[i] = [todo |-> run[i].todo, flying |-> left]
        /\ \A j \in 1 .. Overlap[kind] : j # i => run'[j] = run[j]
        /\ run' \in [1 .. Overlap[kind] -> Runs]
    BY <1>1, <2>1 DEF RunsOK, Runs
  <2>3. /\ IsFiniteSet(run[i].flying) /\ Cardinality(run[i].flying) \in Nat
        /\ IsFiniteSet(left) /\ Cardinality(left) \in Nat
        /\ Cardinality(left) <= Cardinality(run[i].flying)
    BY FS_Subset, FS_CardinalityType DEF RunsOK
  <2>4. Concurrency[kind] \in Nat
    BY ConstantsOK DEF RunsOK
  <2> HIDE DEF left
  <2>5. IsFiniteSet(run'[i].flying) /\ Cardinality(run'[i].flying) <= Concurrency[kind]
    BY <2>2, <2>3, <2>4 DEF RunsOK
  <2>6. RunsOK'
    BY <2>2, <2>5 DEF RunsOK
  <2>7. \A b : Contacted(b)' => Contacted(b)
    BY <2>2 DEF Contacted, Contacting, left
  <2> QED BY <1>1, <2>6, <2>7
<1> QED BY <1>2, <1>3

-----------------------------------------------------------------------------
(* Lists of tasks. *)

\* What a slice keeps, and how much.
LEMMA SliceIs ==
  ASSUME NEW n \in Nat, NEW tasks \in Versions, IsFiniteSet(Listed(tasks)), NEW new \in Slice(tasks, n)
  PROVE  /\ ListOK(new, n) /\ \A a \in Agent : new[a] \in {0, tasks[a]}
         /\ \A a \in Agent : tasks[a] > 0 /\ new[a] = 0 => Cardinality(Listed(new)) = n
         /\ Cardinality(Listed(tasks)) >= n => Cardinality(Listed(new)) = n
<1>1. PICK top \in SUBSET Listed(tasks) :
        Cardinality(top) = Min({n, Cardinality(Listed(tasks))}) /\ new = Only(tasks, top)
  BY DEF Slice, Newest
<1>2. /\ new \in Versions /\ Listed(new) = top
      /\ \A a \in Agent : new[a] = IF a \in top THEN tasks[a] ELSE 0
  BY <1>1, ConstantsOK DEF Only, Listed, Versions
<1>3. /\ IsFiniteSet(top) /\ Cardinality(top) \in Nat /\ Cardinality(Listed(tasks)) \in Nat
      /\ Cardinality(top) = Cardinality(Listed(tasks)) => top = Listed(tasks)
  BY <1>1, FS_Subset, FS_CardinalityType
<1>4. /\ Cardinality(top) \in {n, Cardinality(Listed(tasks))}
      /\ Cardinality(top) <= n /\ Cardinality(top) <= Cardinality(Listed(tasks))
  BY <1>1, <1>3, MinOfTwo
<1>5. ASSUME NEW a \in Agent, tasks[a] > 0, new[a] = 0 PROVE Cardinality(top) = n
  <2>1. a \in Listed(tasks) /\ a \notin top
    BY <1>2, <1>5 DEF Listed
  <2> QED BY <1>3, <1>4, <2>1
<1>6. ListOK(new, n)
  BY <1>2, <1>3, <1>4 DEF ListOK
<1>7. Cardinality(Listed(tasks)) >= n => Cardinality(top) = n
  BY <1>3, <1>4
<1> QED BY <1>2, <1>5, <1>6, <1>7

\* One task more or another version of it.
LEMMA PutIs ==
  ASSUME NEW tasks \in Versions, IsFiniteSet(Listed(tasks)), NEW a \in Agent, NEW v \in 0 .. MaxVersion
  PROVE  /\ [tasks EXCEPT ![a] = v] \in Versions /\ IsFiniteSet(Listed([tasks EXCEPT ![a] = v]))
         /\ v > 0 => Listed(tasks) \subseteq Listed([tasks EXCEPT ![a] = v])
<1>1. /\ [tasks EXCEPT ![a] = v] \in Versions
      /\ Listed([tasks EXCEPT ![a] = v]) \subseteq Listed(tasks) \cup {a}
      /\ v > 0 => Listed(tasks) \subseteq Listed([tasks EXCEPT ![a] = v])
  BY DEF Versions, Listed
<1>2. IsFiniteSet(Listed(tasks) \cup {a})
  BY FS_AddElement
<1> QED BY <1>1, <1>2, FS_Subset

\* The recorded tasks after one more was recorded.
LEMMA TrimmedIs ==
  ASSUME RecentOK, NEW a \in Agent, NEW v \in 0 .. MaxVersion, UNCHANGED maxRecent,
         recent' \in Trimmed([recent EXCEPT ![a] = v])
  PROVE  /\ RecentOK'
         /\ recent'[a] \in {0, v}
         /\ \A b \in Agent \ {a} : recent'[b] \in {0, recent[b]}
<1> DEFINE tasks == [recent EXCEPT ![a] = v]
<1>1. tasks \in Versions /\ IsFiniteSet(Listed(tasks)) /\ maxRecent \in Nat
  BY PutIs, ConstantsOK DEF RecentOK, ListOK
<1>2. /\ tasks[a] = v /\ \A b \in Agent \ {a} : tasks[b] = recent[b]
  BY DEF RecentOK, ListOK, Versions
<1>3. recent' \in Slice(tasks, maxRecent)
  BY DEF Trimmed
<1> HIDE DEF tasks
<1>4. ListOK(recent', maxRecent) /\ \A b \in Agent : recent'[b] \in {0, tasks[b]}
  BY <1>1, <1>3, SliceIs
<1> QED BY <1>2, <1>4 DEF RecentOK, ListOK

\* Current, of any recorded tasks.
Agrees(rec, tasks, excused) ==
  \A a \in Agent \ excused : rec[a] > 0 =>
    \/ tasks[a] = rec[a]
    \/ tasks[a] = 0 /\ Cardinality(Listed(tasks)) = ScreenLimit

LEMMA CurrentAgrees ==
  /\ ScreenIsCurrent <=> \A c \in Screen : Agrees(recent, screen[c], behind[c])
  /\ ScreenIsCurrent' <=> \A c \in Screen : Agrees(recent', screen'[c], behind'[c])
  /\ LoadIsCurrent <=> \A c \in Screen : Arriving(c) => Agrees(recent, loading[c][1], late[c])
  /\ LoadIsCurrent' <=> \A c \in Screen : Arriving(c)' => Agrees(recent', loading'[c][1], late'[c])
BY DEF ScreenIsCurrent, LoadIsCurrent, Current, Agrees

\* A list nobody touches agrees with recorded tasks of which some are forgotten, or
\* changed and excused.
LEMMA AgreesStays ==
  ASSUME NEW rec, NEW now, NEW tasks, NEW excused, NEW more, Agrees(rec, tasks, excused),
         excused \subseteq more, \A a \in Agent \ more : now[a] = 0 \/ now[a] = rec[a]
  PROVE  Agrees(now, tasks, more)
BY DEF Agrees

\* A list with other tasks merged into it agrees with what they agree with: it was
\* full before, or has room for them.
LEMMA SliceAgrees ==
  ASSUME NEW rec, NEW tasks, NEW excused, NEW merged \in Versions, IsFiniteSet(Listed(merged)),
         ListOK(tasks, ScreenLimit), Listed(tasks) \subseteq Listed(merged), NEW new \in Slice(merged, ScreenLimit),
         \A a \in Agent \ excused : rec[a] > 0 =>
           merged[a] = rec[a] \/ (merged[a] = 0 /\ Cardinality(Listed(tasks)) = ScreenLimit)
  PROVE  ListOK(new, ScreenLimit) /\ Agrees(rec, new, excused)
<1>1. /\ ListOK(new, ScreenLimit) /\ \A a \in Agent : new[a] \in {0, merged[a]}
      /\ \A a \in Agent : merged[a] > 0 /\ new[a] = 0 => Cardinality(Listed(new)) = ScreenLimit
      /\ Cardinality(Listed(merged)) >= ScreenLimit => Cardinality(Listed(new)) = ScreenLimit
  BY SliceIs, ConstantsOK
<1>2. Cardinality(Listed(tasks)) = ScreenLimit => Cardinality(Listed(new)) = ScreenLimit
  <2>1. Cardinality(Listed(tasks)) <= Cardinality(Listed(merged))
    BY FS_Subset
  <2> QED BY <1>1, <2>1
<1>3. ASSUME NEW a \in Agent \ excused, rec[a] > 0
      PROVE  new[a] = rec[a] \/ (new[a] = 0 /\ Cardinality(Listed(new)) = ScreenLimit)
  BY <1>1, <1>2, <1>3
<1> QED BY <1>1, <1>3 DEF Agrees

-----------------------------------------------------------------------------
LEMMA IInvInit == Init => IInv
<1> SUFFICES ASSUME Init PROVE IInv OBVIOUS
<1>1. 0 \in 0 .. MaxVersion /\ maxRecent \in Nat /\ ScreenLimit \in Nat
  BY ConstantsOK DEF Init
<1>2. AgentsOK /\ Stored = {}
  BY DEF Init, AgentsOK, Stored, IsInjective, ToSet
<1>3. RunsOK
  <2>1. Cardinality({}) = 0 /\ IsFiniteSet({})
    BY FS_EmptySet
  <2>2. NoRun \in Runs /\ kind \in Kinds /\ Concurrency[kind] \in Nat
    BY ConstantsOK DEF NoRun, Runs, Init
  <2> QED BY <2>1, <2>2 DEF Init, RunsOK, NoRun
<1>4. NoTask \in Versions /\ \A n \in Nat : ListOK(NoTask, n)
  <2>1. Listed(NoTask) = {} /\ NoTask \in Versions
    BY <1>1 DEF Listed, NoTask, Versions
  <2> QED BY <2>1, FS_EmptySet DEF ListOK
<1>5. RecentOK
  BY <1>1, <1>4 DEF Init, RecentOK
<1>6. TimersOK /\ ScreensOK /\ LoadIsCurrent
  BY <1>1, <1>4 DEF Init, TimersOK, ScreensOK, LoadIsCurrent, Arriving
<1>7. NoTrace
  BY DEF Init, NoTrace, NoTask, Contacted, Contacting, NoRun
<1>8. ScreenIsCurrent
  BY DEF Init, ScreenIsCurrent, Current, NoTask
<1> QED BY <1>2, <1>3, <1>5, <1>6, <1>7, <1>8 DEF IInv, Typed

\* What a step leaves alone stays as it should be.
LEMMA Same ==
  ASSUME IInv
  PROVE  /\ UNCHANGED <<agents, haunted>> => AgentsOK' /\ Stored' = Stored
         /\ UNCHANGED <<running, cursor, next>> => TimersOK'
         /\ UNCHANGED <<kind, run>> => RunsOK' /\ \A a : Contacted(a)' => Contacted(a)
         /\ UNCHANGED <<maxRecent, recent>> => RecentOK'
         /\ UNCHANGED <<stream, loading, screen, late, behind>> => ScreensOK'
         /\ UNCHANGED <<recent, loading, screen, late, behind>> => LoadIsCurrent' /\ ScreenIsCurrent'
<1> USE DEF IInv, Typed
<1>1. UNCHANGED <<agents, haunted>> => AgentsOK' /\ Stored' = Stored
  BY DEF AgentsOK, Stored
<1>2. UNCHANGED <<running, cursor, next>> => TimersOK'
  BY DEF TimersOK
<1>3. UNCHANGED <<kind, run>> => RunsOK' /\ \A a : Contacted(a)' => Contacted(a)
  BY DEF RunsOK, Contacted, Contacting
<1>4. UNCHANGED <<maxRecent, recent>> => RecentOK'
  BY DEF RecentOK
<1>5. UNCHANGED <<stream, loading, screen, late, behind>> => ScreensOK'
  BY DEF ScreensOK, Arriving
<1>6. UNCHANGED <<recent, loading, screen, late, behind>> => LoadIsCurrent' /\ ScreenIsCurrent'
  BY CurrentAgrees DEF Arriving
<1> QED BY <1>1, <1>2, <1>3, <1>4, <1>5, <1>6

\* Nothing new is recorded, scheduled or contacted for an unknown agent.
LEMMA NoTraceStays ==
  ASSUME NoTrace, Stored \cup haunted \subseteq (Stored \cup haunted)',
         \A a \in Agent \ (Stored \cup haunted) :
           recent'[a] \in {0, recent[a]} /\ next'[a] = next[a] /\ (Contacted(a)' => Contacted(a))
  PROVE  NoTrace'
BY DEF NoTrace

LEMMA RegisterKeeps ==
  ASSUME IInv, NEW a \in Agent, Register(a) \/ \E place \in 1 .. Len(agents) + 1 : Import(a, place)
  PROVE  IInv'
<1> USE DEF IInv, Typed
<1>1. /\ haunted' = haunted \ {a}
      /\ UNCHANGED <<running, kind, maxRecent, cursor, next, run, recent, stream, loading, screen, late, behind>>
  BY DEF Register, Import, options, runVars, screenVars, listVars
<1>2. /\ Others(a) \in Seq(Agent) /\ IsInjective(Others(a)) /\ a \notin ToSet(Others(a))
      /\ ToSet(Others(a)) = Stored \ {a}
  BY OthersAre
<1>3. PICK place \in 1 .. Len(Others(a)) + 1 : agents' = InsertAt(Others(a), place, a)
  <2>1. CASE Register(a)
    <3>1. Others(a) = agents /\ agents' = <<a>> \o Others(a)
      BY <2>1 DEF Register, Others
    <3>2. InsertAt(Others(a), 1, a) = <<a>> \o Others(a)
      <4>1. SubSeq(Others(a), 1, 0) = <<>> /\ SubSeq(Others(a), 1, Len(Others(a))) = Others(a)
        BY <1>2
      <4>2. <<>> \o <<a>> = <<a>>
        OBVIOUS
      <4> QED BY <4>1, <4>2 DEF InsertAt
    <3>3. 1 \in 1 .. Len(Others(a)) + 1
      BY <1>2
    <3> QED BY <3>1, <3>2, <3>3
  <2>2. CASE \E place \in 1 .. Len(agents) + 1 : Import(a, place)
    <3>1. PICK place \in 1 .. Len(agents) + 1 : Import(a, place)
      BY <2>2
    <3>2. place \in 1 .. Len(Others(a)) + 1
      BY <1>2, <3>1 DEF Import
    <3> QED BY <3>1, <3>2 DEF Import
  <2> QED BY <2>1, <2>2
<1>4. agents' \in Seq(Agent) /\ IsInjective(agents)' /\ Stored' = Stored \cup {a}
  <2>1. IsInjective(agents)' = IsInjective(agents')
    BY DEF IsInjective
  <2> QED BY <1>2, <1>3, <2>1, InsertedAt DEF Stored
<1>5. AgentsOK'
  BY <1>1, <1>4 DEF AgentsOK
<1>6. TimersOK' /\ RunsOK' /\ RecentOK' /\ ScreensOK' /\ LoadIsCurrent' /\ ScreenIsCurrent'
  BY <1>1, Same
<1>7. NoTrace'
  BY <1>1, <1>4, Same, NoTraceStays
<1> QED BY <1>5, <1>6, <1>7

LEMMA DeleteKeeps ==
  ASSUME IInv, NEW a \in Agent, Delete(a)
  PROVE  IInv'
<1> USE DEF IInv, Typed
<1>1. /\ a \in Stored /\ agents' = Others(a)
      /\ next' = [next EXCEPT ![a] = "none"] /\ recent' = [recent EXCEPT ![a] = 0]
      /\ haunted' = IF Contacted(a) THEN haunted \cup {a} ELSE haunted
      /\ UNCHANGED <<running, kind, maxRecent, cursor, run, stream, loading, screen, late, behind>>
  BY DEF Delete, Purge, options, screenVars, listVars
<1>2. agents' \in Seq(Agent) /\ IsInjective(agents)' /\ Stored' = Stored \ {a}
  <2>1. IsInjective(agents)' = IsInjective(agents')
    BY DEF IsInjective
  <2> QED BY <1>1, <2>1, OthersAre DEF Stored
<1>3. AgentsOK'
  BY <1>1, <1>2 DEF AgentsOK
<1>4. TimersOK'
  BY <1>1 DEF TimersOK
<1>5. RunsOK' /\ ScreensOK' /\ \A b : Contacted(b)' => Contacted(b)
  BY <1>1, Same
<1>6. RecentOK'
  <2>1. recent' \in Versions /\ Listed(recent') \subseteq Listed(recent)
    BY <1>1, ConstantsOK DEF RecentOK, ListOK, Versions, Listed
  <2>2. /\ IsFiniteSet(Listed(recent')) /\ Cardinality(Listed(recent')) <= Cardinality(Listed(recent))
        /\ Cardinality(Listed(recent')) \in Nat /\ Cardinality(Listed(recent)) \in Nat
    BY <2>1, FS_Subset, FS_CardinalityType DEF RecentOK, ListOK
  <2> QED BY <1>1, <2>1, <2>2, ConstantsOK DEF RecentOK, ListOK
<1>7. NoTrace'
  <2> SUFFICES ASSUME NEW b \in Agent \ (Stored \cup haunted)'
               PROVE  recent'[b] = 0 /\ next'[b] = "none" /\ ~Contacted(b)'
    BY DEF NoTrace
  <2>0. recent \in Versions
    BY DEF RecentOK, ListOK
  <2>1. CASE b = a
    <3>1. ~Contacted(a)
      BY <1>1, <2>1
    <3> QED BY <1>1, <1>5, <2>0, <2>1, <3>1 DEF TimersOK, Versions
  <2>2. CASE b # a
    <3>1. b \notin Stored \cup haunted
      BY <1>1, <1>2, <2>2
    <3> QED BY <1>1, <1>5, <2>0, <2>2, <3>1 DEF NoTrace, TimersOK, Versions
  <2> QED BY <2>1, <2>2
<1>8. LoadIsCurrent' /\ ScreenIsCurrent'
  <2>1. \A b \in Agent : recent'[b] = 0 \/ recent'[b] = recent[b]
    BY <1>1 DEF RecentOK, ListOK, Versions
  <2>2. ASSUME NEW c \in Screen PROVE Agrees(recent', screen'[c], behind'[c])
    <3>1. Agrees(recent, screen[c], behind[c])
      BY CurrentAgrees
    <3>2. Agrees(recent', screen[c], behind[c])
      BY <2>1, <3>1, AgreesStays
    <3> QED BY <1>1, <3>2
  <2>3. ASSUME NEW c \in Screen, Arriving(c)' PROVE Agrees(recent', loading'[c][1], late'[c])
    <3>1. Agrees(recent, loading[c][1], late[c])
      BY <1>1, <2>3, CurrentAgrees DEF Arriving
    <3>2. Agrees(recent', loading[c][1], late[c])
      BY <2>1, <3>1, AgreesStays
    <3> QED BY <1>1, <3>2
  <2> QED BY <2>2, <2>3, CurrentAgrees
<1> QED BY <1>3, <1>4, <1>5, <1>6, <1>7, <1>8

\* A due time is set, passes or stays: of an agent that has one, or is known.
LEMMA TimersKeep ==
  ASSUME IInv, NEW a \in Agent, Heartbeat(a) \/ TimePasses(a)
  PROVE  IInv'
<1> USE DEF IInv, Typed
<1>1. /\ UNCHANGED <<running, agents, kind, maxRecent, cursor, run, recent, stream, loading, screen, late, behind, haunted>>
      /\ next' \in [Agent -> {"none", "later", "past"}]
      /\ \A b \in Agent \ {a} : next'[b] = next[b]
  BY DEF Heartbeat, TimePasses, options, screenVars, listVars, TimersOK
<1>2. a \in Stored \cup haunted
  BY DEF Heartbeat, TimePasses, NoTrace
<1>3. AgentsOK' /\ RunsOK' /\ RecentOK' /\ ScreensOK' /\ LoadIsCurrent' /\ ScreenIsCurrent'
  BY <1>1, Same
<1>4. TimersOK'
  BY <1>1 DEF TimersOK
<1>5. NoTrace'
  <2>1. Stored' = Stored /\ \A b : Contacted(b)' => Contacted(b)
    BY <1>1, Same
  <2> QED BY <1>1, <1>2, <2>1, NoTraceStays
<1> QED BY <1>3, <1>4, <1>5

LEMMA TickKeeps ==
  ASSUME IInv, NEW i \in 1 .. Overlap[kind], Tick(i)
  PROVE  IInv'
<1> USE DEF IInv, Typed
<1> DEFINE end == Min({cursor + PageSize[kind], Len(agents)})
           page == cursor + 1 .. end
           due == {j \in page : IsDue(agents[j])}
           todo == {[agent |-> agents[j], place |-> j - cursor] : j \in due}
<1>1. /\ cursor' = NextCursor(cursor, Cardinality(page)) /\ Chunk(i, todo)
      /\ UNCHANGED <<running, agents, kind, maxRecent, next, recent, stream, loading, screen, late, behind, haunted>>
  BY DEF Tick, options, screenVars, listVars
<1>2. cursor \in Nat /\ PageSize[kind] \in Nat /\ agents \in Seq(Agent) /\ Len(agents) \in Nat
  BY ConstantsOK DEF TimersOK, RunsOK, AgentsOK
<1>3. end \in Nat /\ end <= Len(agents)
  <2>1. cursor + PageSize[kind] \in Nat
    BY <1>2
  <2>2. \A m, n \in Nat : Min({m, n}) \in Nat /\ Min({m, n}) <= n
    BY MinOfTwo
  <2> QED BY <1>2, <2>1, <2>2
<1> HIDE DEF end
<1>4. IsFiniteSet(page) /\ Cardinality(page) \in Nat
  <2>1. cursor + 1 \in Int /\ end \in Int
    BY <1>2, <1>3
  <2>2. IsFiniteSet(page)
    BY <2>1, FS_Interval
  <2> QED BY <2>2, FS_CardinalityType
<1>5. \A j \in page : j \in DOMAIN agents /\ j - cursor \in Nat /\ agents[j] \in Stored /\ agents[j] \in Agent
  BY <1>2, <1>3 DEF Stored, ToSet
<1>6. /\ todo \in SUBSET Places /\ \A copy \in todo : copy.agent \in Stored
  <2>1. ASSUME NEW j \in due
        PROVE  /\ [agent |-> agents[j], place |-> j - cursor] \in Places
               /\ agents[j] \in Stored
    <3>1. j \in page
      OBVIOUS
    <3> HIDE DEF page
    <3>2. agents[j] \in Agent /\ j - cursor \in Nat /\ agents[j] \in Stored
      BY <1>5, <3>1
    <3> QED BY <3>2 DEF Places
  <2> HIDE DEF due
  <2> QED BY <2>1
<1>7. IsFiniteSet(todo)
  <2> DEFINE entry == [j \in due |-> [agent |-> agents[j], place |-> j - cursor]]
  <2>1. IsFiniteSet(due)
    <3>1. due \in SUBSET page
      OBVIOUS
    <3> HIDE DEF due, page
    <3> QED BY <1>4, <3>1, FS_Subset
  <2>2. entry \in Surjection(due, todo)
    <3> HIDE DEF due
    <3> QED BY DEF Surjection
  <2> HIDE DEF due, todo, entry
  <2> QED BY <2>1, <2>2, FS_Surjection
<1> HIDE DEF page, todo
<1>8. RunsOK' /\ \A a : Contacted(a)' => Contacted(a) \/ a \in Stored
  BY <1>1, <1>6, <1>7, ChunkIs
<1>9. AgentsOK' /\ Stored' = Stored /\ RecentOK' /\ ScreensOK' /\ LoadIsCurrent' /\ ScreenIsCurrent'
  BY <1>1, Same
<1>10. TimersOK'
  BY <1>1, <1>2, <1>4 DEF TimersOK, NextCursor
<1>11. NoTrace'
  BY <1>1, <1>8, <1>9, NoTraceStays
<1> QED BY <1>8, <1>9, <1>10, <1>11

\* An answer that changes at most the due time and the task of the agent.
LEMMA AnswerKeeps ==
  ASSUME IInv, NEW i \in 1 .. Overlap[kind], NEW a \in run[i].flying, Settle(i, a),
         UNCHANGED <<running, agents, kind, cursor, haunted>>,
         Schedule(a) \/ UNCHANGED next,
         \A b \in Agent \ {a} : recent'[b] \in {0, recent[b]},
         RecentOK', ScreensOK', LoadIsCurrent', ScreenIsCurrent'
  PROVE  IInv'
<1> USE DEF IInv, Typed
<1>1. /\ RunsOK' /\ \A b : Contacted(b)' => Contacted(b)
      /\ a \in Agent /\ Contacted(a)
  BY SettleIs
<1>2. AgentsOK' /\ Stored' = Stored
  BY Same
<1>3. TimersOK' /\ \A b \in Agent \ {a} : next'[b] = next[b]
  BY <1>1 DEF TimersOK, Schedule
<1>4. a \in Stored \cup haunted
  BY <1>1 DEF NoTrace
<1>5. NoTrace'
  BY <1>1, <1>2, <1>3, <1>4, NoTraceStays
<1> QED BY <1>1, <1>2, <1>3, <1>5

\* Every open stream is told of the version recorded, and every other screen, or
\* load response on its way, is excused.
LEMMA ShowsKeeps ==
  ASSUME IInv, NEW a \in Agent, NEW v \in 1 .. MaxVersion, Shows(a, v),
         recent'[a] \in {0, v}, \A b \in Agent \ {a} : recent'[b] \in {0, recent[b]}
  PROVE  ScreensOK' /\ LoadIsCurrent' /\ ScreenIsCurrent'
<1> USE DEF IInv, Typed
<1> DEFINE open == {c \in Screen : stream[c] = "open"}
           Merged(c) == [screen[c] EXCEPT ![a] = v]
<1>1. PICK top \in [open -> SUBSET Agent] :
        /\ \A c \in open : top[c] \in Newest(Merged(c), ScreenLimit)
        /\ screen' = [c \in Screen |-> IF c \in open THEN Only(Merged(c), top[c]) ELSE screen[c]]
  BY DEF Shows
<1>2. /\ UNCHANGED <<stream, loading>>
      /\ behind' \in [Screen -> SUBSET Agent] /\ late' \in [Screen -> SUBSET Agent]
      /\ \A c \in Screen : behind'[c] = IF c \in open THEN behind[c] \ {a} ELSE behind[c] \cup {a}
      /\ \A c \in Screen : Arriving(c) => late'[c] = late[c] \cup {a}
      /\ \A c \in Screen : loading[c] = <<>> => late'[c] = {}
  <2>1. \A c \in Screen : Arriving(c) => loading[c] # <<>>
    BY DEF Arriving
  <2> QED BY <2>1 DEF Shows, ScreensOK
<1>3. \A c \in Screen : /\ screen[c] \in Versions /\ IsFiniteSet(Listed(screen[c]))
                        /\ ListOK(screen[c], ScreenLimit) /\ Agrees(recent, screen[c], behind[c])
  BY CurrentAgrees DEF ScreensOK, ListOK
<1>4. ASSUME NEW c \in open
      PROVE  ListOK(screen'[c], ScreenLimit) /\ Agrees(recent', screen'[c], behind'[c])
  <2>1. /\ Merged(c) \in Versions /\ IsFiniteSet(Listed(Merged(c)))
        /\ Listed(screen[c]) \subseteq Listed(Merged(c))
    BY <1>3, PutIs
  <2>2. screen'[c] \in Slice(Merged(c), ScreenLimit)
    BY <1>1 DEF Slice
  <2>3. ASSUME NEW b \in Agent \ behind'[c], recent'[b] > 0
        PROVE  Merged(c)[b] = recent'[b] \/ (Merged(c)[b] = 0 /\ Cardinality(Listed(screen[c])) = ScreenLimit)
    <3>0. screen[c] \in Versions
      BY <1>3
    <3>1. CASE b = a
      BY <2>3, <3>0, <3>1 DEF Versions
    <3>2. CASE b # a
      <4>1. b \in Agent \ behind[c] /\ recent'[b] = recent[b] /\ Merged(c)[b] = screen[c][b]
        BY <1>2, <2>3, <3>0, <3>2 DEF Versions
      <4>2. Agrees(recent, screen[c], behind[c])
        BY <1>3
      <4> QED BY <2>3, <4>1, <4>2 DEF Agrees
    <3> QED BY <3>1, <3>2
  <2> HIDE DEF Merged
  <2> QED BY <1>3, <2>1, <2>2, <2>3, SliceAgrees
<1>5. ASSUME NEW c \in Screen, c \notin open
      PROVE  ListOK(screen'[c], ScreenLimit) /\ Agrees(recent', screen'[c], behind'[c])
  <2>1. screen'[c] = screen[c] /\ behind[c] \subseteq behind'[c]
    BY <1>1, <1>2, <1>5
  <2>2. \A b \in Agent \ behind'[c] : recent'[b] = 0 \/ recent'[b] = recent[b]
    BY <1>2, <1>5
  <2> QED BY <1>3, <2>1, <2>2, AgreesStays
<1>6. ASSUME NEW c \in Screen, Arriving(c)
      PROVE  Agrees(recent', loading'[c][1], late'[c])
  <2>1. Agrees(recent, loading[c][1], late[c]) /\ late'[c] = late[c] \cup {a} /\ loading' = loading
    BY <1>2, <1>6, CurrentAgrees
  <2>2. \A b \in Agent \ late'[c] : recent'[b] = 0 \/ recent'[b] = recent[b]
    BY <2>1
  <2> QED BY <2>1, <2>2, AgreesStays
<1>7. /\ \A c \in Screen : ListOK(screen'[c], ScreenLimit) /\ Agrees(recent', screen'[c], behind'[c])
      /\ screen' = [c \in Screen |-> screen'[c]]
  BY <1>1, <1>4, <1>5
<1>8. screen' \in [Screen -> Versions]
  BY <1>7 DEF ListOK
<1>9. ScreensOK'
  BY <1>2, <1>7, <1>8 DEF ScreensOK, Arriving
<1>10. LoadIsCurrent'
  BY <1>2, <1>6, CurrentAgrees DEF Arriving
<1> QED BY <1>7, <1>9, <1>10, CurrentAgrees

LEMMA AnswersKeep ==
  ASSUME IInv, NEW i \in 1 .. Overlap[kind], Answers(i)
  PROVE  IInv'
<1> USE DEF IInv, Typed
<1>1. PICK a \in run[i].flying :
        \/ HealthAnswer(i, a) \/ TasksFail(i, a) \/ TasksRefused(i, a)
        \/ \E v \in 0 .. MaxVersion : TasksAnswer(i, a, v)
  BY DEF Answers
<1>2. a \in Agent
  BY DEF RunsOK, Runs
<1>3. CASE HealthAnswer(i, a) \/ TasksFail(i, a) \/ TasksRefused(i, a)
  <2>1. /\ UNCHANGED <<running, agents, kind, maxRecent, cursor, recent, stream, loading, screen, late, behind, haunted>>
        /\ Settle(i, a) /\ (Schedule(a) \/ UNCHANGED next)
    BY <1>3 DEF HealthAnswer, TasksFail, TasksRefused, options, screenVars, listVars
  <2>2. RecentOK' /\ ScreensOK' /\ LoadIsCurrent' /\ ScreenIsCurrent'
    BY <2>1, Same
  <2> QED BY <2>1, <2>2, AnswerKeeps
<1>4. CASE \E v \in 0 .. MaxVersion : TasksAnswer(i, a, v)
  <2>1. PICK v \in 0 .. MaxVersion : TasksAnswer(i, a, v)
    BY <1>4
  <2>2. /\ UNCHANGED <<running, agents, kind, maxRecent, cursor, haunted>>
        /\ Settle(i, a) /\ Schedule(a)
    BY <2>1 DEF TasksAnswer, options
  <2>3. CASE UNCHANGED <<recent, screenVars>>
    <3>1. UNCHANGED <<recent, stream, loading, screen, late, behind>>
      BY <2>3 DEF screenVars, listVars
    <3>2. RecentOK' /\ ScreensOK' /\ LoadIsCurrent' /\ ScreenIsCurrent'
      BY <2>2, <3>1, Same
    <3> QED BY <2>2, <3>1, <3>2, AnswerKeeps
  <2>4. CASE v # 0 /\ recent' \in Trimmed([recent EXCEPT ![a] = v]) /\ Shows(a, v)
    <3>1. /\ RecentOK' /\ recent'[a] \in {0, v}
          /\ \A b \in Agent \ {a} : recent'[b] \in {0, recent[b]}
      BY <1>2, <2>2, <2>4, TrimmedIs
    <3>2. v \in 1 .. MaxVersion
      BY <2>4
    <3>3. ScreensOK' /\ LoadIsCurrent' /\ ScreenIsCurrent'
      BY <1>2, <2>4, <3>1, <3>2, ShowsKeeps
    <3> QED BY <2>2, <3>1, <3>3, AnswerKeeps
  <2> QED BY <2>1, <2>3, <2>4 DEF TasksAnswer
<1> QED BY <1>1, <1>3, <1>4

\* A screen loads, opens its stream, or loses it.
ScreenStep(c) == OpenScreen(c) \/ LoadAnswered(c) \/ LoadArrives(c) \/ StreamOpens(c) \/ Reconnect(c)

LEMMA LoadAnsweredKeeps ==
  ASSUME IInv, NEW c \in Screen, LoadAnswered(c)
  PROVE  ScreensOK' /\ LoadIsCurrent' /\ ScreenIsCurrent'
<1> USE DEF IInv, Typed
<1>1. PICK tasks \in Slice(recent, ScreenLimit) : loading' = [loading EXCEPT ![c] = <<tasks>>]
  BY DEF LoadAnswered
<1>2. UNCHANGED <<recent, stream, screen, late, behind>> /\ late[c] = {}
  BY DEF LoadAnswered, ScreensOK
<1>3. recent \in Versions /\ IsFiniteSet(Listed(recent))
  BY DEF RecentOK, ListOK
<1>4. ListOK(tasks, ScreenLimit) /\ Agrees(recent, tasks, {})
  <2>1. /\ ListOK(tasks, ScreenLimit) /\ \A a \in Agent : tasks[a] \in {0, recent[a]}
        /\ \A a \in Agent : recent[a] > 0 /\ tasks[a] = 0 => Cardinality(Listed(tasks)) = ScreenLimit
    BY <1>3, SliceIs, ConstantsOK
  <2> QED BY <2>1 DEF Agrees
<1>5. tasks \in Versions /\ <<tasks>> \in Seq(Versions)
  <2>1. tasks \in Versions
    BY <1>4 DEF ListOK
  <2> HIDE DEF Versions
  <2> QED BY <2>1
<1>6. /\ loading' \in [Screen -> Seq(Versions)] /\ loading'[c] = <<tasks>>
      /\ \A d \in Screen \ {c} : loading'[d] = loading[d]
  BY <1>1, <1>2, <1>5 DEF ScreensOK
<1>7. ASSUME NEW d \in Screen, Arriving(d)'
      PROVE  ListOK(loading'[d][1], ScreenLimit) /\ Agrees(recent', loading'[d][1], late'[d])
  <2>1. CASE d = c
    <3>1. loading'[d][1] = tasks /\ recent' = recent /\ late'[d] = {}
      BY <1>2, <1>6, <2>1
    <3> QED BY <1>4, <3>1
  <2>2. CASE d # c
    BY <1>2, <1>6, <1>7, <2>2, CurrentAgrees DEF ScreensOK, Arriving
  <2> QED BY <2>1, <2>2
<1>8. ScreensOK'
  <2>1. \A d \in Screen : loading'[d] = <<>> => late'[d] = {}
    BY <1>2, <1>6 DEF ScreensOK
  <2> QED BY <1>2, <1>6, <1>7, <2>1 DEF ScreensOK
<1>9. ScreenIsCurrent'
  BY <1>2, CurrentAgrees
<1> QED BY <1>7, <1>8, <1>9, CurrentAgrees

LEMMA LoadArrivesKeeps ==
  ASSUME IInv, NEW c \in Screen, LoadArrives(c)
  PROVE  ScreensOK' /\ LoadIsCurrent' /\ ScreenIsCurrent'
<1> USE DEF IInv, Typed
<1>1. /\ Arriving(c) /\ UNCHANGED <<recent, stream>>
      /\ screen' = [screen EXCEPT ![c] = loading[c][1]]
      /\ loading' = [loading EXCEPT ![c] = <<>>] /\ late' = [late EXCEPT ![c] = {}]
      /\ behind' = [behind EXCEPT ![c] = late[c]]
  BY DEF LoadArrives, Arriving
<1>2. ListOK(loading[c][1], ScreenLimit) /\ Agrees(recent, loading[c][1], late[c])
  BY <1>1, CurrentAgrees DEF ScreensOK
<1>3. /\ screen' \in [Screen -> Versions] /\ late' \in [Screen -> SUBSET Agent]
      /\ behind' \in [Screen -> SUBSET Agent] /\ loading' \in [Screen -> Seq(Versions)]
      /\ loading'[c] = <<>> /\ screen'[c] = loading[c][1] /\ behind'[c] = late[c]
      /\ \A d \in Screen \ {c} : /\ loading'[d] = loading[d] /\ late'[d] = late[d]
                                /\ screen'[d] = screen[d] /\ behind'[d] = behind[d]
  <2>1. loading[c][1] \in Versions
    BY <1>2 DEF ListOK
  <2>2. <<>> \in Seq(Versions)
    OBVIOUS
  <2> QED BY <1>1, <2>1, <2>2 DEF ScreensOK
<1>4. ASSUME NEW d \in Screen
      PROVE  ListOK(screen'[d], ScreenLimit) /\ Agrees(recent', screen'[d], behind'[d])
  <2>1. CASE d = c
    BY <1>1, <1>2, <1>3, <2>1
  <2>2. CASE d # c
    BY <1>1, <1>3, <2>2, CurrentAgrees DEF ScreensOK
  <2> QED BY <2>1, <2>2
<1>5. ASSUME NEW d \in Screen, Arriving(d)'
      PROVE  ListOK(loading'[d][1], ScreenLimit) /\ Agrees(recent', loading'[d][1], late'[d])
  <2>1. d # c
    <3>1. Len(loading'[d]) = 1 /\ loading'[c] = <<>> /\ Len(<<>>) = 0
      BY <1>3, <1>5 DEF Arriving
    <3> QED BY <3>1
  <2>2. loading'[d] = loading[d] /\ late'[d] = late[d] /\ Arriving(d)
    BY <1>3, <1>5, <2>1 DEF Arriving
  <2> QED BY <1>1, <2>2, CurrentAgrees DEF ScreensOK
<1>6. ScreensOK'
  BY <1>1, <1>3, <1>4, <1>5 DEF ScreensOK
<1> QED BY <1>4, <1>5, <1>6, CurrentAgrees

LEMMA StreamOpensKeeps ==
  ASSUME IInv, NEW c \in Screen, StreamOpens(c)
  PROVE  ScreensOK' /\ LoadIsCurrent' /\ ScreenIsCurrent'
<1> USE DEF IInv, Typed
<1> DEFINE Merged(top) == [a \in Agent |-> IF a \in top THEN recent[a] ELSE screen[c][a]]
<1>1. PICK top \in Newest(recent, SnapshotSize) :
        /\ \E tasks \in Slice(Merged(top), ScreenLimit) : screen' = [screen EXCEPT ![c] = tasks]
        /\ behind' = [behind EXCEPT ![c] = @ \ top]
  BY DEF StreamOpens
<1> DEFINE merged == Merged(top)
<1>2. PICK tasks \in Slice(merged, ScreenLimit) : screen' = [screen EXCEPT ![c] = tasks]
  BY <1>1
<1>3. UNCHANGED <<recent, loading, late>> /\ stream' = [stream EXCEPT ![c] = "open"]
  BY DEF StreamOpens
<1>4. /\ recent \in Versions /\ IsFiniteSet(Listed(recent)) /\ top \subseteq Listed(recent)
      /\ screen[c] \in Versions /\ IsFiniteSet(Listed(screen[c])) /\ ListOK(screen[c], ScreenLimit)
      /\ Agrees(recent, screen[c], behind[c])
  BY <1>1, CurrentAgrees DEF RecentOK, ScreensOK, ListOK, Newest
<1>5. /\ merged \in Versions /\ IsFiniteSet(Listed(merged)) /\ Listed(screen[c]) \subseteq Listed(merged)
      /\ \A a \in Agent : merged[a] = IF a \in top THEN recent[a] ELSE screen[c][a]
  <2>1. /\ merged \in Versions /\ Listed(screen[c]) \subseteq Listed(merged)
        /\ Listed(merged) \subseteq Listed(recent) \cup Listed(screen[c])
        /\ \A a \in Agent : merged[a] = IF a \in top THEN recent[a] ELSE screen[c][a]
    BY <1>4 DEF Versions, Listed
  <2>2. IsFiniteSet(Listed(recent) \cup Listed(screen[c]))
    BY <1>4, FS_Union
  <2> QED BY <2>1, <2>2, FS_Subset
<1> HIDE DEF merged
<1>6. ASSUME NEW a \in Agent \ (behind[c] \ top), recent[a] > 0
      PROVE  merged[a] = recent[a] \/ (merged[a] = 0 /\ Cardinality(Listed(screen[c])) = ScreenLimit)
  BY <1>4, <1>5, <1>6 DEF Agrees
<1>7. ListOK(tasks, ScreenLimit) /\ Agrees(recent, tasks, behind[c] \ top)
  BY <1>2, <1>4, <1>5, <1>6, SliceAgrees
<1>8. /\ screen' \in [Screen -> Versions] /\ behind' \in [Screen -> SUBSET Agent]
      /\ stream' \in [Screen -> {"none", "authenticating", "open", "closed"}]
      /\ screen'[c] = tasks /\ behind'[c] = behind[c] \ top
      /\ \A d \in Screen \ {c} : screen'[d] = screen[d] /\ behind'[d] = behind[d]
  <2>1. tasks \in Versions
    BY <1>7 DEF ListOK
  <2> QED BY <1>1, <1>2, <1>3, <2>1 DEF ScreensOK
<1>9. ASSUME NEW d \in Screen
      PROVE  ListOK(screen'[d], ScreenLimit) /\ Agrees(recent', screen'[d], behind'[d])
  <2>1. CASE d = c
    BY <1>3, <1>7, <1>8, <2>1
  <2>2. CASE d # c
    BY <1>3, <1>8, <2>2, CurrentAgrees DEF ScreensOK
  <2> QED BY <2>1, <2>2
<1>10. ScreensOK'
  BY <1>3, <1>8, <1>9 DEF ScreensOK, Arriving
<1>11. LoadIsCurrent'
  BY <1>3, CurrentAgrees DEF Arriving
<1> QED BY <1>9, <1>10, <1>11, CurrentAgrees

LEMMA ScreensKeep ==
  ASSUME IInv, Stop \/ \E c \in Screen : ScreenStep(c)
  PROVE  IInv'
<1> USE DEF IInv, Typed
<1>1. /\ UNCHANGED <<agents, kind, maxRecent, cursor, next, run, recent, haunted>>
      /\ running' \in BOOLEAN
  BY DEF Stop, ScreenStep, OpenScreen, LoadAnswered, LoadArrives, StreamOpens, Reconnect, options, runVars, TimersOK
<1>2. AgentsOK' /\ RunsOK' /\ RecentOK' /\ TimersOK'
  BY <1>1, Same DEF TimersOK
<1>3. NoTrace'
  BY <1>1, Same, NoTraceStays
<1>4. ScreensOK' /\ LoadIsCurrent' /\ ScreenIsCurrent'
  <2>1. CASE Stop \/ \E c \in Screen : OpenScreen(c) \/ Reconnect(c)
    <3>1. /\ UNCHANGED <<recent, loading, screen, late, behind>>
          /\ stream' \in [Screen -> {"none", "authenticating", "open", "closed"}]
      BY <2>1 DEF Stop, OpenScreen, Reconnect, ScreensOK, listVars
    <3> QED BY <3>1, Same DEF ScreensOK, Arriving
  <2> QED BY <2>1, LoadAnsweredKeeps, LoadArrivesKeeps, StreamOpensKeeps DEF ScreenStep
<1> QED BY <1>2, <1>3, <1>4

LEMMA IInvNext == IInv /\ [Next]_vars => IInv'
<1> SUFFICES ASSUME IInv, [Next]_vars PROVE IInv' OBVIOUS
<1>1. CASE UNCHANGED vars
  <2>1. /\ UNCHANGED <<running, agents, kind, maxRecent, cursor, next, run, recent>>
        /\ UNCHANGED <<stream, loading, screen, late, behind, haunted>>
    BY <1>1 DEF vars, options, runVars, screenVars, listVars
  <2> QED BY <2>1, Same, NoTraceStays DEF IInv, Typed
<1>2. CASE Ticks
  BY <1>2, TickKeeps DEF Ticks
<1>3. ASSUME NEW a \in Agent, Route(a) PROVE IInv'
  BY <1>3, RegisterKeeps, DeleteKeeps, TimersKeep DEF Route
<1> QED BY <1>1, <1>2, <1>3, TimersKeep, AnswersKeep, ScreensKeep DEF Next, ScreenStep

LEMMA IInvAlways == Spec => []IInv
BY IInvInit, IInvNext, PTL DEF Spec

\* Every variable keeps its type: no agent is listed twice, no run has more requests
\* in flight than its concurrency, no more tasks are recorded than maxRecentTasks,
\* and no screen shows more than its limit.
THEOREM TypeCorrect == Spec => []TypeOK
<1>1. IInv => TypeOK
  BY DEF IInv, Typed, AgentsOK, TimersOK, RunsOK, Runs, RecentOK, ListOK, Versions, ScreensOK, TypeOK
<1> QED BY <1>1, IInvAlways, PTL

\* However runs overlap with deletions, the timers and the recorded tasks hold no
\* deleted agent but those that a run was still going to contact.
THEOREM DeletedAgentsAreForgotten == Spec => []NothingOutlivesAgent
<1>1. IInv => NothingOutlivesAgent
  BY DEF IInv, NoTrace, NothingOutlivesAgent
<1> QED BY <1>1, IInvAlways, PTL

\* A screen shows the recorded version of every recorded task it has room for, but
\* for what its stream was down for or a load response overtook, for any limits and
\* any number of screens that load, connect and reconnect.
THEOREM ScreensAreCurrent == Spec => []ScreenIsCurrent
<1>1. IInv => ScreenIsCurrent
  BY DEF IInv
<1> QED BY <1>1, IInvAlways, PTL
=============================================================================
