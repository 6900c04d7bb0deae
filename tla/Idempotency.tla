----------------------------- MODULE Idempotency -----------------------------
(***************************************************************************)
(* Idempotency keys of the JSON-RPC endpoint of packages/core:             *)
(* createJsonRpcHttpHandler, resolveIdempotency, writeJsonRpcErrorResponse *)
(* and the two idempotency stores.  A call that carries a key looks its    *)
(* record up, and runs its method only if there is none; the record is     *)
(* written after the method returned and before the response is sent.      *)
(* Nothing is reserved in between, and every arrow of that sentence is an  *)
(* await.                                                                  *)
(*                                                                         *)
(* A record is represented by the call that wrote it: its fingerprint is   *)
(* that call's payload, its result what that call's method returned.  Key  *)
(* stands for a scope and key together.                                    *)
(***************************************************************************)
EXTENDS FiniteSets

CONSTANTS
  Call,     \* HTTP requests that carry an Idempotency-Key
  Key,      \* pairs of scope and key
  Payload,  \* fingerprints
  None      \* no call, no key

ASSUME IdempotencyAssumption == None \notin Call \cup Key \cup Payload

VARIABLES
  pc,       \* pc[c]: where call c is
  key,      \* key[c]: the key c carries
  payload,  \* payload[c]: its fingerprint
  ran,      \* ran[c]: what c's method returned, "no" if it did not return
  answer,   \* answer[c]: the response to c
  record,   \* record[k]: the call whose record is stored under k
  forgotten, \* history: calls whose record expired or was lost
  before    \* history: before[c] is the calls that were answered when c arrived

callVars == <<pc, key, payload, ran, answer>>
vars == <<callVars, record, forgotten, before>>

Answer(type, by) == [type |-> type, by |-> by]

\* The calls that ran their method and got its result.
Answered == {c \in Call : answer[c].type = "own"}

Init ==
  /\ pc = [c \in Call |-> "idle"]
  /\ key = [c \in Call |-> None]
  /\ payload = [c \in Call |-> None]
  /\ ran = [c \in Call |-> "no"]
  /\ answer = [c \in Call |-> Answer("none", None)]
  /\ record = [k \in Key |-> None]
  /\ forgotten = {}
  /\ before = [c \in Call |-> {}]

-----------------------------------------------------------------------------
Finish(c, a) ==
  /\ pc' = [pc EXCEPT ![c] = "done"]
  /\ answer' = [answer EXCEPT ![c] = a]

\* The request is valid and authenticated; store.get is called.
Arrive(c, k, p) ==
  /\ pc[c] = "idle"
  /\ pc' = [pc EXCEPT ![c] = "looking"]
  /\ key' = [key EXCEPT ![c] = k]
  /\ payload' = [payload EXCEPT ![c] = p]
  /\ before' = [before EXCEPT ![c] = Answered]
  /\ UNCHANGED <<ran, answer, record, forgotten>>

\* No record, or an expired one: the method runs.
LookupMisses(c) ==
  /\ pc[c] = "looking"
  /\ record[key[c]] = None
  /\ pc' = [pc EXCEPT ![c] = "running"]
  /\ UNCHANGED <<key, payload, ran, answer, record, forgotten, before>>

\* A record of another payload: IdempotencyConflict, which is not stored.
LookupConflicts(c) ==
  LET b == record[key[c]]
  IN /\ pc[c] = "looking"
     /\ b # None /\ payload[b] # payload[c]
     /\ Finish(c, Answer("conflict", None))
     /\ UNCHANGED <<key, payload, ran, record, forgotten, before>>

\* Mutant: that there is no record is not checked.
LookupReplaysNothing(c) ==
  /\ pc[c] = "looking"
  /\ Finish(c, Answer("replay", record[key[c]]))
  /\ UNCHANGED <<key, payload, ran, record, forgotten, before>>

\* Mutant: the fingerprint is not compared.
LookupReplaysAny(c) ==
  LET b == record[key[c]]
  IN /\ pc[c] = "looking"
     /\ b # None
     /\ Finish(c, Answer("replay", b))
     /\ UNCHANGED <<key, payload, ran, record, forgotten, before>>

\* A record of this payload: its result is the response.
LookupReplays(c) ==
  LET b == record[key[c]]
  IN /\ pc[c] = "looking"
     /\ b # None /\ payload[b] = payload[c]
     /\ Finish(c, Answer("replay", b))
     /\ UNCHANGED <<key, payload, ran, record, forgotten, before>>

\* store.get rejects: InternalError.
LookupFails(c) ==
  /\ pc[c] = "looking"
  /\ Finish(c, Answer("internal", None))
  /\ UNCHANGED <<key, payload, ran, record, forgotten, before>>

\* The method returns a result or throws a JsonRpcError; store.set is called.
MethodReturns(c, kind) ==
  /\ pc[c] = "running"
  /\ ran' = [ran EXCEPT ![c] = kind]
  /\ pc' = [pc EXCEPT ![c] = "storing"]
  /\ UNCHANGED <<key, payload, answer, record, forgotten, before>>

\* The method throws anything else: InternalError, and nothing is stored.
MethodBreaks(c) ==
  /\ pc[c] = "running"
  /\ Finish(c, Answer("internal", None))
  /\ UNCHANGED <<key, payload, ran, record, forgotten, before>>

\* Mutant: the response is sent first.
AnswersBeforeStoring(c) ==
  /\ pc[c] = "storing"
  /\ pc' = [pc EXCEPT ![c] = "stored"]
  /\ answer' = [answer EXCEPT ![c] = Answer("own", c)]
  /\ UNCHANGED <<key, payload, ran, record, forgotten, before>>

\* The write reaches the store.
RecordStored(c) ==
  /\ pc[c] = "storing"
  /\ record' = [record EXCEPT ![key[c]] = c]
  /\ pc' = [pc EXCEPT ![c] = "stored"]
  /\ UNCHANGED <<key, payload, ran, answer, forgotten, before>>

\* store.set rejects, before or after the write: InternalError.
StoreFails(c) ==
  /\ pc[c] \in {"storing", "stored"}
  /\ Finish(c, Answer("internal", None))
  /\ UNCHANGED <<key, payload, ran, record, forgotten, before>>

Respond(c) ==
  /\ pc[c] = "stored"
  /\ Finish(c, Answer("own", c))
  /\ UNCHANGED <<key, payload, ran, record, forgotten, before>>

-----------------------------------------------------------------------------
Forget(keys) ==
  /\ record' = [k \in Key |-> IF k \in keys THEN None ELSE record[k]]
  /\ forgotten' = forgotten \cup {b \in Call : key[b] \in keys /\ pc[b] \in {"stored", "done"}}
  /\ UNCHANGED before

\* The time to live of a record ends.
Expire(k) ==
  /\ record[k] # None
  /\ Forget({k})
  /\ UNCHANGED callVars

\* The process dies with the calls it was serving.  RedisIdempotencyStore keeps
\* the records, InMemoryIdempotencyStore loses them.
Crash ==
  /\ \E c \in Call : pc[c] \notin {"idle", "done"}
  /\ pc' = [c \in Call |-> IF pc[c] = "idle" THEN "idle" ELSE "done"]
  /\ Forget({}) \/ Forget(Key)
  /\ UNCHANGED <<key, payload, ran, answer>>

-----------------------------------------------------------------------------
Lookup(c) ==
  LookupMisses(c) \/ LookupConflicts(c) \/ LookupReplays(c) \/ LookupFails(c)

Next ==
  \/ \E c \in Call :
       \/ \E k \in Key, p \in Payload : Arrive(c, k, p)
       \/ Lookup(c)
       \/ \E kind \in {"success", "error"} : MethodReturns(c, kind)
       \/ MethodBreaks(c)
       \/ RecordStored(c)
       \/ StoreFails(c)
       \/ Respond(c)
  \/ \E k \in Key : Expire(k)
  \/ Crash

Spec == Init /\ [][Next]_vars

-----------------------------------------------------------------------------
TypeOK ==
  /\ pc \in [Call -> {"idle", "looking", "running", "storing", "stored", "done"}]
  /\ key \in [Call -> Key \cup {None}]
  /\ payload \in [Call -> Payload \cup {None}]
  /\ ran \in [Call -> {"no", "success", "error"}]
  /\ answer \in [Call -> [type : {"own", "replay"}, by : Call]
                     \cup [type : {"none", "conflict", "internal"}, by : {None}]]
  /\ record \in [Key -> Call \cup {None}]
  /\ forgotten \subseteq Call
  /\ before \in [Call -> SUBSET Call]

\* The method of c was started.
Started(c) == pc[c] = "running" \/ ran[c] # "no"

(***************************************************************************)
(* Once a call got its answer, no later call with its key runs the method, *)
(* whatever its payload, until the record expires or the store is lost:    *)
(* the retry of an answered call is a replay.                              *)
(***************************************************************************)
AnsweredNeverRunsAgain ==
  \A c \in Call : Started(c) => \A b \in before[c] \ forgotten : key[b] # key[c]

(***************************************************************************)
(* A replayed response is the result of a call with the same key and the   *)
(* same payload, and a conflict is reported only if a call with the same   *)
(* key and another payload did run.                                        *)
(***************************************************************************)
ReplaysAndConflictsAreReal ==
  \A c \in Call :
    /\ answer[c].type = "replay" =>
         LET b == answer[c].by
         IN b # c /\ key[b] = key[c] /\ payload[b] = payload[c] /\ ran[b] # "no"
    /\ answer[c].type = "conflict" =>
         \E b \in Call : key[b] = key[c] /\ payload[b] # payload[c] /\ ran[b] # "no"

(***************************************************************************)
(* packages/core/tests/A2AServerEdge.test.ts:336 says that the endpoint    *)
(* "replays idempotent task creation requests and rejects conflicting      *)
(* payloads": of the calls that carry one key, one runs.  It is violated   *)
(* by two calls whose lookups both come before the first write.            *)
(***************************************************************************)
OneRunPerKey ==
  \A b, c \in Answered \ forgotten : key[b] = key[c] => b = c
=============================================================================
