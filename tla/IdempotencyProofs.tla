-------------------------- MODULE IdempotencyProofs --------------------------
(***************************************************************************)
(* That an answered call is never run again, for every set of calls, keys  *)
(* and payloads.  The argument: from the write of a record to its expiry   *)
(* there is some record under its key, because a write only replaces one   *)
(* record by another; so a lookup that comes after an answer finds one.    *)
(***************************************************************************)
EXTENDS Idempotency, TLAPS

\* A call whose record was written and not forgotten has a record under its
\* key, and what a call finds when it arrives stays true.
Recorded ==
  /\ \A c \in Call \ forgotten : pc[c] = "stored" \/ c \in Answered => record[key[c]] # None
  /\ \A c \in Answered : pc[c] = "done"
  /\ \A c \in forgotten : pc[c] \in {"stored", "done"}
  /\ \A c \in Call : pc[c] # "idle" => key[c] \in Key
  /\ \A c \in Call : before[c] \subseteq Answered
  /\ \A c \in Call : pc[c] \in {"idle", "looking"} => ran[c] = "no"

IInv == TypeOK /\ Recorded /\ AnsweredNeverRunsAgain

LEMMA InitIInv == Init => IInv
BY IdempotencyAssumption
   DEF Init, IInv, TypeOK, Recorded, AnsweredNeverRunsAgain, Answered, Answer, Started

-----------------------------------------------------------------------------
LEMMA NextTypeOK == IInv /\ [Next]_vars => TypeOK'
<1> SUFFICES ASSUME IInv, [Next]_vars PROVE TypeOK' OBVIOUS
<1> USE DEF IInv, TypeOK, Recorded
<1>1. ASSUME NEW c \in Call, NEW k \in Key, NEW p \in Payload, Arrive(c, k, p) PROVE TypeOK'
  BY <1>1 DEF Arrive, Answered
<1>2. ASSUME NEW c \in Call, Lookup(c) PROVE TypeOK'
  <2>1. key[c] \in Key
    BY <1>2 DEF Lookup, LookupMisses, LookupConflicts, LookupReplays, LookupFails
  <2>2. CASE LookupMisses(c)
    BY <2>2 DEF LookupMisses
  <2>3. CASE LookupConflicts(c)
    BY <2>3 DEF LookupConflicts, Finish, Answer
  <2>4. CASE LookupReplays(c)
    BY <2>1, <2>4 DEF LookupReplays, Finish, Answer
  <2>5. CASE LookupFails(c)
    BY <2>5 DEF LookupFails, Finish, Answer
  <2> QED BY <1>2, <2>2, <2>3, <2>4, <2>5 DEF Lookup
<1>3. ASSUME NEW c \in Call, NEW kind \in {"success", "error"}, MethodReturns(c, kind)
      PROVE  TypeOK'
  BY <1>3 DEF MethodReturns
<1>4. ASSUME NEW c \in Call, MethodBreaks(c) \/ StoreFails(c) PROVE TypeOK'
  BY <1>4 DEF MethodBreaks, StoreFails, Finish, Answer
<1>5. ASSUME NEW c \in Call, RecordStored(c) PROVE TypeOK'
  BY <1>5 DEF RecordStored
<1>6. ASSUME NEW c \in Call, Respond(c) PROVE TypeOK'
  BY <1>6 DEF Respond, Finish, Answer
<1>7. ASSUME NEW keys \in SUBSET Key, Forget(keys), UNCHANGED <<key, payload, ran, answer>>,
             pc' = pc \/ pc' = [c \in Call |-> IF pc[c] = "idle" THEN "idle" ELSE "done"]
      PROVE  TypeOK'
  BY <1>7 DEF Forget
<1>8. ASSUME NEW k \in Key, Expire(k) PROVE TypeOK'
  BY <1>7, <1>8 DEF Expire, callVars
<1>9. CASE Crash
  BY <1>7, <1>9 DEF Crash
<1>10. CASE UNCHANGED vars
  BY <1>10 DEF vars, callVars
<1> QED
  BY <1>1, <1>2, <1>3, <1>4, <1>5, <1>6, <1>8, <1>9, <1>10 DEF Next

-----------------------------------------------------------------------------
LEMMA NextRecorded == IInv /\ [Next]_vars => Recorded'
<1> SUFFICES ASSUME IInv, [Next]_vars PROVE Recorded' OBVIOUS
<1> USE DEF IInv, TypeOK, Recorded, Answered
<1>1. ASSUME NEW c \in Call, NEW k \in Key, NEW p \in Payload, Arrive(c, k, p)
      PROVE  Recorded'
  BY <1>1 DEF Arrive
<1>2. ASSUME NEW c \in Call, Lookup(c) PROVE Recorded'
  BY <1>2 DEF Lookup, LookupMisses, LookupConflicts, LookupReplays, LookupFails, Finish, Answer
<1>3. ASSUME NEW c \in Call, NEW kind \in {"success", "error"}, MethodReturns(c, kind)
      PROVE  Recorded'
  BY <1>3 DEF MethodReturns
<1>4. ASSUME NEW c \in Call, MethodBreaks(c) \/ StoreFails(c) PROVE Recorded'
  BY <1>4 DEF MethodBreaks, StoreFails, Finish, Answer
<1>5. ASSUME NEW c \in Call, RecordStored(c) PROVE Recorded'
  BY <1>5, IdempotencyAssumption DEF RecordStored
<1>6. ASSUME NEW c \in Call, Respond(c) PROVE Recorded'
  BY <1>6 DEF Respond, Finish, Answer
<1>7. ASSUME NEW keys \in SUBSET Key, Forget(keys), UNCHANGED <<key, payload, ran, answer>>,
             pc' = pc \/ pc' = [c \in Call |-> IF pc[c] = "idle" THEN "idle" ELSE "done"]
      PROVE  Recorded'
  BY <1>7 DEF Forget
<1>8. ASSUME NEW k \in Key, Expire(k) PROVE Recorded'
  BY <1>7, <1>8 DEF Expire, callVars
<1>9. CASE Crash
  BY <1>7, <1>9 DEF Crash
<1>10. CASE UNCHANGED vars
  BY <1>10 DEF vars, callVars
<1> QED
  BY <1>1, <1>2, <1>3, <1>4, <1>5, <1>6, <1>8, <1>9, <1>10 DEF Next

-----------------------------------------------------------------------------
LEMMA NextNeverRunsAgain == IInv /\ [Next]_vars => AnsweredNeverRunsAgain'
<1> SUFFICES ASSUME IInv, [Next]_vars PROVE AnsweredNeverRunsAgain' OBVIOUS
<1> USE DEF IInv, TypeOK, AnsweredNeverRunsAgain, Started
<1>1. ASSUME NEW c \in Call, LookupMisses(c) PROVE AnsweredNeverRunsAgain'
  <2>1. \A b \in before[c] \ forgotten : b \in Answered /\ record[key[b]] # None
    BY DEF Recorded
  <2>2. \A b \in before[c] \ forgotten : key[b] # key[c]
    BY <1>1, <2>1 DEF LookupMisses
  <2> QED BY <1>1, <2>2 DEF LookupMisses
<1>2. ASSUME NEW c \in Call, NEW k \in Key, NEW p \in Payload, Arrive(c, k, p)
      PROVE  AnsweredNeverRunsAgain'
  BY <1>2 DEF Arrive, Recorded, Answered
<1>3. ASSUME \A c \in Call : Started(c)' => Started(c), forgotten \subseteq forgotten',
             UNCHANGED <<key, before>>
      PROVE  AnsweredNeverRunsAgain'
  BY <1>3
<1>4. ASSUME NEW c \in Call, LookupConflicts(c) \/ LookupReplays(c) \/ LookupFails(c)
      PROVE  AnsweredNeverRunsAgain'
  BY <1>3, <1>4 DEF LookupConflicts, LookupReplays, LookupFails, Finish
<1>5. ASSUME NEW c \in Call, NEW kind \in {"success", "error"}, MethodReturns(c, kind)
      PROVE  AnsweredNeverRunsAgain'
  BY <1>3, <1>5 DEF MethodReturns
<1>6. ASSUME NEW c \in Call, MethodBreaks(c) \/ StoreFails(c) \/ RecordStored(c) \/ Respond(c)
      PROVE  AnsweredNeverRunsAgain'
  BY <1>3, <1>6 DEF MethodBreaks, StoreFails, RecordStored, Respond, Finish
<1>7. ASSUME NEW k \in Key, Expire(k) PROVE AnsweredNeverRunsAgain'
  BY <1>3, <1>7 DEF Expire, callVars, Forget
<1>8. CASE Crash
  BY <1>3, <1>8 DEF Crash, Forget
<1>9. CASE UNCHANGED vars
  BY <1>3, <1>9 DEF vars, callVars
<1> QED
  BY <1>1, <1>2, <1>4, <1>5, <1>6, <1>7, <1>8, <1>9 DEF Next, Lookup

LEMMA AlwaysIInv == Spec => []IInv
<1>1. IInv /\ [Next]_vars => IInv'
  BY NextTypeOK, NextRecorded, NextNeverRunsAgain DEF IInv
<1> QED BY InitIInv, <1>1, PTL DEF Spec

\* Every call is at a place the handler knows, and every record is that of a
\* call: type correctness of the idempotency layer of the JSON-RPC endpoint.
THEOREM TypeCorrect == Spec => []TypeOK
<1>1. IInv => TypeOK
  BY DEF IInv
<1> QED BY <1>1, AlwaysIInv, PTL

\* While its record lives, the retry of an answered call never runs the method
\* again, however many calls carry the key and wherever the process crashes.
THEOREM RetriesAreSafe == Spec => []AnsweredNeverRunsAgain
<1>1. IInv => AnsweredNeverRunsAgain
  BY DEF IInv
<1> QED BY <1>1, AlwaysIInv, PTL

-----------------------------------------------------------------------------
(***************************************************************************)
(* Where a replay or a conflict comes from: a record was written by a call *)
(* with its key whose method returned, and such a call stays what it was.  *)
(***************************************************************************)
Real ==
  /\ \A k \in Key : record[k] # None => key[record[k]] = k /\ ran[record[k]] # "no"
  /\ \A c \in Call : pc[c] \in {"storing", "stored"} => ran[c] # "no"
  /\ \A c \in Call : answer[c].type # "none" => pc[c] = "done"
  /\ ReplaysAndConflictsAreReal

\* A call whose method returned keeps its key, its payload and the fact.
LEMMA ReturnedIsKept ==
  ASSUME IInv, [Next]_vars, NEW b \in Call, ran[b] # "no"
  PROVE  key'[b] = key[b] /\ payload'[b] = payload[b] /\ ran'[b] # "no"
<1> USE DEF IInv, TypeOK, Recorded
<1>1. ASSUME NEW c \in Call, NEW k \in Key, NEW p \in Payload, Arrive(c, k, p)
      PROVE  key'[b] = key[b] /\ payload'[b] = payload[b] /\ ran'[b] # "no"
  BY <1>1 DEF Arrive
<1>2. ASSUME NEW c \in Call, NEW kind \in {"success", "error"}, MethodReturns(c, kind)
      PROVE  key'[b] = key[b] /\ payload'[b] = payload[b] /\ ran'[b] # "no"
  BY <1>2 DEF MethodReturns
<1>3. ASSUME NEW c \in Call, Lookup(c) PROVE UNCHANGED <<key, payload, ran>>
  BY <1>3 DEF Lookup, LookupMisses, LookupConflicts, LookupReplays, LookupFails
<1>4. ASSUME NEW c \in Call, MethodBreaks(c) \/ RecordStored(c) \/ StoreFails(c) \/ Respond(c)
      PROVE  UNCHANGED <<key, payload, ran>>
  BY <1>4 DEF MethodBreaks, RecordStored, StoreFails, Respond
<1>5. ASSUME (\E k \in Key : Expire(k)) \/ Crash \/ UNCHANGED vars
      PROVE  UNCHANGED <<key, payload, ran>>
  BY <1>5 DEF Expire, Crash, vars, callVars
<1> QED BY <1>1, <1>2, <1>3, <1>4, <1>5 DEF Next

\* Every step keeps the origin of replays and conflicts; step 0 is for the steps
\* that run no method, write no record and answer from neither.
LEMMA NextReal == IInv /\ Real /\ [Next]_vars => Real'
<1> SUFFICES ASSUME IInv, Real, [Next]_vars PROVE Real' OBVIOUS
<1>a. \A b \in Call : ran[b] # "no" =>
        key'[b] = key[b] /\ payload'[b] = payload[b] /\ ran'[b] # "no"
  BY ReturnedIsKept
<1> USE DEF IInv, TypeOK
<1>0. ASSUME UNCHANGED <<key, payload, ran>>,
             \A k \in Key : record'[k] \in {record[k], None},
             \A c \in Call : pc'[c] \in {"storing", "stored"} => pc[c] \in {"storing", "stored"},
             \A c \in Call : pc[c] = "done" => pc'[c] = "done",
             \A c \in Call : answer'[c] = answer[c]
                           \/ (pc'[c] = "done" /\ answer'[c].type \in {"own", "internal"})
      PROVE  Real'
  <2>1. \A k \in Key : record'[k] # None => key[record'[k]] = k /\ ran[record'[k]] # "no"
    BY <1>0 DEF Real
  <2>2. \A c \in Call : pc'[c] \in {"storing", "stored"} => ran[c] # "no"
    BY <1>0 DEF Real
  <2>3. \A c \in Call : answer'[c].type # "none" => pc'[c] = "done"
    BY <1>0 DEF Real
  <2>4. ReplaysAndConflictsAreReal'
    BY <1>0 DEF Real, ReplaysAndConflictsAreReal
  <2> QED BY <1>0, <2>1, <2>2, <2>3, <2>4 DEF Real
<1>1. ASSUME NEW c \in Call, NEW k \in Key, NEW p \in Payload, Arrive(c, k, p) PROVE Real'
  <2>1. /\ answer[c].type = "none" /\ UNCHANGED <<ran, answer, record>>
        /\ \A d \in Call \ {c} : key'[d] = key[d] /\ payload'[d] = payload[d] /\ pc'[d] = pc[d]
        /\ pc'[c] = "looking"
    BY <1>1 DEF Arrive, Real
  <2>2. ReplaysAndConflictsAreReal'
    <3>1. ASSUME NEW d \in Call, answer'[d].type # "none"
          PROVE  d # c /\ answer[d].type = answer'[d].type
      BY <2>1, <3>1
    <3> QED BY <1>a, <2>1, <3>1 DEF Real, ReplaysAndConflictsAreReal
  <2> QED BY <1>a, <2>1, <2>2 DEF Real
<1>2. ASSUME NEW c \in Call, NEW a, Finish(c, a), pc[c] = "looking",
             UNCHANGED <<key, payload, ran, record>>,
             LET b == record[key[c]]
             IN  /\ b # None
                 /\ \/ a = Answer("conflict", None) /\ payload[b] # payload[c]
                    \/ a = Answer("replay", b) /\ payload[b] = payload[c]
      PROVE  Real'
  <2> DEFINE b == record[key[c]]
  <2>1. key[c] \in Key /\ ran[c] = "no"
    BY <1>2 DEF Recorded
  <2>2. b \in Call /\ key[b] = key[c] /\ ran[b] # "no" /\ b # c
    BY <1>2, <2>1 DEF Real
  <2>3. /\ pc' = [pc EXCEPT ![c] = "done"]
        /\ answer' = [answer EXCEPT ![c] = a]
    BY <1>2 DEF Finish
  <2>4. ReplaysAndConflictsAreReal'
    <3>1. \A d \in Call \ {c} : answer'[d] = answer[d]
      BY <2>3
    <3>2. answer'[c] = a
      BY <2>3
    <3>3. CASE a = Answer("conflict", None) /\ payload[b] # payload[c]
      <4>1. a.type = "conflict"
        BY <3>3 DEF Answer
      <4> QED BY <1>2, <2>2, <3>1, <3>2, <3>3, <4>1 DEF Real, ReplaysAndConflictsAreReal
    <3>4. CASE a = Answer("replay", b) /\ payload[b] = payload[c]
      <4>1. a.type = "replay" /\ a.by = b
        BY <3>4 DEF Answer
      <4> QED BY <1>2, <2>2, <3>1, <3>2, <3>4, <4>1 DEF Real, ReplaysAndConflictsAreReal
    <3> QED BY <1>2, <3>3, <3>4
  <2> QED BY <1>2, <2>3, <2>4 DEF Real
<1>3. ASSUME NEW c \in Call, Lookup(c) PROVE Real'
  <2>1. CASE LookupMisses(c)
    BY <2>1, <1>0 DEF LookupMisses
  <2>2. CASE LookupConflicts(c) \/ LookupReplays(c)
    BY <2>2, <1>2 DEF LookupConflicts, LookupReplays
  <2>3. CASE LookupFails(c)
    BY <2>3, <1>0 DEF LookupFails, Finish, Answer
  <2> QED BY <1>3, <2>1, <2>2, <2>3 DEF Lookup
<1>4. ASSUME NEW c \in Call, NEW kind \in {"success", "error"}, MethodReturns(c, kind)
      PROVE  Real'
  <2>1. ReplaysAndConflictsAreReal'
    BY <1>4, <1>a DEF MethodReturns, Real, ReplaysAndConflictsAreReal
  <2> QED BY <1>4, <1>a, <2>1 DEF MethodReturns, Real
<1>5. ASSUME NEW c \in Call, MethodBreaks(c) \/ StoreFails(c) \/ Respond(c) PROVE Real'
  BY <1>5, <1>0 DEF MethodBreaks, StoreFails, Respond, Finish, Answer
<1>6. ASSUME NEW c \in Call, RecordStored(c) PROVE Real'
  <2>1. ReplaysAndConflictsAreReal'
    BY <1>6 DEF RecordStored, Real, ReplaysAndConflictsAreReal
  <2> QED BY <1>6, <2>1 DEF RecordStored, Real
<1>7. ASSUME NEW keys \in SUBSET Key, Forget(keys), UNCHANGED <<key, payload, ran, answer>>,
             pc' = pc \/ pc' = [c \in Call |-> IF pc[c] = "idle" THEN "idle" ELSE "done"]
      PROVE  Real'
  BY <1>7, <1>0 DEF Forget
<1>8. ASSUME NEW k \in Key, Expire(k) PROVE Real'
  BY <1>7, <1>8 DEF Expire, callVars
<1>9. CASE Crash
  BY <1>7, <1>9 DEF Crash
<1>10. CASE UNCHANGED vars
  BY <1>10, <1>0 DEF vars, callVars
<1> QED
  BY <1>1, <1>3, <1>4, <1>5, <1>6, <1>8, <1>9, <1>10 DEF Next

\* Every replay is the result of a call with the same key and payload, and every
\* conflict names a call with the same key and another payload that did run.
THEOREM ReplaysAreReal == Spec => []ReplaysAndConflictsAreReal
<1>1. Init => Real
  BY IdempotencyAssumption DEF Init, Real, ReplaysAndConflictsAreReal, Answer
<1>2. Real => ReplaysAndConflictsAreReal
  BY DEF Real
<1> QED BY <1>1, <1>2, NextReal, AlwaysIInv, PTL DEF Spec
=============================================================================
