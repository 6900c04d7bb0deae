---------------------------- MODULE TaskContract ----------------------------
(***************************************************************************)
(* What a task promises to whoever holds its identifier, with nothing of   *)
(* how the server keeps the promise: a task is opened once, takes messages *)
(* while it is open, and is closed once, with one outcome.  The artifacts  *)
(* appear in the closing step, and they all answer one of the messages the *)
(* task took; a FAILED task may hold a part of an answer, and a CANCELED   *)
(* one holds nothing.  TaskRuntime is shown to implement this module.      *)
(***************************************************************************)
EXTENDS Sequences

CONSTANTS Task,  \* the task identifiers
          Req    \* the messages

VARIABLES
  outcome,   \* outcome[t] is "absent", "open" or how task t was closed
  messages,  \* messages[t] is the sequence of messages task t took
  results    \* results[t] lists, for each artifact of t, the message it answers

cvars == <<outcome, messages, results>>

Closed == {"COMPLETED", "FAILED", "CANCELED"}

Init ==
  /\ outcome = [t \in Task |-> "absent"]
  /\ messages = [t \in Task |-> <<>>]
  /\ results = [t \in Task |-> <<>>]

\* A task is opened by a request, and the request's message may be refused.
Open(t) ==
  /\ outcome[t] = "absent"
  /\ outcome' = [outcome EXCEPT ![t] = "open"]
  /\ \/ UNCHANGED messages
     \/ \E r \in Req : messages' = [messages EXCEPT ![t] = <<r>>]
  /\ UNCHANGED results

Take(t, r) ==
  /\ outcome[t] = "open"
  /\ messages' = [messages EXCEPT ![t] = Append(@, r)]
  /\ UNCHANGED <<outcome, results>>

Cancel(t) ==
  /\ outcome[t] = "open"
  /\ outcome' = [outcome EXCEPT ![t] = "CANCELED"]
  /\ UNCHANGED <<messages, results>>

\* The work on message r ends the task: COMPLETED with the artifacts that
\* answer r, possibly none, or FAILED with those there were by then.
Settle(t, r) ==
  /\ outcome[t] = "open"
  /\ \E i \in DOMAIN messages[t] : messages[t][i] = r
  /\ \E how \in {"COMPLETED", "FAILED"} : outcome' = [outcome EXCEPT ![t] = how]
  /\ results'[t] \in Seq({r})
  /\ results' = [results EXCEPT ![t] = results'[t]]
  /\ UNCHANGED messages

Next ==
  \E t \in Task :
    \/ Open(t)
    \/ Cancel(t)
    \/ \E r \in Req : Take(t, r) \/ Settle(t, r)

Spec == Init /\ [][Next]_cvars
=============================================================================
