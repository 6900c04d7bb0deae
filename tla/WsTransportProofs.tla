--------------------------- MODULE WsTransportProofs ---------------------------
(***************************************************************************)
(* What WsTransport satisfies for every set of requests and sockets.       *)
(***************************************************************************)
EXTENDS WsTransport, TLAPS

\* A request has a socket that fits where it stands, and pending holds exactly
\* the requests that wait.
Attached ==
  /\ \A r \in Request : call[r] = "waiting" <=> r \in pending
  /\ \A r \in Request : call[r] = "connecting" => via[r] \in Socket
  /\ \A r \in Request : call[r] = "waiting" =>
       via[r] \in Socket /\ sock[via[r]] \in {"open", "closing", "broken"}
  /\ \A r \in sent \cup handling : via[r] \in Socket

Base == TypeOK /\ Attached

LEMMA BaseInit == Init => Base
BY DEF Init, Base, TypeOK, Attached, Calls, SocketStates

LEMMA BaseNext == Base /\ [Next]_vars => Base'
<1> SUFFICES ASSUME Base, [Next]_vars PROVE Base' OBVIOUS
<1> USE WsTransportAssumption DEF Base, TypeOK, Attached, Calls, SocketStates, InUse, Live
<1>1. ASSUME NEW r \in Request, RequestOnOpen(r) PROVE Base'
  <2>1. call[r] = "idle" /\ current \in Socket /\ sock[current] \in {"open", "broken"}
    BY <1>1 DEF RequestOnOpen
  <2> QED BY <1>1, <2>1 DEF RequestOnOpen, Send
<1>2. ASSUME NEW r \in Request, Connect(r) PROVE Base'
  <2>1. PICK s \in Socket : /\ sock[s] = "unused"
                            /\ via' = [via EXCEPT ![r] = s]
                            /\ sock' = [sock EXCEPT ![s] = "connecting"]
    <3>1. (CHOOSE u \in Unused : TRUE) \in Unused
      BY <1>2 DEF Connect
    <3> QED BY <1>2, <3>1 DEF Connect, Unused
  <2>2. call[r] = "idle" /\ call' = [call EXCEPT ![r] = "connecting"]
    BY <1>2 DEF Connect, Connects
  <2>3. crowded' \subseteq Socket
    <3>1. (CHOOSE u \in Unused : TRUE) \in Socket
      BY <1>2 DEF Connect, Unused
    <3> QED BY <1>2, <3>1 DEF Connect
  <2>4. UNCHANGED <<current, pending, sent, handling, answers>>
    BY <1>2 DEF Connect, serverVars
  <2> QED BY <2>1, <2>2, <2>3, <2>4
<1>3. ASSUME NEW s \in Socket, Opens(s) PROVE Base'
  BY <1>3 DEF Opens, Send
<1>4. ASSUME NEW s \in Socket, ConnectFails(s) PROVE Base'
  BY <1>4 DEF ConnectFails, serverVars
<1>5. ASSUME NEW s \in Socket, Arrives(s) PROVE Base'
  <2>1. answers' \in [Socket -> Seq(Request)] /\ Head(answers[s]) \in Request
    BY <1>5 DEF Arrives
  <2> QED BY <1>5, <2>1 DEF Arrives, Settle, serverVars
<1>6. ASSUME NEW r \in Request, Timeout(r) PROVE Base'
  BY <1>6 DEF Timeout, Settle, serverVars
<1>7. ASSUME NEW r \in Request, SendFails(r) PROVE Base'
  BY <1>7 DEF SendFails, Settle
<1>8. CASE Close
  BY <1>8 DEF Close, clientVars, serverVars
<1>9. ASSUME NEW s \in Socket, CloseEvent(s) PROVE Base'
  BY <1>9 DEF CloseEvent, SocketUnset, RejectPending
<1>10. ASSUME NEW r \in Request, Receive(r) PROVE Base'
  BY <1>10 DEF Receive, clientVars
<1>11. ASSUME NEW r \in Request, Answer(r) PROVE Base'
  BY <1>11 DEF Answer, clientVars
<1>12. ASSUME NEW s \in Socket, Break(s) PROVE Base'
  BY <1>12 DEF Break, clientVars, serverVars
<1>13. CASE UNCHANGED vars
  BY <1>13 DEF vars, clientVars, serverVars
<1> QED BY <1>1, <1>2, <1>3, <1>4, <1>5, <1>6, <1>7, <1>8, <1>9, <1>10, <1>11, <1>12, <1>13
        DEF Next

LEMMA BaseAlways == Spec => []Base
BY BaseInit, BaseNext, PTL DEF Spec

\* Every variable keeps its type, and this.socket is a socket that was opened
\* and whose close event has not fired.
THEOREM TypeCorrect == Spec => []TypeOK
<1>1. Base => TypeOK
  BY DEF Base
<1> QED BY <1>1, BaseAlways, PTL

\* However connections overlap, a request that waits for an answer waits on a
\* connection whose close event is still to come.
THEOREM WaitersAreAttached == Spec => []NoWaitOnClosed
<1>1. Base => NoWaitOnClosed
  BY DEF Base, Attached, NoWaitOnClosed
<1> QED BY <1>1, BaseAlways, PTL

-----------------------------------------------------------------------------
(***************************************************************************)
(* An orphan is a matter of overlap only: of two connections that are live *)
(* at a time each is known to be crowded, so that a connection that is not *)
(* has been alone since it was opened, and nothing but its own close event *)
(* has unset this.socket.                                                  *)
(***************************************************************************)
AloneOrCrowded ==
  \A s, other \in Socket :
    s \in Live /\ other \in Live /\ s # other => s \in crowded

Alone == AloneOrCrowded /\ NoOrphanSocket

LEMMA AloneInit == Init => Alone
BY DEF Init, Alone, AloneOrCrowded, NoOrphanSocket, Live

LEMMA AloneNext == Base /\ Alone /\ [Next]_vars => Alone'
<1> SUFFICES ASSUME Base, Alone, [Next]_vars PROVE Alone' OBVIOUS
<1> USE DEF Base, TypeOK, SocketStates, Alone, AloneOrCrowded, NoOrphanSocket, Live
<1>1. ASSUME NEW r \in Request, Connect(r) PROVE Alone'
  <2>1. PICK s \in Socket :
          /\ sock[s] = "unused"
          /\ sock' = [sock EXCEPT ![s] = "connecting"]
          /\ crowded' = IF Live \ InUse = {} THEN crowded
                        ELSE crowded \cup (Live \ InUse) \cup {s}
          /\ current' = current
    <3>1. (CHOOSE u \in Unused : TRUE) \in Unused
      BY <1>1 DEF Connect
    <3> QED BY <1>1, <3>1 DEF Connect, Unused
  <2>2. InUse = {}
    BY <1>1 DEF Connect, Connects
  <2>3. Live' = Live \cup {s}
    BY <2>1
  <2>4. crowded \cup Live \subseteq crowded' /\ (Live = {} \/ s \in crowded')
    BY <2>1, <2>2
  <2>5. AloneOrCrowded'
    BY <2>3, <2>4
  <2>6. NoOrphanSocket'
    BY <2>1, <2>4
  <2> QED BY <2>5, <2>6
<1>2. ASSUME NEW s \in Socket, Opens(s) PROVE Alone'
  BY <1>2 DEF Opens
<1>3. ASSUME NEW s \in Socket, CloseEvent(s) PROVE Alone'
  BY <1>3 DEF CloseEvent, SocketUnset
<1>4. ASSUME UNCHANGED <<current, crowded>>,
             \A s \in Socket : sock'[s] = sock[s] \/ (s \in Live /\ sock'[s] # "open")
      PROVE  Alone'
  BY <1>4
<1>5. ASSUME NEW s \in Socket, ConnectFails(s) PROVE Alone'
  BY <1>4, <1>5 DEF ConnectFails
<1>6. ASSUME NEW s \in Socket, Break(s) PROVE Alone'
  BY <1>4, <1>6 DEF Break, clientVars
<1>7. CASE Close
  BY <1>4, <1>7 DEF Close, InUse, clientVars
<1>8. ASSUME UNCHANGED <<sock, current, crowded>> PROVE Alone'
  BY <1>4, <1>8
<1> QED
  BY <1>1, <1>2, <1>3, <1>5, <1>6, <1>7, <1>8
     DEF Next, RequestOnOpen, Arrives, Timeout, SendFails, Receive, Answer,
         clientVars, serverVars, vars

\* A connection that was never beside another is this.socket while it is open:
\* close() reaches it.
THEOREM LoneSocketIsInUse == Spec => []NoOrphanSocket
<1>1. Alone => NoOrphanSocket
  BY DEF Alone
<1> QED BY <1>1, AloneInit, AloneNext, BaseAlways, PTL DEF Spec
=============================================================================
