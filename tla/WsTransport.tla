----------------------------- MODULE WsTransport -----------------------------
(***************************************************************************)
(* One WsClient of packages/transport-ws and the WsServer it talks to:     *)
(* requests that open a connection or share the one there is, connections  *)
(* that overlap, answers in any order, timers, and connections that fail,  *)
(* break and are closed.  A request stands for its JSON-RPC id; whether    *)
(* its answer is a result or an error makes no difference here.            *)
(***************************************************************************)
EXTENDS Naturals, Sequences, FiniteSets

CONSTANTS
  Request,  \* calls of request()
  Socket,   \* bound: connections the client may open
  None

ASSUME WsTransportAssumption == None \notin Socket

VARIABLES
  call,     \* call[r]: where the promise of request r stands
  via,      \* via[r]: the socket r waits for, or was sent on
  sock,     \* sock[s]: readyState of a socket, "broken" once its peer is gone
  current,  \* this.socket
  pending,  \* this.pending
  sent,     \* requests on their way to the server
  handling, \* requests handleRequest works on
  answers,  \* answers[s]: responses on their way to the client
  crowded   \* history: sockets opened beside another one that was not in use

clientVars == <<call, via, current, pending>>
serverVars == <<sent, handling>>
vars == <<clientVars, sock, serverVars, answers, crowded>>

Init ==
  /\ call = [r \in Request |-> "idle"]
  /\ via = [r \in Request |-> None]
  /\ sock = [s \in Socket |-> "unused"]
  /\ current = None
  /\ pending = {}
  /\ sent = {}
  /\ handling = {}
  /\ answers = [s \in Socket |-> <<>>]
  /\ crowded = {}

Live == {s \in Socket : sock[s] \notin {"unused", "closed"}}
InUse == {s \in Live : s = current /\ sock[s] = "open"}

-----------------------------------------------------------------------------
(* The client. *)

\* The rest of request() once connect() is done: a timer, an entry, a send.
Send(r, s) ==
  /\ call' = [call EXCEPT ![r] = "waiting"]
  /\ via' = [via EXCEPT ![r] = s]
  /\ pending' = pending \cup {r}
  /\ sent' = sent \cup {r}

\* request() while this.socket is open, or is not yet known to be broken.
RequestOnOpen(r) ==
  /\ call[r] = "idle"
  /\ current # None
  /\ sock[current] \in {"open", "broken"}
  /\ Send(r, current)
  /\ UNCHANGED <<current, sock, handling, answers, crowded>>

\* Mutant: connect() does not look for an open socket.
ConnectsAlways(r) == call[r] = "idle"
\* connect() goes on to open a socket, whatever others are being opened.
Connects(r) == call[r] = "idle" /\ InUse = {}

Unused == {s \in Socket : sock[s] = "unused"}

Connect(r) == LET s == CHOOSE s \in Unused : TRUE IN
  /\ Unused # {}
  /\ Connects(r)
  /\ call' = [call EXCEPT ![r] = "connecting"]
  /\ via' = [via EXCEPT ![r] = s]
  /\ sock' = [sock EXCEPT ![s] = "connecting"]
  /\ LET idle == Live \ InUse
     IN crowded' = IF idle = {} THEN crowded ELSE crowded \cup idle \cup {s}
  /\ UNCHANGED <<current, pending, serverVars, answers>>

\* handleOpen: the last socket to open becomes this.socket.
Opens(s) ==
  /\ sock[s] = "connecting"
  /\ sock' = [sock EXCEPT ![s] = "open"]
  /\ current' = s
  /\ \E r \in Request : call[r] = "connecting" /\ via[r] = s /\ Send(r, s)
  /\ UNCHANGED <<handling, answers, crowded>>

ConnectFails(s) ==
  /\ sock[s] = "connecting"
  /\ sock' = [sock EXCEPT ![s] = "closed"]
  /\ \E r \in Request :
       /\ call[r] = "connecting" /\ via[r] = s
       /\ call' = [call EXCEPT ![r] = "rejected"]
  /\ UNCHANGED <<via, current, pending, serverVars, answers, crowded>>

Settle(r, how) ==
  /\ pending' = pending \ {r}
  /\ call' = [call EXCEPT ![r] = how]

\* handleMessage: an answer nobody waits for is ignored.
Arrives(s) ==
  /\ sock[s] \in {"open", "closing"}
  /\ answers[s] # <<>>
  /\ answers' = [answers EXCEPT ![s] = Tail(@)]
  /\ LET r == Head(answers[s])
     IN IF r \in pending THEN Settle(r, "resolved") ELSE UNCHANGED <<pending, call>>
  /\ UNCHANGED <<via, current, sock, serverVars, crowded>>

Timeout(r) ==
  /\ r \in pending
  /\ Settle(r, "rejected")
  /\ UNCHANGED <<via, current, sock, serverVars, answers, crowded>>

\* The callback of send() reports that a request was not written.
SendFails(r) ==
  /\ r \in sent
  /\ sock[via[r]] = "broken"
  /\ sent' = sent \ {r}
  /\ IF r \in pending THEN Settle(r, "rejected") ELSE UNCHANGED <<pending, call>>
  /\ UNCHANGED <<via, current, sock, handling, answers, crowded>>

\* close()
Close ==
  /\ InUse # {}
  /\ sock' = [sock EXCEPT ![current] = "closing"]
  /\ UNCHANGED <<clientVars, serverVars, answers, crowded>>

\* Mutant: rejectPending forgets the requests without rejecting them.
RejectsNothing(s) == pending' = {} /\ UNCHANGED call
\* Mutant: the event of a socket that is no longer this.socket is ignored.
RejectsIfCurrent(s) ==
  IF s = current
  THEN /\ pending' = {}
       /\ call' = [r \in Request |-> IF r \in pending THEN "rejected" ELSE call[r]]
  ELSE UNCHANGED <<pending, call>>
\* rejectPending: requests sent on other sockets are rejected too.
RejectPending(s) ==
  /\ pending' = {}
  /\ call' = [r \in Request |-> IF r \in pending THEN "rejected" ELSE call[r]]

\* Mutant: this.socket is kept when its connection closes.
SocketStays == current
\* this.socket = undefined, whichever socket has closed.
SocketUnset == None

\* The close event, whichever socket it is of.
CloseEvent(s) ==
  /\ \/ sock[s] = "closing" /\ answers[s] = <<>>
     \/ sock[s] = "broken"
  /\ sock' = [sock EXCEPT ![s] = "closed"]
  /\ current' = SocketUnset
  /\ RejectPending(s)
  /\ sent' = {r \in sent : via[r] # s}
  /\ answers' = [answers EXCEPT ![s] = <<>>]
  /\ UNCHANGED <<via, handling, crowded>>

-----------------------------------------------------------------------------
(* The server and the network. *)

\* A message reaches the server, and handleRequest is called.
Receive(r) ==
  /\ r \in sent
  /\ sock[via[r]] \in {"open", "closing"}
  /\ sent' = sent \ {r}
  /\ handling' = handling \cup {r}
  /\ UNCHANGED <<clientVars, sock, answers, crowded>>

\* handleRequest settles: its answer goes out if the connection is still there.
Answer(r) ==
  /\ r \in handling
  /\ handling' = handling \ {r}
  /\ answers' = IF sock[via[r]] = "open"
                THEN [answers EXCEPT ![via[r]] = Append(@, r)]
                ELSE answers
  /\ UNCHANGED <<clientVars, sock, sent, crowded>>

\* The connection is lost, with what was on its way.
Break(s) ==
  /\ sock[s] = "open"
  /\ sock' = [sock EXCEPT ![s] = "broken"]
  /\ answers' = [answers EXCEPT ![s] = <<>>]
  /\ UNCHANGED <<clientVars, serverVars, crowded>>

-----------------------------------------------------------------------------
Next ==
  \/ \E r \in Request :
       \/ RequestOnOpen(r) \/ Connect(r) \/ Timeout(r) \/ SendFails(r)
       \/ Receive(r) \/ Answer(r)
  \/ \E s \in Socket : Opens(s) \/ ConnectFails(s) \/ Arrives(s) \/ CloseEvent(s) \/ Break(s)
  \/ Close

Spec == Init /\ [][Next]_vars

\* The timers fire.  Nothing is assumed of the server, and an attempt to connect may
\* hang for ever: connect() sets no handshakeTimeout, and the timer of a request
\* starts once it is connected.
Fairness == \A r \in Request : WF_vars(Timeout(r))

FairSpec == Spec /\ Fairness

-----------------------------------------------------------------------------
Calls == {"idle", "connecting", "waiting", "resolved", "rejected"}
SocketStates == {"unused", "connecting", "open", "closing", "broken", "closed"}

TypeOK ==
  /\ call \in [Request -> Calls]
  /\ via \in [Request -> Socket \cup {None}]
  /\ sock \in [Socket -> SocketStates]
  /\ current \in Socket \cup {None}
  /\ pending \subseteq Request /\ sent \subseteq Request /\ handling \subseteq Request
  /\ answers \in [Socket -> Seq(Request)]
  /\ crowded \subseteq Socket
  /\ current # None => sock[current] \notin {"unused", "connecting", "closed"}

(***************************************************************************)
(* No request waits on a connection that has closed, also when this.socket *)
(* is by then another one: it is not left to its timer.                    *)
(***************************************************************************)
NoWaitOnClosed ==
  \A r \in Request : call[r] = "waiting" => sock[via[r]] # "closed"

(***************************************************************************)
(* An open connection is this.socket, the one that close() closes, unless  *)
(* it was opened beside another that was being opened, was closing or had  *)
(* itself been left behind.                                                *)
(***************************************************************************)
NoOrphanSocket ==
  \A s \in Socket \ crowded : sock[s] = "open" => s = current

(***************************************************************************)
(* Every request whose attempt to connect, if it makes one, has ended      *)
(* settles, whether the server answers or not: what is in pending has a    *)
(* timer, and what leaves it is resolved or rejected.                      *)
(***************************************************************************)
EveryRequestSettles ==
  \A r \in Request :
    call[r] # "idle" /\ sock[via[r]] # "connecting" ~> call[r] \in {"resolved", "rejected"}
=============================================================================
