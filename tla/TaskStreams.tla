----------------------------- MODULE TaskStreams -----------------------------
(***************************************************************************)
(* The three ways a task is streamed, as observers of TaskRuntime, two of  *)
(* them over Server-Sent Events:                                           *)
(*                                                                         *)
(*   - GET /stream (Sub): the response joins the SSEStreamer's set of      *)
(*     clients of the task (SSEStreamer.ts, handleStreamRequest);          *)
(*   - message/stream and tasks/resubscribe (Rpc): the response has its    *)
(*     own taskUpdated listener (handleStreamingRpc);                      *)
(*   - StreamMessage of the gRPC service (GrpcStream): likewise, with no   *)
(*     await before it (GrpcServer.streamGrpcTask).                        *)
(*                                                                         *)
(* TaskManager emits taskUpdated in the turn of each change, so a step of  *)
(* TaskRuntime and what the observers do with it are one step here.  Of    *)
(* the frames one turn writes to a stream only the last is kept, as the    *)
(* snapshot of the task it carries.                                        *)
(***************************************************************************)
EXTENDS TaskRuntime

CONSTANTS
  Sub,       \* GET /stream requests
  StreamReq, \* the requests of Req whose method is message/stream, or
             \* StreamMessage over gRPC
  Resub,     \* tasks/resubscribe requests
  MaxJoining \* bound: of Sub and Resub together, those that are ever made

ASSUME StreamAssumption ==
  /\ StreamReq \subseteq Req
  /\ IsFiniteSet(Sub) /\ IsFiniteSet(StreamReq) /\ IsFiniteSet(Resub)
  /\ Sub \cap (Req \cup Resub) = {}
  /\ Resub \cap Req = {}
  /\ None \notin TaskStates \X Nat \X Nat \X (Req \cup {None})
  /\ MaxJoining \in Nat

Rpc == StreamReq \cup Resub
GrpcStream == StreamReq \cap GrpcReq
Stream == Sub \cup Rpc

VARIABLES
  conn,    \* conn[c]: "none", "waiting" in the handler's awaits, "open", or
           \* "ended": the handler refused, ended the response, or let it go
  peer,    \* peer[c]: "up" until the close event of c's connection has fired
  onTask,  \* onTask[c]: the task that subscriber c asked for
  frame,   \* frame[c]: the last snapshot written to c, None before the first
  clients, \* clients[t]: the SSEStreamer's clients of task t
  late,    \* the streams opened after their close event had fired
  gauge    \* sseActiveConnections of RuntimeMetrics

streamVars == <<conn, peer, onTask, frame, clients, late, gauge>>
allVars == <<vars, streamVars>>

StreamInit ==
  /\ Init
  /\ conn = [c \in Stream |-> "none"]
  /\ peer = [c \in Stream |-> "up"]
  /\ onTask = [c \in Sub \cup Resub |-> None]
  /\ frame = [c \in Stream |-> None]
  /\ clients = [t \in Task |-> {}]
  /\ late = {}
  /\ gauge = 0

Snapshot(t) == <<state[t], Len(history[t]), Len(artifacts[t]), extensions[t]>>

TaskOf(c) == IF c \in StreamReq THEN target[c] ELSE onTask[c]

Opened(c) == frame[c] # None

\* The streams the gauge counts: gRPC reports none of its own.
Metered(S) == S \cap (Rpc \ GrpcReq)

\* The RPC streams whose taskUpdated listener is registered for task t.
Listeners(t) == {c \in Rpc : conn[c] = "open" /\ TaskOf(c) = t}

\* recordSseConnectionClosed, n times.
Minus(g, n) == IF g < n THEN 0 ELSE g - n

-----------------------------------------------------------------------------
(***************************************************************************)
(* What the observers do in a step of the runtime.  The clients and the    *)
(* listeners of a task that changed are written its new snapshot; if the   *)
(* task is terminal their responses end.  An RPC stream takes itself off   *)
(* the gauge when it ends its response, the SSEStreamer leaves that to     *)
(* the close event.  streamGrpcTask is called in the turn of the step      *)
(* that creates its task: it registers its listener and writes the task.   *)
(***************************************************************************)
Changed == {t \in Task : Snapshot(t)' # Snapshot(t)}
Begun == {c \in GrpcStream : pc[c] = "idle" /\ pc'[c] = "accepted"}
Notified == (UNION {clients[t] \cup Listeners(t) : t \in Changed}) \cup Begun

\* Mutant: the update that closes the task ends the streams unwritten.
NotifyEndsUnwritten ==
  LET ended == {c \in Notified : IsTerminal(TaskOf(c))'}
  IN /\ UNCHANGED <<peer, onTask, late>>
     /\ frame' = [c \in Stream |->
                    IF c \in Notified \ ended THEN Snapshot(TaskOf(c))' ELSE frame[c]]
     /\ conn' = [c \in Stream |-> IF c \in ended THEN "ended"
                                  ELSE IF c \in Begun THEN "open" ELSE conn[c]]
     /\ clients' = [t \in Task |-> clients[t] \ ended]
     /\ gauge' = Minus(gauge, Cardinality(Metered(ended)))

Notify ==
  LET ended == {c \in Notified : IsTerminal(TaskOf(c))'}
  IN /\ UNCHANGED <<peer, onTask, late>>
     /\ frame' = [c \in Stream |->
                    IF c \in Notified THEN Snapshot(TaskOf(c))' ELSE frame[c]]
     /\ conn' = [c \in Stream |-> IF c \in ended THEN "ended"
                                  ELSE IF c \in Begun THEN "open" ELSE conn[c]]
     /\ clients' = [t \in Task |-> clients[t] \ ended]
     /\ gauge' = Minus(gauge, Cardinality(Metered(ended)))

-----------------------------------------------------------------------------
(***************************************************************************)
(* GET /stream: handleStreamRequest.  It awaits the authentication, then   *)
(* looks the task up, registers the client and writes the task to every    *)
(* client the task has, in one turn.                                       *)
(***************************************************************************)
Joined == {c \in Sub \cup Resub : conn[c] # "none"}

Subscribe(c, t) ==
  /\ conn[c] = "none"
  /\ Cardinality(Joined) < MaxJoining
  /\ c \in Sub => c = CHOOSE d \in Sub : d \notin Joined
  /\ Exists(t)
  /\ conn' = [conn EXCEPT ![c] = "waiting"]
  /\ onTask' = [onTask EXCEPT ![c] = t]
  /\ UNCHANGED <<vars, peer, frame, clients, late, gauge>>

MarkLate(c) == late' = IF peer[c] = "gone" THEN late \cup {c} ELSE late

\* Mutant: the handler forgets that the task may be closed already.
AddClientOnly(c) ==
  LET t == onTask[c]
  IN /\ conn[c] = "waiting"
     /\ frame' = [frame EXCEPT ![c] = Snapshot(t)]
     /\ conn' = [conn EXCEPT ![c] = "open"]
     /\ clients' = [clients EXCEPT ![t] = @ \cup {c}]
     /\ gauge' = gauge + 1
     /\ MarkLate(c)
     /\ UNCHANGED <<vars, peer, onTask>>

SubscriptionOpens(c) ==
  LET t == onTask[c]
      all == clients[t] \cup {c}
  IN /\ conn[c] = "waiting"
     /\ frame' = [d \in Stream |-> IF d \in all THEN Snapshot(t) ELSE frame[d]]
     /\ IF IsTerminal(t)
        THEN /\ conn' = [d \in Stream |-> IF d \in all THEN "ended" ELSE conn[d]]
             /\ clients' = [clients EXCEPT ![t] = {}]
        ELSE /\ conn' = [conn EXCEPT ![c] = "open"]
             /\ clients' = [clients EXCEPT ![t] = all]
     /\ gauge' = gauge + 1
     /\ MarkLate(c)
     /\ UNCHANGED <<vars, peer, onTask>>

(***************************************************************************)
(* message/stream after handleMessageRequest and the await of the          *)
(* idempotency store, and tasks/resubscribe after the awaits of the HTTP   *)
(* handler: handleStreamingRpc registers its two listeners and writes the  *)
(* task as it is now.                                                      *)
(***************************************************************************)
RpcReady(c) ==
  \/ c \in StreamReq \ GrpcReq /\ pc[c] = "accepted" /\ conn[c] = "none"
  \/ c \in Resub /\ conn[c] = "waiting"

\* Mutant: the stream starts with the next update.
RpcStreamOpensUnwritten(c) ==
  LET t == TaskOf(c)
  IN /\ RpcReady(c)
     /\ frame' = [frame EXCEPT ![c] = <<"SUBMITTED", 0, 0, None>>]
     /\ conn' = [conn EXCEPT ![c] = "open"]
     /\ gauge' = gauge + 1
     /\ MarkLate(c)
     /\ UNCHANGED <<vars, peer, onTask, clients>>

RpcStreamOpens(c) ==
  LET t == TaskOf(c)
  IN /\ RpcReady(c)
     /\ frame' = [frame EXCEPT ![c] = Snapshot(t)]
     /\ IF IsTerminal(t)
        THEN conn' = [conn EXCEPT ![c] = "ended"] /\ UNCHANGED gauge
        ELSE conn' = [conn EXCEPT ![c] = "open"] /\ gauge' = gauge + 1
     /\ MarkLate(c)
     /\ UNCHANGED <<vars, peer, onTask, clients>>

\* 401, 403 or 404 after the awaits, or the idempotency store failed.
StreamRefused(c) ==
  /\ RpcReady(c) \/ (c \in Sub /\ conn[c] = "waiting")
  /\ conn' = [conn EXCEPT ![c] = "ended"]
  /\ UNCHANGED <<vars, peer, onTask, frame, clients, late, gauge>>

-----------------------------------------------------------------------------
(***************************************************************************)
(* The close event a stream listens for: that of the response for Sub,     *)
(* that of the request for Rpc, that of the call for gRPC.  The client     *)
(* left, the request was read to its end, or what res.end() finished was   *)
(* torn down: it fires once, at any time after the request arrived, and a  *)
(* listener registered later is never called.                              *)
(***************************************************************************)
Arrived(c) == conn[c] # "none" \/ (c \in StreamReq /\ pc[c] # "idle")

\* Mutant: close() runs again for a stream it has already closed, and the
\* gauge is not kept at 0.
CloseEventTwice(c) ==
  /\ Arrived(c)
  /\ peer[c] = "up"
  /\ peer' = [peer EXCEPT ![c] = "gone"]
  /\ IF Opened(c)
     THEN /\ conn' = [conn EXCEPT ![c] = "ended"]
          /\ clients' = [t \in Task |-> clients[t] \ {c}]
          /\ gauge' = IF c \in GrpcStream THEN gauge ELSE gauge - 1
     ELSE UNCHANGED <<conn, clients, gauge>>
  /\ UNCHANGED <<vars, onTask, frame, late>>

CloseEvent(c) ==
  /\ Arrived(c)
  /\ peer[c] = "up"
  /\ peer' = [peer EXCEPT ![c] = "gone"]
  /\ IF Opened(c) /\ (c \in Rpc => conn[c] = "open")
     THEN /\ conn' = [conn EXCEPT ![c] = "ended"]
          /\ clients' = [t \in Task |-> clients[t] \ {c}]
          /\ gauge' = IF c \in GrpcStream THEN gauge ELSE Minus(gauge, 1)
     ELSE UNCHANGED <<conn, clients, gauge>>
  /\ UNCHANGED <<vars, onTask, frame, late>>

-----------------------------------------------------------------------------
StreamStep ==
  \/ \E c \in Sub \cup Resub, t \in Task : Subscribe(c, t)
  \/ \E c \in Sub : SubscriptionOpens(c)
  \/ \E c \in Rpc : RpcStreamOpens(c)
  \/ \E c \in Stream : StreamRefused(c) \/ CloseEvent(c)

StreamNext == (Next /\ Notify) \/ StreamStep

StreamSpec == StreamInit /\ [][StreamNext]_allVars

(***************************************************************************)
(* As in TaskRuntime, the continuations of settled promises run.  Nothing  *)
(* is assumed of the clients: a peer may stay connected for ever.          *)
(***************************************************************************)
StreamFairness ==
  /\ \A r \in Req : /\ WF_allVars(ValidationSettles(r) /\ Notify)
                    /\ WF_allVars(HandlerSettles(r) /\ Notify)
  /\ \A c \in Sub : WF_allVars(SubscriptionOpens(c) \/ StreamRefused(c))
  /\ \A c \in Rpc : WF_allVars(RpcStreamOpens(c) \/ StreamRefused(c))

FairStreamSpec == StreamSpec /\ StreamFairness

-----------------------------------------------------------------------------
StreamTypeOK ==
  /\ conn \in [Stream -> {"none", "waiting", "open", "ended"}]
  /\ peer \in [Stream -> {"up", "gone"}]
  /\ onTask \in [Sub \cup Resub -> Task \cup {None}]
  /\ frame \in [Stream -> (TaskStates \X Nat \X Nat \X (Req \cup {None})) \cup {None}]
  /\ clients = [t \in Task |-> {c \in Sub : conn[c] = "open" /\ onTask[c] = t}]
  /\ late \subseteq Stream
  /\ gauge \in Nat

(***************************************************************************)
(* No update is missed, at subscription or after: the last frame of every  *)
(* open stream is the task as it is stored now, and no stream is left      *)
(* waiting on a closed task.  A change made between the request and the    *)
(* registration, or a change that emits no event, would show here.         *)
(***************************************************************************)
StreamsAreCurrent ==
  \A c \in Stream : conn[c] = "open" =>
    frame[c] = Snapshot(TaskOf(c)) /\ ~IsTerminal(TaskOf(c))

(***************************************************************************)
(* A stream that began and that its close event did not end told its       *)
(* client how the task ended.                                              *)
(***************************************************************************)
EndedStreamSawOutcome ==
  \A c \in Stream :
    Opened(c) /\ conn[c] = "ended" /\ (peer[c] = "up" \/ c \in late) =>
      frame[c] = Snapshot(TaskOf(c)) /\ frame[c][1] \in TERMINAL_TASK_STATES

(***************************************************************************)
(* Every stream is taken off the gauge once, whichever of the terminal     *)
(* update and the close event comes first.  A stream opened after its      *)
(* close event is the exception the code makes: an RPC stream stays        *)
(* counted until its task is closed, a GET stream for ever.                *)
(***************************************************************************)
GaugeIsExact ==
  gauge = Cardinality(Metered({c \in Rpc : conn[c] = "open"}))
        + Cardinality({c \in Sub : Opened(c) /\ (peer[c] = "up" \/ c \in late)})

(***************************************************************************)
(* docs/development/observability.md calls                                 *)
(* a2a_runtime_sse_connections_active the "Current active SSE              *)
(* connections": with every connection gone it would be 0.                 *)
(***************************************************************************)
GaugeCountsConnections ==
  (\A c \in Stream : Opened(c) => peer[c] = "gone") => gauge = 0

(***************************************************************************)
(* A message/stream or StreamMessage request whose message was accepted has its response    *)
(* ended by the server, if adapters settle: it is not left hanging on an   *)
(* update it missed.                                                       *)
(***************************************************************************)
AcceptedStreamEnds ==
  \A c \in StreamReq : pc[c] = "accepted" ~> conn[c] = "ended"
=============================================================================
