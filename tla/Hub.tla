-------------------------------- MODULE Hub --------------------------------
(***************************************************************************)
(* The event pipeline of the API server: the WebSocket Hub                 *)
(* (internal/api/websocket/hub.go), its clients (client.go), the /ws       *)
(* handler ServeWS and the Redis pattern subscription that feeds it        *)
(* (internal/events/redis_pubsub.go, SubscribeAll).                        *)
(*                                                                         *)
(* Goroutines: Run (started by Server.Start), the subscriber goroutine of  *)
(* SubscribeAll, the hub's forwarder and main loop, per connection the     *)
(* ServeWS handler, WritePump, ReadPump and the goroutines broadcastEvent  *)
(* spawns to unregister a slow client, and the API main goroutine that     *)
(* calls Hub.Stop on SIGTERM.                                              *)
(*                                                                         *)
(* Events and messages are counted, not told apart: every client is        *)
(* subscribed to every event type (ServeWS calls SubscribeAll and nothing  *)
(* calls Subscribe or Unsubscribe), so only how many are buffered where    *)
(* matters.  Buffered channels are counters bounded by their capacity.     *)
(* ctx is cancelled only by the deferred cancel when main returns, i.e.    *)
(* when the process exits, so the ctx.Done cases never fire while the      *)
(* model runs; neither does the eventCh-closed case, which follows it.     *)
(***************************************************************************)
EXTENDS Naturals, Sequences

CONSTANTS Clients,          \* WebSocket connections that reach ServeWS
          EventCap,         \* capacity of SubscribeAll's eventCh (100)
          BroadcastCap,     \* capacity of Hub.broadcast (256)
          SendCap,          \* capacity of Client.send (sendBufferSize, 256)
          MaxEvents,        \* bound on events published to the pattern
          SubscribeCanFail, \* whether PSUBSCRIBE's confirmation may fail
          ClientEventCap,   \* capacity of WebSocketClient.events (100)
          FrameCap          \* frames written and not yet read by the peer

ASSUME /\ EventCap \in Nat \ {0} /\ BroadcastCap \in Nat \ {0}
       /\ SendCap \in Nat \ {0} /\ MaxEvents \in Nat
       /\ SubscribeCanFail \in BOOLEAN
       /\ ClientEventCap \in Nat \ {0} /\ FrameCap \in Nat \ {0}

VARIABLES
    \* Run and the goroutines it starts
    runPc,      \* Hub.Run: subscribing, starting its goroutines, returned
    published,  \* events Redis has delivered to the subscriber goroutine
    evq,        \* events buffered in eventCh
    fpc,        \* forwarder goroutine
    bq,         \* events buffered in Hub.broadcast
    lpc,        \* main loop goroutine
    stopCh,     \* Hub.stopCh closed
    mpc,        \* API main: serving, in Hub.Stop, Stop returned
    \* the clients map and the per-connection goroutines
    hpc,        \* ServeWS handler of each connection
    inHub,      \* client is a key of Hub.clients
    closed,     \* client.send closed
    sendq,      \* messages buffered in client.send
    conn,       \* the WebSocket connection is open
    wpc,        \* WritePump
    rpc,        \* ReadPump
    slow,       \* goroutines blocked on h.unregister <- c (slow client)
    \* the peer of each connection: pkg/client's WebSocketClient
    inflight,   \* frames written by WritePump, not yet read: the number
                \* of events each carries, 0 for a close frame
    rl,         \* WebSocketClient.readLoop
    done,       \* WebSocketClient.done closed (Close was called)
    evbuf,      \* events buffered in WebSocketClient.events
    panicked    \* a send on, or close of, a closed channel happened

hubVars == <<runPc, published, evq, fpc, bq, lpc, stopCh, mpc>>
wsVars == <<inflight, rl, done, evbuf>>
clientVars == <<hpc, inHub, closed, sendq, conn, wpc, rpc, slow, wsVars>>
vars == <<hubVars, clientVars, panicked>>

(* Hub.wg: goroutines added by Run and not yet Done.                      *)
WaitCount == (IF fpc \in {"select", "send"} THEN 1 ELSE 0)
             + (IF lpc = "select" THEN 1 ELSE 0)

(* NewHub, NewRedisPubSub and the first NewClient state of each           *)
(* connection; Server.Start has just run `go Run(ctx)`.                    *)
Init == /\ runPc = "subscribe" /\ published = 0 /\ evq = 0
        /\ fpc = "none" /\ bq = 0 /\ lpc = "none"
        /\ stopCh = FALSE /\ mpc = "serving"
        /\ hpc = [c \in Clients |-> "idle"]
        /\ inHub = [c \in Clients |-> FALSE]
        /\ closed = [c \in Clients |-> FALSE]
        /\ sendq = [c \in Clients |-> 0]
        /\ conn = [c \in Clients |-> FALSE]
        /\ wpc = [c \in Clients |-> "none"]
        /\ rpc = [c \in Clients |-> "none"]
        /\ slow = [c \in Clients |-> 0]
        /\ inflight = [c \in Clients |-> <<>>]
        /\ rl = [c \in Clients |-> "none"]
        /\ done = [c \in Clients |-> FALSE]
        /\ evbuf = [c \in Clients |-> 0]
        /\ panicked = FALSE

-----------------------------------------------------------------------------
(* Run: SubscribeAll waits for the PSUBSCRIBE confirmation; on error Run  *)
(* logs and returns before starting anything.  On success the subscriber  *)
(* goroutine is running and Run goes on to start its two goroutines.      *)
RunSubscribe ==
    /\ runPc = "subscribe"
    /\ \/ runPc' = "fwd"
       \/ SubscribeCanFail /\ runPc' = "failed"
    /\ UNCHANGED <<published, evq, fpc, bq, lpc, stopCh, mpc, clientVars, panicked>>

(* wg.Add(1); go forwarder.                                                *)
RunStartForwarder ==
    /\ runPc = "fwd"
    /\ runPc' = "loop" /\ fpc' = "select"
    /\ UNCHANGED <<published, evq, bq, lpc, stopCh, mpc, clientVars, panicked>>

\* (RunStartLoopMissing, a mutant: Run returns without `go` of its loop)
RunStartLoopMissing ==
    /\ runPc = "loop"
    /\ runPc' = "returned"
    /\ UNCHANGED <<published, evq, fpc, bq, lpc, stopCh, mpc, clientVars, panicked>>

(* wg.Add(1); go main loop; Run returns.                                   *)
RunStartLoop ==
    /\ runPc = "loop"
    /\ runPc' = "returned" /\ lpc' = "select"
    /\ UNCHANGED <<published, evq, fpc, bq, stopCh, mpc, clientVars, panicked>>

SubscriberRunning == runPc \in {"fwd", "loop", "returned"}

(* The subscriber goroutine receives a message published on               *)
(* taskqueue:events:*, parses it and offers it to eventCh without         *)
(* blocking: an unparsable message or a full eventCh drops the event.     *)
Receive ==
    /\ SubscriberRunning /\ published < MaxEvents
    /\ published' = published + 1
    /\ \E parsed \in BOOLEAN :
          evq' = IF parsed /\ evq < EventCap THEN evq + 1 ELSE evq
    /\ UNCHANGED <<runPc, fpc, bq, lpc, stopCh, mpc, clientVars, panicked>>

(* Forwarder: select on stopCh or eventCh; a received event is then sent  *)
(* to h.broadcast with a plain, blocking send.                            *)
FwdReceive ==
    /\ fpc = "select" /\ evq > 0
    /\ evq' = evq - 1 /\ fpc' = "send"
    /\ UNCHANGED <<runPc, published, bq, lpc, stopCh, mpc, clientVars, panicked>>

FwdSend ==
    /\ fpc = "send" /\ bq < BroadcastCap
    /\ bq' = bq + 1 /\ fpc' = "select"
    /\ UNCHANGED <<runPc, published, evq, lpc, stopCh, mpc, clientVars, panicked>>

FwdStop ==
    /\ fpc = "select" /\ stopCh
    /\ fpc' = "exited"
    /\ UNCHANGED <<runPc, published, evq, bq, lpc, stopCh, mpc, clientVars, panicked>>

(* closeAllClients: close every client's send channel and delete it.      *)
CloseAllClients ==
    /\ panicked' = (panicked \/ \E c \in Clients : inHub[c] /\ closed[c])
    /\ closed' = [c \in Clients |-> closed[c] \/ inHub[c]]
    /\ inHub' = [c \in Clients |-> FALSE]

\* (DoUnregisterUnchecked, a mutant: close without the presence check)
DoUnregisterUnchecked(c) ==
    /\ panicked' = (panicked \/ closed[c])
    /\ inHub' = [inHub EXCEPT ![c] = FALSE]
    /\ closed' = [closed EXCEPT ![c] = TRUE]

(* The unregister case: delete c and close its send channel, if c is     *)
(* still in the map.                                                      *)
DoUnregister(c) ==
    IF inHub[c]
    THEN /\ panicked' = (panicked \/ closed[c])
         /\ inHub' = [inHub EXCEPT ![c] = FALSE]
         /\ closed' = [closed EXCEPT ![c] = TRUE]
    ELSE UNCHANGED <<inHub, closed, panicked>>

(* Client.IsSubscribed: true when the subscriptions map is empty, else    *)
(* its entry; SubscribeAll has set every event type for every client.     *)
IsSubscribed(c) == TRUE

\* (BroadcastEventNoFullCheck, a mutant: every send taken as accepted)
BroadcastEventNoFullCheck ==
    /\ panicked' = (panicked \/ \E c \in Clients : inHub[c] /\ closed[c])
    /\ sendq' = [c \in Clients |-> IF inHub[c] THEN sendq[c] + 1 ELSE sendq[c]]
    /\ UNCHANGED slow

(* broadcastEvent under RLock: for each subscribed client in the map, a   *)
(* non-blocking send on c.send; if the buffer is full, start a goroutine  *)
(* that sends c on h.unregister.                                          *)
BroadcastEvent ==
    LET to(c) == inHub[c] /\ IsSubscribed(c)
    IN /\ panicked' = (panicked \/ \E c \in Clients : to(c) /\ closed[c])
       /\ sendq' = [c \in Clients |->
                      IF to(c) /\ sendq[c] < SendCap THEN sendq[c] + 1
                                                      ELSE sendq[c]]
       /\ slow' = [c \in Clients |->
                     IF to(c) /\ sendq[c] = SendCap THEN slow[c] + 1
                                                    ELSE slow[c]]

(* Main loop, one action per select case.                                *)
LoopStop ==
    /\ lpc = "select" /\ stopCh
    /\ CloseAllClients
    /\ lpc' = "exited"
    /\ UNCHANGED <<runPc, published, evq, fpc, bq, stopCh, mpc,
                   hpc, sendq, conn, wpc, rpc, slow, wsVars>>

LoopRegister(c) ==
    /\ lpc = "select" /\ hpc[c] = "register"
    /\ inHub' = [inHub EXCEPT ![c] = TRUE]
    \* Register returns in ServeWS, which starts both pumps and returns
    /\ hpc' = [hpc EXCEPT ![c] = "served"]
    /\ wpc' = [wpc EXCEPT ![c] = "run"]
    /\ rpc' = [rpc EXCEPT ![c] = "read"]
    /\ UNCHANGED <<hubVars, closed, sendq, conn, slow, panicked, wsVars>>

(* The unregister case, sent by ReadPump's deferred Unregister, which     *)
(* then closes the connection and returns.                                *)
LoopUnregisterReader(c) ==
    /\ lpc = "select" /\ rpc[c] = "unreg"
    /\ DoUnregister(c)
    /\ rpc' = [rpc EXCEPT ![c] = "exited"]
    /\ conn' = [conn EXCEPT ![c] = FALSE]
    /\ UNCHANGED <<hubVars, hpc, sendq, wpc, slow, wsVars>>

(* The unregister case, sent by one of broadcastEvent's goroutines.       *)
LoopUnregisterSlow(c) ==
    /\ lpc = "select" /\ slow[c] > 0
    /\ DoUnregister(c)
    /\ slow' = [slow EXCEPT ![c] = @ - 1]
    /\ UNCHANGED <<hubVars, hpc, sendq, conn, wpc, rpc, wsVars>>

LoopBroadcast ==
    /\ lpc = "select" /\ bq > 0
    /\ bq' = bq - 1
    /\ BroadcastEvent
    /\ UNCHANGED <<runPc, published, evq, fpc, lpc, stopCh, mpc,
                   hpc, inHub, closed, conn, wpc, rpc, wsVars>>

(* WebSocketClient.Connect once the handshake succeeds: the connection   *)
(* is stored, connected set, and `go ws.readLoop()` started.              *)
Dial(c) == rl' = [rl EXCEPT ![c] = "top"]

(* A client's ConnectWebSocket dials /ws, and ServeWS runs up to         *)
(* h.hub.Register: Upgrade fails, the handler returns and the dial        *)
(* reports an error; or the client is connected, and the handler calls    *)
(* NewClient and SubscribeAll and blocks sending on h.register.           *)
(* The listener accepts until main shuts the HTTP server down, after      *)
(* Hub.Stop has returned.                                                 *)
Connect(c) ==
    /\ hpc[c] = "idle" /\ mpc /= "stopped"
    /\ \/ hpc' = [hpc EXCEPT ![c] = "rejected"] /\ UNCHANGED <<conn, rl>>
       \/ /\ hpc' = [hpc EXCEPT ![c] = "register"]
          /\ conn' = [conn EXCEPT ![c] = TRUE]
          /\ Dial(c)
    /\ UNCHANGED <<hubVars, inHub, closed, sendq, wpc, rpc, slow, panicked,
                   inflight, done, evbuf>>

(* The peer goes away, the network fails or no pong arrives within       *)
(* pongWait: the connection is dead and every read or write on it fails. *)
PeerClose(c) ==
    /\ conn[c]
    /\ conn' = [conn EXCEPT ![c] = FALSE]
    /\ UNCHANGED <<hubVars, hpc, inHub, closed, sendq, wpc, rpc, slow, panicked, wsVars>>

(* WritePump receives a message: NextWriter fails on a dead connection   *)
(* and the pump returns; otherwise it writes it and the len(c.send)      *)
(* messages queued behind it, joined by newlines, as one text frame      *)
(* (blocking while the peer's receive window, FrameCap frames, is full). *)
WriteMessages(c) ==
    /\ wpc[c] = "run" /\ sendq[c] > 0
    /\ IF conn[c]
       THEN /\ Len(inflight[c]) < FrameCap
            /\ inflight' = [inflight EXCEPT ![c] = Append(@, sendq[c])]
            /\ sendq' = [sendq EXCEPT ![c] = 0]
            /\ UNCHANGED wpc
       ELSE /\ sendq' = [sendq EXCEPT ![c] = @ - 1]
            /\ wpc' = [wpc EXCEPT ![c] = "exited"]
            /\ UNCHANGED inflight
    /\ UNCHANGED <<hubVars, hpc, inHub, closed, conn, rpc, slow, panicked,
                   rl, done, evbuf>>

(* WritePump receives from the closed, drained channel: it writes a      *)
(* CloseMessage (its error ignored) and returns; its defer closes the    *)
(* connection.                                                            *)
WriteClose(c) ==
    /\ wpc[c] = "run" /\ closed[c] /\ sendq[c] = 0
    /\ inflight' = [inflight EXCEPT ![c] =
                       IF conn[c] /\ Len(@) < FrameCap THEN Append(@, 0) ELSE @]
    /\ wpc' = [wpc EXCEPT ![c] = "exited"]
    /\ conn' = [conn EXCEPT ![c] = FALSE]
    /\ UNCHANGED <<hubVars, hpc, inHub, closed, sendq, rpc, slow, panicked,
                   rl, done, evbuf>>

(* The ping ticker fires: the ping fails on a dead connection and the    *)
(* pump returns (a ping that succeeds changes nothing).                   *)
WritePing(c) ==
    /\ wpc[c] = "run" /\ ~conn[c]
    /\ wpc' = [wpc EXCEPT ![c] = "exited"]
    /\ UNCHANGED <<hubVars, hpc, inHub, closed, sendq, conn, rpc, slow, panicked, wsVars>>

\* (ReadFailNoUnregister, a mutant: ReadPump's defer only closes the conn)
ReadFailNoUnregister(c) ==
    /\ rpc[c] = "read" /\ ~conn[c]
    /\ rpc' = [rpc EXCEPT ![c] = "exited"]
    /\ UNCHANGED <<hubVars, hpc, inHub, closed, sendq, conn, wpc, slow, panicked, wsVars>>

(* ReadMessage fails on a dead connection; ReadPump breaks out and its   *)
(* deferred h.hub.Unregister(c) blocks until the main loop receives it   *)
(* (LoopUnregisterReader).  A message that is read is only logged.       *)
ReadFail(c) ==
    /\ rpc[c] = "read" /\ ~conn[c]
    /\ rpc' = [rpc EXCEPT ![c] = "unreg"]
    /\ UNCHANGED <<hubVars, hpc, inHub, closed, sendq, conn, wpc, slow, panicked, wsVars>>

(* readLoop, top of its loop: select on ws.done, else ReadMessage.        *)
ReadLoopTop(c) ==
    /\ rl[c] = "top"
    /\ rl' = [rl EXCEPT ![c] = IF done[c] THEN "exited" ELSE "reading"]
    /\ UNCHANGED <<hubVars, hpc, inHub, closed, sendq, conn, wpc, rpc, slow,
                   panicked, inflight, done, evbuf>>

(* EventDecodes: json.Unmarshal of one frame into one Event succeeds only *)
(* for a frame that carries exactly one event.                            *)
EventDecodes(n) == n = 1

(* ReadMessage returns the next frame: a close frame is an error and     *)
(* ends the loop; a frame that does not decode is skipped; an event goes *)
(* on to the send on ws.events.                                           *)
ReadLoopFrame(c) ==
    /\ rl[c] = "reading" /\ inflight[c] /= <<>>
    /\ inflight' = [inflight EXCEPT ![c] = Tail(@)]
    /\ LET n == Head(inflight[c])
       IN rl' = [rl EXCEPT ![c] = IF n = 0 THEN "exited"
                                  ELSE IF EventDecodes(n) THEN "send"
                                  ELSE "top"]
    /\ UNCHANGED <<hubVars, hpc, inHub, closed, sendq, conn, wpc, rpc, slow,
                   panicked, done, evbuf>>

(* ReadMessage fails: the connection is gone and no frame is left to     *)
(* read, or Close closed it under the reader.  The deferred function      *)
(* clears connected and closes ws.events.                                 *)
ReadLoopError(c) ==
    /\ rl[c] = "reading" /\ ~conn[c] /\ (inflight[c] = <<>> \/ done[c])
    /\ rl' = [rl EXCEPT ![c] = "exited"]
    /\ UNCHANGED <<hubVars, hpc, inHub, closed, sendq, conn, wpc, rpc, slow,
                   panicked, inflight, done, evbuf>>

(* The send of a decoded event: select on ws.events <- event, ws.done,   *)
(* or, when ws.events is full, drop the oldest event and send this one.  *)
ReadLoopDeliver(c) ==
    /\ rl[c] = "send"
    /\ \/ evbuf[c] < ClientEventCap /\ rl' = [rl EXCEPT ![c] = "top"]
                                    /\ evbuf' = [evbuf EXCEPT ![c] = @ + 1]
       \/ done[c] /\ rl' = [rl EXCEPT ![c] = "exited"] /\ UNCHANGED evbuf
       \/ /\ evbuf[c] = ClientEventCap /\ ~done[c]
          /\ rl' = [rl EXCEPT ![c] = "top"] /\ UNCHANGED evbuf
    /\ UNCHANGED <<hubVars, hpc, inHub, closed, sendq, conn, wpc, rpc, slow,
                   panicked, inflight, done>>

(* The application takes an event from Events().                           *)
AppReceive(c) ==
    /\ evbuf[c] > 0
    /\ evbuf' = [evbuf EXCEPT ![c] = @ - 1]
    /\ UNCHANGED <<hubVars, hpc, inHub, closed, sendq, conn, wpc, rpc, slow,
                   panicked, inflight, rl, done>>

\* (WsCloseNoConnClose, a mutant: Close only closes ws.done)
WsCloseNoConnClose(c) ==
    /\ ~done[c]
    /\ done' = [done EXCEPT ![c] = TRUE]
    /\ UNCHANGED conn

(* WebSocketClient.Close, once (closeOnce): close ws.done, then write a  *)
(* close frame and close the connection.                                  *)
WsClose(c) ==
    /\ ~done[c]
    /\ done' = [done EXCEPT ![c] = TRUE]
    /\ conn' = [conn EXCEPT ![c] = FALSE]

(* CloseWebSocket, on a client whose c.ws a ConnectWebSocket call has set. *)
CloseWebSocket(c) ==
    /\ hpc[c] /= "idle"
    /\ WsClose(c)
    /\ UNCHANGED <<hubVars, hpc, inHub, closed, sendq, wpc, rpc, slow,
                   panicked, inflight, rl, evbuf>>

(* API main on SIGTERM, after scheduler.Stop: Server.Stop calls Hub.Stop, *)
(* which closes stopCh and waits on wg.                                   *)
StopHub ==
    /\ mpc = "serving"
    /\ stopCh' = TRUE /\ mpc' = "waiting"
    /\ UNCHANGED <<runPc, published, evq, fpc, bq, lpc, clientVars, panicked>>

StopReturn ==
    /\ mpc = "waiting" /\ WaitCount = 0
    /\ mpc' = "stopped"
    /\ UNCHANGED <<runPc, published, evq, fpc, bq, lpc, stopCh, clientVars, panicked>>

Next ==
    \/ RunSubscribe \/ RunStartForwarder \/ RunStartLoop \/ Receive
    \/ FwdReceive \/ FwdSend \/ FwdStop
    \/ LoopStop \/ LoopBroadcast
    \/ \E c \in Clients :
          \/ LoopRegister(c) \/ LoopUnregisterReader(c) \/ LoopUnregisterSlow(c)
          \/ Connect(c) \/ PeerClose(c)
          \/ WriteMessages(c) \/ WriteClose(c) \/ WritePing(c) \/ ReadFail(c)
          \/ ReadLoopTop(c) \/ ReadLoopFrame(c) \/ ReadLoopError(c)
          \/ ReadLoopDeliver(c) \/ AppReceive(c) \/ CloseWebSocket(c)
    \/ StopHub \/ StopReturn

Spec == Init /\ [][Next]_vars

(* Every goroutine step is weakly fair: a select picks uniformly among    *)
(* its ready cases, and the ping ticker keeps firing.  Connections, peer  *)
(* failures, published events, SIGTERM and what the application does    *)
(* with its client (reading events, Close) come from outside: no fairness. *)
Fairness ==
    /\ WF_vars(RunSubscribe) /\ WF_vars(RunStartForwarder) /\ WF_vars(RunStartLoop)
    /\ WF_vars(FwdReceive) /\ WF_vars(FwdSend) /\ WF_vars(FwdStop)
    /\ WF_vars(LoopStop) /\ WF_vars(LoopBroadcast) /\ WF_vars(StopReturn)
    /\ \A c \in Clients :
          /\ WF_vars(LoopRegister(c)) /\ WF_vars(LoopUnregisterReader(c))
          /\ WF_vars(LoopUnregisterSlow(c)) /\ WF_vars(WriteMessages(c))
          /\ WF_vars(WriteClose(c)) /\ WF_vars(WritePing(c)) /\ WF_vars(ReadFail(c))
          /\ WF_vars(ReadLoopTop(c)) /\ WF_vars(ReadLoopFrame(c))
          /\ WF_vars(ReadLoopError(c)) /\ WF_vars(ReadLoopDeliver(c))

FairSpec == Spec /\ Fairness

-----------------------------------------------------------------------------
HandlerPCs == {"idle", "rejected", "register", "served"}

TypeOK ==
    /\ runPc \in {"subscribe", "failed", "fwd", "loop", "returned"}
    /\ published \in 0..MaxEvents /\ evq \in 0..EventCap
    /\ fpc \in {"none", "select", "send", "exited"} /\ bq \in 0..BroadcastCap
    /\ lpc \in {"none", "select", "exited"}
    /\ stopCh \in BOOLEAN /\ mpc \in {"serving", "waiting", "stopped"}
    /\ hpc \in [Clients -> HandlerPCs]
    /\ inHub \in [Clients -> BOOLEAN] /\ closed \in [Clients -> BOOLEAN]
    /\ sendq \in [Clients -> 0..SendCap] /\ conn \in [Clients -> BOOLEAN]
    /\ wpc \in [Clients -> {"none", "run", "exited"}]
    /\ rpc \in [Clients -> {"none", "read", "unreg", "exited"}]
    /\ slow \in [Clients -> 0..MaxEvents] /\ panicked \in BOOLEAN
    /\ inflight \in [Clients -> Seq(0..SendCap)]
    /\ \A c \in Clients : Len(inflight[c]) <= FrameCap
    /\ rl \in [Clients -> {"none", "top", "reading", "send", "exited"}]
    /\ done \in [Clients -> BOOLEAN] /\ evbuf \in [Clients -> 0..ClientEventCap]

(* The hub never sends on, or closes, a client's send channel that is    *)
(* already closed (a Go panic that kills the API server): broadcastEvent, *)
(* the unregister case, reached twice for a slow client whose ReadPump   *)
(* also unregisters it, and closeAllClients at Stop.                     *)
NoClosedChannelPanic == ~panicked

(* A connection that dies after ServeWS served it is eventually released: *)
(* the client leaves Hub.clients (its send channel closed) and its        *)
(* WritePump returns, whether or not any event or Stop follows.          *)
ConnectionReleased ==
    \A c \in Clients :
        (hpc[c] = "served" /\ ~conn[c]) ~> (~inHub[c] /\ wpc[c] = "exited")

(* Once the application has called Close, the client's readLoop ends and *)
(* ws.events is closed, whatever the hub does and whether or not the      *)
(* application still reads events.                                        *)
ReadLoopEnds == \A c \in Clients : done[c] ~> (rl[c] \in {"none", "exited"})

(* Every blocking hand-off to the main loop is received: the register of  *)
(* ServeWS, the deferred Unregister of ReadPump and each slow-client      *)
(* goroutine's unregister, all sends on unbuffered channels.  The only    *)
(* ways one blocks for ever are Run's early return when PSUBSCRIBE fails  *)
(* and the main loop's exit once Stop has closed stopCh.                   *)
HandoffsReceived ==
    \A c \in Clients :
        /\ (hpc[c] = "register") ~> (hpc[c] = "served" \/ runPc = "failed" \/ stopCh)
        /\ (rpc[c] = "unreg") ~> (rpc[c] = "exited" \/ stopCh)
        /\ (slow[c] > 0) ~> (slow[c] = 0 \/ stopCh)

(* Hub.Stop returns once SIGTERM has started it, so that main goes on to *)
(* shut the HTTP server down.                                             *)
StopReturns == (mpc = "waiting") ~> (mpc = "stopped")
=============================================================================
