---------------------------- MODULE ServerClient ----------------------------
(***************************************************************************)
(* server::Client of sdriak_server_source: the handshake in the            *)
(* constructor, requests that wait for their acknowledgement (ACK), the    *)
(* network worker that receives, the state the server pushes, and close(). *)
(*                                                                         *)
(* Requests come from several threads: the GUI, and modules that tune from *)
(* threads of their own.  Every one registers a waiter for its command in  *)
(* commandAckWaiters, sends, and waits at most PROTOCOL_TIMEOUT_MS.        *)
(* The server (core/src/server.cpp) is here what it answers: requests in   *)
(* order, late or never.                                                   *)
(* Requests carry a number for the properties; the protocol has none.  A   *)
(* caller's locals are reset when its call returns.                        *)
(***************************************************************************)
EXTENDS Integers, Sequences

CONSTANTS
  Callers, Gui, \* the threads that call the client, and the one that owns it
  Commands,     \* bound: the commands in use, of "frequency", "ui" and "action"
  MaxRequests,  \* bound: requests made
  MaxPushes,    \* bound: sample rates the server announces
  MaxQueue      \* bound: packets on their way to the client

ASSUME ClientAssumption ==
  /\ Gui \in Callers /\ Commands \subseteq {"frequency", "ui", "action"}
  /\ MaxRequests \in Nat /\ MaxPushes \in Nat /\ MaxQueue \in Nat \ {0}

VARIABLES
  stage,                 \* the owner's progress: init(), in use, close()
  pc, cmd, req,          \* per caller: where its request is, its command and number
  waiters,               \* commandAckWaiters: the callers whose waiter is in the map
  ready, canceled, data, \* per caller, its PacketWaiter
  open, writerStop,      \* the socket, and decompIn's stop flag
  wpc, watchdog,         \* the worker
  protocolReady, serverHeartbeat, serverBusy, authFailed, challenge,
  rate, dirty, applied,  \* currentSampleRate, samplerateDirty, what the GUI applied
  sync, snapshot,        \* syncRemoteState()
  peer, accepted,        \* the server: "up", "closed" or silently "dead"; the client's standing
  toServer, toClient,
  count, pushes          \* bounds: requests made, sample rates pushed

callVars   == <<pc, cmd, req, waiters, ready, canceled, data, count>>
workerVars == <<wpc, watchdog>>
stateVars  == <<protocolReady, serverHeartbeat, serverBusy, authFailed, challenge>>
rateVars   == <<rate, dirty, applied, sync, snapshot>>
sockVars   == <<open, writerStop>>
peerVars   == <<peer, accepted, toServer, toClient, pushes>>
vars == <<stage, callVars, workerVars, stateVars, rateVars, sockVars, peerVars>>

\* A packet from the server.  An ACK has the command it answers, the number of
\* the request (for the properties only), and the capabilities in the answer
\* to hello ("bad": not compatible).
Ack(r, caps) == [type |-> "ack", cmd |-> r.cmd, req |-> r.req, caps |-> caps]
Packet(t) == [type |-> t, cmd |-> "none", req |-> 0, caps |-> {}]
NoData == Packet("none")

TypeOK ==
  /\ stage \in {"hello", "challenge", "respond", "auth", "ui", "ready", "closing", "joining",
                "closed"}
  /\ pc \in [Callers -> {"idle", "register", "send", "await", "forget"}]
  /\ waiters \subseteq Callers /\ ready \subseteq Callers /\ canceled \subseteq Callers
  /\ wpc \in {"top", "recv", "flag", "swap", "exit", "release", "off"}
  /\ peer \in {"up", "closed", "dead"} /\ accepted \in BOOLEAN
  /\ open \in BOOLEAN /\ writerStop \in BOOLEAN /\ watchdog \in BOOLEAN
  /\ protocolReady \in BOOLEAN /\ serverHeartbeat \in BOOLEAN /\ serverBusy \in BOOLEAN
  /\ authFailed \in BOOLEAN /\ challenge \in BOOLEAN /\ dirty \in BOOLEAN
  /\ rate \in 0 .. MaxPushes /\ applied \in 0 .. MaxPushes /\ snapshot \in 0 .. MaxPushes

Init ==
  /\ stage = "hello"
  /\ pc = [c \in Callers |-> IF c = Gui THEN "register" ELSE "idle"]
  /\ cmd = [c \in Callers |-> IF c = Gui THEN "hello" ELSE "none"]
  /\ req = [c \in Callers |-> 0]
  /\ waiters = {} /\ ready = {} /\ canceled = {} /\ data = [c \in Callers |-> NoData]
  /\ open = TRUE /\ writerStop = FALSE /\ wpc = "top" /\ watchdog = FALSE
  /\ protocolReady = FALSE /\ serverHeartbeat = FALSE /\ serverBusy = FALSE
  /\ authFailed = FALSE /\ challenge = FALSE
  /\ rate = 0 /\ dirty = FALSE /\ applied = 0 /\ sync = "no" /\ snapshot = 0
  /\ peer = "up" /\ accepted = FALSE /\ toServer = <<>> /\ toClient = <<>>
  /\ count = 0 /\ pushes = 0

-----------------------------------------------------------------------------
(* Requests.                                                               *)

Goto(c, p) == pc' = [pc EXCEPT ![c] = p]

\* The handshake runs on the owner's thread before anybody else has the client.
Handshaking == stage \in {"hello", "challenge", "respond", "auth", "ui"}

\* setFrequency, a UI action that needs a resync, getUI in start() and stop():
\* each returns at once unless isOpen(); for the UI action, showMenu(), it is
\* the caller that tests it (main.cpp:199).
Request(c, k) ==
  /\ stage = "ready" /\ pc[c] = "idle" /\ open /\ count < MaxRequests
  /\ c = Gui => sync = "no"
  /\ c # Gui => k = "frequency"
  /\ cmd' = [cmd EXCEPT ![c] = k] /\ Goto(c, "register")
  /\ count' = count + 1 /\ req' = [req EXCEPT ![c] = count + 1]
  /\ UNCHANGED <<stage, waiters, ready, canceled, data, workerVars, stateVars, rateVars,
                 sockVars, peerVars>>

\* awaitCommandAck(): a new waiter for the command.
Register(c) ==
  /\ pc[c] = "register"
  /\ waiters' = waiters \cup {c} /\ ready' = ready \ {c} /\ canceled' = canceled \ {c}
  /\ Goto(c, "send")
  /\ UNCHANGED <<stage, cmd, req, data, count, workerVars, stateVars, rateVars, sockVars, peerVars>>

\* sendCommand(): nothing leaves a closed socket, and nothing comes back from
\* a peer that is gone; a send that fails closes the socket.
Send(c) ==
  /\ pc[c] = "send"
  /\ open' \in {open} \cup (IF peer = "up" THEN {} ELSE {FALSE})
  /\ toServer' = IF open /\ peer = "up"
                 THEN Append(toServer, [cmd |-> cmd[c], req |-> req[c]])
                 ELSE toServer
  /\ Goto(c, "await")
  /\ UNCHANGED <<stage, cmd, req, waiters, ready, canceled, data, count, workerVars, stateVars,
                 rateVars, writerStop, peer, accepted, toClient, pushes>>

\* Mutant: protocolReady is set when the handshake is over.
AfterAckLate(p) ==
  CASE stage = "hello" ->
         /\ stage' = IF "bad" \in p.caps THEN "closing"
                     ELSE IF "auth" \in p.caps THEN "challenge" ELSE "ui"
         /\ serverHeartbeat' = ("bad" \notin p.caps /\ "heartbeat" \in p.caps)
         /\ UNCHANGED protocolReady
    [] stage = "auth" -> stage' = "ui" /\ UNCHANGED <<protocolReady, serverHeartbeat>>
    [] stage = "ui"   -> stage' = "ready" /\ protocolReady' = TRUE /\ UNCHANGED serverHeartbeat
    [] OTHER          -> UNCHANGED <<stage, protocolReady, serverHeartbeat>>

\* Mutant: the server's wish for authentication is not looked at.
AfterAckOpen(p) ==
  CASE stage = "hello" ->
         /\ stage' = IF "bad" \in p.caps THEN "closing" ELSE "ui"
         /\ serverHeartbeat' = ("bad" \notin p.caps /\ "heartbeat" \in p.caps)
         /\ protocolReady' = ("bad" \notin p.caps)
    [] stage = "ui"   -> stage' = "ready" /\ UNCHANGED <<protocolReady, serverHeartbeat>>
    [] OTHER          -> UNCHANGED <<stage, protocolReady, serverHeartbeat>>

\* What the owner's call to hello(), authenticate() or getUI() leads to when
\* the answer p arrived.
AfterAck(p) ==
  CASE stage = "hello" ->
         /\ stage' = IF "bad" \in p.caps THEN "closing"
                     ELSE IF "auth" \in p.caps THEN "challenge" ELSE "ui"
         /\ serverHeartbeat' = ("bad" \notin p.caps /\ "heartbeat" \in p.caps)
         /\ protocolReady' = (p.caps \cap {"bad", "auth"} = {})
    [] stage = "auth" -> stage' = "ui" /\ protocolReady' = TRUE /\ UNCHANGED serverHeartbeat
    [] stage = "ui"   -> stage' = "ready" /\ UNCHANGED <<protocolReady, serverHeartbeat>>
    [] OTHER          -> UNCHANGED <<stage, protocolReady, serverHeartbeat>>

\* getUI() follows hello() without a break (init, lines 90-91); it fails like
\* a request that was answered by nobody when the socket is closed.
Follow(c) ==
  IF c = Gui /\ stage' = "ui"
  THEN /\ cmd' = [cmd EXCEPT ![c] = "ui"]
       /\ Goto(c, "register")
  ELSE cmd' = [cmd EXCEPT ![c] = "none"] /\ Goto(c, "idle")

\* await() returns true.
Answered(c) ==
  /\ pc[c] = "await" /\ c \in ready /\ c \notin canceled
  /\ IF c = Gui THEN AfterAck(data[c]) ELSE UNCHANGED <<stage, protocolReady, serverHeartbeat>>
  /\ Follow(c)
  /\ ready' = ready \ {c} /\ data' = [data EXCEPT ![c] = NoData] /\ req' = [req EXCEPT ![c] = 0]
  /\ UNCHANGED <<waiters, canceled, count, workerVars, serverBusy, authFailed,
                 challenge, rateVars, sockVars, peerVars>>

\* await() returns false: canceled, timed out, or in the handshake cancelled
\* by the token.
Unanswered(c) ==
  /\ pc[c] = "await" /\ (c \in ready => c \in canceled)
  /\ Goto(c, "forget")
  /\ UNCHANGED <<stage, cmd, req, waiters, ready, canceled, data, count, workerVars, stateVars,
                 rateVars, sockVars, peerVars>>

\* Mutant: the waiter stays in the map.
ForgetNot(c) ==
  /\ pc[c] = "forget"
  /\ Goto(c, "idle")
  /\ stage' = IF c = Gui /\ Handshaking THEN "closing" ELSE stage
  /\ UNCHANGED <<waiters, cmd, req, ready, canceled, data, count, workerVars, stateVars, rateVars,
                 sockVars, peerVars>>

\* forgetCommandAck() and the return; a handshake that failed is closed.
Forget(c) ==
  /\ pc[c] = "forget"
  /\ waiters' = waiters \ {c} /\ Goto(c, "idle")
  /\ ready' = ready \ {c} /\ canceled' = canceled \ {c} /\ data' = [data EXCEPT ![c] = NoData]
  /\ cmd' = [cmd EXCEPT ![c] = "none"] /\ req' = [req EXCEPT ![c] = 0]
  /\ stage' = IF c = Gui /\ Handshaking THEN "closing" ELSE stage
  /\ UNCHANGED <<count, workerVars, stateVars, rateVars, sockVars, peerVars>>

\* authenticate(): the wait for the challenge, taken if it came ...
TakeChallenge ==
  /\ stage = "challenge" /\ pc[Gui] = "idle"
  /\ challenge /\ ~authFailed /\ open
  /\ challenge' = FALSE /\ stage' = "respond"
  /\ UNCHANGED <<callVars, workerVars, protocolReady, serverHeartbeat, serverBusy, authFailed,
                 rateVars, sockVars, peerVars>>

\* ... and answered: an error that arrived since is forgotten, its cancellation
\* found no waiter.
Respond ==
  /\ stage = "respond" /\ stage' = "auth" /\ authFailed' = FALSE
  /\ cmd' = [cmd EXCEPT ![Gui] = "auth"] /\ Goto(Gui, "register")
  /\ UNCHANGED <<req, waiters, ready, canceled, data, count, workerVars, protocolReady,
                 serverHeartbeat, serverBusy, challenge, rateVars, sockVars, peerVars>>

\* No key, an error, a closed socket, the token or the deadline.
NoChallenge ==
  /\ stage = "challenge" /\ pc[Gui] = "idle"
  /\ stage' = "closing"
  /\ UNCHANGED <<callVars, workerVars, stateVars, rateVars, sockVars, peerVars>>

-----------------------------------------------------------------------------
(* Worker.                                                                 *)

\* Whether this recv() is bounded is decided before it begins.
WorkerTop ==
  /\ wpc = "top" /\ wpc' = "recv" /\ watchdog' = (protocolReady /\ serverHeartbeat)
  /\ UNCHANGED <<stage, callVars, stateVars, rateVars, sockVars, peerVars>>

\* recv() fails: the socket was closed here or by the peer (a packet the
\* worker rejects ends it alike), or it was silent for too long under the
\* watchdog.
RecvFails ==
  /\ wpc = "recv"
  /\ ~open \/ (peer = "closed" /\ toClient = <<>>) \/ (watchdog /\ toClient = <<>>)
  /\ wpc' = "exit"
  /\ UNCHANGED <<stage, callVars, watchdog, stateVars, rateVars, sockVars, peerVars>>

\* cancelAllWaiters()
CancelAll == canceled' = canceled \cup waiters /\ waiters' = {}

\* The packet at the head, with what the worker is to do next.
Receive(type, next) ==
  /\ wpc = "recv" /\ open /\ toClient # <<>> /\ Head(toClient).type = type
  /\ toClient' = Tail(toClient) /\ wpc' = next
  /\ UNCHANGED <<stage, watchdog, sockVars, peer, accepted, toServer, pushes>>

\* Every waiter of the command gets the payload.
RecvAck ==
  /\ Receive("ack", "top")
  /\ LET p == Head(toClient)
         hit == {c \in waiters : cmd[c] = p.cmd}
     IN /\ ready' = ready \cup hit /\ waiters' = waiters \ hit
        /\ data' = [c \in Callers |-> IF c \in hit THEN p ELSE data[c]]
  /\ UNCHANGED <<pc, cmd, req, canceled, count, stateVars, rateVars>>

\* COMMAND_SET_SAMPLERATE is cached under pushedStateMtx (and, alike, the
\* tuning limits) ...
RecvRate ==
  /\ Receive("rate", "flag") /\ rate' = Head(toClient).req
  /\ UNCHANGED <<callVars, stateVars, dirty, applied, sync, snapshot>>

\* ... then flagged.
FlagRate ==
  /\ wpc = "flag" /\ wpc' = "top" /\ dirty' = TRUE
  /\ UNCHANGED <<stage, callVars, watchdog, stateVars, rate, applied, sync, snapshot, sockVars, peerVars>>

RecvDisconnect ==
  /\ Receive("disconnect", "top") /\ serverBusy' = TRUE /\ CancelAll
  /\ UNCHANGED <<pc, cmd, req, ready, data, count, protocolReady, serverHeartbeat, authFailed,
                 challenge, rateVars>>

RecvChallenge ==
  /\ Receive("challenge", "top") /\ challenge' = TRUE
  /\ UNCHANGED <<callVars, protocolReady, serverHeartbeat, serverBusy, authFailed, rateVars>>

\* ERROR_AUTH_REQUIRED or ERROR_AUTH_FAILED.
RecvAuthError ==
  /\ Receive("autherror", "top") /\ authFailed' = TRUE /\ CancelAll
  /\ UNCHANGED <<pc, cmd, req, ready, data, count, protocolReady, serverHeartbeat, serverBusy,
                 challenge, rateVars>>

\* ERROR_PROTOCOL_MISMATCH or ERROR_INVALID_COMMAND.
RecvError ==
  /\ Receive("error", "top")
  /\ IF protocolReady THEN UNCHANGED <<canceled, waiters>> ELSE CancelAll
  /\ UNCHANGED <<pc, cmd, req, ready, data, count, stateVars, rateVars>>

\* A heartbeat is echoed.  (An echo that fails closes the socket; the recv()
\* that follows fails then as it does when the peer is gone.)
RecvHeartbeat == Receive("heartbeat", "top") /\ UNCHANGED <<callVars, stateVars, rateVars>>

\* Baseband: decompIn.swap() waits for the decompressor or for stopWriter().
RecvBaseband == Receive("baseband", "swap") /\ UNCHANGED <<callVars, stateVars, rateVars>>

SwapDone ==
  /\ wpc = "swap" /\ ~writerStop /\ wpc' = "top"
  /\ UNCHANGED <<stage, callVars, watchdog, stateVars, rateVars, sockVars, peerVars>>

SwapStopped ==
  /\ wpc = "swap" /\ writerStop /\ wpc' = "exit"
  /\ UNCHANGED <<stage, callVars, watchdog, stateVars, rateVars, sockVars, peerVars>>

\* The worker ends: the socket is closed, then the waiters are released.
WorkerExit ==
  /\ wpc = "exit" /\ wpc' = "release" /\ open' = FALSE
  /\ UNCHANGED <<stage, callVars, watchdog, stateVars, rateVars, writerStop, peerVars>>

WorkerRelease ==
  /\ wpc = "release" /\ wpc' = "off" /\ CancelAll
  /\ UNCHANGED <<stage, pc, cmd, req, ready, data, count, watchdog, stateVars, rateVars, sockVars, peerVars>>

-----------------------------------------------------------------------------
(* Owner: pushed state, close().                                           *)

\* syncRemoteState() consumes the flag (with force it goes on without one) ...
SyncBegin ==
  /\ stage = "ready" /\ pc[Gui] = "idle" /\ sync = "no"
  /\ dirty' = FALSE /\ sync' \in {"snapshot"} \cup (IF dirty THEN {} ELSE {"no"})
  /\ UNCHANGED <<stage, callVars, workerVars, stateVars, rate, applied, snapshot, sockVars, peerVars>>

\* ... takes a snapshot ...
SyncSnapshot ==
  /\ sync = "snapshot" /\ sync' = "apply" /\ snapshot' = rate
  /\ UNCHANGED <<stage, callVars, workerVars, stateVars, rate, dirty, applied, sockVars, peerVars>>

\* Mutant: the flag is consumed after the rate was applied.
SyncApplyClearing ==
  /\ sync = "apply" /\ sync' = "no" /\ applied' = snapshot /\ dirty' = FALSE
  /\ UNCHANGED <<stage, callVars, workerVars, stateVars, rate, snapshot, sockVars, peerVars>>

\* ... and applies it.
SyncApply ==
  /\ sync = "apply" /\ sync' = "no" /\ applied' = snapshot
  /\ UNCHANGED <<stage, callVars, workerVars, stateVars, rate, dirty, snapshot, sockVars, peerVars>>

\* The GUI closes a client in use; a handshake that failed is closed by init().
Close ==
  /\ stage = "ready" /\ pc[Gui] = "idle" /\ sync = "no" /\ stage' = "closing"
  /\ UNCHANGED <<callVars, workerVars, stateVars, rateVars, sockVars, peerVars>>

\* Mutant: the socket is left open.
CloseSocketOpen ==
  /\ stage = "closing" /\ stage' = "joining" /\ writerStop' = TRUE /\ open' = open
  /\ UNCHANGED <<callVars, workerVars, stateVars, rateVars, peerVars>>

\* decompIn.stopWriter(), sock->close() ...
CloseSocket ==
  /\ stage = "closing" /\ stage' = "joining" /\ writerStop' = TRUE /\ open' = FALSE
  /\ UNCHANGED <<callVars, workerVars, stateVars, rateVars, peerVars>>

\* ... and the join of the worker.
CloseJoin ==
  /\ stage = "joining" /\ wpc = "off" /\ stage' = "closed" /\ writerStop' = FALSE
  /\ UNCHANGED <<callVars, workerVars, stateVars, rateVars, open, peerVars>>

-----------------------------------------------------------------------------
(* Server and network.                                                     *)

\* What the server may answer to request r: packets, whether it now accepts
\* the client, and whether it closes the connection.
Answers(r) ==
  CASE r.cmd = "hello" ->
         {<<<<Ack(r, caps)>>, TRUE, "up">> : caps \in {{}, {"heartbeat"}}}
         \cup {<<<<Ack(r, {"auth", "heartbeat"}), Packet("challenge")>>, FALSE, "up">>,
               <<<<Ack(r, {"bad"})>>, FALSE, "up">>,
               <<<<Packet("disconnect")>>, FALSE, "closed">>,
               <<<<Packet("error")>>, FALSE, "closed">>}
    [] r.cmd = "auth" ->
         {<<<<Ack(r, {})>>, TRUE, "up">>,
          <<<<Packet("autherror")>>, FALSE, "closed">>,
          <<<<Packet("disconnect")>>, FALSE, "closed">>}
    [] OTHER -> {<<<<Ack(r, {})>>, accepted, "up">>}

Serve ==
  /\ peer = "up" /\ toServer # <<>>
  /\ \E a \in Answers(Head(toServer)) :
       toClient' = toClient \o a[1] /\ accepted' = a[2] /\ peer' = a[3]
  /\ toServer' = Tail(toServer)
  /\ UNCHANGED <<stage, callVars, workerVars, stateVars, rateVars, sockVars, pushes>>

\* Traffic of its own: sample rates, heartbeats, baseband.
PushRate ==
  /\ peer = "up" /\ accepted /\ pushes < MaxPushes
  /\ pushes' = pushes + 1
  /\ toClient' = Append(toClient, [Packet("rate") EXCEPT !.req = pushes + 1])
  /\ UNCHANGED <<stage, callVars, workerVars, stateVars, rateVars, sockVars, peer, accepted, toServer>>

Traffic ==
  /\ peer = "up" /\ accepted /\ Len(toClient) < MaxQueue
  /\ \E t \in {"heartbeat", "baseband"} : toClient' = Append(toClient, Packet(t))
  /\ UNCHANGED <<stage, callVars, workerVars, stateVars, rateVars, sockVars, peer, accepted, toServer, pushes>>

\* The server closes the connection, or the network drops it in silence.
PeerLeaves ==
  /\ peer = "up" /\ peer' \in {"closed", "dead"} /\ toServer' = <<>>
  /\ UNCHANGED <<stage, callVars, workerVars, stateVars, rateVars, sockVars, accepted, toClient, pushes>>

-----------------------------------------------------------------------------
Call(c) == Register(c) \/ Send(c) \/ Answered(c) \/ Unanswered(c) \/ Forget(c)

Worker ==
  \/ WorkerTop \/ RecvFails \/ RecvAck \/ RecvRate \/ FlagRate \/ RecvDisconnect
  \/ RecvChallenge \/ RecvAuthError \/ RecvError \/ RecvHeartbeat \/ RecvBaseband
  \/ SwapDone \/ SwapStopped \/ WorkerExit \/ WorkerRelease

Handshake == TakeChallenge \/ Respond \/ NoChallenge

Next ==
  \/ \E c \in Callers : Call(c) \/ \E k \in Commands : Request(c, k)
  \/ Worker \/ Handshake
  \/ SyncBegin \/ SyncSnapshot \/ SyncApply \/ Close \/ CloseSocket \/ CloseJoin
  \/ Serve \/ PushRate \/ Traffic \/ PeerLeaves

Spec == Init /\ [][Next]_vars

\* Threads that can run do, a request that is not answered times out, and the
\* decompressor behind a client in use takes its packets.  The server owes
\* nothing.
Fairness ==
  /\ \A c \in Callers : WF_vars(Call(c))
  /\ WF_vars(Worker) /\ WF_vars(Handshake)
  /\ WF_vars(SyncSnapshot \/ SyncApply \/ CloseSocket \/ CloseJoin)

FairSpec == Spec /\ Fairness

-----------------------------------------------------------------------------
(* Properties.                                                             *)

\* The map holds no waiter of a request that has returned, and a request whose
\* waiter left the map has been woken: neither ACK, cancellation nor timeout
\* loses a caller, however they race (sdriak_server_client.cpp:393, 585, 593).
WaitersAccounted ==
  /\ \A c \in waiters : pc[c] \in {"send", "await", "forget"} /\ c \notin ready \cup canceled
  /\ \A c \in Callers : pc[c] \in {"send", "await"} => c \in waiters \cup ready \cup canceled

\* A sample rate that the worker cached and the GUI has not applied is still
\* announced, whatever the worker stores during syncRemoteState()
\* (sdriak_server_client.cpp:166-200 and 337-342).
PushedStateNotLost ==
  (IF sync = "apply" THEN snapshot ELSE applied) # rate
    => dirty \/ wpc = "flag" \/ sync = "snapshot"

\* A client in use was accepted by the server: without a password by the
\* answer to hello, with one only after the answer to the challenge
\* (sdriak_server_client.cpp:452-531).
UsableMeansAccepted == stage \in {"ui", "ready"} /\ peer = "up" => accepted

\* A link that died in silence under a client in use is noticed, if the server
\* sends heartbeats: no recv() of the worker is unbounded by then, although
\* the bound is chosen before protocolReady is set by the other thread
\* (sdriak_server_client.cpp:287-303, 488).
DeadLinkDetected == peer = "dead" /\ stage = "ready" /\ serverHeartbeat ~> ~open

\* close() returns, whatever the worker waits for.
CloseReturns == stage = "closing" ~> stage = "closed"

\* "Remove a waiter that will never be completed (e.g. after a timeout), so a
\* late ACK can't be delivered to a later same-command waiter."
AckAnswersRequest ==
  \A c \in ready : pc[c] = "await" => data[c].req = req[c]
=============================================================================
