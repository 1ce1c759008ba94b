-------------------------- MODULE ServerClientProofs --------------------------
(***************************************************************************)
(* ServerClient for any number of threads, requests, pushes and packets on *)
(* their way: no caller is lost, no pushed state is lost, no client is     *)
(* used that the server did not accept, and the worker is never left in a  *)
(* wait that close() or a dead link could not end.                         *)
(***************************************************************************)
EXTENDS ServerClient, SequenceTheorems, TLAPS

-----------------------------------------------------------------------------
(***************************************************************************)
(* The inductive invariant.                                                *)
(***************************************************************************)

PacketTypes == {"none", "ack", "challenge", "disconnect", "error", "autherror", "rate",
                "heartbeat", "baseband"}
Cmds        == {"none", "hello", "auth", "frequency", "ui", "action"}

PacketSet  == [type : PacketTypes, cmd : Cmds, req : Nat,
               caps : SUBSET {"bad", "auth", "heartbeat"}]
RequestSet == [cmd : Cmds, req : Nat]

\* What TypeOK leaves open: the requests, the packets and the rates in them.
WireInv ==
  /\ cmd \in [Callers -> Cmds] /\ req \in [Callers -> Nat] /\ data \in [Callers -> PacketSet]
  /\ toServer \in Seq(RequestSet) /\ toClient \in Seq(PacketSet)
  /\ sync \in {"no", "snapshot", "apply"} /\ count \in Nat /\ pushes \in 0 .. MaxPushes
  /\ \A i \in 1 .. Len(toClient) :
       toClient[i].type = "rate" => toClient[i].req \in 0 .. MaxPushes

IsAck(i) == toClient[i].type = "ack"

\* The answer p lets the owner go on only if the server has accepted it.
Trusted(p) ==
  (stage = "auth" \/ p.caps \cap {"bad", "auth"} = {}) => (peer = "up" => accepted)

\* Until the client is in use, only the owner calls, one request at a time:
\* it is on its way, or its one answer is, or the answer is here, or neither.
HandshakeInv ==
  Handshaking =>
    /\ \A c \in Callers \ {Gui} : pc[c] = "idle" /\ cmd[c] = "none"
    /\ stage \in {"challenge", "respond"} <=> pc[Gui] = "idle"
    /\ pc[Gui] # "idle" => cmd[Gui] = stage
    /\ pc[Gui] \in {"idle", "register", "send"} =>
         toServer = <<>> /\ \A i \in 1 .. Len(toClient) : ~IsAck(i)
    /\ pc[Gui] = "send" => Gui \notin ready
    /\ Len(toServer) <= 1
    /\ toServer # <<>> =>
         /\ toServer[1].cmd = stage
         /\ \A i \in 1 .. Len(toClient) : ~IsAck(i)
         /\ Gui \notin ready
    /\ \A i \in 1 .. Len(toClient) : IsAck(i) =>
         /\ toClient[i].cmd = stage /\ Trusted(toClient[i]) /\ Gui \notin ready
         /\ \A j \in 1 .. Len(toClient) : IsAck(j) => i = j
    /\ Gui \in ready /\ pc[Gui] = "await" => Trusted(data[Gui])

\* From getUI() on the client is accepted, and nothing that the server could
\* refuse is on its way.
UseInv ==
  stage \in {"ui", "ready"} =>
    /\ peer = "up" => accepted
    /\ \A c \in Callers : cmd[c] \notin {"hello", "auth"}
    /\ \A i \in 1 .. Len(toServer) : toServer[i].cmd \notin {"hello", "auth"}

IInv == TypeOK /\ WireInv /\ WaitersAccounted /\ PushedStateNotLost /\ HandshakeInv /\ UseInv

-----------------------------------------------------------------------------
(***************************************************************************)
(* What the proofs keep needing.                                           *)
(***************************************************************************)

\* What can be said of a server's answer to a well-formed request.
LEMMA AnswerShape ==
  ASSUME NEW r \in RequestSet, accepted \in BOOLEAN, NEW a \in Answers(r)
  PROVE  /\ a[1] \in Seq(PacketSet) /\ a[2] \in BOOLEAN /\ a[3] \in {"up", "closed"}
         /\ r.cmd \notin {"hello", "auth"} => a[2] = accepted
         /\ \A i \in 1 .. Len(a[1]) : a[1][i].type # "rate"
         /\ \A i \in 1 .. Len(a[1]) : a[1][i].type = "ack" =>
              /\ i = 1 /\ a[1][i].cmd = r.cmd
              /\ (r.cmd = "hello" /\ a[1][i].caps \cap {"bad", "auth"} = {}) \/ r.cmd = "auth" =>
                   a[2]
<1>1. ASSUME NEW caps \in SUBSET {"bad", "auth", "heartbeat"}
      PROVE  /\ Ack(r, caps) \in PacketSet /\ Ack(r, caps).type = "ack"
             /\ Ack(r, caps).cmd = r.cmd /\ Ack(r, caps).caps = caps
  BY DEF Ack, RequestSet, PacketSet, PacketTypes
<1>2. ASSUME NEW t \in PacketTypes PROVE Packet(t) \in PacketSet /\ Packet(t).type = t
  BY DEF Packet, PacketSet, Cmds
<1>3. ASSUME NEW p \in PacketSet
      PROVE  <<p>> \in Seq(PacketSet) /\ Len(<<p>>) = 1 /\ <<p>>[1] = p
  OBVIOUS
<1>4. CASE r.cmd = "hello"
  <2>1. CASE \E caps \in {{}, {"heartbeat"}} : a = <<<<Ack(r, caps)>>, TRUE, "up">>
    BY <1>1, <1>3, <1>4, <2>1
  <2>2. CASE a = <<<<Ack(r, {"auth", "heartbeat"}), Packet("challenge")>>, FALSE, "up">>
    <3>1. /\ Ack(r, {"auth", "heartbeat"}) \in PacketSet
          /\ Packet("challenge") \in PacketSet /\ Packet("challenge").type = "challenge"
      BY <1>1, <1>2 DEF PacketTypes
    <3>2. /\ Ack(r, {"auth", "heartbeat"}).cmd = r.cmd
          /\ "auth" \in Ack(r, {"auth", "heartbeat"}).caps
          /\ Ack(r, {"auth", "heartbeat"}).type = "ack"
      BY <1>1
    <3> HIDE DEF Ack, Packet
    <3>3. /\ a[1] \in Seq(PacketSet) /\ Len(a[1]) = 2
          /\ a[1][1] = Ack(r, {"auth", "heartbeat"}) /\ a[1][2] = Packet("challenge")
      BY <2>2, <3>1
    <3> QED
      BY <1>4, <2>2, <3>1, <3>2, <3>3
  <2>3. CASE a = <<<<Ack(r, {"bad"})>>, FALSE, "up">>
    <3>1. "bad" \in Ack(r, {"bad"}).caps
      BY <1>1
    <3> QED
      BY <1>1, <1>3, <1>4, <2>3, <3>1
  <2>4. CASE a \in {<<<<Packet("disconnect")>>, FALSE, "closed">>,
                    <<<<Packet("error")>>, FALSE, "closed">>}
    <3>1. PICK t \in {"disconnect", "error"} : a = <<<<Packet(t)>>, FALSE, "closed">>
      BY <2>4
    <3>2. Packet(t) \in PacketSet /\ Packet(t).type = t
      BY <1>2 DEF PacketTypes
    <3> QED
      BY <1>3, <1>4, <3>1, <3>2
  <2> QED
    BY <1>4, <2>1, <2>2, <2>3, <2>4 DEF Answers
<1>5. CASE r.cmd = "auth"
  <2>1. CASE a = <<<<Ack(r, {})>>, TRUE, "up">>
    BY <1>1, <1>3, <1>5, <2>1
  <2>2. CASE a \in {<<<<Packet("autherror")>>, FALSE, "closed">>,
                    <<<<Packet("disconnect")>>, FALSE, "closed">>}
    <3>1. PICK t \in {"autherror", "disconnect"} : a = <<<<Packet(t)>>, FALSE, "closed">>
      BY <2>2
    <3>2. Packet(t) \in PacketSet /\ Packet(t).type = t
      BY <1>2 DEF PacketTypes
    <3> QED
      BY <1>3, <1>5, <3>1, <3>2
  <2> QED
    BY <1>5, <2>1, <2>2 DEF Answers
<1>6. CASE r.cmd \notin {"hello", "auth"}
  <2>1. a = <<<<Ack(r, {})>>, accepted, "up">>
    BY <1>6 DEF Answers
  <2> QED
    BY <1>1, <1>3, <1>6, <2>1
<1> QED
  BY <1>4, <1>5, <1>6

\* A packet that is taken from the queue, or put into it.
LEMMA QueueSteps ==
  ASSUME NEW s \in Seq(PacketSet)
  PROVE  /\ s # <<>> => /\ Head(s) = s[1] /\ Head(s) \in PacketSet /\ 1 \in 1 .. Len(s)
                        /\ Tail(s) \in Seq(PacketSet) /\ Len(Tail(s)) = Len(s) - 1
                        /\ \A i \in 1 .. Len(Tail(s)) :
                             i + 1 \in 1 .. Len(s) /\ Tail(s)[i] = s[i + 1]
         /\ \A t \in Seq(PacketSet) :
              /\ s \o t \in Seq(PacketSet) /\ Len(s \o t) = Len(s) + Len(t)
              /\ \A i \in 1 .. Len(s) : (s \o t)[i] = s[i]
              /\ \A i \in Len(s) + 1 .. Len(s) + Len(t) : (s \o t)[i] = t[i - Len(s)]
         /\ \A p \in PacketSet :
              /\ Append(s, p) \in Seq(PacketSet) /\ Len(Append(s, p)) = Len(s) + 1
              /\ \A i \in 1 .. Len(s) : Append(s, p)[i] = s[i]
              /\ Append(s, p)[Len(s) + 1] = p
  OBVIOUS

\* A step that neither calls nor answers, and puts no acknowledgement into
\* the queue.
LEMMA NoAckPut ==
  ASSUME WireInv, HandshakeInv,
         UNCHANGED <<stage, pc, cmd, toServer, ready, data, peer, accepted>>,
         \A i \in 1 .. Len(toClient') : toClient'[i].type = "ack" =>
           i \in 1 .. Len(toClient) /\ toClient'[i] = toClient[i]
  PROVE  HandshakeInv'
<1> SUFFICES ASSUME Handshaking PROVE HandshakeInv'
  BY DEF HandshakeInv, Handshaking
<1>1. Len(toClient) \in Nat
  BY DEF WireInv
<1>2. ASSUME NEW i \in 1 .. Len(toClient'), IsAck(i)'
      PROVE  /\ i \in 1 .. Len(toClient) /\ IsAck(i) /\ toClient'[i] = toClient[i]
             /\ toClient'[i].cmd = stage /\ Trusted(toClient[i]) /\ Gui \notin ready
             /\ toServer = <<>> /\ pc[Gui] \notin {"idle", "register", "send"}
  <2>1. i \in 1 .. Len(toClient) /\ IsAck(i) /\ toClient'[i] = toClient[i]
    BY <1>1, <1>2 DEF IsAck
  <2> QED
    BY <2>1 DEF HandshakeInv
<1>3. ASSUME NEW i \in 1 .. Len(toClient'), NEW j \in 1 .. Len(toClient'), IsAck(i)', IsAck(j)'
      PROVE  i = j
  <2>1. i \in 1 .. Len(toClient) /\ IsAck(i)
    BY <1>2, <1>3
  <2>2. j \in 1 .. Len(toClient) /\ IsAck(j)
    BY <1>2, <1>3
  <2>3. i = j
    BY <2>1, <2>2 DEF HandshakeInv
  <2> QED
    BY <1>3, <2>3
<1> QED
  BY <1>2, <1>3 DEF HandshakeInv, Handshaking, Trusted

\* The same for one that takes a packet from the queue.
LEMMA NoAckTaken ==
  ASSUME WireInv, HandshakeInv,
         UNCHANGED <<stage, pc, cmd, toServer, ready, data, peer, accepted>>,
         \A i \in 1 .. Len(toClient') :
           i + 1 \in 1 .. Len(toClient) /\ toClient'[i] = toClient[i + 1]
  PROVE  HandshakeInv'
<1> SUFFICES ASSUME Handshaking PROVE HandshakeInv'
  BY DEF HandshakeInv, Handshaking
<1>1. Len(toClient) \in Nat
  BY DEF WireInv
<1>2. ASSUME NEW i \in 1 .. Len(toClient'), IsAck(i)'
      PROVE  /\ i + 1 \in 1 .. Len(toClient) /\ IsAck(i + 1) /\ toClient'[i] = toClient[i + 1]
             /\ toClient'[i].cmd = stage /\ Trusted(toClient[i + 1]) /\ Gui \notin ready
             /\ toServer = <<>> /\ pc[Gui] \notin {"idle", "register", "send"}
  <2>1. i + 1 \in 1 .. Len(toClient) /\ IsAck(i + 1) /\ toClient'[i] = toClient[i + 1]
    BY <1>1, <1>2 DEF IsAck
  <2> QED
    BY <2>1 DEF HandshakeInv
<1>3. ASSUME NEW i \in 1 .. Len(toClient'), NEW j \in 1 .. Len(toClient'), IsAck(i)', IsAck(j)'
      PROVE  i = j
  <2>1. i + 1 \in 1 .. Len(toClient) /\ IsAck(i + 1)
    BY <1>2, <1>3
  <2>2. j + 1 \in 1 .. Len(toClient) /\ IsAck(j + 1)
    BY <1>2, <1>3
  <2>3. i + 1 = j + 1
    BY <2>1, <2>2 DEF HandshakeInv
  <2> QED
    BY <1>3, <2>3
<1> QED
  BY <1>2, <1>3 DEF HandshakeInv, Handshaking, Trusted

-----------------------------------------------------------------------------
\* The initial states satisfy the inductive invariant.
LEMMA InitIInv == Init => IInv
<1> SUFFICES ASSUME Init PROVE IInv
  OBVIOUS
<1> USE ClientAssumption DEF Init
<1>1. TypeOK
  <2>1. /\ open \in BOOLEAN /\ writerStop \in BOOLEAN /\ watchdog \in BOOLEAN
        /\ protocolReady \in BOOLEAN /\ serverHeartbeat \in BOOLEAN /\ serverBusy \in BOOLEAN
        /\ authFailed \in BOOLEAN /\ challenge \in BOOLEAN /\ dirty \in BOOLEAN
        /\ accepted \in BOOLEAN
    BY Zenon
  <2>2. 0 \in 0 .. MaxPushes
    OBVIOUS
  <2> QED
    BY <2>1, <2>2 DEF TypeOK
<1>2. WireInv
  BY DEF WireInv, NoData, Packet, PacketSet, PacketTypes, Cmds
<1>3. WaitersAccounted /\ PushedStateNotLost
  BY DEF WaitersAccounted, PushedStateNotLost
<1>4. HandshakeInv /\ UseInv
  BY DEF HandshakeInv, UseInv, Handshaking
<1> QED
  BY <1>1, <1>2, <1>3, <1>4 DEF IInv

\* The variables keep their types.
LEMMA TypeOKNext ==
  ASSUME IInv, [Next]_vars
  PROVE  TypeOK'
<1> USE ClientAssumption DEF IInv
<1>1. ASSUME NEW c \in Callers, Register(c) PROVE TypeOK'
  BY <1>1 DEF Register, Goto, workerVars, stateVars, rateVars, sockVars, peerVars, TypeOK,
     WireInv, PacketSet
<1>2. ASSUME NEW c \in Callers, Send(c) PROVE TypeOK'
  <2>1. open' \in BOOLEAN
    BY <1>2 DEF Send, TypeOK
  <2>2. pc' \in [Callers -> {"idle", "register", "send", "await", "forget"}]
    BY <1>2 DEF Send, Goto, TypeOK
  <2>3. UNCHANGED <<stage, waiters, ready, canceled, wpc, watchdog, protocolReady,
                    serverHeartbeat, serverBusy, authFailed, challenge, rate, dirty, applied,
                    snapshot, writerStop, peer, accepted>>
    BY <1>2 DEF Send, workerVars, stateVars, rateVars
  <2> QED
    BY <2>1, <2>2, <2>3 DEF TypeOK
<1>3. ASSUME NEW c \in Callers, Answered(c) PROVE TypeOK'
  <2>1. /\ stage' \in {"hello", "challenge", "respond", "auth", "ui", "ready", "closing",
                     "joining", "closed"}
        /\ protocolReady' \in BOOLEAN /\ serverHeartbeat' \in BOOLEAN
    BY <1>3, Zenon DEF Answered, AfterAck, TypeOK
  <2>2. pc' \in [Callers -> {"idle", "register", "send", "await", "forget"}]
    BY <1>3 DEF Answered, Follow, Goto, TypeOK
  <2> QED
    BY <1>3, <2>1, <2>2 DEF Answered, workerVars, rateVars, sockVars, peerVars, TypeOK
<1>4. ASSUME NEW c \in Callers, Unanswered(c) PROVE TypeOK'
  BY <1>4 DEF Unanswered, Goto, workerVars, stateVars, rateVars, sockVars, peerVars, TypeOK,
     WireInv, PacketSet
<1>5. ASSUME NEW c \in Callers, Forget(c) PROVE TypeOK'
  BY <1>5 DEF Forget, Goto, Packet, NoData, workerVars, stateVars, rateVars, sockVars,
     peerVars, TypeOK, WireInv, PacketSet
<1>6. ASSUME NEW c \in Callers, NEW k \in Commands, Request(c, k) PROVE TypeOK'
  <2>1. pc' \in [Callers -> {"idle", "register", "send", "await", "forget"}]
    BY <1>6 DEF Request, Goto, TypeOK
  <2>2. UNCHANGED <<stage, waiters, ready, canceled, wpc, watchdog, protocolReady,
                    serverHeartbeat, serverBusy, authFailed, challenge, rate, dirty, applied,
                    snapshot, open, writerStop, peer, accepted>>
    BY <1>6 DEF Request, workerVars, stateVars, rateVars, sockVars, peerVars
  <2> QED
    BY <2>1, <2>2 DEF TypeOK
<1>7. CASE WorkerTop
  BY <1>7 DEF WorkerTop, callVars, stateVars, rateVars, sockVars, peerVars, TypeOK, WireInv,
     PacketSet
<1>8. CASE RecvFails
  BY <1>8 DEF RecvFails, callVars, stateVars, rateVars, sockVars, peerVars, TypeOK, WireInv,
     PacketSet
<1>9. CASE RecvAck
  BY <1>9 DEF RecvAck, Receive, stateVars, rateVars, sockVars, TypeOK, WireInv, PacketSet
<1>10. CASE RecvRate
  BY <1>10 DEF RecvRate, Receive, callVars, stateVars, sockVars, TypeOK, WireInv, PacketSet
<1>11. CASE FlagRate
  BY <1>11 DEF FlagRate, callVars, stateVars, sockVars, peerVars, TypeOK, WireInv, PacketSet
<1>12. CASE RecvDisconnect
  BY <1>12 DEF RecvDisconnect, CancelAll, Receive, rateVars, sockVars, TypeOK, WireInv,
     PacketSet
<1>13. CASE RecvChallenge
  BY <1>13 DEF RecvChallenge, Receive, callVars, rateVars, sockVars, TypeOK, WireInv,
     PacketSet
<1>14. CASE RecvAuthError
  BY <1>14 DEF RecvAuthError, CancelAll, Receive, rateVars, sockVars, TypeOK, WireInv,
     PacketSet
<1>15. CASE RecvError
  BY <1>15 DEF RecvError, CancelAll, Receive, stateVars, rateVars, sockVars, TypeOK, WireInv,
     PacketSet
<1>16. CASE RecvHeartbeat
  BY <1>16 DEF RecvHeartbeat, Receive, callVars, stateVars, rateVars, sockVars, TypeOK,
     WireInv, PacketSet
<1>17. CASE RecvBaseband
  BY <1>17 DEF RecvBaseband, Receive, callVars, stateVars, rateVars, sockVars, TypeOK,
     WireInv, PacketSet
<1>18. CASE SwapDone
  BY <1>18 DEF SwapDone, callVars, stateVars, rateVars, sockVars, peerVars, TypeOK, WireInv,
     PacketSet
<1>19. CASE SwapStopped
  BY <1>19 DEF SwapStopped, callVars, stateVars, rateVars, sockVars, peerVars, TypeOK,
     WireInv, PacketSet
<1>20. CASE WorkerExit
  <2>1. wpc' = "release" /\ open' \in BOOLEAN
    BY <1>20 DEF WorkerExit
  <2>2. UNCHANGED <<stage, pc, waiters, ready, canceled, watchdog, protocolReady,
                    serverHeartbeat, serverBusy, authFailed, challenge, rate, dirty,
                    applied, snapshot, writerStop, peer, accepted>>
    BY <1>20 DEF WorkerExit, callVars, stateVars, rateVars, peerVars
  <2> QED
    BY <2>1, <2>2 DEF TypeOK
<1>21. CASE WorkerRelease
  BY <1>21 DEF WorkerRelease, CancelAll, stateVars, rateVars, sockVars, peerVars, TypeOK,
     WireInv, PacketSet
<1>22. CASE TakeChallenge
  <2>1. challenge' \in BOOLEAN /\ stage' = "respond"
    BY <1>22 DEF TakeChallenge
  <2>2. UNCHANGED <<pc, waiters, ready, canceled, wpc, watchdog, protocolReady, serverHeartbeat,
                    serverBusy, authFailed, rate, dirty, applied, snapshot, open, writerStop,
                    peer, accepted>>
    BY <1>22 DEF TakeChallenge, callVars, workerVars, rateVars, sockVars, peerVars
  <2> QED
    BY <2>1, <2>2 DEF TypeOK
<1>23. CASE Respond
  <2>1. /\ stage' = "auth" /\ authFailed' \in BOOLEAN
        /\ pc' \in [Callers -> {"idle", "register", "send", "await", "forget"}]
    BY <1>23 DEF Respond, Goto, TypeOK
  <2>2. UNCHANGED <<waiters, ready, canceled, wpc, watchdog, protocolReady, serverHeartbeat,
                    serverBusy, challenge, rate, dirty, applied, snapshot, open, writerStop, peer,
                    accepted>>
    BY <1>23 DEF Respond, workerVars, rateVars, sockVars, peerVars
  <2> QED
    BY <2>1, <2>2 DEF TypeOK
<1>24. CASE NoChallenge
  BY <1>24 DEF NoChallenge, callVars, workerVars, stateVars, rateVars, sockVars, peerVars,
     TypeOK, WireInv, PacketSet
<1>25. CASE SyncBegin
  <2>1. dirty' \in BOOLEAN
    BY <1>25 DEF SyncBegin
  <2>2. UNCHANGED <<stage, pc, waiters, ready, canceled, wpc, watchdog, protocolReady,
                    serverHeartbeat, serverBusy, authFailed, challenge, rate, applied,
                    snapshot, open, writerStop, peer, accepted>>
    BY <1>25 DEF SyncBegin, callVars, workerVars, stateVars, sockVars, peerVars
  <2> QED
    BY <2>1, <2>2 DEF TypeOK
<1>26. CASE SyncSnapshot
  BY <1>26 DEF SyncSnapshot, callVars, workerVars, stateVars, sockVars, peerVars, TypeOK,
     WireInv, PacketSet
<1>27. CASE SyncApply
  BY <1>27 DEF SyncApply, callVars, workerVars, stateVars, sockVars, peerVars, TypeOK,
     WireInv, PacketSet
<1>28. CASE Close
  BY <1>28 DEF Close, callVars, workerVars, stateVars, rateVars, sockVars, peerVars, TypeOK,
     WireInv, PacketSet
<1>29. CASE CloseSocket
  <2>1. stage' = "joining" /\ writerStop' \in BOOLEAN /\ open' \in BOOLEAN
    BY <1>29 DEF CloseSocket
  <2>2. UNCHANGED <<pc, waiters, ready, canceled, wpc, watchdog, protocolReady,
                    serverHeartbeat, serverBusy, authFailed, challenge, rate, dirty,
                    applied, snapshot, peer, accepted>>
    BY <1>29 DEF CloseSocket, callVars, workerVars, stateVars, rateVars, peerVars
  <2> QED
    BY <2>1, <2>2 DEF TypeOK
<1>30. CASE CloseJoin
  <2>1. stage' = "closed" /\ writerStop' \in BOOLEAN
    BY <1>30 DEF CloseJoin
  <2>2. UNCHANGED <<pc, waiters, ready, canceled, wpc, watchdog, protocolReady,
                    serverHeartbeat, serverBusy, authFailed, challenge, rate, dirty,
                    applied, snapshot, open, peer, accepted>>
    BY <1>30 DEF CloseJoin, callVars, workerVars, stateVars, rateVars, peerVars
  <2> QED
    BY <2>1, <2>2 DEF TypeOK
<1>31. CASE Serve
  <2>1. /\ toServer # <<>> /\ Head(toServer) = toServer[1] /\ toServer[1] \in RequestSet
        /\ Len(toServer) >= 1
    BY <1>31 DEF Serve, WireInv
  <2>2. PICK a \in Answers(toServer[1]) :
          toClient' = toClient \o a[1] /\ accepted' = a[2] /\ peer' = a[3]
    BY <1>31, <2>1 DEF Serve
  <2>3. /\ a[1] \in Seq(PacketSet) /\ a[2] \in BOOLEAN /\ a[3] \in {"up", "closed"}
        /\ toServer[1].cmd \notin {"hello", "auth"} => a[2] = accepted
        /\ \A i \in 1 .. Len(a[1]) : a[1][i].type # "rate"
        /\ \A i \in 1 .. Len(a[1]) : a[1][i].type = "ack" =>
             /\ i = 1 /\ a[1][i].cmd = toServer[1].cmd
             /\ (toServer[1].cmd = "hello" /\ a[1][i].caps \cap {"bad", "auth"} = {})
                  \/ toServer[1].cmd = "auth" => a[2]
    BY <2>1, AnswerShape DEF TypeOK
  <2> QED
    BY <1>31, <2>2, <2>3 DEF Serve, callVars, workerVars, stateVars, rateVars, sockVars,
       TypeOK
<1>32. CASE PeerLeaves
  BY <1>32 DEF PeerLeaves, callVars, workerVars, stateVars, rateVars, sockVars, TypeOK,
     WireInv, PacketSet
<1>33. CASE \/ PushRate \/ Traffic
            \/ UNCHANGED vars
  <2>1. UNCHANGED <<stage, pc, waiters, ready, canceled, open, writerStop, wpc, watchdog,
                    protocolReady, serverHeartbeat, serverBusy, authFailed, challenge,
                    rate, dirty, applied, snapshot, peer, accepted>>
    BY <1>33 DEF PushRate, Traffic, Packet, callVars, workerVars, stateVars, rateVars,
       sockVars, vars, peerVars
  <2> QED
    BY <2>1 DEF TypeOK, WireInv, PacketSet
<1> QED
  BY <1>1, <1>2, <1>3, <1>4, <1>5, <1>6, <1>7, <1>8, <1>9, <1>10, <1>11, <1>12, <1>13, <1>14,
     <1>15, <1>16, <1>17, <1>18, <1>19, <1>20, <1>21, <1>22, <1>23, <1>24, <1>25, <1>26, <1>27,
     <1>28, <1>29, <1>30, <1>31, <1>32, <1>33 DEF Next, Call, Worker, Handshake

\* Receiving a packet keeps what is on the wire.
LEMMA ReceiveWire ==
  ASSUME WireInv, toClient # <<>>, toClient' = Tail(toClient),
         UNCHANGED <<cmd, req, data, toServer, sync, count, pushes>>
  PROVE  WireInv'
<1>1. /\ toClient' \in Seq(PacketSet)
      /\ \A i \in 1 .. Len(toClient') :
           i + 1 \in 1 .. Len(toClient) /\ toClient'[i] = toClient[i + 1]
  BY QueueSteps DEF WireInv
<1>2. \A i \in 1 .. Len(toClient') :
        toClient'[i].type = "rate" => toClient'[i].req \in 0 .. MaxPushes
  BY <1>1 DEF WireInv
<1> QED
  BY <1>1, <1>2 DEF WireInv

\* Requests and packets are well formed.
LEMMA WireInvNext ==
  ASSUME IInv, [Next]_vars
  PROVE  WireInv'
<1> USE ClientAssumption DEF IInv
<1>1. ASSUME NEW c \in Callers, Send(c) PROVE WireInv'
  <2>1. [cmd |-> cmd[c], req |-> req[c]] \in RequestSet
    BY DEF WireInv, RequestSet
  <2>2. toServer' \in Seq(RequestSet)
    BY <1>1, <2>1 DEF Send, WireInv
  <2> QED
    BY <1>1, <2>2 DEF Send, rateVars, WireInv
<1>2. ASSUME NEW c \in Callers, Answered(c) PROVE WireInv'
  BY <1>2 DEF Answered, Goto, Follow, AfterAck, Packet, NoData, workerVars, rateVars,
     sockVars, peerVars, TypeOK, WireInv, PacketSet, RequestSet, PacketTypes, Cmds
<1>3. ASSUME NEW c \in Callers, Forget(c) PROVE WireInv'
  BY <1>3 DEF Forget, Goto, Packet, NoData, workerVars, stateVars, rateVars, sockVars,
     peerVars, TypeOK, WireInv, PacketSet, RequestSet, PacketTypes, Cmds
<1>4. ASSUME NEW c \in Callers, NEW k \in Commands, Request(c, k) PROVE WireInv'
  <2>1. k \in Cmds
    BY DEF Cmds
  <2>2. /\ cmd' = [cmd EXCEPT ![c] = k] /\ req' = [req EXCEPT ![c] = count + 1]
        /\ count' = count + 1
        /\ UNCHANGED <<data, toServer, toClient, sync, pushes>>
    BY <1>4 DEF Request, rateVars, peerVars
  <2>3. cmd' \in [Callers -> Cmds] /\ req' \in [Callers -> Nat] /\ count' \in Nat
    BY <2>1, <2>2 DEF WireInv
  <2> QED
    BY <2>2, <2>3 DEF WireInv
<1>5. CASE RecvAck
  <2>1. toClient # <<>> /\ toClient' = Tail(toClient) /\ toClient \in Seq(PacketSet)
    BY <1>5 DEF RecvAck, Receive, WireInv
  <2>2. /\ Head(toClient) = toClient[1] /\ Head(toClient) \in PacketSet /\ 1 \in 1 .. Len(toClient)
        /\ toClient' \in Seq(PacketSet) /\ Len(toClient') = Len(toClient) - 1
        /\ \A i \in 1 .. Len(toClient') :
             i + 1 \in 1 .. Len(toClient) /\ toClient'[i] = toClient[i + 1]
    BY <2>1, QueueSteps
  <2>3. data' \in [Callers -> PacketSet]
    BY <1>5, <2>2 DEF RecvAck, WireInv
  <2>4. \A i \in 1 .. Len(toClient') :
          toClient'[i].type = "rate" => toClient'[i].req \in 0 .. MaxPushes
    BY <2>2 DEF WireInv
  <2> QED
    BY <1>5, <2>2, <2>3, <2>4 DEF RecvAck, Receive, rateVars, WireInv
<1>6. CASE RecvRate
  BY <1>6, ReceiveWire DEF RecvRate, Receive, callVars
<1>7. CASE RecvDisconnect
  BY <1>7, ReceiveWire DEF RecvDisconnect, Receive, rateVars
<1>8. CASE RecvChallenge
  BY <1>8, ReceiveWire DEF RecvChallenge, Receive, callVars, rateVars
<1>9. CASE RecvAuthError
  BY <1>9, ReceiveWire DEF RecvAuthError, Receive, rateVars
<1>10. CASE RecvError
  BY <1>10, ReceiveWire DEF RecvError, Receive, rateVars
<1>11. CASE RecvHeartbeat
  BY <1>11, ReceiveWire DEF RecvHeartbeat, Receive, callVars, rateVars
<1>12. CASE RecvBaseband
  BY <1>12, ReceiveWire DEF RecvBaseband, Receive, callVars, rateVars
<1>13. CASE TakeChallenge
  BY <1>13 DEF TakeChallenge, callVars, rateVars, peerVars, WireInv
<1>14. CASE Respond
  BY <1>14 DEF Respond, Goto, workerVars, rateVars, sockVars, peerVars, TypeOK, WireInv,
     PacketSet, RequestSet, PacketTypes, Cmds
<1>15. CASE SyncBegin
  BY <1>15 DEF SyncBegin, callVars, workerVars, stateVars, sockVars, peerVars, TypeOK,
     WireInv, PacketSet, RequestSet, PacketTypes, Cmds
<1>16. CASE SyncSnapshot
  BY <1>16 DEF SyncSnapshot, callVars, workerVars, stateVars, sockVars, peerVars, TypeOK,
     WireInv, PacketSet, RequestSet, PacketTypes, Cmds
<1>17. CASE SyncApply
  BY <1>17 DEF SyncApply, callVars, workerVars, stateVars, sockVars, peerVars, TypeOK,
     WireInv, PacketSet, RequestSet, PacketTypes, Cmds
<1>18. CASE Serve
  <2>1. /\ toServer # <<>> /\ Head(toServer) = toServer[1] /\ toServer[1] \in RequestSet
        /\ Len(toServer) >= 1
    BY <1>18 DEF Serve, WireInv
  <2>2. PICK a \in Answers(toServer[1]) :
          toClient' = toClient \o a[1] /\ accepted' = a[2] /\ peer' = a[3]
    BY <1>18, <2>1 DEF Serve
  <2>3. /\ a[1] \in Seq(PacketSet) /\ a[2] \in BOOLEAN /\ a[3] \in {"up", "closed"}
        /\ toServer[1].cmd \notin {"hello", "auth"} => a[2] = accepted
        /\ \A i \in 1 .. Len(a[1]) : a[1][i].type # "rate"
        /\ \A i \in 1 .. Len(a[1]) : a[1][i].type = "ack" =>
             /\ i = 1 /\ a[1][i].cmd = toServer[1].cmd
             /\ (toServer[1].cmd = "hello" /\ a[1][i].caps \cap {"bad", "auth"} = {})
                  \/ toServer[1].cmd = "auth" => a[2]
    BY <2>1, AnswerShape DEF TypeOK
  <2>4. /\ toClient' \in Seq(PacketSet) /\ Len(toClient') = Len(toClient) + Len(a[1])
        /\ \A i \in 1 .. Len(toClient) : toClient'[i] = toClient[i]
        /\ \A i \in Len(toClient) + 1 .. Len(toClient) + Len(a[1]) :
             toClient'[i] = a[1][i - Len(toClient)]
    BY <2>2, <2>3, QueueSteps DEF WireInv
  <2>5. toServer' \in Seq(RequestSet)
    BY <1>18 DEF Serve, WireInv
  <2>6. ASSUME NEW i \in 1 .. Len(toClient'), toClient'[i].type = "rate"
        PROVE  toClient'[i].req \in 0 .. MaxPushes
    <3>1. CASE i \in 1 .. Len(toClient)
      BY <2>4, <2>6, <3>1 DEF WireInv
    <3>2. CASE i \notin 1 .. Len(toClient)
      <4>1. i - Len(toClient) \in 1 .. Len(a[1]) /\ toClient'[i] = a[1][i - Len(toClient)]
        BY <2>3, <2>4, <2>6, <3>2 DEF WireInv
      <4> QED
        BY <2>3, <2>6, <4>1
    <3> QED
      BY <3>1, <3>2
  <2> QED
    BY <1>18, <2>4, <2>5, <2>6 DEF Serve, callVars, rateVars, WireInv
<1>19. CASE PushRate
  <2>1. /\ [Packet("rate") EXCEPT !.req = pushes + 1] \in PacketSet
        /\ [Packet("rate") EXCEPT !.req = pushes + 1].type = "rate"
        /\ [Packet("rate") EXCEPT !.req = pushes + 1].req = pushes + 1
    <3>1. pushes + 1 \in Nat
      BY DEF WireInv
    <3>2. Packet("rate") \in PacketSet /\ Packet("rate").type = "rate"
      BY DEF Packet, PacketSet, PacketTypes, Cmds
    <3> QED
      BY <3>1, <3>2 DEF PacketSet
  <2>2. PICK p \in PacketSet :
          toClient' = Append(toClient, p) /\ p.type = "rate" /\ p.req = pushes + 1
    BY <1>19, <2>1 DEF PushRate
  <2>3. /\ toClient' \in Seq(PacketSet) /\ Len(toClient') = Len(toClient) + 1
        /\ \A i \in 1 .. Len(toClient) : toClient'[i] = toClient[i]
        /\ toClient'[Len(toClient) + 1] = p
    BY <2>2, QueueSteps DEF WireInv
  <2>4. pushes' = pushes + 1 /\ pushes' \in 0 .. MaxPushes
    BY <1>19 DEF PushRate, WireInv
  <2>5. \A i \in 1 .. Len(toClient') :
          toClient'[i].type = "rate" => toClient'[i].req \in 0 .. MaxPushes
    BY <2>2, <2>3, <2>4 DEF WireInv
  <2> QED
    BY <1>19, <2>3, <2>4, <2>5 DEF PushRate, callVars, rateVars, WireInv
<1>20. CASE Traffic
  <2>1. \A t \in {"heartbeat", "baseband"} : Packet(t) \in PacketSet /\ Packet(t).type # "rate"
    BY DEF Packet, PacketSet, PacketTypes, Cmds
  <2>2. PICK p \in PacketSet : toClient' = Append(toClient, p) /\ p.type # "rate"
    BY <1>20, <2>1 DEF Traffic
  <2>3. /\ toClient' \in Seq(PacketSet) /\ Len(toClient') = Len(toClient) + 1
        /\ \A i \in 1 .. Len(toClient) : toClient'[i] = toClient[i]
        /\ toClient'[Len(toClient) + 1] = p
    BY <2>2, QueueSteps DEF WireInv
  <2>4. \A i \in 1 .. Len(toClient') :
          toClient'[i].type = "rate" => toClient'[i].req \in 0 .. MaxPushes
    BY <2>2, <2>3 DEF WireInv
  <2>5. UNCHANGED <<cmd, req, data, toServer, sync, count, pushes>>
    BY <1>20 DEF Traffic, callVars, rateVars
  <2> QED
    BY <2>3, <2>4, <2>5 DEF WireInv
<1>21. CASE PeerLeaves
  BY <1>21 DEF PeerLeaves, callVars, workerVars, stateVars, rateVars, sockVars, TypeOK,
     WireInv, PacketSet, RequestSet, PacketTypes, Cmds
<1>22. CASE \/ \E c \in Callers : Register(c) \/ Unanswered(c)
            \/ WorkerTop \/ RecvFails \/ FlagRate \/ SwapDone \/ SwapStopped
            \/ WorkerExit \/ WorkerRelease \/ NoChallenge \/ Close \/ CloseSocket
            \/ CloseJoin
            \/ UNCHANGED vars
  <2>1. UNCHANGED <<cmd, req, data, sync, toServer, toClient, count, pushes>>
    BY <1>22 DEF Register, Unanswered, WorkerTop, RecvFails, FlagRate, SwapDone, SwapStopped,
       WorkerExit, WorkerRelease, NoChallenge, Close, CloseSocket, CloseJoin, Goto, CancelAll,
       callVars, workerVars, stateVars, rateVars, sockVars, peerVars, vars
  <2> QED
    BY <2>1 DEF TypeOK, WireInv, PacketSet, RequestSet, PacketTypes, Cmds
<1> QED
  BY <1>1, <1>2, <1>3, <1>4, <1>5, <1>6, <1>7, <1>8, <1>9, <1>10, <1>11, <1>12, <1>13, <1>14, <1>15,
     <1>16, <1>17, <1>18, <1>19, <1>20, <1>21, <1>22 DEF Next, Call, Worker, Handshake

\* No caller is lost.
LEMMA WaitersAccountedNext ==
  ASSUME IInv, [Next]_vars
  PROVE  WaitersAccounted'
<1> USE ClientAssumption DEF IInv
<1>1. ASSUME NEW c \in Callers, Register(c) PROVE WaitersAccounted'
  BY <1>1 DEF Register, Goto, workerVars, stateVars, rateVars, sockVars, peerVars, TypeOK,
     WaitersAccounted
<1>2. ASSUME NEW c \in Callers, Send(c) PROVE WaitersAccounted'
  BY <1>2 DEF Send, Goto, workerVars, stateVars, rateVars, sockVars, TypeOK, WaitersAccounted
<1>3. ASSUME NEW c \in Callers, Answered(c) PROVE WaitersAccounted'
  BY <1>3 DEF Answered, Goto, Follow, AfterAck, Packet, NoData, workerVars, rateVars,
     sockVars, peerVars, TypeOK, WaitersAccounted
<1>4. ASSUME NEW c \in Callers, Unanswered(c) PROVE WaitersAccounted'
  BY <1>4 DEF Unanswered, Goto, workerVars, stateVars, rateVars, sockVars, peerVars, TypeOK,
     WaitersAccounted
<1>5. ASSUME NEW c \in Callers, Forget(c) PROVE WaitersAccounted'
  BY <1>5 DEF Forget, Goto, Packet, NoData, workerVars, stateVars, rateVars, sockVars,
     peerVars, TypeOK, WaitersAccounted
<1>6. ASSUME NEW c \in Callers, NEW k \in Commands, Request(c, k) PROVE WaitersAccounted'
  BY <1>6 DEF Request, Goto, workerVars, stateVars, rateVars, sockVars, peerVars, TypeOK,
     WaitersAccounted
<1>7. CASE RecvAck
  BY <1>7 DEF RecvAck, Receive, stateVars, rateVars, sockVars, TypeOK, WaitersAccounted
<1>8. CASE RecvDisconnect
  BY <1>8 DEF RecvDisconnect, CancelAll, Receive, rateVars, sockVars, TypeOK, WaitersAccounted
<1>9. CASE RecvAuthError
  BY <1>9 DEF RecvAuthError, CancelAll, Receive, rateVars, sockVars, TypeOK, WaitersAccounted
<1>10. CASE RecvError
  BY <1>10 DEF RecvError, CancelAll, Receive, stateVars, rateVars, sockVars, TypeOK,
     WaitersAccounted
<1>11. CASE WorkerRelease
  BY <1>11 DEF WorkerRelease, CancelAll, stateVars, rateVars, sockVars, peerVars, TypeOK,
     WaitersAccounted
<1>12. CASE TakeChallenge
  BY <1>12 DEF TakeChallenge, callVars, WaitersAccounted
<1>13. CASE Respond
  <2>1. pc[Gui] = "idle" /\ Gui \notin waiters
    BY <1>13 DEF Respond, HandshakeInv, Handshaking, WaitersAccounted
  <2> QED
    BY <1>13, <2>1 DEF Respond, Goto, TypeOK, WaitersAccounted
<1>14. CASE \/ WorkerTop \/ RecvFails \/ RecvRate \/ FlagRate \/ RecvChallenge
            \/ RecvHeartbeat \/ RecvBaseband \/ SwapDone \/ SwapStopped \/ WorkerExit
            \/ NoChallenge \/ SyncBegin \/ SyncSnapshot \/ SyncApply \/ Close
            \/ CloseSocket \/ CloseJoin \/ Serve \/ PushRate \/ Traffic
            \/ PeerLeaves
            \/ UNCHANGED vars
  <2>1. UNCHANGED <<pc, waiters, ready, canceled>>
    BY <1>14 DEF WorkerTop, RecvFails, RecvRate, FlagRate, RecvChallenge, RecvHeartbeat,
       RecvBaseband, SwapDone, SwapStopped, WorkerExit, NoChallenge, SyncBegin, SyncSnapshot,
       SyncApply, Close, CloseSocket, CloseJoin, Serve, PushRate, Traffic, PeerLeaves,
       Receive, Ack, Packet, Answers, callVars, workerVars, stateVars, rateVars, sockVars,
       peerVars, vars
  <2> QED
    BY <2>1 DEF TypeOK, WaitersAccounted
<1> QED
  BY <1>1, <1>2, <1>3, <1>4, <1>5, <1>6, <1>7, <1>8, <1>9, <1>10, <1>11, <1>12, <1>13, <1>14 DEF
     Next, Call, Worker, Handshake

\* No pushed state is lost.
LEMMA PushedStateNotLostNext ==
  ASSUME IInv, [Next]_vars
  PROVE  PushedStateNotLost'
<1> USE ClientAssumption DEF IInv
<1>1. CASE WorkerTop
  BY <1>1 DEF WorkerTop, callVars, stateVars, rateVars, sockVars, peerVars, TypeOK,
     PushedStateNotLost
<1>2. CASE RecvFails
  BY <1>2 DEF RecvFails, callVars, stateVars, rateVars, sockVars, peerVars, TypeOK,
     PushedStateNotLost
<1>3. CASE RecvAck
  BY <1>3 DEF RecvAck, Receive, stateVars, rateVars, sockVars, TypeOK, PushedStateNotLost
<1>4. CASE RecvRate
  BY <1>4 DEF RecvRate, Receive, callVars, stateVars, sockVars, TypeOK, PushedStateNotLost
<1>5. CASE FlagRate
  BY <1>5 DEF FlagRate, callVars, stateVars, sockVars, peerVars, TypeOK, PushedStateNotLost
<1>6. CASE RecvDisconnect
  BY <1>6 DEF RecvDisconnect, CancelAll, Receive, rateVars, sockVars, TypeOK,
     PushedStateNotLost
<1>7. CASE RecvChallenge
  BY <1>7 DEF RecvChallenge, Receive, callVars, rateVars, sockVars, TypeOK, PushedStateNotLost
<1>8. CASE RecvAuthError
  BY <1>8 DEF RecvAuthError, CancelAll, Receive, rateVars, sockVars, TypeOK,
     PushedStateNotLost
<1>9. CASE RecvError
  BY <1>9 DEF RecvError, CancelAll, Receive, stateVars, rateVars, sockVars, TypeOK,
     PushedStateNotLost
<1>10. CASE RecvHeartbeat
  BY <1>10 DEF RecvHeartbeat, Receive, callVars, stateVars, rateVars, sockVars, TypeOK,
     PushedStateNotLost
<1>11. CASE RecvBaseband
  BY <1>11 DEF RecvBaseband, Receive, callVars, stateVars, rateVars, sockVars, TypeOK,
     PushedStateNotLost
<1>12. CASE SwapDone
  BY <1>12 DEF SwapDone, callVars, stateVars, rateVars, sockVars, peerVars, TypeOK,
     PushedStateNotLost
<1>13. CASE SwapStopped
  BY <1>13 DEF SwapStopped, callVars, stateVars, rateVars, sockVars, peerVars, TypeOK,
     PushedStateNotLost
<1>14. CASE WorkerExit
  BY <1>14 DEF WorkerExit, callVars, stateVars, rateVars, peerVars, TypeOK, PushedStateNotLost
<1>15. CASE WorkerRelease
  BY <1>15 DEF WorkerRelease, CancelAll, stateVars, rateVars, sockVars, peerVars, TypeOK,
     PushedStateNotLost
<1>16. CASE SyncBegin
  BY <1>16 DEF SyncBegin, callVars, workerVars, stateVars, sockVars, peerVars, TypeOK,
     PushedStateNotLost
<1>17. CASE SyncSnapshot
  BY <1>17 DEF SyncSnapshot, callVars, workerVars, stateVars, sockVars, peerVars, TypeOK,
     PushedStateNotLost
<1>18. CASE SyncApply
  BY <1>18 DEF SyncApply, callVars, workerVars, stateVars, sockVars, peerVars, TypeOK,
     PushedStateNotLost
<1>19. CASE \/ \E c \in Callers :
                  Register(c) \/ Send(c) \/ Answered(c) \/ Unanswered(c) \/ Forget(c)
            \/ \E c \in Callers, k \in Commands : Request(c, k)
            \/ TakeChallenge \/ Respond \/ NoChallenge \/ Close \/ CloseSocket \/ CloseJoin
            \/ Serve \/ PushRate \/ Traffic \/ PeerLeaves
            \/ UNCHANGED vars
  <2>1. UNCHANGED <<wpc, rate, dirty, applied, sync, snapshot>>
    BY <1>19 DEF Register, Send, Answered, Unanswered, Forget, Request, TakeChallenge,
       Respond, NoChallenge, Close, CloseSocket, CloseJoin, Serve, PushRate, Traffic, PeerLeaves, Goto,
       Follow, AfterAck, Ack, Packet, NoData, Answers, callVars, workerVars, stateVars,
       rateVars, sockVars, peerVars, vars
  <2> QED
    BY <2>1 DEF TypeOK, PushedStateNotLost
<1> QED
  BY <1>1, <1>2, <1>3, <1>4, <1>5, <1>6, <1>7, <1>8, <1>9, <1>10, <1>11, <1>12, <1>13, <1>14,
     <1>15, <1>16, <1>17, <1>18, <1>19 DEF Next, Call, Worker, Handshake

\* One request at a time until the client is in use.
LEMMA HandshakeInvNext ==
  ASSUME IInv, [Next]_vars
  PROVE  HandshakeInv'
<1> USE ClientAssumption DEF IInv
<1>1. ASSUME NEW c \in Callers, Register(c) PROVE HandshakeInv'
  <2>1. /\ pc[c] = "register" /\ pc' = [pc EXCEPT ![c] = "send"] /\ ready' = ready \ {c}
        /\ UNCHANGED <<stage, cmd, data, peer, accepted, toServer, toClient>>
    BY <1>1 DEF Register, Goto, peerVars
  <2> QED
    BY <2>1 DEF TypeOK, HandshakeInv, Handshaking, IsAck, Trusted
<1>2. ASSUME NEW c \in Callers, Send(c) PROVE HandshakeInv'
  <2> SUFFICES ASSUME Handshaking PROVE HandshakeInv'
    BY <1>2 DEF Send, HandshakeInv, Handshaking
  <2>1. /\ c = Gui /\ pc[Gui] # "idle" /\ cmd[Gui] = stage /\ toServer = <<>> /\ Gui \notin ready
        /\ \A i \in 1 .. Len(toClient) : ~IsAck(i)
    BY <1>2 DEF Send, HandshakeInv
  <2>2. /\ UNCHANGED <<stage, cmd, ready, data, toClient, peer, accepted>>
        /\ pc'[Gui] = "await" /\ \A b \in Callers \ {Gui} : pc'[b] = pc[b]
    BY <1>2, <2>1 DEF Send, Goto, TypeOK
  <2>3. toServer' = <<>> \/ toServer' = <<[cmd |-> cmd[Gui], req |-> req[Gui]]>>
    BY <1>2, <2>1 DEF Send
  <2>4. Len(toServer') <= 1 /\ (toServer' # <<>> => toServer'[1].cmd = stage)
    <3> DEFINE r == [cmd |-> cmd[Gui], req |-> req[Gui]]
    <3>1. r.cmd = stage
      BY <2>1
    <3> HIDE DEF r
    <3>2. Len(<<r>>) = 1 /\ <<r>>[1] = r
      OBVIOUS
    <3>3. toServer' = <<>> \/ toServer' = <<r>>
      BY <2>3 DEF r
    <3>4. CASE toServer' = <<>>
      BY <3>4
    <3>5. CASE toServer' = <<r>>
      BY <3>1, <3>2, <3>5
    <3> QED
      BY <3>3, <3>4, <3>5
  <2> QED
    BY <2>1, <2>2, <2>4 DEF HandshakeInv, Handshaking, IsAck
<1>3. ASSUME NEW c \in Callers, Answered(c) PROVE HandshakeInv'
  <2>1. CASE c # Gui
    BY <1>3, <2>1 DEF Answered, Follow, Goto, peerVars, TypeOK, HandshakeInv, UseInv,
       Handshaking, WireInv
  <2>2. CASE c = Gui /\ ~Handshaking
    BY <1>3, <2>2 DEF Answered, AfterAck, Follow, Goto, peerVars, TypeOK, HandshakeInv,
       UseInv, Handshaking, WireInv
  <2>3. CASE c = Gui /\ Handshaking
    <3>1. /\ stage \notin {"challenge", "respond"} /\ cmd[Gui] = stage
          /\ Trusted(data[Gui]) /\ toServer = <<>>
          /\ \A i \in 1 .. Len(toClient) : ~IsAck(i)
          /\ \A b \in Callers \ {Gui} : pc[b] = "idle" /\ cmd[b] = "none"
      BY <1>3, <2>3 DEF Answered, HandshakeInv
    <3>2. /\ UNCHANGED <<toServer, toClient, peer, accepted>> /\ Gui \notin ready'
          /\ \A b \in Callers \ {Gui} : pc'[b] = pc[b] /\ cmd'[b] = cmd[b]
      BY <1>3, <2>3 DEF Answered, Follow, Goto, peerVars, TypeOK, WireInv
    <3>3. IF stage' = "ui" THEN cmd'[Gui] = "ui" /\ pc'[Gui] = "register"
                           ELSE cmd'[Gui] = "none" /\ pc'[Gui] = "idle"
      BY <1>3, <2>3 DEF Answered, Follow, Goto, TypeOK, WireInv
    <3>4. /\ stage' \in {"challenge", "ui", "ready", "closing"}
          /\ stage' = "ready" => stage = "ui"
          /\ stage' = "ui" => stage = "auth" \/ data[Gui].caps \cap {"bad", "auth"} = {}
      BY <1>3, <2>3, <3>1 DEF Answered, AfterAck, Handshaking
    <3> QED
      BY <3>1, <3>2, <3>3, <3>4, <2>3 DEF HandshakeInv, UseInv, Handshaking, IsAck, Trusted
  <2> QED
    BY <2>1, <2>2, <2>3
<1>4. ASSUME NEW c \in Callers, Unanswered(c) PROVE HandshakeInv'
  <2>1. /\ pc[c] = "await" /\ pc' = [pc EXCEPT ![c] = "forget"]
        /\ UNCHANGED <<stage, cmd, ready, data, toServer, toClient, peer, accepted>>
    BY <1>4 DEF Unanswered, Goto, peerVars
  <2> QED
    BY <2>1 DEF TypeOK, HandshakeInv, Handshaking, IsAck, Trusted
<1>5. ASSUME NEW c \in Callers, Forget(c) PROVE HandshakeInv'
  BY <1>5 DEF Forget, Goto, Packet, NoData, workerVars, stateVars, rateVars, sockVars,
     peerVars, TypeOK, WireInv, WaitersAccounted, HandshakeInv, UseInv, Handshaking, IsAck,
     Trusted, PacketSet, RequestSet
<1>6. ASSUME NEW c \in Callers, NEW k \in Commands, Request(c, k) PROVE HandshakeInv'
  BY <1>6 DEF Request, Goto, workerVars, stateVars, rateVars, sockVars, peerVars, TypeOK,
     WireInv, WaitersAccounted, HandshakeInv, UseInv, Handshaking, IsAck, Trusted, PacketSet,
     RequestSet
<1>7. CASE RecvAck
  <2> SUFFICES ASSUME Handshaking PROVE HandshakeInv'
    BY <1>7 DEF RecvAck, Receive, HandshakeInv, Handshaking
  <2>1. toClient # <<>> /\ toClient' = Tail(toClient) /\ toClient \in Seq(PacketSet)
    BY <1>7 DEF RecvAck, Receive, WireInv
  <2>2. /\ Head(toClient) = toClient[1] /\ Head(toClient) \in PacketSet /\ 1 \in 1 .. Len(toClient)
        /\ toClient' \in Seq(PacketSet) /\ Len(toClient') = Len(toClient) - 1
        /\ \A i \in 1 .. Len(toClient') :
             i + 1 \in 1 .. Len(toClient) /\ toClient'[i] = toClient[i + 1]
    BY <2>1, QueueSteps
  <2>3. IsAck(1) /\ UNCHANGED <<stage, pc, cmd, toServer, peer, accepted>>
    BY <1>7, <2>2 DEF RecvAck, Receive, IsAck
  <2>4. /\ toServer = <<>> /\ Gui \notin ready /\ Trusted(Head(toClient))
        /\ pc[Gui] \notin {"idle", "register", "send"}
    BY <2>2, <2>3 DEF HandshakeInv
  <2>5. \A i \in 1 .. Len(toClient') : toClient'[i].type # "ack"
    BY <2>2, <2>3 DEF HandshakeInv, IsAck
  <2>6. Gui \in ready' => data'[Gui] = Head(toClient)
    BY <1>7, <2>4 DEF RecvAck, WireInv
  <2> QED
    BY <2>3, <2>4, <2>5, <2>6 DEF HandshakeInv, Handshaking, IsAck, Trusted
<1>8. CASE RecvRate
  <2>1. toClient # <<>> /\ toClient' = Tail(toClient) /\ toClient \in Seq(PacketSet)
    BY <1>8 DEF RecvRate, Receive, WireInv
  <2>2. /\ Head(toClient) = toClient[1] /\ Head(toClient) \in PacketSet /\ 1 \in 1 .. Len(toClient)
        /\ toClient' \in Seq(PacketSet) /\ Len(toClient') = Len(toClient) - 1
        /\ \A i \in 1 .. Len(toClient') :
             i + 1 \in 1 .. Len(toClient) /\ toClient'[i] = toClient[i + 1]
    BY <2>1, QueueSteps
  <2>3. UNCHANGED <<stage, pc, cmd, toServer, ready, data, peer, accepted>>
    BY <1>8 DEF RecvRate, Receive, callVars
  <2> QED
    BY <2>2, <2>3, NoAckTaken
<1>9. CASE RecvDisconnect
  <2>1. toClient # <<>> /\ toClient' = Tail(toClient) /\ toClient \in Seq(PacketSet)
    BY <1>9 DEF RecvDisconnect, Receive, WireInv
  <2>2. /\ Head(toClient) = toClient[1] /\ Head(toClient) \in PacketSet /\ 1 \in 1 .. Len(toClient)
        /\ toClient' \in Seq(PacketSet) /\ Len(toClient') = Len(toClient) - 1
        /\ \A i \in 1 .. Len(toClient') :
             i + 1 \in 1 .. Len(toClient) /\ toClient'[i] = toClient[i + 1]
    BY <2>1, QueueSteps
  <2>3. UNCHANGED <<stage, pc, cmd, toServer, ready, data, peer, accepted>>
    BY <1>9 DEF RecvDisconnect, Receive, callVars
  <2> QED
    BY <2>2, <2>3, NoAckTaken
<1>10. CASE RecvChallenge
  <2>1. toClient # <<>> /\ toClient' = Tail(toClient) /\ toClient \in Seq(PacketSet)
    BY <1>10 DEF RecvChallenge, Receive, WireInv
  <2>2. /\ Head(toClient) = toClient[1] /\ Head(toClient) \in PacketSet /\ 1 \in 1 .. Len(toClient)
        /\ toClient' \in Seq(PacketSet) /\ Len(toClient') = Len(toClient) - 1
        /\ \A i \in 1 .. Len(toClient') :
             i + 1 \in 1 .. Len(toClient) /\ toClient'[i] = toClient[i + 1]
    BY <2>1, QueueSteps
  <2>3. UNCHANGED <<stage, pc, cmd, toServer, ready, data, peer, accepted>>
    BY <1>10 DEF RecvChallenge, Receive, callVars
  <2> QED
    BY <2>2, <2>3, NoAckTaken
<1>11. CASE RecvAuthError
  <2>1. toClient # <<>> /\ toClient' = Tail(toClient) /\ toClient \in Seq(PacketSet)
    BY <1>11 DEF RecvAuthError, Receive, WireInv
  <2>2. /\ Head(toClient) = toClient[1] /\ Head(toClient) \in PacketSet /\ 1 \in 1 .. Len(toClient)
        /\ toClient' \in Seq(PacketSet) /\ Len(toClient') = Len(toClient) - 1
        /\ \A i \in 1 .. Len(toClient') :
             i + 1 \in 1 .. Len(toClient) /\ toClient'[i] = toClient[i + 1]
    BY <2>1, QueueSteps
  <2>3. UNCHANGED <<stage, pc, cmd, toServer, ready, data, peer, accepted>>
    BY <1>11 DEF RecvAuthError, Receive, callVars
  <2> QED
    BY <2>2, <2>3, NoAckTaken
<1>12. CASE RecvError
  <2>1. toClient # <<>> /\ toClient' = Tail(toClient) /\ toClient \in Seq(PacketSet)
    BY <1>12 DEF RecvError, Receive, WireInv
  <2>2. /\ Head(toClient) = toClient[1] /\ Head(toClient) \in PacketSet /\ 1 \in 1 .. Len(toClient)
        /\ toClient' \in Seq(PacketSet) /\ Len(toClient') = Len(toClient) - 1
        /\ \A i \in 1 .. Len(toClient') :
             i + 1 \in 1 .. Len(toClient) /\ toClient'[i] = toClient[i + 1]
    BY <2>1, QueueSteps
  <2>3. UNCHANGED <<stage, pc, cmd, toServer, ready, data, peer, accepted>>
    BY <1>12 DEF RecvError, Receive, callVars
  <2> QED
    BY <2>2, <2>3, NoAckTaken
<1>13. CASE RecvHeartbeat
  <2>1. toClient # <<>> /\ toClient' = Tail(toClient) /\ toClient \in Seq(PacketSet)
    BY <1>13 DEF RecvHeartbeat, Receive, WireInv
  <2>2. /\ Head(toClient) = toClient[1] /\ Head(toClient) \in PacketSet /\ 1 \in 1 .. Len(toClient)
        /\ toClient' \in Seq(PacketSet) /\ Len(toClient') = Len(toClient) - 1
        /\ \A i \in 1 .. Len(toClient') :
             i + 1 \in 1 .. Len(toClient) /\ toClient'[i] = toClient[i + 1]
    BY <2>1, QueueSteps
  <2>3. UNCHANGED <<stage, pc, cmd, toServer, ready, data, peer, accepted>>
    BY <1>13 DEF RecvHeartbeat, Receive, callVars
  <2> QED
    BY <2>2, <2>3, NoAckTaken
<1>14. CASE RecvBaseband
  <2>1. toClient # <<>> /\ toClient' = Tail(toClient) /\ toClient \in Seq(PacketSet)
    BY <1>14 DEF RecvBaseband, Receive, WireInv
  <2>2. /\ Head(toClient) = toClient[1] /\ Head(toClient) \in PacketSet /\ 1 \in 1 .. Len(toClient)
        /\ toClient' \in Seq(PacketSet) /\ Len(toClient') = Len(toClient) - 1
        /\ \A i \in 1 .. Len(toClient') :
             i + 1 \in 1 .. Len(toClient) /\ toClient'[i] = toClient[i + 1]
    BY <2>1, QueueSteps
  <2>3. UNCHANGED <<stage, pc, cmd, toServer, ready, data, peer, accepted>>
    BY <1>14 DEF RecvBaseband, Receive, callVars
  <2> QED
    BY <2>2, <2>3, NoAckTaken
<1>15. CASE TakeChallenge
  <2>1. /\ stage = "challenge" /\ stage' = "respond" /\ pc[Gui] = "idle"
        /\ UNCHANGED <<pc, cmd, ready, data, toServer, toClient, peer, accepted>>
    BY <1>15 DEF TakeChallenge, callVars, peerVars
  <2> QED
    BY <2>1 DEF HandshakeInv, Handshaking, IsAck
<1>16. CASE Respond
  <2>1. /\ stage = "respond" /\ stage' = "auth" /\ pc[Gui] = "idle"
        /\ pc' = [pc EXCEPT ![Gui] = "register"] /\ cmd' = [cmd EXCEPT ![Gui] = "auth"]
        /\ UNCHANGED <<ready, data, toServer, toClient, peer, accepted>>
    BY <1>16 DEF Respond, Goto, peerVars, HandshakeInv, Handshaking
  <2> QED
    BY <2>1 DEF TypeOK, WireInv, HandshakeInv, Handshaking, IsAck
<1>17. CASE NoChallenge
  BY <1>17 DEF NoChallenge, callVars, workerVars, stateVars, rateVars, sockVars, peerVars,
     TypeOK, WireInv, WaitersAccounted, HandshakeInv, UseInv, Handshaking, IsAck, Trusted,
     PacketSet, RequestSet
<1>18. CASE Close
  BY <1>18 DEF Close, callVars, workerVars, stateVars, rateVars, sockVars, peerVars, TypeOK,
     WireInv, WaitersAccounted, HandshakeInv, UseInv, Handshaking, IsAck, Trusted, PacketSet,
     RequestSet
<1>19. CASE CloseSocket
  BY <1>19 DEF CloseSocket, callVars, workerVars, stateVars, rateVars, peerVars, TypeOK,
     WireInv, WaitersAccounted, HandshakeInv, UseInv, Handshaking, IsAck, Trusted, PacketSet,
     RequestSet
<1>20. CASE CloseJoin
  BY <1>20 DEF CloseJoin, callVars, workerVars, stateVars, rateVars, peerVars, TypeOK,
     WireInv, WaitersAccounted, HandshakeInv, UseInv, Handshaking, IsAck, Trusted, PacketSet,
     RequestSet
<1>21. CASE Serve
  <2> SUFFICES ASSUME Handshaking PROVE HandshakeInv'
    BY <1>21 DEF Serve, HandshakeInv, Handshaking
  
  <2>1. /\ toServer # <<>> /\ Head(toServer) = toServer[1] /\ toServer[1] \in RequestSet
        /\ Len(toServer) >= 1
    BY <1>21 DEF Serve, WireInv
  <2>2. PICK a \in Answers(toServer[1]) :
          toClient' = toClient \o a[1] /\ accepted' = a[2] /\ peer' = a[3]
    BY <1>21, <2>1 DEF Serve
  <2>3. /\ a[1] \in Seq(PacketSet) /\ a[2] \in BOOLEAN /\ a[3] \in {"up", "closed"}
        /\ toServer[1].cmd \notin {"hello", "auth"} => a[2] = accepted
        /\ \A i \in 1 .. Len(a[1]) : a[1][i].type # "rate"
        /\ \A i \in 1 .. Len(a[1]) : a[1][i].type = "ack" =>
             /\ i = 1 /\ a[1][i].cmd = toServer[1].cmd
             /\ (toServer[1].cmd = "hello" /\ a[1][i].caps \cap {"bad", "auth"} = {})
                  \/ toServer[1].cmd = "auth" => a[2]
    BY <2>1, AnswerShape DEF TypeOK
  <2>4. /\ toClient' \in Seq(PacketSet) /\ Len(toClient') = Len(toClient) + Len(a[1])
        /\ \A i \in 1 .. Len(toClient) : toClient'[i] = toClient[i]
        /\ \A i \in Len(toClient) + 1 .. Len(toClient) + Len(a[1]) :
             toClient'[i] = a[1][i - Len(toClient)]
    BY <2>2, <2>3, QueueSteps DEF WireInv
  <2>5. /\ Len(toServer) = 1 /\ toServer[1].cmd = stage /\ Gui \notin ready
        /\ pc[Gui] \notin {"idle", "register", "send"}
        /\ \A i \in 1 .. Len(toClient) : toClient[i].type # "ack"
    <3>1. /\ Len(toServer) <= 1 /\ toServer[1].cmd = stage /\ Gui \notin ready
          /\ pc[Gui] \notin {"idle", "register", "send"}
          /\ \A i \in 1 .. Len(toClient) : ~IsAck(i)
      BY <2>1 DEF HandshakeInv
    <3>2. Len(toServer) \in Nat /\ Len(toServer) >= 1 /\ Len(toServer) <= 1
      BY <2>1, <3>1 DEF WireInv
    <3>3. Len(toServer) = 1
      <4> DEFINE n == Len(toServer)
      <4>1. n \in Nat /\ n >= 1 /\ n <= 1
        BY <3>2
      <4> HIDE DEF n
      <4>2. n = 1
        BY <4>1
      <4> QED
        BY <4>2 DEF n
    <3>4. \A i \in 1 .. Len(toClient) : toClient[i].type # "ack"
      BY <3>1 DEF IsAck
    <3> QED
      BY <3>1, <3>3, <3>4
  <2>6. toServer' = <<>> /\ UNCHANGED <<stage, pc, cmd, ready, data>>
    <3>1. toServer' = Tail(toServer) /\ UNCHANGED <<stage, pc, cmd, ready, data>>
      BY <1>21 DEF Serve, callVars
    <3>2. Tail(toServer) = <<>>
      <4>1. Tail(toServer) \in Seq(RequestSet) /\ Len(Tail(toServer)) = 0
        BY <2>1, <2>5 DEF WireInv
      <4> QED
        BY <4>1, EmptySeq
    <3> QED
      BY <3>1, <3>2
  <2>7. ASSUME NEW i \in 1 .. Len(toClient'), toClient'[i].type = "ack"
        PROVE  /\ i = Len(toClient) + 1 /\ toClient'[i].cmd = stage
               /\ stage = "auth" \/ (stage = "hello" /\ toClient'[i].caps \cap {"bad", "auth"} = {}) =>
                    accepted'
    <3>1. i - Len(toClient) \in 1 .. Len(a[1]) /\ toClient'[i] = a[1][i - Len(toClient)]
      <4>1. Len(toClient) \in Nat /\ Len(a[1]) \in Nat
        BY <2>3 DEF WireInv
      <4>2. i \notin 1 .. Len(toClient)
        BY <2>4, <2>5, <2>7
      <4>3. i \in Len(toClient) + 1 .. Len(toClient) + Len(a[1])
        BY <2>4, <4>1, <4>2
      <4> QED
        BY <2>4, <4>1, <4>3
    <3>2. i - Len(toClient) = 1
      BY <2>3, <2>7, <3>1
    <3> QED
      <4>1. Len(toClient) \in Nat /\ i = Len(toClient) + 1
        BY <3>2 DEF WireInv
      <4>2. a[1][1].type = "ack" /\ 1 \in 1 .. Len(a[1]) /\ toClient'[i] = a[1][1]
        BY <2>7, <3>1, <3>2
      <4> QED
        BY <2>2, <2>3, <2>5, <4>1, <4>2
  <2>8. stage = "ui" => (peer' = "up" => accepted')
    BY <1>21, <2>2, <2>3, <2>5 DEF Serve, UseInv
  <2>9. stage \in {"hello", "auth", "ui"}
    BY <2>5 DEF HandshakeInv, Handshaking
  <2> QED
    BY <2>5, <2>6, <2>7, <2>8, <2>9 DEF HandshakeInv, Handshaking, IsAck, Trusted
<1>22. CASE PushRate
  <2>1. /\ [Packet("rate") EXCEPT !.req = pushes + 1] \in PacketSet
        /\ [Packet("rate") EXCEPT !.req = pushes + 1].type = "rate"
        /\ [Packet("rate") EXCEPT !.req = pushes + 1].req = pushes + 1
    <3>1. pushes + 1 \in Nat
      BY DEF WireInv
    <3>2. Packet("rate") \in PacketSet /\ Packet("rate").type = "rate"
      BY DEF Packet, PacketSet, PacketTypes, Cmds
    <3> QED
      BY <3>1, <3>2 DEF PacketSet
  <2>2. PICK p \in PacketSet :
          toClient' = Append(toClient, p) /\ p.type = "rate" /\ p.req = pushes + 1
    BY <1>22, <2>1 DEF PushRate
  <2>3. /\ toClient' \in Seq(PacketSet) /\ Len(toClient') = Len(toClient) + 1
        /\ \A i \in 1 .. Len(toClient) : toClient'[i] = toClient[i]
        /\ toClient'[Len(toClient) + 1] = p
    BY <2>2, QueueSteps DEF WireInv
  <2>4. \A i \in 1 .. Len(toClient') : toClient'[i].type = "ack" =>
          i \in 1 .. Len(toClient) /\ toClient'[i] = toClient[i]
    BY <2>2, <2>3 DEF WireInv
  <2> QED
    BY <1>22, <2>4, NoAckPut DEF PushRate, callVars
<1>23. CASE Traffic
  <2>1. PICK t \in {"heartbeat", "baseband"} : toClient' = Append(toClient, Packet(t))
    BY <1>23 DEF Traffic
  <2>2. Packet(t) \in PacketSet /\ Packet(t).type = t
    BY DEF Packet, PacketSet, PacketTypes, Cmds
  <2>3. /\ Len(toClient') = Len(toClient) + 1 /\ toClient'[Len(toClient) + 1] = Packet(t)
        /\ \A i \in 1 .. Len(toClient) : toClient'[i] = toClient[i]
    BY <2>1, <2>2, QueueSteps DEF WireInv
  <2>4. \A i \in 1 .. Len(toClient') : toClient'[i].type = "ack" =>
          i \in 1 .. Len(toClient) /\ toClient'[i] = toClient[i]
    BY <2>2, <2>3 DEF WireInv
  <2> QED
    BY <1>23, <2>4, NoAckPut DEF Traffic, callVars
<1>24. CASE PeerLeaves
  BY <1>24 DEF PeerLeaves, callVars, workerVars, stateVars, rateVars, sockVars, TypeOK,
     WireInv, WaitersAccounted, HandshakeInv, UseInv, Handshaking, IsAck, Trusted, PacketSet,
     RequestSet
<1>25. CASE \/ WorkerTop \/ RecvFails \/ FlagRate \/ SwapDone \/ SwapStopped
            \/ WorkerExit \/ WorkerRelease \/ SyncBegin \/ SyncSnapshot \/ SyncApply
            \/ UNCHANGED vars
  <2>1. UNCHANGED <<stage, pc, cmd, ready, data, peer, accepted, toServer, toClient>>
    BY <1>25 DEF WorkerTop, RecvFails, FlagRate, SwapDone, SwapStopped, WorkerExit,
       WorkerRelease, SyncBegin, SyncSnapshot, SyncApply, CancelAll, callVars, workerVars,
       stateVars, rateVars, sockVars, peerVars, vars
  <2> QED
    BY <2>1 DEF HandshakeInv, Handshaking, IsAck, Trusted
<1> QED
  BY <1>1, <1>2, <1>3, <1>4, <1>5, <1>6, <1>7, <1>8, <1>9, <1>10, <1>11, <1>12, <1>13, <1>14,
     <1>15, <1>16, <1>17, <1>18, <1>19, <1>20, <1>21, <1>22, <1>23, <1>24, <1>25 DEF Next, Call,
     Worker, Handshake

\* A client in use is accepted.
LEMMA UseInvNext ==
  ASSUME IInv, [Next]_vars
  PROVE  UseInv'
<1> USE ClientAssumption DEF IInv
<1>1. ASSUME NEW c \in Callers, Send(c) PROVE UseInv'
  <2> DEFINE r == [cmd |-> cmd[c], req |-> req[c]]
  <2>1. UNCHANGED <<stage, cmd, peer, accepted>>
    BY <1>1 DEF Send
  <2>2. CASE toServer' = toServer
    BY <2>1, <2>2 DEF UseInv
  <2>3. CASE toServer' = Append(toServer, r)
    <3>1. SUFFICES ASSUME stage \in {"ui", "ready"}, NEW i \in 1 .. Len(toServer')
                   PROVE  toServer'[i].cmd \notin {"hello", "auth"}
      BY <2>1 DEF UseInv
    <3>2. toServer \in Seq(RequestSet) /\ r.cmd = cmd[c]
      BY DEF WireInv
    <3>3. toServer'[i] = IF i <= Len(toServer) THEN toServer[i] ELSE r
      BY <2>3, <3>2
    <3>4. i \in 1 .. Len(toServer) \/ ~(i <= Len(toServer))
      BY <3>2
    <3> HIDE DEF r
    <3> QED
      BY <3>1, <3>2, <3>3, <3>4 DEF UseInv
  <2> QED
    BY <1>1, <2>2, <2>3 DEF Send
<1>2. ASSUME NEW c \in Callers, Answered(c) PROVE UseInv'
  <2>1. CASE c # Gui
    BY <1>2, <2>1 DEF Answered, Follow, Goto, peerVars, TypeOK, HandshakeInv, UseInv,
       Handshaking, WireInv
  <2>2. CASE c = Gui /\ ~Handshaking
    BY <1>2, <2>2 DEF Answered, AfterAck, Follow, Goto, peerVars, TypeOK, HandshakeInv,
       UseInv, Handshaking, WireInv
  <2>3. CASE c = Gui /\ Handshaking
    <3>1. /\ stage \notin {"challenge", "respond"} /\ cmd[Gui] = stage
          /\ Trusted(data[Gui]) /\ toServer = <<>>
          /\ \A i \in 1 .. Len(toClient) : ~IsAck(i)
          /\ \A b \in Callers \ {Gui} : pc[b] = "idle" /\ cmd[b] = "none"
      BY <1>2, <2>3 DEF Answered, HandshakeInv
    <3>2. /\ UNCHANGED <<toServer, toClient, peer, accepted>> /\ Gui \notin ready'
          /\ \A b \in Callers \ {Gui} : pc'[b] = pc[b] /\ cmd'[b] = cmd[b]
      BY <1>2, <2>3 DEF Answered, Follow, Goto, peerVars, TypeOK, WireInv
    <3>3. IF stage' = "ui" THEN cmd'[Gui] = "ui" /\ pc'[Gui] = "register"
                           ELSE cmd'[Gui] = "none" /\ pc'[Gui] = "idle"
      BY <1>2, <2>3 DEF Answered, Follow, Goto, TypeOK, WireInv
    <3>4. /\ stage' \in {"challenge", "ui", "ready", "closing"}
          /\ stage' = "ready" => stage = "ui"
          /\ stage' = "ui" => stage = "auth" \/ data[Gui].caps \cap {"bad", "auth"} = {}
      BY <1>2, <2>3, <3>1 DEF Answered, AfterAck, Handshaking
    <3> QED
      BY <3>1, <3>2, <3>3, <3>4, <2>3 DEF HandshakeInv, UseInv, Handshaking, IsAck, Trusted
  <2> QED
    BY <2>1, <2>2, <2>3
<1>3. ASSUME NEW c \in Callers, Forget(c) PROVE UseInv'
  BY <1>3 DEF Forget, Goto, Packet, NoData, workerVars, stateVars, rateVars, sockVars,
     peerVars, TypeOK, WireInv, HandshakeInv, UseInv, Handshaking, Trusted, PacketSet,
     RequestSet
<1>4. ASSUME NEW c \in Callers, NEW k \in Commands, Request(c, k) PROVE UseInv'
  BY <1>4 DEF Request, Goto, workerVars, stateVars, rateVars, sockVars, peerVars, TypeOK,
     WireInv, HandshakeInv, UseInv, Handshaking, Trusted, PacketSet, RequestSet
<1>5. CASE TakeChallenge \/ Respond
  BY <1>5 DEF TakeChallenge, Respond, UseInv
<1>6. CASE NoChallenge
  BY <1>6 DEF NoChallenge, callVars, workerVars, stateVars, rateVars, sockVars, peerVars,
     TypeOK, WireInv, HandshakeInv, UseInv, Handshaking, Trusted, PacketSet, RequestSet
<1>7. CASE Close
  BY <1>7 DEF Close, callVars, workerVars, stateVars, rateVars, sockVars, peerVars, TypeOK,
     WireInv, HandshakeInv, UseInv, Handshaking, Trusted, PacketSet, RequestSet
<1>8. CASE CloseSocket
  BY <1>8 DEF CloseSocket, callVars, workerVars, stateVars, rateVars, peerVars, TypeOK,
     WireInv, HandshakeInv, UseInv, Handshaking, Trusted, PacketSet, RequestSet
<1>9. CASE CloseJoin
  BY <1>9 DEF CloseJoin, callVars, workerVars, stateVars, rateVars, peerVars, TypeOK, WireInv,
     HandshakeInv, UseInv, Handshaking, Trusted, PacketSet, RequestSet
<1>10. CASE Serve
  <2>1. /\ toServer # <<>> /\ Head(toServer) = toServer[1] /\ toServer[1] \in RequestSet
        /\ Len(toServer) >= 1
    BY <1>10 DEF Serve, WireInv
  <2>2. PICK a \in Answers(toServer[1]) :
          toClient' = toClient \o a[1] /\ accepted' = a[2] /\ peer' = a[3]
    BY <1>10, <2>1 DEF Serve
  <2>3. /\ a[1] \in Seq(PacketSet) /\ a[2] \in BOOLEAN /\ a[3] \in {"up", "closed"}
        /\ toServer[1].cmd \notin {"hello", "auth"} => a[2] = accepted
        /\ \A i \in 1 .. Len(a[1]) : a[1][i].type # "rate"
        /\ \A i \in 1 .. Len(a[1]) : a[1][i].type = "ack" =>
             /\ i = 1 /\ a[1][i].cmd = toServer[1].cmd
             /\ (toServer[1].cmd = "hello" /\ a[1][i].caps \cap {"bad", "auth"} = {})
                  \/ toServer[1].cmd = "auth" => a[2]
    BY <2>1, AnswerShape DEF TypeOK
  <2>4. UNCHANGED <<stage, cmd>> /\ toServer' = Tail(toServer) /\ peer = "up"
    BY <1>10 DEF Serve, callVars
  <2>5. Len(toServer') = Len(toServer) - 1
        /\ \A i \in 1 .. Len(toServer') :
             i + 1 \in 1 .. Len(toServer) /\ toServer'[i] = toServer[i + 1]
    BY <2>1, <2>4 DEF WireInv
  <2> QED
    BY <2>1, <2>2, <2>3, <2>4, <2>5 DEF UseInv, WireInv
<1>11. CASE PeerLeaves
  BY <1>11 DEF PeerLeaves, callVars, workerVars, stateVars, rateVars, sockVars, TypeOK,
     WireInv, HandshakeInv, UseInv, Handshaking, Trusted, PacketSet, RequestSet
<1>12. CASE \/ \E c \in Callers : Register(c) \/ Unanswered(c)
            \/ WorkerTop \/ RecvFails \/ RecvAck \/ RecvRate \/ FlagRate
            \/ RecvDisconnect \/ RecvChallenge \/ RecvAuthError \/ RecvError \/ RecvHeartbeat
            \/ RecvBaseband \/ SwapDone \/ SwapStopped \/ WorkerExit \/ WorkerRelease
            \/ SyncBegin \/ SyncSnapshot \/ SyncApply \/ PushRate \/ Traffic
            \/ UNCHANGED vars
  <2>1. UNCHANGED <<stage, cmd, peer, accepted, toServer>>
    BY <1>12 DEF Register, Unanswered, WorkerTop, RecvFails, RecvAck, RecvRate, FlagRate,
       RecvDisconnect, RecvChallenge, RecvAuthError, RecvError, RecvHeartbeat, RecvBaseband,
       SwapDone, SwapStopped, WorkerExit, WorkerRelease, SyncBegin, SyncSnapshot, SyncApply,
       PushRate, Traffic, Goto, CancelAll, Receive, Packet, callVars, workerVars, stateVars,
       rateVars, sockVars, peerVars, vars
  <2> QED
    BY <2>1 DEF TypeOK, WireInv, HandshakeInv, UseInv, Handshaking, Trusted, PacketSet,
       RequestSet
<1> QED
  BY <1>1, <1>2, <1>3, <1>4, <1>5, <1>6, <1>7, <1>8, <1>9, <1>10, <1>11, <1>12 DEF Next, Call,
     Worker, Handshake

\* Every step preserves the inductive invariant.
LEMMA NextIInv == IInv /\ [Next]_vars => IInv'
  BY TypeOKNext, WireInvNext, WaitersAccountedNext, PushedStateNotLostNext, HandshakeInvNext,
     UseInvNext DEF IInv

-----------------------------------------------------------------------------
(***************************************************************************)
(* The theorems.                                                           *)
(***************************************************************************)

\* In every reachable state the client, its callers and the packets on their
\* way stand in the relations of IInv.
THEOREM ClientInvariant == Spec => []IInv
  BY InitIInv, NextIInv, PTL DEF Spec

\* The variables keep their types.
THEOREM ClientTypeOK == Spec => []TypeOK
<1>1. IInv => TypeOK
  BY DEF IInv
<1> QED
  BY <1>1, ClientInvariant, PTL

\* Neither an ACK, a cancellation nor a timeout loses a caller, however they
\* race (sdriak_server_client.cpp:393, 585, 593).
THEOREM NoCallerIsLost == Spec => []WaitersAccounted
<1>1. IInv => WaitersAccounted
  BY DEF IInv
<1> QED
  BY <1>1, ClientInvariant, PTL

\* A sample rate that was pushed and not applied is still announced
\* (sdriak_server_client.cpp:166-200, 337-342).
THEOREM NoPushIsLost == Spec => []PushedStateNotLost
<1>1. IInv => PushedStateNotLost
  BY DEF IInv
<1> QED
  BY <1>1, ClientInvariant, PTL

\* A client in use was accepted by the server
\* (sdriak_server_client.cpp:452-531).
THEOREM NoUseWithoutAcceptance == Spec => []UsableMeansAccepted
<1>1. IInv => UsableMeansAccepted
  BY DEF IInv, UseInv, UsableMeansAccepted
<1> QED
  BY <1>1, ClientInvariant, PTL

-----------------------------------------------------------------------------
(***************************************************************************)
(* What the return of close() and the notice of a dead link rest on: the   *)
(* worker never waits for something that need not come, and every step it  *)
(* makes brings it nearer to its end.                                      *)
(***************************************************************************)

\* The worker's recv() is ended by a packet only, which nobody owes.
RecvWaits == wpc = "recv" /\ open /\ ~watchdog /\ peer # "closed" /\ toClient = <<>>

\* The worker's swap() is ended by the decompressor only.
SwapWaits == wpc = "swap" /\ ~writerStop

\* close() has closed what it joins behind ...
CloseInv ==
  /\ stage = "joining" => ~open /\ writerStop
  /\ wpc \in {"release", "off"} => ~open

\* ... and a recv() that began before protocolReady was set has ended by the
\* time the answer to getUI() is here.
WatchdogInv ==
  /\ stage \in {"ui", "ready"} => protocolReady
  /\ stage = "ready" \/ (stage = "ui" /\ Gui \in ready) =>
       (serverHeartbeat /\ wpc = "recv" => watchdog)

\* The steps the worker has left when the socket is closed.
WorkerLeft ==
  CASE wpc \in {"flag", "swap"} -> 5
    [] wpc = "top" -> 4
    [] wpc = "recv" -> 3
    [] wpc = "exit" -> 2
    [] wpc = "release" -> 1
    [] wpc = "off" -> 0

\* The same when the peer is gone: every packet that is still there costs the
\* worker at most three steps.
DrainLeft == 3 * Len(toClient) + WorkerLeft

\* close() never joins a worker that waits for the server or the decompressor.
CloseNotBlocked == stage = "joining" => ~RecvWaits /\ ~SwapWaits

CloseCountsDown == [][stage = "joining" /\ wpc' # wpc => WorkerLeft' < WorkerLeft]_vars

\* A client in use waits for no packet without a bound, if the server sends
\* heartbeats.
UseIsBounded == stage = "ready" /\ serverHeartbeat => ~RecvWaits

DrainCountsDown ==
  [][peer # "up" => DrainLeft' <= DrainLeft /\ (wpc' # wpc => DrainLeft' < DrainLeft)]_vars

\* The socket, once closed, stays closed; only close() reaches the join.
LEMMA CloseInvNext ==
  ASSUME IInv, CloseInv, [Next]_vars
  PROVE  CloseInv'
<1>1. CASE CloseSocket
  BY <1>1 DEF CloseSocket, CloseInv, workerVars
<1>2. CASE CloseJoin
  BY <1>2 DEF CloseJoin, CloseInv, workerVars
<1>3. CASE WorkerExit
  BY <1>3 DEF WorkerExit, CloseInv
<1>4. ASSUME NEW c \in Callers, Send(c) PROVE CloseInv'
  <2>1. UNCHANGED <<stage, writerStop, wpc>>
    BY <1>4 DEF Send, workerVars
  <2>2. CASE open' = open
    BY <2>1, <2>2 DEF CloseInv
  <2>3. CASE open' = FALSE
    BY <2>1, <2>3 DEF CloseInv
  <2> QED
    BY <1>4, <2>2, <2>3 DEF Send
<1>5. CASE \/ \E c \in Callers : \/ Register(c) \/ Answered(c) \/ Unanswered(c) \/ Forget(c)
                                \/ \E k \in Commands : Request(c, k)
           \/ Handshake \/ SyncBegin \/ SyncSnapshot \/ SyncApply \/ Close
           \/ Serve \/ PushRate \/ Traffic \/ PeerLeaves \/ UNCHANGED vars
  <2>1. UNCHANGED <<open, writerStop, wpc>> /\ (stage' = "joining" => stage = "joining")
    BY <1>5 DEF Request, Register, Answered, AfterAck, Unanswered, Forget, Handshake,
       TakeChallenge, Respond, NoChallenge, SyncBegin, SyncSnapshot, SyncApply, Close, Serve,
       PushRate, Traffic, PeerLeaves, sockVars, workerVars, vars
  <2> QED
    BY <2>1 DEF CloseInv
<1>6. CASE Worker /\ ~WorkerExit
  <2>1. UNCHANGED <<open, writerStop, stage>>
        /\ (wpc' \in {"release", "off"} => wpc = "release")
    BY <1>6 DEF Worker, WorkerTop, RecvFails, RecvAck, RecvRate, FlagRate, RecvDisconnect,
       RecvChallenge, RecvAuthError, RecvError, RecvHeartbeat, RecvBaseband, SwapDone,
       SwapStopped, WorkerRelease, Receive, sockVars
  <2> QED
    BY <2>1 DEF CloseInv
<1> QED
  BY <1>1, <1>2, <1>3, <1>4, <1>5, <1>6 DEF Next, Call

\* protocolReady is set before getUI() sends, so the recv() that follows its
\* answer is bounded.
LEMMA WatchdogInvNext ==
  ASSUME IInv, WatchdogInv, [Next]_vars
  PROVE  WatchdogInv'
<1> USE ClientAssumption
<1>1. CASE WorkerTop
  BY <1>1 DEF WorkerTop, WatchdogInv, callVars, stateVars
<1>2. CASE Worker /\ ~WorkerTop
  <2>1. UNCHANGED <<stage, protocolReady, serverHeartbeat, watchdog>> /\ wpc' # "recv"
    BY <1>2 DEF Worker, RecvFails, RecvAck, RecvRate, FlagRate, RecvDisconnect,
       RecvChallenge, RecvAuthError, RecvError, RecvHeartbeat, RecvBaseband, SwapDone,
       SwapStopped, WorkerExit, WorkerRelease, Receive, stateVars
  <2> QED
    BY <2>1 DEF WatchdogInv
<1>3. ASSUME NEW c \in Callers, Answered(c) PROVE WatchdogInv'
  <2>1. UNCHANGED <<wpc, watchdog>> /\ ready' = ready \ {c} /\ c \in ready
    BY <1>3 DEF Answered, workerVars
  <2>2. CASE c # Gui
    BY <1>3, <2>1, <2>2 DEF Answered, WatchdogInv
  <2>3. CASE c = Gui
    BY <1>3, <2>1, <2>3 DEF Answered, AfterAck, WatchdogInv
  <2> QED
    BY <2>2, <2>3
<1>4. CASE \/ \E c \in Callers : \/ Register(c) \/ Send(c) \/ Unanswered(c) \/ Forget(c)
                                 \/ \E k \in Commands : Request(c, k)
           \/ Handshake \/ SyncBegin \/ SyncSnapshot \/ SyncApply \/ Close \/ CloseSocket \/ CloseJoin
           \/ Serve \/ PushRate \/ Traffic \/ PeerLeaves \/ UNCHANGED vars
  <2>1. /\ UNCHANGED <<wpc, watchdog, protocolReady, serverHeartbeat>> /\ ready' \subseteq ready
        /\ stage' \in {"ui", "ready"} => stage' = stage
    BY <1>4 DEF Request, Register, Send, Unanswered, Forget, Handshake, TakeChallenge, Respond, NoChallenge,
       SyncBegin, SyncSnapshot, SyncApply, Close, CloseSocket, CloseJoin, Serve, PushRate,
       Traffic, PeerLeaves, callVars, stateVars, workerVars, vars
  <2> QED
    BY <2>1 DEF WatchdogInv
<1> QED
  BY <1>1, <1>2, <1>3, <1>4 DEF Next, Call

\* In every reachable state the worker's recv() and swap() are bounded as
\* CloseInv and WatchdogInv say.
THEOREM WaitInvariant == Spec => [](CloseInv /\ WatchdogInv)
<1>1. Init => CloseInv /\ WatchdogInv
  BY DEF Init, CloseInv, WatchdogInv
<1>2. IInv /\ CloseInv /\ WatchdogInv /\ [Next]_vars => CloseInv' /\ WatchdogInv'
  BY CloseInvNext, WatchdogInvNext
<1> QED
  BY <1>1, <1>2, ClientInvariant, PTL DEF Spec

\* close() joins a worker that can always go on: neither its recv() nor its
\* swap() is left waiting (sdriak_server_client.cpp close, worker).
THEOREM CloseIsNotBlocked == Spec => []CloseNotBlocked
<1>1. CloseInv => CloseNotBlocked
  BY DEF CloseInv, CloseNotBlocked, RecvWaits, SwapWaits
<1> QED
  BY <1>1, WaitInvariant, PTL

\* From the join on the worker makes at most five steps, whatever arrives.
THEOREM CloseCountsTheWorkerDown == Spec => CloseCountsDown
<1>1. ASSUME IInv, CloseInv, [Next]_vars
      PROVE  [stage = "joining" /\ wpc' # wpc => WorkerLeft' < WorkerLeft]_vars
  <2> SUFFICES ASSUME Next, stage = "joining", wpc' # wpc PROVE WorkerLeft' < WorkerLeft
    BY <1>1 DEF vars, workerVars
  <2>1. Worker
    BY DEF Next, Call, Request, Register, Send, Answered, Unanswered, Forget, Handshake,
       TakeChallenge, Respond, NoChallenge, SyncBegin, SyncSnapshot, SyncApply, Close, CloseSocket,
       CloseJoin, Serve, PushRate, Traffic, PeerLeaves, workerVars
  <2>2. ~open /\ writerStop
    BY <1>1 DEF CloseInv
  <2>3. \/ wpc = "top" /\ wpc' = "recv"
        \/ wpc = "recv" /\ wpc' = "exit"
        \/ wpc = "flag" /\ wpc' = "top"
        \/ wpc = "swap" /\ wpc' = "exit"
        \/ wpc = "exit" /\ wpc' = "release"
        \/ wpc = "release" /\ wpc' = "off"
    BY <2>1, <2>2 DEF Worker, WorkerTop, RecvFails, RecvAck, RecvRate, FlagRate, RecvDisconnect,
       RecvChallenge, RecvAuthError, RecvError, RecvHeartbeat, RecvBaseband, SwapDone,
       SwapStopped, WorkerExit, WorkerRelease, Receive
  <2> QED
    BY <2>3 DEF WorkerLeft
<1> QED
  BY <1>1, ClientInvariant, WaitInvariant, PTL DEF Spec, CloseCountsDown

\* No recv() under a client in use waits for a packet that may never come, if
\* the server sends heartbeats, although the bound is chosen before the other
\* thread sets protocolReady (sdriak_server_client.cpp:287-303, 488).
THEOREM RecvIsBoundedInUse == Spec => []UseIsBounded
<1>1. WatchdogInv => UseIsBounded
  BY DEF WatchdogInv, UseIsBounded, RecvWaits
<1> QED
  BY <1>1, WaitInvariant, PTL

\* When the peer is gone nothing arrives any more, and every step of the worker
\* brings it nearer to the end of the queue and then to its own.
THEOREM DeadLinksCountDown == Spec => DrainCountsDown
<1>1. ASSUME IInv, [Next]_vars
      PROVE  [peer # "up" =>
                DrainLeft' <= DrainLeft /\ (wpc' # wpc => DrainLeft' < DrainLeft)]_vars
  <2> SUFFICES ASSUME Next, peer # "up"
               PROVE  DrainLeft' <= DrainLeft /\ (wpc' # wpc => DrainLeft' < DrainLeft)
    BY <1>1
  <2>1. toClient \in Seq(PacketSet) /\ Len(toClient) \in Nat /\ WorkerLeft \in 0 .. 5
    BY <1>1 DEF IInv, WireInv, TypeOK, WorkerLeft
  <2>2. CASE ~Worker
    <3>1. UNCHANGED <<wpc, toClient>>
      BY <2>2 DEF Next, Call, Request, Register, Send, Answered, Unanswered, Forget, Handshake,
         TakeChallenge, Respond, NoChallenge, SyncBegin, SyncSnapshot, SyncApply, Close, CloseSocket,
         CloseJoin, Serve, PushRate, Traffic, PeerLeaves, workerVars, peerVars
    <3>2. WorkerLeft' = WorkerLeft
      BY <3>1 DEF WorkerLeft
    <3> QED
      BY <2>1, <3>1, <3>2 DEF DrainLeft
  <2>3. CASE Worker /\ toClient' = toClient
    <3>1. \/ wpc = "top" /\ wpc' = "recv"
          \/ wpc = "recv" /\ wpc' = "exit"
          \/ wpc = "flag" /\ wpc' = "top"
          \/ wpc = "swap" /\ wpc' \in {"top", "exit"}
          \/ wpc = "exit" /\ wpc' = "release"
          \/ wpc = "release" /\ wpc' = "off"
      <4>1. toClient # <<>> => Tail(toClient) # toClient
        <5>1. toClient # <<>> => Len(Tail(toClient)) = Len(toClient) - 1
          BY <2>1
        <5> QED
          BY <2>1, <5>1
      <4> QED
        BY <2>3, <4>1 DEF Worker, WorkerTop, RecvFails, RecvAck, RecvRate, FlagRate, RecvDisconnect,
           RecvChallenge, RecvAuthError, RecvError, RecvHeartbeat, RecvBaseband, SwapDone,
           SwapStopped, WorkerExit, WorkerRelease, Receive
    <3>2. WorkerLeft' < WorkerLeft /\ WorkerLeft' \in 0 .. 5
      BY <3>1 DEF WorkerLeft
    <3> QED
      BY <2>1, <2>3, <3>2 DEF DrainLeft
  <2>4. CASE Worker /\ toClient' # toClient
    <3>1. /\ wpc = "recv" /\ toClient # <<>> /\ toClient' = Tail(toClient)
          /\ wpc' \in {"top", "flag", "swap"}
      BY <2>4 DEF Worker, WorkerTop, RecvFails, RecvAck, RecvRate, FlagRate, RecvDisconnect,
         RecvChallenge, RecvAuthError, RecvError, RecvHeartbeat, RecvBaseband, SwapDone,
         SwapStopped, WorkerExit, WorkerRelease, Receive, peerVars
    <3>2. Len(toClient') = Len(toClient) - 1
      BY <2>1, <3>1
    <3>3. WorkerLeft = 3 /\ WorkerLeft' \in 0 .. 5
      BY <3>1 DEF WorkerLeft
    <3> QED
      BY <2>1, <3>2, <3>3 DEF DrainLeft
  <2> QED
    BY <2>2, <2>3, <2>4
<1> QED
  BY <1>1, ClientInvariant, PTL DEF Spec, DrainCountsDown
=============================================================================
