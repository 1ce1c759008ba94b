--------------------------- MODULE ServerSessions ---------------------------
(***************************************************************************)
(* The session handling of the SDR server: who is the one client that      *)
(* receives baseband and controls the source.                              *)
(*                                                                         *)
(* Four kinds of thread act on the sessions: the accept thread             *)
(* (_clientHandler), the read worker of every connection (_packetHandler), *)
(* the main loop (heartbeatTick) and the DSP thread that sends baseband    *)
(* (_testServerHandler).  A step is one critical section of sessionMtx or  *)
(* controlMtx.  The only other thing a thread can see while controlMtx is  *)
(* held is a promotion, so a handler that promotes takes two steps and     *)
(* holds controlMtx in between (worker location "promoted").               *)
(*                                                                         *)
(* A session is destroyed by the last std::shared_ptr to it.  The ones     *)
(* modelled are the slots, the locals of the accept thread, of the         *)
(* heartbeat and of the baseband thread.  Two are not told apart: the      *)
(* snapshot of flushPushedStateLocked() is the current session, which      *)
(* nobody releases while that function holds controlMtx, and a read worker *)
(* has a raw pointer only.                                                 *)
(*                                                                         *)
(* Time is abstract: the handshake window and the heartbeat timeout may be *)
(* found elapsed at any tick.                                              *)
(***************************************************************************)
EXTENDS Naturals, FiniteSets

CONSTANTS
  Sessions,      \* the connections ever accepted
  NoSession,     \* a null std::shared_ptr<ClientSession>
  AuthRequired,  \* the server has a password
  Sent,          \* bound: the kinds of packet the clients send
  MaxRate        \* bound: changes of the input sample rate

ASSUME SessionAssumption == NoSession \notin Sessions
ASSUME ConfigAssumption  == AuthRequired \in BOOLEAN /\ MaxRate \in Nat

VARIABLES
  \* the slots, under sessionMtx
  current, pending, retired,
  \* per session: accepted and not yet destroyed; the socket (connectionOpen);
  \* close() was called; protocolReady; authenticated; protocolRejected;
  \* heartbeatAwaitingAck; the sample rate it was last sent
  alive, open, closing, ready, authenticated, rejected, awaiting, told,
  \* its read worker: location and the packet it has read
  wpc, pkt,
  \* shared control state, under controlMtx: running, the session whose
  \* commands it reflects since the last reset, the one that started the
  \* stream and did not stop it, the auth cooldown
  running, actor, starter, cooldown,
  \* under pushedStateMtx: sampleRate, samplerateDirty
  rate, dirty,
  \* accept thread: location, its snapshot of the current session, the new
  \* connection (and session, once published), the pending one it displaced
  acc, accCur, accNew, accOld,
  \* heartbeatTick: location, its snapshot, the sessions it must destroy
  hb, hbS, hbDoomed,
  \* baseband thread: location and snapshot
  bb, bbS

slotVars    == <<current, pending, retired>>
sessionVars == <<alive, open, closing, ready, authenticated, rejected, awaiting, told>>
workVars    == <<wpc, pkt>>
controlVars == <<running, actor, starter, cooldown>>
pushVars    == <<rate, dirty>>
accVars     == <<acc, accCur, accNew, accOld>>
hbVars      == <<hb, hbS, hbDoomed>>
bbVars      == <<bb, bbS>>
vars == <<slotVars, sessionVars, workVars, controlVars, pushVars, accVars,
          hbVars, bbVars>>

(***************************************************************************)
(* What a client may send: a valid or an unacceptable hello, a right or a  *)
(* wrong answer to the challenge, COMMAND_START, COMMAND_STOP, any other   *)
(* command, a heartbeat acknowledgement, and a packet that is no command.  *)
(***************************************************************************)
Packets == {"hello", "badhello", "auth", "badauth", "start", "stop", "other",
            "ack", "junk"}
NoPacket == "nopacket"

ASSUME SentAssumption == Sent \subseteq Packets

Slot == Sessions \cup {NoSession}

(***************************************************************************)
(* Worker locations.  "none": readAsync() was not called yet; "idle": in   *)
(* recv(); "handle": a packet was read, controlMtx is not held;            *)
(* "promoted": inside promoteAndResetLocked, controlMtx held; "done": no   *)
(* further read will be made.                                              *)
(***************************************************************************)
WorkerPc == {"none", "idle", "handle", "promoted", "done"}
AccPc    == {"listen", "check", "busy", "drop", "publish", "shut", "join", "read",
             "leave"}
HbPc     == {"retire", "dropRetired", "expire", "dropExpired", "look", "decide",
             "stop", "close", "join", "clear"}
BbPc     == {"idle", "have", "write", "drop"}

TypeOK ==
  /\ current \in Slot /\ pending \in Slot /\ retired \subseteq Sessions
  /\ alive \subseteq Sessions /\ open \subseteq Sessions
  /\ closing \subseteq Sessions /\ ready \subseteq Sessions
  /\ authenticated \subseteq Sessions /\ rejected \subseteq Sessions
  /\ awaiting \subseteq Sessions /\ told \in [Sessions -> 0 .. MaxRate]
  /\ wpc \in [Sessions -> WorkerPc] /\ pkt \in [Sessions -> Packets \cup {NoPacket}]
  /\ running \in BOOLEAN /\ actor \in Slot /\ starter \in Slot /\ cooldown \in BOOLEAN
  /\ rate \in 0 .. MaxRate /\ dirty \in BOOLEAN
  /\ acc \in AccPc /\ accCur \in Slot /\ accNew \in Slot /\ accOld \in Slot
  /\ hb \in HbPc /\ hbS \in Slot /\ hbDoomed \subseteq Sessions
  /\ bb \in BbPc /\ bbS \in Slot

Init ==
  /\ current = NoSession /\ pending = NoSession /\ retired = {}
  /\ alive = {} /\ open = {} /\ closing = {} /\ ready = {}
  /\ authenticated = {} /\ rejected = {} /\ awaiting = {}
  /\ told = [s \in Sessions |-> 0]
  /\ wpc = [s \in Sessions |-> "none"] /\ pkt = [s \in Sessions |-> NoPacket]
  /\ running = FALSE /\ actor = NoSession /\ starter = NoSession /\ cooldown = FALSE
  /\ rate = 0 /\ dirty = FALSE
  /\ acc = "listen" /\ accCur = NoSession /\ accNew = NoSession /\ accOld = NoSession
  /\ hb = "retire" /\ hbS = NoSession /\ hbDoomed = {}
  /\ bb = "idle" /\ bbS = NoSession

ControlFree == \A s \in Sessions : wpc[s] # "promoted"

\* isActiveSession()
Active(s) == s \in {current, pending}

-----------------------------------------------------------------------------
(***************************************************************************)
(* Destroying a session is ConnClass::close(): shut the socket down, join  *)
(* the read worker, mark the connection closed.                            *)
(***************************************************************************)
Shutdown(s) == closing' = closing \cup {s}

\* Mutant: close() does not wait for the read worker.
JoinSkipped(s) == wpc[s] \in WorkerPc

\* The join returns once the worker is outside every handler.
Joinable(s) == wpc[s] \in {"none", "done"}

\* The references to s: the slots and each thread's own.
InSlot(s)       == s \in {current, pending} \cup retired
OfAccept(s)     == s \in {accCur, accNew, accOld}
OfHeartbeat(s)  == s \in {hbS} \cup hbDoomed
OfBaseband(s)   == s = bbS

\* A thread's reference to s goes out of scope.  When others keep s nothing
\* else happens; the last one closes the connection, in two steps: shut the
\* socket down, and join.
ShutLast(s, kept) ==
  /\ ~kept /\ s \notin closing
  /\ Shutdown(s)
  /\ UNCHANGED <<alive, open>>
LetGo(s, kept) ==
  /\ kept \/ (s \in closing /\ Joinable(s))
  /\ open'  = IF kept THEN open ELSE open \ {s}
  /\ alive' = IF kept THEN alive ELSE alive \ {s}
  /\ UNCHANGED closing

Goto(s, loc) == wpc' = [wpc EXCEPT ![s] = loc]

\* conn->readAsync() at the end of a handler, a no-op on a closed connection.
ReadAgain(s) == Goto(s, IF s \in open THEN "idle" ELSE "done")

\* The worker leaves the handler of the packet it read.
Leave(s) == pkt' = [pkt EXCEPT ![s] = NoPacket]

-----------------------------------------------------------------------------
(***************************************************************************)
(* _clientHandler, on the accept thread.                                   *)
(***************************************************************************)

\* A TCP connect; auto s = getSession().
Accept(s) ==
  /\ acc = "listen" /\ s \notin alive /\ wpc[s] = "none" /\ s \notin closing
  /\ accNew' = s /\ accCur' = current
  /\ acc' = IF current = NoSession THEN "publish" ELSE "check"
  /\ UNCHANGED <<slotVars, sessionVars, workVars, controlVars, pushVars, accOld,
                 hbVars, bbVars>>

\* s->isOpen()
AcceptCheck ==
  /\ acc = "check"
  /\ acc' = IF accCur \in open THEN "busy" ELSE "drop"
  /\ UNCHANGED <<slotVars, sessionVars, workVars, controlVars, pushVars, accCur,
                 accNew, accOld, hbVars, bbVars>>

\* busy = running, under controlMtx: the newcomer is turned away.
AcceptBusy ==
  /\ acc = "busy" /\ ControlFree
  /\ acc' = "drop"
  /\ accNew' = IF running THEN NoSession ELSE accNew
  /\ UNCHANGED <<slotVars, sessionVars, workVars, controlVars, pushVars, accCur,
                 accOld, hbVars, bbVars>>

\* The snapshot of the current session goes out of scope.
AcceptDrop ==
  LET kept == InSlot(accCur) \/ OfHeartbeat(accCur) \/ OfBaseband(accCur) IN
  /\ acc = "drop"
  /\ \/ /\ ShutLast(accCur, kept)
        /\ UNCHANGED <<acc, accCur>>
     \/ /\ LetGo(accCur, kept)
        /\ acc' = IF accNew = NoSession THEN "listen" ELSE "publish"
        /\ accCur' = NoSession
  /\ UNCHANGED <<slotVars, ready, authenticated, rejected, awaiting, told,
                 workVars, controlVars, pushVars, accNew, accOld, hbVars, bbVars>>

\* The new session becomes the pending one.
AcceptPublish ==
  /\ acc = "publish"
  /\ accOld' = pending
  /\ pending' = accNew
  /\ alive' = alive \cup {accNew}
  /\ open' = open \cup {accNew}
  /\ acc' = IF pending = NoSession THEN "read" ELSE "shut"
  /\ UNCHANGED <<current, retired, closing, ready, authenticated, rejected,
                 awaiting, told, workVars, controlVars, pushVars, accCur, accNew,
                 hbVars, bbVars>>

\* old.reset(): close and destroy the half-handshaken predecessor.
AcceptShut ==
  /\ acc = "shut"
  /\ Shutdown(accOld)
  /\ acc' = "join"
  /\ UNCHANGED <<slotVars, alive, open, ready, authenticated, rejected,
                 awaiting, told, workVars, controlVars, pushVars, accCur, accNew,
                 accOld, hbVars, bbVars>>

AcceptJoin ==
  /\ acc = "join" /\ Joinable(accOld)
  /\ open' = open \ {accOld}
  /\ alive' = alive \ {accOld}
  /\ acc' = "read" /\ accOld' = NoSession
  /\ UNCHANGED <<slotVars, closing, ready, authenticated, rejected, awaiting,
                 told, workVars, controlVars, pushVars, accCur, accNew, hbVars,
                 bbVars>>

\* session->conn->readAsync(), the next acceptAsync().
AcceptRead ==
  /\ acc = "read"
  /\ ReadAgain(accNew)
  /\ acc' = "leave"
  /\ UNCHANGED <<slotVars, sessionVars, pkt, controlVars, pushVars, accCur,
                 accNew, accOld, hbVars, bbVars>>

\* The handler returns, and its reference to the new session is gone.
AcceptLeave ==
  LET kept == InSlot(accNew) \/ OfHeartbeat(accNew) \/ OfBaseband(accNew) IN
  /\ acc = "leave"
  /\ \/ /\ ShutLast(accNew, kept)
        /\ UNCHANGED <<acc, accNew>>
     \/ /\ LetGo(accNew, kept)
        /\ acc' = "listen" /\ accNew' = NoSession
  /\ UNCHANGED <<slotVars, ready, authenticated, rejected, awaiting, told,
                 workVars, controlVars, pushVars, accCur, accOld, hbVars, bbVars>>

-----------------------------------------------------------------------------
(***************************************************************************)
(* _packetHandler and the handlers it calls, on the session's read worker. *)
(***************************************************************************)

\* A packet arrives complete.
Receive(s) ==
  /\ wpc[s] = "idle" /\ s \in open \ closing
  /\ \E p \in Sent : pkt' = [pkt EXCEPT ![s] = p]
  /\ Goto(s, "handle")
  /\ UNCHANGED <<slotVars, sessionVars, controlVars, pushVars, accVars, hbVars,
                 bbVars>>

\* A packet size out of range: no further read.
ReceiveBadSize(s) ==
  /\ wpc[s] = "idle" /\ s \in open \ closing
  /\ rejected' = rejected \cup {s}
  /\ Goto(s, "done")
  /\ UNCHANGED <<slotVars, alive, open, closing, ready, authenticated, awaiting,
                 told, pkt, controlVars, pushVars, accVars, hbVars, bbVars>>

\* recv() fails: the peer went away or the socket was shut down.
ReceiveFails(s) ==
  /\ wpc[s] = "idle"
  /\ open' = open \ {s}
  /\ Goto(s, "done")
  /\ UNCHANGED <<slotVars, alive, closing, ready, authenticated, rejected,
                 awaiting, told, pkt, controlVars, pushVars, accVars, hbVars,
                 bbVars>>

\* promoteSessionLocked(): may s take the slot?
Promotable(s) ==
  \/ current = s
  \/ pending = s /\ ~(current \in open /\ running)

\* promoteSessionLocked(), when it succeeds.
TakeSlot(s) ==
  /\ IF current = s
     THEN UNCHANGED slotVars
     ELSE /\ retired' = retired \cup ({current} \ {NoSession})
          /\ current' = s
          /\ pending' = NoSession
  /\ Goto(s, "promoted")

\* rejectSessionLocked() and rejectBusyLocked().
Reject(s) == rejected' = rejected \cup {s}

\* Mutant: a hello promotes although the server has a password.
HelloWithoutAuth(s) ==
  /\ wpc[s] = "handle" /\ ControlFree /\ s \notin ready
  /\ Leave(s)
  /\ pkt[s] = "hello" /\ Active(s) /\ Promotable(s)
  /\ TakeSlot(s)
  /\ UNCHANGED <<rejected, ready, alive, open, closing, authenticated, awaiting, told,
                 controlVars, pushVars, accVars, hbVars, bbVars>>

\* handleHello() and activateSessionLocked(): the first packet.
Hello(s) ==
  /\ wpc[s] = "handle" /\ ControlFree /\ s \notin ready
  /\ Leave(s)
  /\ \/ /\ pkt[s] # "hello" \/ ~Active(s)
        /\ Reject(s) /\ Goto(s, "done") /\ UNCHANGED <<slotVars, ready>>
     \/ /\ pkt[s] = "hello" /\ Active(s) /\ AuthRequired
        /\ ready' = ready \cup {s}
        /\ ReadAgain(s) /\ UNCHANGED <<slotVars, rejected>>
     \/ /\ pkt[s] = "hello" /\ Active(s) /\ ~AuthRequired
        /\ IF Promotable(s)
           THEN TakeSlot(s) /\ UNCHANGED rejected
           ELSE Reject(s) /\ Goto(s, "done") /\ UNCHANGED slotVars
        /\ UNCHANGED ready
  /\ UNCHANGED <<alive, open, closing, authenticated, awaiting, told,
                 controlVars, pushVars, accVars, hbVars, bbVars>>

\* Mutant: the greeting clears the dirty flag but sends an old sample rate.
GreetingWithoutRate(s) ==
  /\ wpc[s] = "promoted"
  /\ Leave(s)
  /\ running' = FALSE /\ actor' = NoSession /\ starter' = NoSession
  /\ ready' = ready \cup {s}
  /\ authenticated' = authenticated \cup {s}
  /\ dirty' = FALSE
  /\ ReadAgain(s)
  /\ UNCHANGED <<slotVars, alive, open, closing, rejected, awaiting, told,
                 cooldown, rate, accVars, hbVars, bbVars>>

\* sendInitialStateLocked()
SendInitialState(s) == told' = [told EXCEPT ![s] = rate] /\ dirty' = FALSE

\* The rest of a promotion, controlMtx still held: promoteAndResetLocked(),
\* the acknowledgement, and sendInitialStateLocked().
Promoted(s) ==
  /\ wpc[s] = "promoted"
  /\ Leave(s)
  /\ running' = FALSE /\ actor' = NoSession /\ starter' = NoSession
  /\ ready' = ready \cup {s}
  /\ authenticated' = authenticated \cup {s}
  /\ SendInitialState(s)
  /\ ReadAgain(s)
  /\ UNCHANGED <<slotVars, alive, open, closing, rejected, awaiting, cooldown,
                 rate, accVars, hbVars, bbVars>>

\* flushPushedStateLocked(): nothing without an open current session.
Flush ==
  IF current \in open /\ dirty
  THEN told' = [told EXCEPT ![current] = rate] /\ dirty' = FALSE
  ELSE UNCHANGED <<told, dirty>>

\* commandHandler(), before the session is authenticated: every command but
\* a right answer outside the cooldown is refused.
Authenticate(s) ==
  /\ wpc[s] = "handle" /\ ControlFree /\ s \in ready
  /\ Leave(s)
  /\ pkt[s] \notin {"ack", "junk"} /\ Active(s)
  /\ AuthRequired /\ s \notin authenticated
  /\ \/ /\ pkt[s] \notin {"auth", "badauth"}
        /\ ReadAgain(s) /\ UNCHANGED <<slotVars, rejected, cooldown>>
     \/ /\ pkt[s] = "badauth" \/ (pkt[s] = "auth" /\ cooldown)
        /\ cooldown' = TRUE
        /\ Reject(s) /\ ReadAgain(s) /\ UNCHANGED slotVars
     \/ /\ pkt[s] = "auth" /\ ~cooldown
        /\ IF Promotable(s)
           THEN TakeSlot(s) /\ UNCHANGED rejected
           ELSE Reject(s) /\ ReadAgain(s) /\ UNCHANGED slotVars
        /\ UNCHANGED cooldown
  /\ UNCHANGED <<alive, open, closing, ready, authenticated, awaiting, told,
                 running, actor, starter, pushVars, accVars, hbVars, bbVars>>

\* Mutant: a command is executed without the isActiveSession() check.
CommandUnchecked(s) ==
  /\ wpc[s] = "handle" /\ ControlFree /\ s \in ready
  /\ Leave(s)
  /\ pkt[s] \notin {"ack", "junk"}
  /\ AuthRequired => s \in authenticated
  /\ running' = (pkt[s] = "start" \/ (running /\ pkt[s] # "stop"))
  /\ actor' = IF pkt[s] \in {"start", "stop", "other"} THEN s ELSE actor
  /\ starter' = IF pkt[s] = "start" THEN s
                ELSE IF pkt[s] = "stop" THEN NoSession ELSE starter
  /\ Flush
  /\ ReadAgain(s)
  /\ UNCHANGED <<slotVars, alive, open, closing, ready, authenticated, rejected,
                 awaiting, cooldown, rate, accVars, hbVars, bbVars>>

\* commandHandler(), the dispatch: the command acts on the shared state.
Command(s) ==
  /\ wpc[s] = "handle" /\ ControlFree /\ s \in ready
  /\ Leave(s)
  /\ pkt[s] \notin {"ack", "junk"} /\ Active(s)
  /\ AuthRequired => s \in authenticated
  /\ running' = (pkt[s] = "start" \/ (running /\ pkt[s] # "stop"))
  /\ actor' = IF pkt[s] \in {"start", "stop", "other"} THEN s ELSE actor
  /\ starter' = IF pkt[s] = "start" THEN s
                ELSE IF pkt[s] = "stop" THEN NoSession ELSE starter
  /\ Flush
  /\ ReadAgain(s)
  /\ UNCHANGED <<slotVars, alive, open, closing, ready, authenticated, rejected,
                 awaiting, cooldown, rate, accVars, hbVars, bbVars>>

\* What leaves the shared state alone: a command of a displaced session,
\* commandAckHandler(), and the error reply to a packet that is no command.
NoCommand(s) ==
  /\ wpc[s] = "handle" /\ ControlFree /\ s \in ready
  /\ Leave(s)
  /\ pkt[s] \in {"ack", "junk"} \/ ~Active(s)
  /\ awaiting' = IF pkt[s] = "ack" THEN awaiting \ {s} ELSE awaiting
  /\ ReadAgain(s)
  /\ UNCHANGED <<slotVars, alive, open, closing, ready, authenticated, rejected,
                 told, controlVars, pushVars, accVars, hbVars, bbVars>>

Worker(s) == Hello(s) \/ Promoted(s) \/ Authenticate(s) \/ Command(s) \/ NoCommand(s)

-----------------------------------------------------------------------------
(***************************************************************************)
(* heartbeatTick, on the main thread.                                      *)
(***************************************************************************)

\* retired.swap(retiredSessions)
HbRetire ==
  /\ hb = "retire"
  /\ hbDoomed' = retired /\ retired' = {}
  /\ hb' = IF retired = {} THEN "expire" ELSE "dropRetired"
  /\ UNCHANGED <<current, pending, sessionVars, workVars, controlVars, pushVars,
                 accVars, hbS, bbVars>>

\* retired.clear(), and for an expired session conn->close() and reset():
\* the expired one is closed whoever else holds it, and either is destroyed
\* here unless the accept or the baseband thread holds another reference.
HbDrop(s) ==
  LET kept  == OfAccept(s) \/ OfBaseband(s)
      close == ~kept \/ hb = "dropExpired" IN
  /\ hb \in {"dropRetired", "dropExpired"} /\ s \in hbDoomed
  /\ \/ /\ ShutLast(s, ~close)
        /\ UNCHANGED <<hb, hbDoomed>>
     \/ /\ close => s \in closing /\ Joinable(s)
        /\ open'  = IF close THEN open \ {s} ELSE open
        /\ alive' = IF kept THEN alive ELSE alive \ {s}
        /\ hbDoomed' = hbDoomed \ {s}
        /\ hb' = IF hbDoomed # {s} THEN hb
                 ELSE IF hb = "dropRetired" THEN "expire" ELSE "look"
        /\ UNCHANGED closing
  /\ UNCHANGED <<slotVars, ready, authenticated, rejected, awaiting, told,
                 workVars, controlVars, pushVars, accVars, hbS, bbVars>>

\* Mutant: only the handshake window is looked at.
HbExpireWindow ==
  /\ hb = "expire"
  /\ \/ /\ pending # NoSession
        /\ hbDoomed' = {pending} /\ pending' = NoSession
        /\ hb' = "dropExpired"
     \/ hb' = "look" /\ UNCHANGED <<pending, hbDoomed>>
  /\ UNCHANGED <<current, retired, sessionVars, workVars, controlVars, pushVars,
                 accVars, hbS, bbVars>>

\* Reap a pending session that was rejected, died, or ran out its window.
HbExpire ==
  /\ hb = "expire"
  /\ \/ /\ pending # NoSession
        /\ hbDoomed' = {pending} /\ pending' = NoSession
        /\ hb' = "dropExpired"
     \/ /\ pending = NoSession \/ pending \in open \ rejected
        /\ hb' = "look"
        /\ UNCHANGED <<pending, hbDoomed>>
  /\ UNCHANGED <<current, retired, sessionVars, workVars, controlVars, pushVars,
                 accVars, hbS, bbVars>>

\* auto s = getSession()
HbLook ==
  /\ hb = "look"
  /\ hbS' = current
  /\ hb' = IF current = NoSession THEN "retire" ELSE "decide"
  /\ UNCHANGED <<slotVars, sessionVars, workVars, controlVars, pushVars,
                 accVars, hbDoomed, bbVars>>

\* First controlMtx section: push state, then decide about the snapshot.  When
\* the tick ends here its reference is never the last one: the session is in
\* the slot or retired, and only the heartbeat empties either.
HbDecide ==
  /\ hb = "decide" /\ ControlFree
  /\ Flush
  /\ \/ /\ hbS \in rejected \/ hbS \notin open \/ hbS \in awaiting
        /\ hb' = "stop"
        /\ UNCHANGED <<awaiting, hbS>>
     \/ /\ hbS \in open \ rejected
        /\ \/ UNCHANGED awaiting
           \/ hbS \notin awaiting /\ awaiting' = awaiting \cup {hbS}
        /\ hb' = "retire" /\ hbS' = NoSession
  /\ UNCHANGED <<slotVars, alive, open, closing, ready, authenticated, rejected,
                 workVars, controlVars, rate, accVars, hbDoomed, bbVars>>

\* Second controlMtx section: stopRunningSourceLocked().
HbStop ==
  /\ hb = "stop" /\ ControlFree
  /\ running' = FALSE
  /\ hb' = "close"
  /\ UNCHANGED <<slotVars, sessionVars, workVars, actor, starter, cooldown,
                 pushVars, accVars, hbS, hbDoomed, bbVars>>

\* s->conn->close()
HbClose ==
  /\ hb = "close"
  /\ Shutdown(hbS)
  /\ hb' = "join"
  /\ UNCHANGED <<slotVars, alive, open, ready, authenticated, rejected,
                 awaiting, told, workVars, controlVars, pushVars, accVars, hbS,
                 hbDoomed, bbVars>>

HbJoin ==
  /\ hb = "join" /\ Joinable(hbS)
  /\ open' = open \ {hbS}
  /\ hb' = "clear"
  /\ UNCHANGED <<slotVars, alive, closing, ready, authenticated, rejected,
                 awaiting, told, workVars, controlVars, pushVars, accVars, hbS,
                 hbDoomed, bbVars>>

\* clearSessionIfCurrent(), and the snapshot goes out of scope.
HbClear ==
  /\ hb = "clear"
  /\ current' = IF current = hbS THEN NoSession ELSE current
  /\ alive' = IF hbS \in retired \/ OfAccept(hbS) \/ OfBaseband(hbS)
              THEN alive ELSE alive \ {hbS}
  /\ hb' = "retire" /\ hbS' = NoSession
  /\ UNCHANGED <<pending, retired, open, closing, ready, authenticated,
                 rejected, awaiting, told, workVars, controlVars, pushVars,
                 accVars, hbDoomed, bbVars>>

Heartbeat ==
  \/ HbRetire \/ HbExpire \/ HbLook \/ HbDecide \/ HbStop \/ HbClose \/ HbJoin
  \/ HbClear \/ \E s \in Sessions : HbDrop(s)

-----------------------------------------------------------------------------
(***************************************************************************)
(* _testServerHandler, on the DSP thread, and the calls of source modules. *)
(***************************************************************************)

\* Samples come out of the compressor while the source runs.
BasebandData ==
  /\ bb = "idle" /\ running
  /\ bb' = "have"
  /\ UNCHANGED <<slotVars, sessionVars, workVars, controlVars, pushVars,
                 accVars, hbVars, bbS>>

\* auto s = getSession()
BasebandSnapshot ==
  /\ bb = "have"
  /\ bbS' = current
  /\ bb' = IF current = NoSession THEN "idle" ELSE "write"
  /\ UNCHANGED <<slotVars, sessionVars, workVars, controlVars, pushVars,
                 accVars, hbVars>>

\* conn->write(): a failure closes the connection and rejects the session.
BasebandWrite ==
  /\ bb = "write"
  /\ \/ /\ bbS \in open /\ UNCHANGED <<open, rejected>>
     \/ /\ open' = open \ {bbS}
        /\ rejected' = rejected \cup {bbS}
  /\ bb' = "drop"
  /\ UNCHANGED <<slotVars, alive, closing, ready, authenticated, awaiting, told,
                 workVars, controlVars, pushVars, accVars, hbVars, bbS>>

\* The snapshot goes out of scope; the last reference destroys the session.
BasebandDrop ==
  LET kept == InSlot(bbS) \/ OfAccept(bbS) \/ OfHeartbeat(bbS) IN
  /\ bb = "drop"
  /\ \/ /\ ShutLast(bbS, kept)
        /\ UNCHANGED <<bb, bbS>>
     \/ /\ LetGo(bbS, kept)
        /\ bb' = "idle" /\ bbS' = NoSession
  /\ UNCHANGED <<slotVars, ready, authenticated, rejected, awaiting, told,
                 workVars, controlVars, pushVars, accVars, hbVars>>

\* setInputSampleRate(): record only.
SetInputSampleRate ==
  /\ rate < MaxRate
  /\ rate' = rate + 1 /\ dirty' = TRUE
  /\ UNCHANGED <<slotVars, sessionVars, workVars, controlVars, accVars, hbVars,
                 bbVars>>

\* AUTH_FAIL_COOLDOWN runs out.
CooldownEnds ==
  /\ cooldown /\ cooldown' = FALSE
  /\ UNCHANGED <<slotVars, sessionVars, workVars, running, actor, starter,
                 pushVars, accVars, hbVars, bbVars>>

-----------------------------------------------------------------------------
AcceptStep ==
  \/ AcceptCheck \/ AcceptBusy \/ AcceptDrop \/ AcceptPublish \/ AcceptShut
  \/ AcceptJoin \/ AcceptRead \/ AcceptLeave

Baseband == BasebandSnapshot \/ BasebandWrite \/ BasebandDrop

Next ==
  \/ \E s \in Sessions :
       Accept(s) \/ Receive(s) \/ ReceiveBadSize(s) \/ ReceiveFails(s) \/ Worker(s)
  \/ AcceptStep
  \/ Heartbeat
  \/ BasebandData \/ Baseband
  \/ SetInputSampleRate \/ CooldownEnds

Spec == Init /\ [][Next]_vars

(***************************************************************************)
(* The threads are scheduled; recv() fails on a socket that was shut down  *)
(* or found broken.  Clients may connect, send and leave or not.  send()   *)
(* has no timeout: a step that writes to a client (the baseband packet, a  *)
(* handler's replies, the heartbeat's pushes) is sure to return only once  *)
(* that socket is shut down.                                               *)
(***************************************************************************)
FairSpec ==
  /\ Spec
  /\ WF_vars(AcceptStep)
  /\ WF_vars(hb # "decide" /\ Heartbeat)
  /\ WF_vars(BasebandSnapshot \/ BasebandDrop)
  /\ WF_vars(bbS \in closing /\ BasebandWrite)
  /\ \A s \in Sessions :
       /\ WF_vars(s \in closing /\ Worker(s))
       /\ WF_vars((s \in closing \/ s \notin open) /\ ReceiveFails(s))

-----------------------------------------------------------------------------
(***************************************************************************)
(* Properties.                                                             *)
(***************************************************************************)

\* No command of a displaced, superseded or unauthenticated session reaches
\* the shared control state: whatever state it reflects (source running, PCM
\* type, compression) was put there by the client that holds the slot
\* (commandHandler's isActiveSession check, promoteAndResetLocked's reset).
StateIsOwners ==
  ControlFree /\ current # NoSession => actor \in {NoSession, current}

\* Only a session that has proved itself takes the slot from another client:
\* with a password it answered its challenge, without it sent a valid hello
\* ("an unauthenticated TCP connect can never displace an authenticated
\* client"); and a client whose stream runs loses it only to the heartbeat.
Displacement ==
  current # NoSession /\ current' # current =>
    \/ hbS = current /\ current' = NoSession
    \/ /\ current' \in Sessions
       /\ pkt[current'] = IF AuthRequired THEN "auth" ELSE "hello"
       /\ ~(current \in open /\ running)
DisplacedByProof == [][Displacement]_vars

\* The shared_ptr and join discipline: a destroyed session is in no slot, no
\* thread holds it (the accept thread has a mere connection until it publishes
\* the session), and its worker runs no handler on its buffers.
NoUseAfterDestroy ==
  \A s \in Sessions \ alive :
    /\ s \notin {current, pending, accCur, accOld, hbS, bbS} \cup retired \cup hbDoomed
    /\ s = accNew => acc \in {"check", "busy", "drop", "publish"}
    /\ wpc[s] \in {"none", "done"}

\* The client of an open session has the current sample rate, or a push of
\* it is still to come (sendInitialStateLocked, flushPushedStateLocked).
ClientKnowsRate ==
  ControlFree /\ current \in open => dirty \/ told[current] = rate

\* No thread stays forever in a step that writes to a client's open socket.
SendsReturn ==
  /\ []<>~(bb = "write" /\ bbS \notin closing)
  /\ []<>(hb # "decide")
  /\ \A s \in Sessions : []<>~(wpc[s] \in {"handle", "promoted"} /\ s \notin closing)

\* heartbeatTick and the accept thread reclaim every dead session: one that
\* was rejected, lost its connection or was displaced is destroyed in the
\* end, and the joins this takes never wait for each other.  This rests on
\* every send() to a connection nobody has closed returning: a client that
\* stops reading with its socket buffer full pins the thread that writes to
\* it, and whatever that thread holds (a displaced session, controlMtx).
Dead(s) == s \in alive /\ (s \in rejected \/ s \notin open \/ s \in retired)
DeadAreReclaimed == SendsReturn => \A s \in Sessions : Dead(s) ~> s \notin alive

\* The comment in _clientHandler: "A streaming client keeps its slot".  A
\* client that started its stream and did not stop it is not displaced by
\* another while its connection is up.
StreamingKeepsSlot ==
  [][(current \in open /\ starter = current /\ current' # current) => hbS = current]_vars
=============================================================================
