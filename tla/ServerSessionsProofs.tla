------------------------- MODULE ServerSessionsProofs -------------------------
(***************************************************************************)
(* ServerSessions for any number of connections, with and without a        *)
(* password: the sessions are handed from owner to owner and destroyed by  *)
(* the last one, none is orphaned, only the holder of the slot acts on the *)
(* shared state, it knows the sample rate, and joins end.                  *)
(***************************************************************************)
EXTENDS ServerSessions, TLAPS

-----------------------------------------------------------------------------
(***************************************************************************)
(* The inductive invariant.                                                *)
(***************************************************************************)

\* A thread has a session exactly at the locations where its code uses it.
HeldInv ==
  /\ accCur # NoSession <=> acc \in {"check", "busy", "drop"}
  /\ acc = "listen" => accNew = NoSession
  /\ acc \notin {"listen", "drop"} => accNew # NoSession
  /\ accOld # NoSession <=> acc \in {"shut", "join"}
  /\ hbS # NoSession <=> hb \in {"decide", "stop", "close", "join", "clear"}
  /\ hb \notin {"dropRetired", "dropExpired"} => hbDoomed = {}
  /\ bbS # NoSession <=> bb \in {"write", "drop"}

\* A session has one owner: it is pending, displaced while pending, current,
\* retired, or about to be destroyed.  The snapshots of the accept thread, the
\* heartbeat and the baseband thread were current once; the heartbeat's still
\* has an owner.
OwnerInv ==
  /\ current # NoSession => current \notin {pending, accOld} \cup retired \cup hbDoomed
  /\ pending # NoSession => pending \notin {accCur, accOld, hbS, bbS} \cup retired \cup hbDoomed
  /\ accOld # NoSession => accOld \notin {accNew, hbS, bbS} \cup retired \cup hbDoomed
  /\ retired \cap hbDoomed = {}
  /\ hbS # NoSession => hbS \in {current} \cup retired

\* Who has a session keeps it alive; a connection that is open is alive.  The
\* accept thread's new connection is a session from its publication on.
AliveInv ==
  /\ {current, pending, accCur, accOld, hbS, bbS} \subseteq alive \cup {NoSession}
  /\ retired \subseteq alive /\ hbDoomed \subseteq alive /\ open \subseteq alive
  /\ acc \in {"check", "busy", "drop", "publish"} => accNew \notin alive
  /\ acc \in {"shut", "join", "read", "leave"} => accNew \in alive
  /\ \A s \in Sessions \ alive : wpc[s] \in {"none", "done"}

\* Where the read worker of a session can be.  One that was never started has
\* done nothing, and a worker that was joined stays outside every handler.
WorkInv ==
  /\ \A s \in Sessions : wpc[s] = "none" => s \notin ready \cup authenticated
  /\ \A s \in Sessions : s \in {current, accCur, hbS, bbS} \cup retired => wpc[s] # "none"
  /\ accNew # NoSession /\ acc # "leave" => wpc[accNew] = "none"
  /\ hb = "clear" => wpc[hbS] = "done" /\ hbS \notin open

\* Who may act: a pending session has proved nothing yet, the current one has
\* or is about to be told so, and the heartbeat does not clear the slot of a
\* session whose promotion is under way.
ProofInv ==
  /\ pending # NoSession => pending \notin authenticated
  /\ pending # NoSession /\ ~AuthRequired => pending \notin ready
  /\ \A s \in Sessions : wpc[s] = "promoted" => current = s
  /\ current # NoSession => wpc[current] = "promoted" \/ current \in ready \cap authenticated
  /\ hb \in {"stop", "close", "join", "clear"} => wpc[hbS] # "promoted"

IInv ==
  /\ TypeOK /\ HeldInv /\ OwnerInv /\ AliveInv /\ WorkInv /\ ProofInv
  /\ StateIsOwners /\ ClientKnowsRate

-----------------------------------------------------------------------------
\* The initial states satisfy the inductive invariant.
LEMMA InitIInv == Init => IInv
<1> SUFFICES ASSUME Init PROVE IInv
  OBVIOUS
<1> USE SessionAssumption, ConfigAssumption DEF Init
<1>1. TypeOK
  <2>1. running \in BOOLEAN /\ cooldown \in BOOLEAN /\ dirty \in BOOLEAN
    BY Zenon
  <2>2. 0 \in 0 .. MaxRate
    OBVIOUS
  <2> QED
    BY <2>1, <2>2 DEF TypeOK, Slot, WorkerPc, AccPc, HbPc, BbPc
<1>2. HeldInv /\ OwnerInv /\ AliveInv
  BY DEF HeldInv, OwnerInv, AliveInv
<1>3. WorkInv /\ ProofInv
  BY DEF WorkInv, ProofInv
<1>4. StateIsOwners /\ ClientKnowsRate
  BY DEF StateIsOwners, ClientKnowsRate
<1> QED
  BY <1>1, <1>2, <1>3, <1>4 DEF IInv

\* The variables keep their types.
LEMMA TypeOKNext ==
  ASSUME IInv, [Next]_vars
  PROVE  TypeOK'
<1> USE SessionAssumption, ConfigAssumption DEF IInv
<1>1. ASSUME NEW s \in Sessions, Accept(s) PROVE TypeOK'
  BY <1>1 DEF Accept, slotVars, sessionVars, workVars, controlVars, pushVars, hbVars, bbVars,
     TypeOK, HeldInv, Slot, WorkerPc, AccPc, HbPc, BbPc, Packets
<1>2. ASSUME NEW s \in Sessions, Receive(s) PROVE TypeOK'
  <2>1. pkt' \in [Sessions -> Packets \cup {NoPacket}] /\ wpc' \in [Sessions -> WorkerPc]
    BY <1>2, SentAssumption DEF Receive, Goto, WorkerPc, TypeOK
  <2> QED
    BY <1>2, <2>1 DEF Receive, slotVars, sessionVars, controlVars, pushVars, accVars, hbVars,
       bbVars, TypeOK
<1>3. ASSUME NEW s \in Sessions, ReceiveBadSize(s) PROVE TypeOK'
  BY <1>3 DEF ReceiveBadSize, Goto, slotVars, controlVars, pushVars, accVars, hbVars, bbVars,
     TypeOK, HeldInv, Slot, WorkerPc, AccPc, HbPc, BbPc, Packets
<1>4. ASSUME NEW s \in Sessions, ReceiveFails(s) PROVE TypeOK'
  BY <1>4 DEF ReceiveFails, Goto, slotVars, controlVars, pushVars, accVars, hbVars, bbVars,
     TypeOK, HeldInv, Slot, WorkerPc, AccPc, HbPc, BbPc, Packets
<1>5. ASSUME NEW s \in Sessions, Hello(s) PROVE TypeOK'
  BY <1>5 DEF Hello, Goto, ReadAgain, Leave, Promotable, TakeSlot, Reject, Active,
     ControlFree, slotVars, controlVars, pushVars, accVars, hbVars, bbVars, TypeOK, HeldInv,
     Slot, WorkerPc, AccPc, HbPc, BbPc, Packets
<1>6. ASSUME NEW s \in Sessions, Promoted(s) PROVE TypeOK'
  <2>1. /\ running' \in BOOLEAN /\ dirty' \in BOOLEAN
    BY <1>6 DEF Promoted, SendInitialState, Goto, ReadAgain, Leave, slotVars, accVars, hbVars,
       bbVars, TypeOK
  <2>2. ready' \subseteq Sessions
    BY <1>6 DEF Promoted, SendInitialState, Goto, ReadAgain, Leave, slotVars, accVars, hbVars,
       bbVars, TypeOK, Slot, WorkerPc, HbPc, Packets
  <2>3. authenticated' \subseteq Sessions
    BY <1>6 DEF Promoted, SendInitialState, Goto, ReadAgain, Leave, slotVars, accVars, hbVars,
       bbVars, TypeOK, Slot, WorkerPc, HbPc, Packets
  <2>4. told' \in [Sessions -> 0 .. MaxRate]
    BY <1>6 DEF Promoted, SendInitialState, Goto, ReadAgain, Leave, slotVars, accVars, hbVars,
       bbVars, TypeOK, Slot, WorkerPc, HbPc, Packets
  <2>5. wpc' \in [Sessions -> WorkerPc]
    BY <1>6 DEF Promoted, SendInitialState, Goto, ReadAgain, Leave, slotVars, accVars, hbVars,
       bbVars, TypeOK, Slot, WorkerPc, HbPc, Packets
  <2>6. pkt' \in [Sessions -> Packets \cup {NoPacket}]
    BY <1>6 DEF Promoted, SendInitialState, Goto, ReadAgain, Leave, slotVars, accVars, hbVars,
       bbVars, TypeOK, Slot, WorkerPc, HbPc, Packets
  <2>7. actor' \in Slot
    BY <1>6 DEF Promoted, SendInitialState, Goto, ReadAgain, Leave, slotVars, accVars, hbVars,
       bbVars, TypeOK, Slot, WorkerPc, HbPc, Packets
  <2>8. starter' \in Slot
    BY <1>6 DEF Promoted, SendInitialState, Goto, ReadAgain, Leave, slotVars, accVars, hbVars,
       bbVars, TypeOK, Slot, WorkerPc, HbPc, Packets
  <2>9. UNCHANGED <<current, pending, retired, alive, open, closing, rejected, awaiting,
                    cooldown, rate, acc, accCur, accNew, accOld, hb, hbS, hbDoomed, bb,
                    bbS>>
    BY <1>6 DEF Promoted, SendInitialState, Goto, ReadAgain, Leave, slotVars, accVars, hbVars,
       bbVars
  <2> QED
    BY <2>1, <2>2, <2>3, <2>4, <2>5, <2>6, <2>7, <2>8, <2>9 DEF TypeOK
<1>7. ASSUME NEW s \in Sessions, Authenticate(s) PROVE TypeOK'
  <2>1. cooldown' \in BOOLEAN
    BY <1>7 DEF Authenticate, Goto, ReadAgain, Leave, Promotable, TakeSlot, Reject, Active,
       ControlFree, slotVars, pushVars, accVars, hbVars, bbVars, TypeOK
  <2>2. current' \in Slot
    BY <1>7 DEF Authenticate, Goto, ReadAgain, Leave, Promotable, TakeSlot, Reject, Active,
       ControlFree, slotVars, pushVars, accVars, hbVars, bbVars, TypeOK, Slot, WorkerPc, HbPc,
       Packets
  <2>3. pending' \in Slot
    BY <1>7 DEF Authenticate, Goto, ReadAgain, Leave, Promotable, TakeSlot, Reject, Active,
       ControlFree, slotVars, pushVars, accVars, hbVars, bbVars, TypeOK, Slot, WorkerPc, HbPc,
       Packets
  <2>4. retired' \subseteq Sessions
    BY <1>7 DEF Authenticate, Goto, ReadAgain, Leave, Promotable, TakeSlot, Reject, Active,
       ControlFree, slotVars, pushVars, accVars, hbVars, bbVars, TypeOK, Slot, WorkerPc, HbPc,
       Packets
  <2>5. rejected' \subseteq Sessions
    BY <1>7 DEF Authenticate, Goto, ReadAgain, Leave, Promotable, TakeSlot, Reject, Active,
       ControlFree, slotVars, pushVars, accVars, hbVars, bbVars, TypeOK, Slot, WorkerPc, HbPc,
       Packets
  <2>6. wpc' \in [Sessions -> WorkerPc]
    BY <1>7 DEF Authenticate, Goto, ReadAgain, Leave, Promotable, TakeSlot, Reject, Active,
       ControlFree, slotVars, pushVars, accVars, hbVars, bbVars, TypeOK, Slot, WorkerPc, HbPc,
       Packets
  <2>7. pkt' \in [Sessions -> Packets \cup {NoPacket}]
    BY <1>7 DEF Authenticate, Goto, ReadAgain, Leave, Promotable, TakeSlot, Reject, Active,
       ControlFree, slotVars, pushVars, accVars, hbVars, bbVars, TypeOK, Slot, WorkerPc, HbPc,
       Packets
  <2>8. UNCHANGED <<alive, open, closing, ready, authenticated, awaiting, told, running,
                    actor, starter, rate, dirty, acc, accCur, accNew, accOld, hb, hbS,
                    hbDoomed, bb, bbS>>
    BY <1>7 DEF Authenticate, Goto, ReadAgain, Leave, Promotable, TakeSlot, Reject, Active,
       ControlFree, slotVars, pushVars, accVars, hbVars, bbVars
  <2> QED
    BY <2>1, <2>2, <2>3, <2>4, <2>5, <2>6, <2>7, <2>8 DEF TypeOK
<1>8. ASSUME NEW s \in Sessions, Command(s) PROVE TypeOK'
  <2>1. /\ running' \in BOOLEAN /\ dirty' \in BOOLEAN
    BY <1>8 DEF Command, Goto, ReadAgain, Leave, Flush, Active, ControlFree, slotVars,
       accVars, hbVars, bbVars, TypeOK
  <2>2. told' \in [Sessions -> 0 .. MaxRate]
    BY <1>8 DEF Command, Goto, ReadAgain, Leave, Flush, Active, ControlFree, slotVars,
       accVars, hbVars, bbVars, TypeOK, Slot, WorkerPc, HbPc, Packets
  <2>3. wpc' \in [Sessions -> WorkerPc]
    BY <1>8 DEF Command, Goto, ReadAgain, Leave, Flush, Active, ControlFree, slotVars,
       accVars, hbVars, bbVars, TypeOK, Slot, WorkerPc, HbPc, Packets
  <2>4. pkt' \in [Sessions -> Packets \cup {NoPacket}]
    BY <1>8 DEF Command, Goto, ReadAgain, Leave, Flush, Active, ControlFree, slotVars,
       accVars, hbVars, bbVars, TypeOK, Slot, WorkerPc, HbPc, Packets
  <2>5. actor' \in Slot
    BY <1>8 DEF Command, Goto, ReadAgain, Leave, Flush, Active, ControlFree, slotVars,
       accVars, hbVars, bbVars, TypeOK, Slot, WorkerPc, HbPc, Packets
  <2>6. starter' \in Slot
    BY <1>8 DEF Command, Goto, ReadAgain, Leave, Flush, Active, ControlFree, slotVars,
       accVars, hbVars, bbVars, TypeOK, Slot, WorkerPc, HbPc, Packets
  <2>7. UNCHANGED <<current, pending, retired, alive, open, closing, ready,
                    authenticated, rejected, awaiting, cooldown, rate, acc, accCur,
                    accNew, accOld, hb, hbS, hbDoomed, bb, bbS>>
    BY <1>8 DEF Command, Goto, ReadAgain, Leave, Flush, Active, ControlFree, slotVars,
       accVars, hbVars, bbVars
  <2> QED
    BY <2>1, <2>2, <2>3, <2>4, <2>5, <2>6, <2>7 DEF TypeOK
<1>9. ASSUME NEW s \in Sessions, NoCommand(s) PROVE TypeOK'
  BY <1>9 DEF NoCommand, Goto, ReadAgain, Leave, Active, ControlFree, slotVars, controlVars,
     pushVars, accVars, hbVars, bbVars, TypeOK, HeldInv, Slot, WorkerPc, AccPc, HbPc, BbPc,
     Packets
<1>10. CASE AcceptCheck
  BY <1>10 DEF AcceptCheck, slotVars, sessionVars, workVars, controlVars, pushVars, hbVars,
     bbVars, TypeOK, HeldInv, Slot, WorkerPc, AccPc, HbPc, BbPc, Packets
<1>11. CASE AcceptBusy
  BY <1>11 DEF AcceptBusy, ControlFree, slotVars, sessionVars, workVars, controlVars,
     pushVars, hbVars, bbVars, TypeOK, HeldInv, Slot, WorkerPc, AccPc, HbPc, BbPc, Packets
<1>12. CASE AcceptDrop
  BY <1>12 DEF AcceptDrop, ShutLast, LetGo, InSlot, OfHeartbeat, OfBaseband, Shutdown,
     Joinable, slotVars, workVars, controlVars, pushVars, hbVars, bbVars, TypeOK, HeldInv,
     Slot, WorkerPc, AccPc, HbPc, BbPc, Packets
<1>13. CASE AcceptPublish
  BY <1>13 DEF AcceptPublish, workVars, controlVars, pushVars, hbVars, bbVars, TypeOK,
     HeldInv, Slot, WorkerPc, AccPc, HbPc, BbPc, Packets
<1>14. CASE AcceptShut
  BY <1>14 DEF AcceptShut, Shutdown, slotVars, workVars, controlVars, pushVars, hbVars,
     bbVars, TypeOK, HeldInv, Slot, WorkerPc, AccPc, HbPc, BbPc, Packets
<1>15. CASE AcceptJoin
  BY <1>15 DEF AcceptJoin, Joinable, slotVars, workVars, controlVars, pushVars, hbVars,
     bbVars, TypeOK, HeldInv, Slot, WorkerPc, AccPc, HbPc, BbPc, Packets
<1>16. CASE AcceptRead
  BY <1>16 DEF AcceptRead, Goto, ReadAgain, slotVars, sessionVars, controlVars, pushVars,
     hbVars, bbVars, TypeOK, HeldInv, Slot, WorkerPc, AccPc, HbPc, BbPc, Packets
<1>17. CASE AcceptLeave
  BY <1>17 DEF AcceptLeave, ShutLast, LetGo, InSlot, OfHeartbeat, OfBaseband, Shutdown,
     Joinable, slotVars, workVars, controlVars, pushVars, hbVars, bbVars, TypeOK, HeldInv,
     Slot, WorkerPc, AccPc, HbPc, BbPc, Packets
<1>18. CASE HbRetire
  BY <1>18 DEF HbRetire, sessionVars, workVars, controlVars, pushVars, accVars, bbVars,
     TypeOK, HeldInv, Slot, WorkerPc, AccPc, HbPc, BbPc, Packets
<1>19. CASE HbExpire
  BY <1>19 DEF HbExpire, sessionVars, workVars, controlVars, pushVars, accVars, bbVars,
     TypeOK, HeldInv, Slot, WorkerPc, AccPc, HbPc, BbPc, Packets
<1>20. CASE HbLook
  BY <1>20 DEF HbLook, slotVars, sessionVars, workVars, controlVars, pushVars, accVars,
     bbVars, TypeOK, HeldInv, Slot, WorkerPc, AccPc, HbPc, BbPc, Packets
<1>21. CASE HbDecide
  <2>1. dirty' \in BOOLEAN
    BY <1>21 DEF HbDecide, Flush, ControlFree, slotVars, workVars, controlVars, accVars,
       bbVars, TypeOK
  <2>2. awaiting' \subseteq Sessions
    BY <1>21 DEF HbDecide, Flush, ControlFree, slotVars, workVars, controlVars, accVars,
       bbVars, TypeOK, Slot, WorkerPc, HbPc, Packets
  <2>3. told' \in [Sessions -> 0 .. MaxRate]
    BY <1>21 DEF HbDecide, Flush, ControlFree, slotVars, workVars, controlVars, accVars,
       bbVars, TypeOK, Slot, WorkerPc, HbPc, Packets
  <2>4. hb' \in HbPc
    BY <1>21 DEF HbDecide, Flush, ControlFree, slotVars, workVars, controlVars, accVars,
       bbVars, TypeOK, Slot, WorkerPc, HbPc, Packets
  <2>5. hbS' \in Slot
    BY <1>21 DEF HbDecide, Flush, ControlFree, slotVars, workVars, controlVars, accVars,
       bbVars, TypeOK, Slot, WorkerPc, HbPc, Packets
  <2>6. UNCHANGED <<current, pending, retired, alive, open, closing, ready,
                    authenticated, rejected, wpc, pkt, running, actor, starter, cooldown,
                    rate, acc, accCur, accNew, accOld, hbDoomed, bb, bbS>>
    BY <1>21 DEF HbDecide, Flush, ControlFree, slotVars, workVars, controlVars, accVars,
       bbVars
  <2> QED
    BY <2>1, <2>2, <2>3, <2>4, <2>5, <2>6 DEF TypeOK
<1>22. CASE HbStop
  <2>1. running' \in BOOLEAN
    BY <1>22 DEF HbStop, ControlFree, slotVars, sessionVars, workVars, pushVars, accVars,
       bbVars, TypeOK
  <2>2. hb' \in HbPc
    BY <1>22 DEF HbStop, ControlFree, slotVars, sessionVars, workVars, pushVars, accVars,
       bbVars, TypeOK, Slot, WorkerPc, HbPc, Packets
  <2>3. UNCHANGED <<current, pending, retired, alive, open, closing, ready,
                    authenticated, rejected, awaiting, told, wpc, pkt, actor, starter,
                    cooldown, rate, dirty, acc, accCur, accNew, accOld, hbS, hbDoomed,
                    bb, bbS>>
    BY <1>22 DEF HbStop, ControlFree, slotVars, sessionVars, workVars, pushVars, accVars,
       bbVars
  <2> QED
    BY <2>1, <2>2, <2>3 DEF TypeOK
<1>23. CASE HbClose
  BY <1>23 DEF HbClose, Shutdown, slotVars, workVars, controlVars, pushVars, accVars, bbVars,
     TypeOK, HeldInv, Slot, WorkerPc, AccPc, HbPc, BbPc, Packets
<1>24. CASE HbJoin
  BY <1>24 DEF HbJoin, Joinable, slotVars, workVars, controlVars, pushVars, accVars, bbVars,
     TypeOK, HeldInv, Slot, WorkerPc, AccPc, HbPc, BbPc, Packets
<1>25. CASE HbClear
  BY <1>25 DEF HbClear, OfAccept, OfBaseband, workVars, controlVars, pushVars, accVars,
     bbVars, TypeOK, HeldInv, Slot, WorkerPc, AccPc, HbPc, BbPc, Packets
<1>26. ASSUME NEW s \in Sessions, HbDrop(s) PROVE TypeOK'
  BY <1>26 DEF HbDrop, ShutLast, OfAccept, OfBaseband, Shutdown, Joinable, slotVars, workVars,
     controlVars, pushVars, accVars, bbVars, TypeOK, HeldInv, Slot, WorkerPc, AccPc, HbPc,
     BbPc, Packets
<1>27. CASE BasebandData
  BY <1>27 DEF BasebandData, slotVars, sessionVars, workVars, controlVars, pushVars, accVars,
     hbVars, TypeOK, HeldInv, Slot, WorkerPc, AccPc, HbPc, BbPc, Packets
<1>28. CASE BasebandSnapshot
  BY <1>28 DEF BasebandSnapshot, slotVars, sessionVars, workVars, controlVars, pushVars,
     accVars, hbVars, TypeOK, HeldInv, Slot, WorkerPc, AccPc, HbPc, BbPc, Packets
<1>29. CASE BasebandWrite
  BY <1>29 DEF BasebandWrite, slotVars, workVars, controlVars, pushVars, accVars, hbVars,
     TypeOK, HeldInv, Slot, WorkerPc, AccPc, HbPc, BbPc, Packets
<1>30. CASE BasebandDrop
  BY <1>30 DEF BasebandDrop, ShutLast, LetGo, InSlot, OfAccept, OfHeartbeat, Shutdown,
     Joinable, slotVars, workVars, controlVars, pushVars, accVars, hbVars, TypeOK, HeldInv,
     Slot, WorkerPc, AccPc, HbPc, BbPc, Packets
<1>31. CASE SetInputSampleRate
  BY <1>31 DEF SetInputSampleRate, slotVars, sessionVars, workVars, controlVars, accVars,
     hbVars, bbVars, TypeOK, HeldInv, Slot, WorkerPc, AccPc, HbPc, BbPc, Packets
<1>32. CASE CooldownEnds
  <2>1. cooldown' \in BOOLEAN
    BY <1>32 DEF CooldownEnds, slotVars, sessionVars, workVars, pushVars, accVars, hbVars,
       bbVars, TypeOK
  <2>2. UNCHANGED <<current, pending, retired, alive, open, closing, ready,
                    authenticated, rejected, awaiting, told, wpc, pkt, running, actor,
                    starter, rate, dirty, acc, accCur, accNew, accOld, hb, hbS, hbDoomed,
                    bb, bbS>>
    BY <1>32 DEF CooldownEnds, slotVars, sessionVars, workVars, pushVars, accVars, hbVars,
       bbVars
  <2> QED
    BY <2>1, <2>2 DEF TypeOK
<1>33. CASE UNCHANGED vars
  BY <1>33 DEF vars, slotVars, sessionVars, workVars, controlVars, pushVars, accVars, hbVars,
     bbVars, TypeOK, HeldInv, Slot, WorkerPc, AccPc, HbPc, BbPc, Packets
<1> QED
  BY <1>1, <1>2, <1>3, <1>4, <1>5, <1>6, <1>7, <1>8, <1>9, <1>10, <1>11, <1>12, <1>13, <1>14,
     <1>15, <1>16, <1>17, <1>18, <1>19, <1>20, <1>21, <1>22, <1>23, <1>24, <1>25, <1>26,
     <1>27, <1>28, <1>29, <1>30, <1>31, <1>32, <1>33 DEF Next, Worker, AcceptStep, Heartbeat,
     Baseband

\* Threads have sessions where their code uses them.
LEMMA HeldInvNext ==
  ASSUME IInv, [Next]_vars
  PROVE  HeldInv'
<1> USE SessionAssumption, ConfigAssumption DEF IInv
<1>1. ASSUME NEW s \in Sessions, Accept(s) PROVE HeldInv'
  BY <1>1 DEF Accept, slotVars, sessionVars, workVars, controlVars, pushVars, hbVars, bbVars,
     TypeOK, HeldInv, Slot
<1>2. CASE AcceptCheck
  BY <1>2 DEF AcceptCheck, slotVars, sessionVars, workVars, controlVars, pushVars, hbVars,
     bbVars, TypeOK, HeldInv, Slot
<1>3. CASE AcceptBusy
  BY <1>3 DEF AcceptBusy, ControlFree, slotVars, sessionVars, workVars, controlVars, pushVars,
     hbVars, bbVars, TypeOK, HeldInv, Slot
<1>4. CASE AcceptDrop
  BY <1>4 DEF AcceptDrop, ShutLast, LetGo, InSlot, OfHeartbeat, OfBaseband, Shutdown,
     Joinable, slotVars, workVars, controlVars, pushVars, hbVars, bbVars, TypeOK, HeldInv,
     Slot
<1>5. CASE AcceptPublish
  BY <1>5 DEF AcceptPublish, workVars, controlVars, pushVars, hbVars, bbVars, TypeOK, HeldInv,
     Slot
<1>6. CASE AcceptShut
  BY <1>6 DEF AcceptShut, Shutdown, slotVars, workVars, controlVars, pushVars, hbVars, bbVars,
     TypeOK, HeldInv, Slot
<1>7. CASE AcceptJoin
  BY <1>7 DEF AcceptJoin, Joinable, slotVars, workVars, controlVars, pushVars, hbVars, bbVars,
     TypeOK, HeldInv, Slot
<1>8. CASE AcceptRead
  BY <1>8 DEF AcceptRead, Goto, ReadAgain, slotVars, sessionVars, controlVars, pushVars,
     hbVars, bbVars, TypeOK, HeldInv, Slot
<1>9. CASE AcceptLeave
  BY <1>9 DEF AcceptLeave, ShutLast, LetGo, InSlot, OfHeartbeat, OfBaseband, Shutdown,
     Joinable, slotVars, workVars, controlVars, pushVars, hbVars, bbVars, TypeOK, HeldInv,
     Slot
<1>10. CASE HbRetire
  BY <1>10 DEF HbRetire, sessionVars, workVars, controlVars, pushVars, accVars, bbVars,
     TypeOK, HeldInv, Slot
<1>11. CASE HbExpire
  BY <1>11 DEF HbExpire, sessionVars, workVars, controlVars, pushVars, accVars, bbVars,
     TypeOK, HeldInv, Slot
<1>12. CASE HbLook
  BY <1>12 DEF HbLook, slotVars, sessionVars, workVars, controlVars, pushVars, accVars,
     bbVars, TypeOK, HeldInv, Slot
<1>13. CASE HbDecide
  BY <1>13 DEF HbDecide, Flush, ControlFree, slotVars, workVars, controlVars, accVars, bbVars,
     TypeOK, HeldInv, Slot
<1>14. CASE HbStop
  BY <1>14 DEF HbStop, ControlFree, slotVars, sessionVars, workVars, pushVars, accVars,
     bbVars, TypeOK, HeldInv, Slot
<1>15. CASE HbClose
  BY <1>15 DEF HbClose, Shutdown, slotVars, workVars, controlVars, pushVars, accVars, bbVars,
     TypeOK, HeldInv, Slot
<1>16. CASE HbJoin
  BY <1>16 DEF HbJoin, Joinable, slotVars, workVars, controlVars, pushVars, accVars, bbVars,
     TypeOK, HeldInv, Slot
<1>17. CASE HbClear
  BY <1>17 DEF HbClear, OfAccept, OfBaseband, workVars, controlVars, pushVars, accVars,
     bbVars, TypeOK, HeldInv, Slot
<1>18. ASSUME NEW s \in Sessions, HbDrop(s) PROVE HeldInv'
  BY <1>18 DEF HbDrop, ShutLast, OfAccept, OfBaseband, Shutdown, Joinable, slotVars, workVars,
     controlVars, pushVars, accVars, bbVars, TypeOK, HeldInv, Slot
<1>19. CASE BasebandData
  BY <1>19 DEF BasebandData, slotVars, sessionVars, workVars, controlVars, pushVars, accVars,
     hbVars, TypeOK, HeldInv, Slot
<1>20. CASE BasebandSnapshot
  BY <1>20 DEF BasebandSnapshot, slotVars, sessionVars, workVars, controlVars, pushVars,
     accVars, hbVars, TypeOK, HeldInv, Slot
<1>21. CASE BasebandWrite
  BY <1>21 DEF BasebandWrite, slotVars, workVars, controlVars, pushVars, accVars, hbVars,
     TypeOK, HeldInv, Slot
<1>22. CASE BasebandDrop
  BY <1>22 DEF BasebandDrop, ShutLast, LetGo, InSlot, OfAccept, OfHeartbeat, Shutdown,
     Joinable, slotVars, workVars, controlVars, pushVars, accVars, hbVars, TypeOK, HeldInv,
     Slot
<1>23. CASE \/ \E s \in Sessions : \/ Receive(s) \/ ReceiveBadSize(s) \/ ReceiveFails(s)
                                  \/ Hello(s) \/ Promoted(s) \/ Authenticate(s) \/ Command(s)
                                  \/ NoCommand(s)
            \/ SetInputSampleRate \/ CooldownEnds
            \/ UNCHANGED vars
  <2>1. UNCHANGED <<acc, accCur, accNew, accOld, hb, hbS, hbDoomed, bb, bbS>>
    BY <1>23 DEF Receive, ReceiveBadSize, ReceiveFails, Hello, Promoted, SendInitialState,
       Authenticate, Command, NoCommand, SetInputSampleRate, CooldownEnds, Goto, ReadAgain,
       Leave, Promotable, TakeSlot, Reject, Flush, Active, ControlFree, slotVars, sessionVars,
       workVars, controlVars, pushVars, accVars, hbVars, bbVars, vars
  <2> QED
    BY <2>1 DEF TypeOK, HeldInv, Slot
<1> QED
  BY <1>1, <1>2, <1>3, <1>4, <1>5, <1>6, <1>7, <1>8, <1>9, <1>10, <1>11, <1>12, <1>13, <1>14,
     <1>15, <1>16, <1>17, <1>18, <1>19, <1>20, <1>21, <1>22, <1>23 DEF Next, Worker,
     AcceptStep, Heartbeat, Baseband

\* Every session has one owner.
LEMMA OwnerInvNext ==
  ASSUME IInv, [Next]_vars
  PROVE  OwnerInv'
<1> USE SessionAssumption, ConfigAssumption DEF IInv
<1>1. ASSUME NEW s \in Sessions, Accept(s) PROVE OwnerInv'
  BY <1>1 DEF Accept, slotVars, sessionVars, workVars, controlVars, pushVars, hbVars, bbVars,
     TypeOK, HeldInv, OwnerInv, AliveInv, WorkInv, ProofInv, Slot
<1>2. ASSUME NEW s \in Sessions, Hello(s) PROVE OwnerInv'
  BY <1>2 DEF Hello, Goto, ReadAgain, Leave, Promotable, TakeSlot, Reject, Active,
     ControlFree, slotVars, controlVars, pushVars, accVars, hbVars, bbVars, TypeOK, HeldInv,
     OwnerInv, AliveInv, WorkInv, ProofInv, Slot
<1>3. ASSUME NEW s \in Sessions, Authenticate(s) PROVE OwnerInv'
  BY <1>3 DEF Authenticate, Goto, ReadAgain, Leave, Promotable, TakeSlot, Reject, Active,
     ControlFree, slotVars, pushVars, accVars, hbVars, bbVars, TypeOK, HeldInv, OwnerInv,
     AliveInv, WorkInv, ProofInv, Slot
<1>4. CASE AcceptBusy
  BY <1>4 DEF AcceptBusy, ControlFree, slotVars, sessionVars, workVars, controlVars, pushVars,
     hbVars, bbVars, TypeOK, HeldInv, OwnerInv, AliveInv, WorkInv, ProofInv, Slot
<1>5. CASE AcceptDrop
  BY <1>5 DEF AcceptDrop, ShutLast, LetGo, InSlot, OfHeartbeat, OfBaseband, Shutdown,
     Joinable, slotVars, workVars, controlVars, pushVars, hbVars, bbVars, TypeOK, HeldInv,
     OwnerInv, AliveInv, WorkInv, ProofInv, Slot
<1>6. CASE AcceptPublish
  BY <1>6 DEF AcceptPublish, workVars, controlVars, pushVars, hbVars, bbVars, TypeOK, HeldInv,
     OwnerInv, AliveInv, WorkInv, ProofInv, Slot
<1>7. CASE AcceptJoin
  BY <1>7 DEF AcceptJoin, Joinable, slotVars, workVars, controlVars, pushVars, hbVars, bbVars,
     TypeOK, HeldInv, OwnerInv, AliveInv, WorkInv, ProofInv, Slot
<1>8. CASE AcceptLeave
  BY <1>8 DEF AcceptLeave, ShutLast, LetGo, InSlot, OfHeartbeat, OfBaseband, Shutdown,
     Joinable, slotVars, workVars, controlVars, pushVars, hbVars, bbVars, TypeOK, HeldInv,
     OwnerInv, AliveInv, WorkInv, ProofInv, Slot
<1>9. CASE HbRetire
  BY <1>9 DEF HbRetire, sessionVars, workVars, controlVars, pushVars, accVars, bbVars, TypeOK,
     HeldInv, OwnerInv, AliveInv, WorkInv, ProofInv, Slot
<1>10. CASE HbExpire
  BY <1>10 DEF HbExpire, sessionVars, workVars, controlVars, pushVars, accVars, bbVars,
     TypeOK, HeldInv, OwnerInv, AliveInv, WorkInv, ProofInv, Slot
<1>11. CASE HbLook
  BY <1>11 DEF HbLook, slotVars, sessionVars, workVars, controlVars, pushVars, accVars,
     bbVars, TypeOK, HeldInv, OwnerInv, AliveInv, WorkInv, ProofInv, Slot
<1>12. CASE HbDecide
  BY <1>12 DEF HbDecide, Flush, ControlFree, slotVars, workVars, controlVars, accVars, bbVars,
     TypeOK, HeldInv, OwnerInv, AliveInv, WorkInv, ProofInv, Slot
<1>13. CASE HbClear
  BY <1>13 DEF HbClear, OfAccept, OfBaseband, workVars, controlVars, pushVars, accVars,
     bbVars, TypeOK, HeldInv, OwnerInv, AliveInv, WorkInv, ProofInv, Slot
<1>14. ASSUME NEW s \in Sessions, HbDrop(s) PROVE OwnerInv'
  BY <1>14 DEF HbDrop, ShutLast, OfAccept, OfBaseband, Shutdown, Joinable, slotVars, workVars,
     controlVars, pushVars, accVars, bbVars, TypeOK, HeldInv, OwnerInv, AliveInv, WorkInv,
     ProofInv, Slot
<1>15. CASE BasebandSnapshot
  BY <1>15 DEF BasebandSnapshot, slotVars, sessionVars, workVars, controlVars, pushVars,
     accVars, hbVars, TypeOK, HeldInv, OwnerInv, AliveInv, WorkInv, ProofInv, Slot
<1>16. CASE BasebandDrop
  BY <1>16 DEF BasebandDrop, ShutLast, LetGo, InSlot, OfAccept, OfHeartbeat, Shutdown,
     Joinable, slotVars, workVars, controlVars, pushVars, accVars, hbVars, TypeOK, HeldInv,
     OwnerInv, AliveInv, WorkInv, ProofInv, Slot
<1>17. CASE \/ \E s \in Sessions : \/ Receive(s) \/ ReceiveBadSize(s) \/ ReceiveFails(s)
                                  \/ Promoted(s) \/ Command(s) \/ NoCommand(s)
            \/ AcceptCheck \/ AcceptShut \/ AcceptRead \/ HbStop \/ HbClose
            \/ HbJoin \/ BasebandData \/ BasebandWrite \/ SetInputSampleRate \/ CooldownEnds
            \/ UNCHANGED vars
  <2>1. UNCHANGED <<current, pending, retired, accCur, accNew, accOld, hbS, hbDoomed,
                    bbS>>
    BY <1>17 DEF Receive, ReceiveBadSize, ReceiveFails, Promoted, SendInitialState, Command,
       NoCommand, AcceptCheck, AcceptShut, AcceptRead, HbStop, HbClose, HbJoin, BasebandData,
       BasebandWrite, SetInputSampleRate, CooldownEnds, Shutdown, Joinable, Goto, ReadAgain,
       Leave, Flush, Active, ControlFree, slotVars, sessionVars, workVars, controlVars,
       pushVars, accVars, hbVars, bbVars, vars
  <2> QED
    BY <2>1 DEF TypeOK, HeldInv, OwnerInv, AliveInv, WorkInv, ProofInv, Slot
<1> QED
  BY <1>1, <1>2, <1>3, <1>4, <1>5, <1>6, <1>7, <1>8, <1>9, <1>10, <1>11, <1>12, <1>13, <1>14,
     <1>15, <1>16, <1>17 DEF Next, Worker, AcceptStep, Heartbeat, Baseband

\* Owners keep their sessions alive.
LEMMA AliveInvNext ==
  ASSUME IInv, [Next]_vars
  PROVE  AliveInv'
<1> USE SessionAssumption, ConfigAssumption DEF IInv
<1>1. ASSUME NEW s \in Sessions, Accept(s) PROVE AliveInv'
  BY <1>1 DEF Accept, slotVars, sessionVars, workVars, controlVars, pushVars, hbVars, bbVars,
     TypeOK, HeldInv, OwnerInv, AliveInv, WorkInv, Slot
<1>2. ASSUME NEW s \in Sessions, Receive(s) PROVE AliveInv'
  BY <1>2 DEF Receive, Goto, slotVars, sessionVars, controlVars, pushVars, accVars, hbVars,
     bbVars, TypeOK, HeldInv, OwnerInv, AliveInv, WorkInv, Slot
<1>3. ASSUME NEW s \in Sessions, ReceiveBadSize(s) PROVE AliveInv'
  BY <1>3 DEF ReceiveBadSize, Goto, slotVars, controlVars, pushVars, accVars, hbVars, bbVars,
     TypeOK, HeldInv, OwnerInv, AliveInv, WorkInv, Slot
<1>4. ASSUME NEW s \in Sessions, ReceiveFails(s) PROVE AliveInv'
  BY <1>4 DEF ReceiveFails, Goto, slotVars, controlVars, pushVars, accVars, hbVars, bbVars,
     TypeOK, HeldInv, OwnerInv, AliveInv, WorkInv, Slot
<1>5. ASSUME NEW s \in Sessions, Hello(s) PROVE AliveInv'
  BY <1>5 DEF Hello, Goto, ReadAgain, Leave, Promotable, TakeSlot, Reject, Active,
     ControlFree, slotVars, controlVars, pushVars, accVars, hbVars, bbVars, TypeOK, HeldInv,
     OwnerInv, AliveInv, WorkInv, Slot
<1>6. ASSUME NEW s \in Sessions, Promoted(s) PROVE AliveInv'
  BY <1>6 DEF Promoted, SendInitialState, Goto, ReadAgain, Leave, slotVars, accVars, hbVars,
     bbVars, TypeOK, HeldInv, OwnerInv, AliveInv, WorkInv, Slot
<1>7. ASSUME NEW s \in Sessions, Authenticate(s) PROVE AliveInv'
  BY <1>7 DEF Authenticate, Goto, ReadAgain, Leave, Promotable, TakeSlot, Reject, Active,
     ControlFree, slotVars, pushVars, accVars, hbVars, bbVars, TypeOK, HeldInv, OwnerInv,
     AliveInv, WorkInv, Slot
<1>8. ASSUME NEW s \in Sessions, Command(s) PROVE AliveInv'
  BY <1>8 DEF Command, Goto, ReadAgain, Leave, Flush, Active, ControlFree, slotVars, accVars,
     hbVars, bbVars, TypeOK, HeldInv, OwnerInv, AliveInv, WorkInv, Slot
<1>9. ASSUME NEW s \in Sessions, NoCommand(s) PROVE AliveInv'
  BY <1>9 DEF NoCommand, Goto, ReadAgain, Leave, Active, ControlFree, slotVars, controlVars,
     pushVars, accVars, hbVars, bbVars, TypeOK, HeldInv, OwnerInv, AliveInv, WorkInv, Slot
<1>10. CASE AcceptCheck
  BY <1>10 DEF AcceptCheck, slotVars, sessionVars, workVars, controlVars, pushVars, hbVars,
     bbVars, TypeOK, HeldInv, OwnerInv, AliveInv, WorkInv, Slot
<1>11. CASE AcceptBusy
  BY <1>11 DEF AcceptBusy, ControlFree, slotVars, sessionVars, workVars, controlVars,
     pushVars, hbVars, bbVars, TypeOK, HeldInv, OwnerInv, AliveInv, WorkInv, Slot
<1>12. CASE AcceptDrop
  BY <1>12 DEF AcceptDrop, ShutLast, LetGo, InSlot, OfHeartbeat, OfBaseband, Shutdown,
     Joinable, slotVars, workVars, controlVars, pushVars, hbVars, bbVars, TypeOK, HeldInv,
     OwnerInv, AliveInv, WorkInv, Slot
<1>13. CASE AcceptPublish
  BY <1>13 DEF AcceptPublish, workVars, controlVars, pushVars, hbVars, bbVars, TypeOK,
     HeldInv, OwnerInv, AliveInv, WorkInv, Slot
<1>14. CASE AcceptShut
  BY <1>14 DEF AcceptShut, Shutdown, slotVars, workVars, controlVars, pushVars, hbVars,
     bbVars, TypeOK, HeldInv, OwnerInv, AliveInv, WorkInv, Slot
<1>15. CASE AcceptJoin
  BY <1>15 DEF AcceptJoin, Joinable, slotVars, workVars, controlVars, pushVars, hbVars,
     bbVars, TypeOK, HeldInv, OwnerInv, AliveInv, WorkInv, Slot
<1>16. CASE AcceptRead
  BY <1>16 DEF AcceptRead, Goto, ReadAgain, slotVars, sessionVars, controlVars, pushVars,
     hbVars, bbVars, TypeOK, HeldInv, OwnerInv, AliveInv, WorkInv, Slot
<1>17. CASE AcceptLeave
  BY <1>17 DEF AcceptLeave, ShutLast, LetGo, InSlot, OfHeartbeat, OfBaseband, Shutdown,
     Joinable, slotVars, workVars, controlVars, pushVars, hbVars, bbVars, TypeOK, HeldInv,
     OwnerInv, AliveInv, WorkInv, Slot
<1>18. CASE HbRetire
  BY <1>18 DEF HbRetire, sessionVars, workVars, controlVars, pushVars, accVars, bbVars,
     TypeOK, HeldInv, OwnerInv, AliveInv, WorkInv, Slot
<1>19. CASE HbExpire
  BY <1>19 DEF HbExpire, sessionVars, workVars, controlVars, pushVars, accVars, bbVars,
     TypeOK, HeldInv, OwnerInv, AliveInv, WorkInv, Slot
<1>20. CASE HbLook
  BY <1>20 DEF HbLook, slotVars, sessionVars, workVars, controlVars, pushVars, accVars,
     bbVars, TypeOK, HeldInv, OwnerInv, AliveInv, WorkInv, Slot
<1>21. CASE HbDecide
  BY <1>21 DEF HbDecide, Flush, ControlFree, slotVars, workVars, controlVars, accVars, bbVars,
     TypeOK, HeldInv, OwnerInv, AliveInv, WorkInv, Slot
<1>22. CASE HbJoin
  BY <1>22 DEF HbJoin, Joinable, slotVars, workVars, controlVars, pushVars, accVars, bbVars,
     TypeOK, HeldInv, OwnerInv, AliveInv, WorkInv, Slot
<1>23. CASE HbClear
  BY <1>23 DEF HbClear, OfAccept, OfBaseband, workVars, controlVars, pushVars, accVars,
     bbVars, TypeOK, HeldInv, OwnerInv, AliveInv, WorkInv, Slot
<1>24. ASSUME NEW s \in Sessions, HbDrop(s) PROVE AliveInv'
  BY <1>24 DEF HbDrop, ShutLast, OfAccept, OfBaseband, Shutdown, Joinable, slotVars, workVars,
     controlVars, pushVars, accVars, bbVars, TypeOK, HeldInv, OwnerInv, AliveInv, WorkInv,
     Slot
<1>25. CASE BasebandSnapshot
  BY <1>25 DEF BasebandSnapshot, slotVars, sessionVars, workVars, controlVars, pushVars,
     accVars, hbVars, TypeOK, HeldInv, OwnerInv, AliveInv, WorkInv, Slot
<1>26. CASE BasebandWrite
  BY <1>26 DEF BasebandWrite, slotVars, workVars, controlVars, pushVars, accVars, hbVars,
     TypeOK, HeldInv, OwnerInv, AliveInv, WorkInv, Slot
<1>27. CASE BasebandDrop
  BY <1>27 DEF BasebandDrop, ShutLast, LetGo, InSlot, OfAccept, OfHeartbeat, Shutdown,
     Joinable, slotVars, workVars, controlVars, pushVars, accVars, hbVars, TypeOK, HeldInv,
     OwnerInv, AliveInv, WorkInv, Slot
<1>28. CASE \/ HbStop \/ HbClose \/ BasebandData \/ SetInputSampleRate \/ CooldownEnds
            \/ UNCHANGED vars
  <2>1. UNCHANGED <<current, pending, retired, alive, open, wpc, acc, accCur, accNew,
                    accOld, hbS, hbDoomed, bbS>>
    BY <1>28 DEF HbStop, HbClose, BasebandData, SetInputSampleRate, CooldownEnds, Shutdown,
       ControlFree, slotVars, sessionVars, workVars, controlVars, pushVars, accVars, hbVars,
       bbVars, vars
  <2> QED
    BY <2>1 DEF TypeOK, HeldInv, OwnerInv, AliveInv, WorkInv, Slot
<1> QED
  BY <1>1, <1>2, <1>3, <1>4, <1>5, <1>6, <1>7, <1>8, <1>9, <1>10, <1>11, <1>12, <1>13, <1>14,
     <1>15, <1>16, <1>17, <1>18, <1>19, <1>20, <1>21, <1>22, <1>23, <1>24, <1>25, <1>26,
     <1>27, <1>28 DEF Next, Worker, AcceptStep, Heartbeat, Baseband

\* Workers are where they should be.
LEMMA WorkInvNext ==
  ASSUME IInv, [Next]_vars
  PROVE  WorkInv'
<1> USE SessionAssumption, ConfigAssumption DEF IInv
<1>1. ASSUME NEW s \in Sessions, Accept(s) PROVE WorkInv'
  BY <1>1 DEF Accept, slotVars, sessionVars, workVars, controlVars, pushVars, hbVars, bbVars,
     TypeOK, HeldInv, OwnerInv, AliveInv, WorkInv, Slot
<1>2. ASSUME NEW s \in Sessions, Receive(s) PROVE WorkInv'
  BY <1>2 DEF Receive, Goto, slotVars, sessionVars, controlVars, pushVars, accVars, hbVars,
     bbVars, TypeOK, HeldInv, OwnerInv, AliveInv, WorkInv, Slot
<1>3. ASSUME NEW s \in Sessions, ReceiveBadSize(s) PROVE WorkInv'
  BY <1>3 DEF ReceiveBadSize, Goto, slotVars, controlVars, pushVars, accVars, hbVars, bbVars,
     TypeOK, HeldInv, OwnerInv, AliveInv, WorkInv, Slot
<1>4. ASSUME NEW s \in Sessions, ReceiveFails(s) PROVE WorkInv'
  BY <1>4 DEF ReceiveFails, Goto, slotVars, controlVars, pushVars, accVars, hbVars, bbVars,
     TypeOK, HeldInv, OwnerInv, AliveInv, WorkInv, Slot
<1>5. ASSUME NEW s \in Sessions, Hello(s) PROVE WorkInv'
  BY <1>5 DEF Hello, Goto, ReadAgain, Leave, Promotable, TakeSlot, Reject, Active,
     ControlFree, slotVars, controlVars, pushVars, accVars, hbVars, bbVars, TypeOK, HeldInv,
     OwnerInv, AliveInv, WorkInv, Slot
<1>6. ASSUME NEW s \in Sessions, Promoted(s) PROVE WorkInv'
  BY <1>6 DEF Promoted, SendInitialState, Goto, ReadAgain, Leave, slotVars, accVars, hbVars,
     bbVars, TypeOK, HeldInv, OwnerInv, AliveInv, WorkInv, Slot
<1>7. ASSUME NEW s \in Sessions, Authenticate(s) PROVE WorkInv'
  BY <1>7 DEF Authenticate, Goto, ReadAgain, Leave, Promotable, TakeSlot, Reject, Active,
     ControlFree, slotVars, pushVars, accVars, hbVars, bbVars, TypeOK, HeldInv, OwnerInv,
     AliveInv, WorkInv, Slot
<1>8. ASSUME NEW s \in Sessions, Command(s) PROVE WorkInv'
  BY <1>8 DEF Command, Goto, ReadAgain, Leave, Flush, Active, ControlFree, slotVars, accVars,
     hbVars, bbVars, TypeOK, HeldInv, OwnerInv, AliveInv, WorkInv, Slot
<1>9. ASSUME NEW s \in Sessions, NoCommand(s) PROVE WorkInv'
  BY <1>9 DEF NoCommand, Goto, ReadAgain, Leave, Active, ControlFree, slotVars, controlVars,
     pushVars, accVars, hbVars, bbVars, TypeOK, HeldInv, OwnerInv, AliveInv, WorkInv, Slot
<1>10. CASE AcceptCheck
  BY <1>10 DEF AcceptCheck, slotVars, sessionVars, workVars, controlVars, pushVars, hbVars,
     bbVars, TypeOK, HeldInv, OwnerInv, AliveInv, WorkInv, Slot
<1>11. CASE AcceptBusy
  BY <1>11 DEF AcceptBusy, ControlFree, slotVars, sessionVars, workVars, controlVars,
     pushVars, hbVars, bbVars, TypeOK, HeldInv, OwnerInv, AliveInv, WorkInv, Slot
<1>12. CASE AcceptDrop
  BY <1>12 DEF AcceptDrop, ShutLast, LetGo, InSlot, OfHeartbeat, OfBaseband, Shutdown,
     Joinable, slotVars, workVars, controlVars, pushVars, hbVars, bbVars, TypeOK, HeldInv,
     OwnerInv, AliveInv, WorkInv, Slot
<1>13. CASE AcceptPublish
  BY <1>13 DEF AcceptPublish, workVars, controlVars, pushVars, hbVars, bbVars, TypeOK,
     HeldInv, OwnerInv, AliveInv, WorkInv, Slot
<1>14. CASE AcceptShut
  BY <1>14 DEF AcceptShut, Shutdown, slotVars, workVars, controlVars, pushVars, hbVars,
     bbVars, TypeOK, HeldInv, OwnerInv, AliveInv, WorkInv, Slot
<1>15. CASE AcceptJoin
  BY <1>15 DEF AcceptJoin, Joinable, slotVars, workVars, controlVars, pushVars, hbVars,
     bbVars, TypeOK, HeldInv, OwnerInv, AliveInv, WorkInv, Slot
<1>16. CASE AcceptRead
  BY <1>16 DEF AcceptRead, Goto, ReadAgain, slotVars, sessionVars, controlVars, pushVars,
     hbVars, bbVars, TypeOK, HeldInv, OwnerInv, AliveInv, WorkInv, Slot
<1>17. CASE AcceptLeave
  BY <1>17 DEF AcceptLeave, ShutLast, LetGo, InSlot, OfHeartbeat, OfBaseband, Shutdown,
     Joinable, slotVars, workVars, controlVars, pushVars, hbVars, bbVars, TypeOK, HeldInv,
     OwnerInv, AliveInv, WorkInv, Slot
<1>18. CASE HbRetire
  BY <1>18 DEF HbRetire, sessionVars, workVars, controlVars, pushVars, accVars, bbVars,
     TypeOK, HeldInv, OwnerInv, AliveInv, WorkInv, Slot
<1>19. CASE HbExpire
  BY <1>19 DEF HbExpire, sessionVars, workVars, controlVars, pushVars, accVars, bbVars,
     TypeOK, HeldInv, OwnerInv, AliveInv, WorkInv, Slot
<1>20. CASE HbLook
  BY <1>20 DEF HbLook, slotVars, sessionVars, workVars, controlVars, pushVars, accVars,
     bbVars, TypeOK, HeldInv, OwnerInv, AliveInv, WorkInv, Slot
<1>21. CASE HbDecide
  BY <1>21 DEF HbDecide, Flush, ControlFree, slotVars, workVars, controlVars, accVars, bbVars,
     TypeOK, HeldInv, OwnerInv, AliveInv, WorkInv, Slot
<1>22. CASE HbStop
  BY <1>22 DEF HbStop, ControlFree, slotVars, sessionVars, workVars, pushVars, accVars,
     bbVars, TypeOK, HeldInv, OwnerInv, AliveInv, WorkInv, Slot
<1>23. CASE HbClose
  BY <1>23 DEF HbClose, Shutdown, slotVars, workVars, controlVars, pushVars, accVars, bbVars,
     TypeOK, HeldInv, OwnerInv, AliveInv, WorkInv, Slot
<1>24. CASE HbJoin
  BY <1>24 DEF HbJoin, Joinable, slotVars, workVars, controlVars, pushVars, accVars, bbVars,
     TypeOK, HeldInv, OwnerInv, AliveInv, WorkInv, Slot
<1>25. CASE HbClear
  BY <1>25 DEF HbClear, OfAccept, OfBaseband, workVars, controlVars, pushVars, accVars,
     bbVars, TypeOK, HeldInv, OwnerInv, AliveInv, WorkInv, Slot
<1>26. ASSUME NEW s \in Sessions, HbDrop(s) PROVE WorkInv'
  BY <1>26 DEF HbDrop, ShutLast, OfAccept, OfBaseband, Shutdown, Joinable, slotVars, workVars,
     controlVars, pushVars, accVars, bbVars, TypeOK, HeldInv, OwnerInv, AliveInv, WorkInv,
     Slot
<1>27. CASE BasebandSnapshot
  BY <1>27 DEF BasebandSnapshot, slotVars, sessionVars, workVars, controlVars, pushVars,
     accVars, hbVars, TypeOK, HeldInv, OwnerInv, AliveInv, WorkInv, Slot
<1>28. CASE BasebandWrite
  BY <1>28 DEF BasebandWrite, slotVars, workVars, controlVars, pushVars, accVars, hbVars,
     TypeOK, HeldInv, OwnerInv, AliveInv, WorkInv, Slot
<1>29. CASE BasebandDrop
  BY <1>29 DEF BasebandDrop, ShutLast, LetGo, InSlot, OfAccept, OfHeartbeat, Shutdown,
     Joinable, slotVars, workVars, controlVars, pushVars, accVars, hbVars, TypeOK, HeldInv,
     OwnerInv, AliveInv, WorkInv, Slot
<1>30. CASE \/ BasebandData \/ SetInputSampleRate \/ CooldownEnds
            \/ UNCHANGED vars
  <2>1. UNCHANGED <<current, retired, open, ready, authenticated, wpc, acc, accCur,
                    accNew, hb, hbS, bbS>>
    BY <1>30 DEF BasebandData, SetInputSampleRate, CooldownEnds, slotVars, sessionVars,
       workVars, controlVars, pushVars, accVars, hbVars, bbVars, vars
  <2> QED
    BY <2>1 DEF TypeOK, HeldInv, OwnerInv, AliveInv, WorkInv, Slot
<1> QED
  BY <1>1, <1>2, <1>3, <1>4, <1>5, <1>6, <1>7, <1>8, <1>9, <1>10, <1>11, <1>12, <1>13, <1>14,
     <1>15, <1>16, <1>17, <1>18, <1>19, <1>20, <1>21, <1>22, <1>23, <1>24, <1>25, <1>26,
     <1>27, <1>28, <1>29, <1>30 DEF Next, Worker, AcceptStep, Heartbeat, Baseband

\* Only what has been proved is believed.
LEMMA ProofInvNext ==
  ASSUME IInv, [Next]_vars
  PROVE  ProofInv'
<1> USE SessionAssumption, ConfigAssumption DEF IInv
<1>1. ASSUME NEW s \in Sessions, Receive(s) PROVE ProofInv'
  BY <1>1 DEF Receive, Goto, slotVars, sessionVars, controlVars, pushVars, accVars, hbVars,
     bbVars, TypeOK, HeldInv, OwnerInv, AliveInv, WorkInv, ProofInv, Slot
<1>2. ASSUME NEW s \in Sessions, ReceiveBadSize(s) PROVE ProofInv'
  BY <1>2 DEF ReceiveBadSize, Goto, slotVars, controlVars, pushVars, accVars, hbVars, bbVars,
     TypeOK, HeldInv, OwnerInv, AliveInv, WorkInv, ProofInv, Slot
<1>3. ASSUME NEW s \in Sessions, ReceiveFails(s) PROVE ProofInv'
  BY <1>3 DEF ReceiveFails, Goto, slotVars, controlVars, pushVars, accVars, hbVars, bbVars,
     TypeOK, HeldInv, OwnerInv, AliveInv, WorkInv, ProofInv, Slot
<1>4. ASSUME NEW s \in Sessions, Hello(s) PROVE ProofInv'
  BY <1>4 DEF Hello, Goto, ReadAgain, Leave, Promotable, TakeSlot, Reject, Active,
     ControlFree, slotVars, controlVars, pushVars, accVars, hbVars, bbVars, TypeOK, HeldInv,
     OwnerInv, AliveInv, WorkInv, ProofInv, Slot
<1>5. ASSUME NEW s \in Sessions, Promoted(s) PROVE ProofInv'
  BY <1>5 DEF Promoted, SendInitialState, Goto, ReadAgain, Leave, slotVars, accVars, hbVars,
     bbVars, TypeOK, HeldInv, OwnerInv, AliveInv, WorkInv, ProofInv, Slot
<1>6. ASSUME NEW s \in Sessions, Authenticate(s) PROVE ProofInv'
  BY <1>6 DEF Authenticate, Goto, ReadAgain, Leave, Promotable, TakeSlot, Reject, Active,
     ControlFree, slotVars, pushVars, accVars, hbVars, bbVars, TypeOK, HeldInv, OwnerInv,
     AliveInv, WorkInv, ProofInv, Slot
<1>7. ASSUME NEW s \in Sessions, Command(s) PROVE ProofInv'
  BY <1>7 DEF Command, Goto, ReadAgain, Leave, Flush, Active, ControlFree, slotVars, accVars,
     hbVars, bbVars, TypeOK, HeldInv, OwnerInv, AliveInv, WorkInv, ProofInv, Slot
<1>8. ASSUME NEW s \in Sessions, NoCommand(s) PROVE ProofInv'
  BY <1>8 DEF NoCommand, Goto, ReadAgain, Leave, Active, ControlFree, slotVars, controlVars,
     pushVars, accVars, hbVars, bbVars, TypeOK, HeldInv, OwnerInv, AliveInv, WorkInv,
     ProofInv, Slot
<1>9. CASE AcceptPublish
  BY <1>9 DEF AcceptPublish, workVars, controlVars, pushVars, hbVars, bbVars, TypeOK, HeldInv,
     OwnerInv, AliveInv, WorkInv, ProofInv, Slot
<1>10. CASE AcceptRead
  BY <1>10 DEF AcceptRead, Goto, ReadAgain, slotVars, sessionVars, controlVars, pushVars,
     hbVars, bbVars, TypeOK, HeldInv, OwnerInv, AliveInv, WorkInv, ProofInv, Slot
<1>11. CASE HbRetire
  BY <1>11 DEF HbRetire, sessionVars, workVars, controlVars, pushVars, accVars, bbVars,
     TypeOK, HeldInv, OwnerInv, AliveInv, WorkInv, ProofInv, Slot
<1>12. CASE HbExpire
  BY <1>12 DEF HbExpire, sessionVars, workVars, controlVars, pushVars, accVars, bbVars,
     TypeOK, HeldInv, OwnerInv, AliveInv, WorkInv, ProofInv, Slot
<1>13. CASE HbLook
  BY <1>13 DEF HbLook, slotVars, sessionVars, workVars, controlVars, pushVars, accVars,
     bbVars, TypeOK, HeldInv, OwnerInv, AliveInv, WorkInv, ProofInv, Slot
<1>14. CASE HbDecide
  BY <1>14 DEF HbDecide, Flush, ControlFree, slotVars, workVars, controlVars, accVars, bbVars,
     TypeOK, HeldInv, OwnerInv, AliveInv, WorkInv, ProofInv, Slot
<1>15. CASE HbStop
  BY <1>15 DEF HbStop, ControlFree, slotVars, sessionVars, workVars, pushVars, accVars,
     bbVars, TypeOK, HeldInv, OwnerInv, AliveInv, WorkInv, ProofInv, Slot
<1>16. CASE HbClose
  BY <1>16 DEF HbClose, Shutdown, slotVars, workVars, controlVars, pushVars, accVars, bbVars,
     TypeOK, HeldInv, OwnerInv, AliveInv, WorkInv, ProofInv, Slot
<1>17. CASE HbJoin
  BY <1>17 DEF HbJoin, Joinable, slotVars, workVars, controlVars, pushVars, accVars, bbVars,
     TypeOK, HeldInv, OwnerInv, AliveInv, WorkInv, ProofInv, Slot
<1>18. CASE HbClear
  BY <1>18 DEF HbClear, OfAccept, OfBaseband, workVars, controlVars, pushVars, accVars,
     bbVars, TypeOK, HeldInv, OwnerInv, AliveInv, WorkInv, ProofInv, Slot
<1>19. ASSUME NEW s \in Sessions, HbDrop(s) PROVE ProofInv'
  BY <1>19 DEF HbDrop, ShutLast, OfAccept, OfBaseband, Shutdown, Joinable, slotVars, workVars,
     controlVars, pushVars, accVars, bbVars, TypeOK, HeldInv, OwnerInv, AliveInv, WorkInv,
     ProofInv, Slot
<1>20. CASE \/ \E s \in Sessions : Accept(s)
            \/ AcceptCheck \/ AcceptBusy \/ AcceptDrop \/ AcceptShut \/ AcceptJoin
            \/ AcceptLeave \/ BasebandData \/ BasebandSnapshot \/ BasebandWrite \/ BasebandDrop
            \/ SetInputSampleRate \/ CooldownEnds
            \/ UNCHANGED vars
  <2>1. UNCHANGED <<current, pending, ready, authenticated, wpc, hb, hbS>>
    BY <1>20 DEF Accept, AcceptCheck, AcceptBusy, AcceptDrop, AcceptShut, AcceptJoin,
       AcceptLeave, BasebandData, BasebandSnapshot, BasebandWrite, BasebandDrop,
       SetInputSampleRate, CooldownEnds, ShutLast, LetGo, InSlot, OfAccept, OfHeartbeat,
       OfBaseband, Shutdown, Joinable, ControlFree, slotVars, sessionVars, workVars,
       controlVars, pushVars, accVars, hbVars, bbVars, vars
  <2> QED
    BY <2>1 DEF TypeOK, HeldInv, OwnerInv, AliveInv, WorkInv, ProofInv, Slot
<1> QED
  BY <1>1, <1>2, <1>3, <1>4, <1>5, <1>6, <1>7, <1>8, <1>9, <1>10, <1>11, <1>12, <1>13, <1>14,
     <1>15, <1>16, <1>17, <1>18, <1>19, <1>20 DEF Next, Worker, AcceptStep, Heartbeat,
     Baseband

\* The shared state reflects the holder of the slot.
LEMMA StateIsOwnersNext ==
  ASSUME IInv, [Next]_vars
  PROVE  StateIsOwners'
<1> USE SessionAssumption, ConfigAssumption DEF IInv
<1>1. ASSUME NEW s \in Sessions, Receive(s) PROVE StateIsOwners'
  BY <1>1 DEF Receive, Goto, slotVars, sessionVars, controlVars, pushVars, accVars, hbVars,
     bbVars, TypeOK, StateIsOwners, ProofInv, ControlFree, Slot
<1>2. ASSUME NEW s \in Sessions, ReceiveBadSize(s) PROVE StateIsOwners'
  BY <1>2 DEF ReceiveBadSize, Goto, slotVars, controlVars, pushVars, accVars, hbVars, bbVars,
     TypeOK, StateIsOwners, ProofInv, ControlFree, Slot
<1>3. ASSUME NEW s \in Sessions, ReceiveFails(s) PROVE StateIsOwners'
  BY <1>3 DEF ReceiveFails, Goto, slotVars, controlVars, pushVars, accVars, hbVars, bbVars,
     TypeOK, StateIsOwners, ProofInv, ControlFree, Slot
<1>4. ASSUME NEW s \in Sessions, Hello(s) PROVE StateIsOwners'
  BY <1>4 DEF Hello, Goto, ReadAgain, Leave, Promotable, TakeSlot, Reject, Active,
     ControlFree, slotVars, controlVars, pushVars, accVars, hbVars, bbVars, TypeOK,
     StateIsOwners, ProofInv, ControlFree, Slot
<1>5. ASSUME NEW s \in Sessions, Promoted(s) PROVE StateIsOwners'
  BY <1>5 DEF Promoted, SendInitialState, Goto, ReadAgain, Leave, slotVars, accVars, hbVars,
     bbVars, TypeOK, StateIsOwners, ProofInv, ControlFree, Slot
<1>6. ASSUME NEW s \in Sessions, Authenticate(s) PROVE StateIsOwners'
  BY <1>6 DEF Authenticate, Goto, ReadAgain, Leave, Promotable, TakeSlot, Reject, Active,
     ControlFree, slotVars, pushVars, accVars, hbVars, bbVars, TypeOK, StateIsOwners,
     ProofInv, ControlFree, Slot
<1>7. ASSUME NEW s \in Sessions, Command(s) PROVE StateIsOwners'
  BY <1>7 DEF Command, Goto, ReadAgain, Leave, Flush, Active, ControlFree, slotVars, accVars,
     hbVars, bbVars, TypeOK, StateIsOwners, ProofInv, ControlFree, Slot
<1>8. ASSUME NEW s \in Sessions, NoCommand(s) PROVE StateIsOwners'
  BY <1>8 DEF NoCommand, Goto, ReadAgain, Leave, Active, ControlFree, slotVars, controlVars,
     pushVars, accVars, hbVars, bbVars, TypeOK, StateIsOwners, ProofInv, ControlFree, Slot
<1>9. CASE AcceptRead
  <2>1. \A s \in Sessions : wpc[s] = "promoted" => wpc'[s] = "promoted"
    BY <1>9 DEF AcceptRead, ReadAgain, Goto, TypeOK, Slot, HeldInv, WorkInv
  <2> QED
    BY <1>9, <2>1 DEF AcceptRead, slotVars, controlVars, StateIsOwners, ControlFree
<1>10. CASE HbClear
  BY <1>10 DEF HbClear, OfAccept, OfBaseband, workVars, controlVars, pushVars, accVars,
     bbVars, TypeOK, StateIsOwners, ProofInv, ControlFree, Slot
<1>11. CASE \/ \E s \in Sessions : Accept(s) \/ HbDrop(s)
            \/ AcceptCheck \/ AcceptBusy \/ AcceptDrop \/ AcceptPublish \/ AcceptShut
            \/ AcceptJoin \/ AcceptLeave \/ HbRetire \/ HbExpire \/ HbLook
            \/ HbDecide \/ HbStop \/ HbClose \/ HbJoin \/ BasebandData
            \/ BasebandSnapshot \/ BasebandWrite \/ BasebandDrop \/ SetInputSampleRate \/ CooldownEnds
            \/ UNCHANGED vars
  <2>1. UNCHANGED <<current, wpc, actor>>
    BY <1>11 DEF Accept, AcceptCheck, AcceptBusy, AcceptDrop, AcceptPublish, AcceptShut,
       AcceptJoin, AcceptLeave, HbRetire, HbExpire, HbLook, HbDecide, HbStop, HbClose, HbJoin,
       HbDrop, BasebandData, BasebandSnapshot, BasebandWrite, BasebandDrop,
       SetInputSampleRate, CooldownEnds, ShutLast, LetGo, InSlot, OfAccept, OfHeartbeat,
       OfBaseband, Shutdown, Joinable, Flush, ControlFree, slotVars, sessionVars, workVars,
       controlVars, pushVars, accVars, hbVars, bbVars, vars
  <2> QED
    BY <2>1 DEF TypeOK, StateIsOwners, ProofInv, ControlFree, Slot
<1> QED
  BY <1>1, <1>2, <1>3, <1>4, <1>5, <1>6, <1>7, <1>8, <1>9, <1>10, <1>11 DEF Next, Worker,
     AcceptStep, Heartbeat, Baseband

\* The holder of the slot knows the rate, or will.
LEMMA ClientKnowsRateNext ==
  ASSUME IInv, [Next]_vars
  PROVE  ClientKnowsRate'
<1> USE SessionAssumption, ConfigAssumption DEF IInv
<1>1. ASSUME NEW s \in Sessions, Receive(s) PROVE ClientKnowsRate'
  BY <1>1 DEF Receive, Goto, slotVars, sessionVars, controlVars, pushVars, accVars, hbVars,
     bbVars, TypeOK, ClientKnowsRate, OwnerInv, AliveInv, HeldInv, WorkInv, ProofInv,
     ControlFree, Slot
<1>2. ASSUME NEW s \in Sessions, ReceiveBadSize(s) PROVE ClientKnowsRate'
  BY <1>2 DEF ReceiveBadSize, Goto, slotVars, controlVars, pushVars, accVars, hbVars, bbVars,
     TypeOK, ClientKnowsRate, OwnerInv, AliveInv, HeldInv, WorkInv, ProofInv, ControlFree,
     Slot
<1>3. ASSUME NEW s \in Sessions, ReceiveFails(s) PROVE ClientKnowsRate'
  BY <1>3 DEF ReceiveFails, Goto, slotVars, controlVars, pushVars, accVars, hbVars, bbVars,
     TypeOK, ClientKnowsRate, OwnerInv, AliveInv, HeldInv, WorkInv, ProofInv, ControlFree,
     Slot
<1>4. ASSUME NEW s \in Sessions, Hello(s) PROVE ClientKnowsRate'
  BY <1>4 DEF Hello, Goto, ReadAgain, Leave, Promotable, TakeSlot, Reject, Active,
     ControlFree, slotVars, controlVars, pushVars, accVars, hbVars, bbVars, TypeOK,
     ClientKnowsRate, OwnerInv, AliveInv, HeldInv, WorkInv, ProofInv, ControlFree, Slot
<1>5. ASSUME NEW s \in Sessions, Promoted(s) PROVE ClientKnowsRate'
  BY <1>5 DEF Promoted, SendInitialState, Goto, ReadAgain, Leave, slotVars, accVars, hbVars,
     bbVars, TypeOK, ClientKnowsRate, OwnerInv, AliveInv, HeldInv, WorkInv, ProofInv,
     ControlFree, Slot
<1>6. ASSUME NEW s \in Sessions, Authenticate(s) PROVE ClientKnowsRate'
  BY <1>6 DEF Authenticate, Goto, ReadAgain, Leave, Promotable, TakeSlot, Reject, Active,
     ControlFree, slotVars, pushVars, accVars, hbVars, bbVars, TypeOK, ClientKnowsRate,
     OwnerInv, AliveInv, HeldInv, WorkInv, ProofInv, ControlFree, Slot
<1>7. ASSUME NEW s \in Sessions, Command(s) PROVE ClientKnowsRate'
  BY <1>7 DEF Command, Goto, ReadAgain, Leave, Flush, Active, ControlFree, slotVars, accVars,
     hbVars, bbVars, TypeOK, ClientKnowsRate, OwnerInv, AliveInv, HeldInv, WorkInv, ProofInv,
     ControlFree, Slot
<1>8. ASSUME NEW s \in Sessions, NoCommand(s) PROVE ClientKnowsRate'
  BY <1>8 DEF NoCommand, Goto, ReadAgain, Leave, Active, ControlFree, slotVars, controlVars,
     pushVars, accVars, hbVars, bbVars, TypeOK, ClientKnowsRate, OwnerInv, AliveInv, HeldInv,
     WorkInv, ProofInv, ControlFree, Slot
<1>9. CASE AcceptDrop
  BY <1>9 DEF AcceptDrop, ShutLast, LetGo, InSlot, OfHeartbeat, OfBaseband, Shutdown,
     Joinable, slotVars, workVars, controlVars, pushVars, hbVars, bbVars, TypeOK,
     ClientKnowsRate, OwnerInv, AliveInv, HeldInv, WorkInv, ProofInv, ControlFree, Slot
<1>10. CASE AcceptPublish
  BY <1>10 DEF AcceptPublish, workVars, controlVars, pushVars, hbVars, bbVars, TypeOK,
     ClientKnowsRate, OwnerInv, AliveInv, HeldInv, WorkInv, ProofInv, ControlFree, Slot
<1>11. CASE AcceptJoin
  BY <1>11 DEF AcceptJoin, Joinable, slotVars, workVars, controlVars, pushVars, hbVars,
     bbVars, TypeOK, ClientKnowsRate, OwnerInv, AliveInv, HeldInv, WorkInv, ProofInv,
     ControlFree, Slot
<1>12. CASE AcceptRead
  BY <1>12 DEF AcceptRead, Goto, ReadAgain, slotVars, sessionVars, controlVars, pushVars,
     hbVars, bbVars, TypeOK, ClientKnowsRate, OwnerInv, AliveInv, HeldInv, WorkInv, ProofInv,
     ControlFree, Slot
<1>13. CASE AcceptLeave
  BY <1>13 DEF AcceptLeave, ShutLast, LetGo, InSlot, OfHeartbeat, OfBaseband, Shutdown,
     Joinable, slotVars, workVars, controlVars, pushVars, hbVars, bbVars, TypeOK,
     ClientKnowsRate, OwnerInv, AliveInv, HeldInv, WorkInv, ProofInv, ControlFree, Slot
<1>14. CASE HbDecide
  BY <1>14 DEF HbDecide, Flush, ControlFree, slotVars, workVars, controlVars, accVars, bbVars,
     TypeOK, ClientKnowsRate, OwnerInv, AliveInv, HeldInv, WorkInv, ProofInv, ControlFree,
     Slot
<1>15. CASE HbJoin
  BY <1>15 DEF HbJoin, Joinable, slotVars, workVars, controlVars, pushVars, accVars, bbVars,
     TypeOK, ClientKnowsRate, OwnerInv, AliveInv, HeldInv, WorkInv, ProofInv, ControlFree,
     Slot
<1>16. CASE HbClear
  BY <1>16 DEF HbClear, OfAccept, OfBaseband, workVars, controlVars, pushVars, accVars,
     bbVars, TypeOK, ClientKnowsRate, OwnerInv, AliveInv, HeldInv, WorkInv, ProofInv,
     ControlFree, Slot
<1>17. ASSUME NEW s \in Sessions, HbDrop(s) PROVE ClientKnowsRate'
  BY <1>17 DEF HbDrop, ShutLast, OfAccept, OfBaseband, Shutdown, Joinable, slotVars, workVars,
     controlVars, pushVars, accVars, bbVars, TypeOK, ClientKnowsRate, OwnerInv, AliveInv,
     HeldInv, WorkInv, ProofInv, ControlFree, Slot
<1>18. CASE BasebandWrite
  BY <1>18 DEF BasebandWrite, slotVars, workVars, controlVars, pushVars, accVars, hbVars,
     TypeOK, ClientKnowsRate, OwnerInv, AliveInv, HeldInv, WorkInv, ProofInv, ControlFree,
     Slot
<1>19. CASE BasebandDrop
  BY <1>19 DEF BasebandDrop, ShutLast, LetGo, InSlot, OfAccept, OfHeartbeat, Shutdown,
     Joinable, slotVars, workVars, controlVars, pushVars, accVars, hbVars, TypeOK,
     ClientKnowsRate, OwnerInv, AliveInv, HeldInv, WorkInv, ProofInv, ControlFree, Slot
<1>20. CASE SetInputSampleRate
  BY <1>20 DEF SetInputSampleRate, slotVars, sessionVars, workVars, controlVars, accVars,
     hbVars, bbVars, TypeOK, ClientKnowsRate, OwnerInv, AliveInv, HeldInv, WorkInv, ProofInv,
     ControlFree, Slot
<1>21. CASE \/ \E s \in Sessions : Accept(s)
            \/ AcceptCheck \/ AcceptBusy \/ AcceptShut \/ HbRetire \/ HbExpire
            \/ HbLook \/ HbStop \/ HbClose \/ BasebandData \/ BasebandSnapshot
            \/ CooldownEnds
            \/ UNCHANGED vars
  <2>1. UNCHANGED <<current, open, told, wpc, rate, dirty>>
    BY <1>21 DEF Accept, AcceptCheck, AcceptBusy, AcceptShut, HbRetire, HbExpire, HbLook,
       HbStop, HbClose, BasebandData, BasebandSnapshot, CooldownEnds, Shutdown, ControlFree,
       slotVars, sessionVars, workVars, controlVars, pushVars, accVars, hbVars, bbVars, vars
  <2> QED
    BY <2>1 DEF TypeOK, ClientKnowsRate, OwnerInv, AliveInv, HeldInv, WorkInv, ProofInv,
       ControlFree, Slot
<1> QED
  BY <1>1, <1>2, <1>3, <1>4, <1>5, <1>6, <1>7, <1>8, <1>9, <1>10, <1>11, <1>12, <1>13, <1>14,
     <1>15, <1>16, <1>17, <1>18, <1>19, <1>20, <1>21 DEF Next, Worker, AcceptStep, Heartbeat,
     Baseband

\* Every step preserves the inductive invariant.
LEMMA NextIInv == IInv /\ [Next]_vars => IInv'
  BY TypeOKNext, HeldInvNext, OwnerInvNext, AliveInvNext, WorkInvNext, ProofInvNext,
     StateIsOwnersNext, ClientKnowsRateNext DEF IInv

-----------------------------------------------------------------------------
(***************************************************************************)
(* The theorems.                                                           *)
(***************************************************************************)

\* In every reachable state the slots, the threads and the workers stand in
\* the relations of IInv.
THEOREM SessionInvariant == Spec => []IInv
  BY InitIInv, NextIInv, PTL DEF Spec

\* The variables keep their types.
THEOREM SessionTypeOK == Spec => []TypeOK
<1>1. IInv => TypeOK
  BY DEF IInv
<1> QED
  BY <1>1, SessionInvariant, PTL

\* Whatever state the server has was put there by the client that holds the
\* slot (server.cpp commandHandler, promoteAndResetLocked).
THEOREM OnlyTheOwnerActs == Spec => []StateIsOwners
<1>1. IInv => StateIsOwners
  BY DEF IInv
<1> QED
  BY <1>1, SessionInvariant, PTL

\* A destroyed session is in no slot, no thread holds it (the accept thread's
\* snapshot and new session included), and its worker runs no handler
\* (server.cpp _clientHandler, heartbeatTick, _testServerHandler).
THEOREM SessionsAreNotUsedAfterDestruction == Spec => []NoUseAfterDestroy
<1>1. IInv => NoUseAfterDestroy
  BY SessionAssumption DEF IInv, TypeOK, AccPc, HeldInv, AliveInv, NoUseAfterDestroy
<1> QED
  BY <1>1, SessionInvariant, PTL

\* The client that holds the slot has the current sample rate or will be sent
\* it (server.cpp sendInitialStateLocked, flushPushedStateLocked).
THEOREM RateReachesTheClient == Spec => []ClientKnowsRate
<1>1. IInv => ClientKnowsRate
  BY DEF IInv
<1> QED
  BY <1>1, SessionInvariant, PTL

\* Only a session that has proved itself takes the slot from another client,
\* and one whose stream runs loses it only to the heartbeat (server.cpp
\* promoteSessionLocked).
THEOREM SlotIsTakenByProof == Spec => DisplacedByProof
<1>1. [Next]_vars => [Displacement]_vars
  <2> SUFFICES ASSUME Next, current # NoSession, current' # current PROVE Displacement
    BY DEF Displacement
  <2>1. CASE \E s \in Sessions : Hello(s)
    BY <2>1 DEF Hello, TakeSlot, Promotable, slotVars, Displacement
  <2>2. CASE \E s \in Sessions : Authenticate(s)
    BY <2>2 DEF Authenticate, TakeSlot, Promotable, slotVars, Displacement
  <2>3. CASE HbClear
    BY <2>3 DEF HbClear, Displacement
  <2> QED
    BY <2>1, <2>2, <2>3 DEF Next, Accept, Receive, ReceiveBadSize, ReceiveFails, Worker,
       Promoted, SendInitialState, Command, NoCommand, AcceptStep, AcceptCheck, AcceptBusy,
       AcceptDrop, AcceptPublish, AcceptShut, AcceptJoin, AcceptRead, AcceptLeave, Heartbeat,
       HbRetire, HbExpire, HbLook, HbDecide, HbStop, HbClose, HbJoin, HbDrop, BasebandData,
       Baseband, BasebandSnapshot, BasebandWrite, BasebandDrop, SetInputSampleRate,
       CooldownEnds, slotVars
<1> QED
  BY <1>1, PTL DEF Spec, DisplacedByProof

-----------------------------------------------------------------------------
(***************************************************************************)
(* What the reclaiming of dead sessions rests on.                          *)
(***************************************************************************)

\* Every session that was accepted and not destroyed is in a slot, retired, or
\* in the hands of a thread that destroys it: no reference is dropped by
\* everybody in the belief that another one has it.
NoOrphan ==
  alive \subseteq {current, pending, accCur, accNew, accOld, bbS} \cup retired \cup hbDoomed

\* A thread that joins a read worker has shut its socket down before.
JoinInv ==
  /\ acc = "join" => accOld \in closing
  /\ hb = "join" => hbS \in closing

\* The steps a read worker has left once its socket is shut down.
WorkLeft(s) ==
  CASE wpc[s] = "handle" -> 3
    [] wpc[s] \in {"none", "promoted"} -> 2
    [] wpc[s] = "idle" -> 1
    [] wpc[s] = "done" -> 0

\* Every step of a read worker that is joined brings it nearer to the end: it
\* leaves the handler it is in and reads no other packet.
JoinCountsDown ==
  [][\A s \in closing : s \in closing' /\ (wpc'[s] # wpc[s] => WorkLeft(s)' < WorkLeft(s))]_vars

\* Whoever lets a session go leaves it to another owner or destroys it.
LEMMA NoOrphanStep ==
  ASSUME IInv, NoOrphan, [Next]_vars
  PROVE  NoOrphan'
<1> USE SessionAssumption DEF NoOrphan
<1>1. TypeOK /\ HeldInv /\ OwnerInv /\ AliveInv
  BY DEF IInv
<1>2. CASE AcceptPublish
  BY <1>1, <1>2 DEF AcceptPublish, bbVars, hbVars, HeldInv, TypeOK
<1>3. CASE AcceptJoin
  BY <1>3 DEF AcceptJoin, slotVars, bbVars, hbVars
<1>4. ASSUME NEW s \in Sessions, Accept(s) PROVE NoOrphan'
  BY <1>1, <1>4 DEF Accept, slotVars, sessionVars, bbVars, hbVars, HeldInv
<1>5. CASE AcceptBusy
  BY <1>1, <1>5 DEF AcceptBusy, slotVars, sessionVars, bbVars, hbVars, HeldInv, AliveInv
<1>6. CASE AcceptDrop
  BY <1>1, <1>6 DEF AcceptDrop, ShutLast, LetGo, InSlot, OfHeartbeat, OfBaseband, slotVars,
     bbVars, hbVars, HeldInv, OwnerInv
<1>7. CASE AcceptLeave
  BY <1>1, <1>7 DEF AcceptLeave, ShutLast, LetGo, InSlot, OfHeartbeat, OfBaseband, slotVars,
     bbVars, hbVars, HeldInv, OwnerInv
<1>8. ASSUME NEW s \in Sessions, Hello(s) \/ Authenticate(s) PROVE NoOrphan'
  <2>1. /\ UNCHANGED <<alive, accCur, accNew, accOld, bbS, hbDoomed>>
        /\ UNCHANGED slotVars \/ (TakeSlot(s) /\ Promotable(s))
    <3>1. CASE Hello(s)
      BY <3>1 DEF Hello, accVars, bbVars, hbVars
    <3>2. CASE Authenticate(s)
      BY <3>2 DEF Authenticate, accVars, bbVars, hbVars
    <3> QED
      BY <1>8, <3>1, <3>2
  <2> QED
    BY <2>1 DEF TakeSlot, Promotable, slotVars
<1>9. CASE HbRetire
  BY <1>1, <1>9 DEF HbRetire, sessionVars, accVars, bbVars, HeldInv
<1>10. CASE HbExpire
  BY <1>1, <1>10 DEF HbExpire, sessionVars, accVars, bbVars, HeldInv
<1>11. CASE HbClear
  BY <1>1, <1>11 DEF HbClear, OfAccept, OfBaseband, accVars, bbVars, HeldInv, OwnerInv
<1>12. ASSUME NEW s \in Sessions, HbDrop(s) PROVE NoOrphan'
  BY <1>12 DEF HbDrop, ShutLast, OfAccept, OfBaseband, slotVars, accVars, bbVars
<1>13. CASE BasebandSnapshot
  BY <1>1, <1>13 DEF BasebandSnapshot, slotVars, sessionVars, accVars, hbVars, HeldInv, TypeOK
<1>14. CASE BasebandDrop
  BY <1>1, <1>14 DEF BasebandDrop, ShutLast, LetGo, InSlot, OfAccept, OfHeartbeat, slotVars,
     accVars, hbVars, OwnerInv
<1>15. CASE \/ \E s \in Sessions : \/ Receive(s) \/ ReceiveBadSize(s) \/ ReceiveFails(s)
                                   \/ Promoted(s) \/ Command(s) \/ NoCommand(s)
            \/ AcceptCheck \/ AcceptShut \/ AcceptRead
            \/ HbLook \/ HbDecide \/ HbStop \/ HbClose \/ HbJoin
            \/ BasebandData \/ BasebandWrite \/ SetInputSampleRate \/ CooldownEnds
            \/ UNCHANGED vars
  <2>1. UNCHANGED <<alive, current, pending, accCur, accNew, accOld, bbS, retired, hbDoomed>>
    BY <1>15 DEF Receive, ReceiveBadSize, ReceiveFails, Promoted, SendInitialState, Command,
       NoCommand, AcceptCheck, AcceptShut, AcceptRead, HbLook, HbDecide, HbStop, HbClose,
       HbJoin, BasebandData, BasebandWrite, SetInputSampleRate, CooldownEnds, slotVars,
       sessionVars, accVars, hbVars, bbVars, vars
  <2> QED
    BY <2>1
<1> QED
  BY <1>2, <1>3, <1>4, <1>5, <1>6, <1>7, <1>8, <1>9, <1>10, <1>11, <1>12, <1>13, <1>14, <1>15
     DEF Next, Worker, AcceptStep, Heartbeat, Baseband

\* No thread drops the last reference to a session without destroying it: for
\* any number of connections every session that is alive is in a slot, retired
\* or held by a thread that is going to destroy it (server.cpp _clientHandler,
\* promoteSessionLocked, heartbeatTick, _testServerHandler).
THEOREM NoSessionIsOrphaned == Spec => []NoOrphan
<1>1. Init => NoOrphan
  BY DEF Init, NoOrphan
<1> QED
  BY <1>1, NoOrphanStep, SessionInvariant, PTL DEF Spec

\* Every join is of a worker whose socket was shut down (ConnClass::close()).
THEOREM JoinsAreOfShutSockets == Spec => []JoinInv
<1>1. Init => JoinInv
  BY DEF Init, JoinInv
<1>2. ASSUME JoinInv, [Next]_vars PROVE JoinInv'
  <2>1. closing \subseteq closing'
    BY <1>2 DEF Next, Accept, Receive, ReceiveBadSize, ReceiveFails, Worker, Hello,
       Authenticate, Promoted, SendInitialState, Command, NoCommand, AcceptStep, AcceptCheck,
       AcceptBusy, AcceptDrop, AcceptPublish, AcceptShut, AcceptJoin, AcceptRead, AcceptLeave,
       Heartbeat, HbRetire, HbExpire, HbLook, HbDecide, HbStop, HbClose, HbJoin, HbClear,
       HbDrop, BasebandData, Baseband, BasebandSnapshot, BasebandWrite, BasebandDrop,
       SetInputSampleRate, CooldownEnds, ShutLast, LetGo, Shutdown, sessionVars, vars
  <2>2. CASE AcceptShut
    BY <1>2, <2>1, <2>2 DEF AcceptShut, Shutdown, hbVars, JoinInv
  <2>3. CASE HbClose
    BY <1>2, <2>1, <2>3 DEF HbClose, Shutdown, accVars, JoinInv
  <2>4. CASE [Next]_vars /\ ~AcceptShut /\ ~HbClose
    <3>1. /\ acc' = "join" => acc = "join" /\ accOld' = accOld
          /\ hb' = "join" => hb = "join" /\ hbS' = hbS
      BY <2>4 DEF Next, Accept, Receive, ReceiveBadSize, ReceiveFails, Worker, Hello,
         Authenticate, Promoted, SendInitialState, Command, NoCommand, AcceptStep, AcceptCheck,
         AcceptBusy, AcceptDrop, AcceptPublish, AcceptJoin, AcceptRead, AcceptLeave, Heartbeat,
         HbRetire, HbExpire, HbLook, HbDecide, HbStop, HbJoin, HbClear, HbDrop, BasebandData,
         Baseband, BasebandSnapshot, BasebandWrite, BasebandDrop, SetInputSampleRate,
         CooldownEnds, accVars, hbVars, vars
    <3> QED
      BY <1>2, <2>1, <3>1 DEF JoinInv
  <2> QED
    BY <1>2, <2>2, <2>3, <2>4
<1> QED
  BY <1>1, <1>2, PTL DEF Spec

\* A join never waits for long: once its socket is shut down a read worker
\* makes at most three more steps, whoever joins it, and the one handler it may
\* be in waits for controlMtx only, which no thread holds across a join.
THEOREM JoinsCountDown == Spec => JoinCountsDown
<1>1. ASSUME IInv, [Next]_vars
      PROVE  [\A s \in closing : s \in closing'
                /\ (wpc'[s] # wpc[s] => WorkLeft(s)' < WorkLeft(s))]_vars
  <2> SUFFICES ASSUME Next, NEW s \in closing
               PROVE  s \in closing' /\ (wpc'[s] # wpc[s] => WorkLeft(s)' < WorkLeft(s))
    BY <1>1
  <2>1. TypeOK /\ WorkInv /\ s \in Sessions /\ HeldInv
    BY <1>1 DEF IInv, TypeOK
  <2>2. s \in closing'
    BY DEF Next, Accept, Receive, ReceiveBadSize, ReceiveFails, Worker, Hello, Authenticate,
       Promoted, SendInitialState, Command, NoCommand, AcceptStep, AcceptCheck, AcceptBusy,
       AcceptDrop, AcceptPublish, AcceptShut, AcceptJoin, AcceptRead, AcceptLeave, Heartbeat,
       HbRetire, HbExpire, HbLook, HbDecide, HbStop, HbClose, HbJoin, HbClear, HbDrop,
       BasebandData, Baseband, BasebandSnapshot, BasebandWrite, BasebandDrop,
       SetInputSampleRate, CooldownEnds, ShutLast, LetGo, Shutdown, sessionVars
  <2>3. ASSUME wpc'[s] # wpc[s]
        PROVE  \/ wpc[s] = "handle" /\ wpc'[s] \in {"promoted", "idle", "done"}
               \/ wpc[s] \in {"none", "promoted"} /\ wpc'[s] \in {"idle", "done"}
               \/ wpc[s] = "idle" /\ wpc'[s] = "done"
    <3>1. ASSUME NEW t \in Sessions, Receive(t) PROVE FALSE
      BY <2>1, <2>3, <3>1 DEF Receive, Goto, TypeOK
    <3>2. ASSUME NEW t \in Sessions, ReceiveBadSize(t) \/ ReceiveFails(t)
          PROVE  wpc[s] = "idle" /\ wpc'[s] = "done"
      BY <2>1, <2>3, <3>2 DEF ReceiveBadSize, ReceiveFails, Goto, TypeOK
    <3>3. ASSUME NEW t \in Sessions, Hello(t) \/ Authenticate(t) \/ Command(t) \/ NoCommand(t)
          PROVE  wpc[s] = "handle" /\ wpc'[s] \in {"promoted", "idle", "done"}
      <4>1. wpc[t] = "handle" /\ \E loc \in {"promoted", "idle", "done"} :
                                   wpc' = [wpc EXCEPT ![t] = loc]
        BY <3>3 DEF Hello, Authenticate, Command, NoCommand, ReadAgain, TakeSlot, Goto
      <4> QED
        BY <2>1, <2>3, <4>1 DEF TypeOK
    <3>4. ASSUME NEW t \in Sessions, Promoted(t)
          PROVE  wpc[s] = "promoted" /\ wpc'[s] \in {"idle", "done"}
      BY <2>1, <2>3, <3>4 DEF Promoted, SendInitialState, ReadAgain, Goto, TypeOK
    <3>5. ASSUME AcceptRead PROVE wpc[s] = "none" /\ wpc'[s] \in {"idle", "done"}
      BY <2>1, <2>3, <3>5 DEF AcceptRead, ReadAgain, Goto, TypeOK, WorkInv, HeldInv
    <3>6. ASSUME \/ \E t \in Sessions : Accept(t)
                 \/ AcceptCheck \/ AcceptBusy \/ AcceptDrop \/ AcceptPublish \/ AcceptShut
                 \/ AcceptJoin \/ AcceptLeave
                 \/ Heartbeat \/ BasebandData \/ Baseband \/ SetInputSampleRate \/ CooldownEnds
          PROVE  FALSE
      BY <2>3, <3>6 DEF Accept, AcceptCheck, AcceptBusy, AcceptDrop, AcceptPublish,
         AcceptShut, AcceptJoin,
         AcceptLeave, Heartbeat,
         HbRetire, HbExpire, HbLook, HbDecide, HbStop, HbClose, HbJoin, HbClear, HbDrop,
         BasebandData, Baseband, BasebandSnapshot, BasebandWrite, BasebandDrop,
         SetInputSampleRate, CooldownEnds, workVars
    <3> QED
      BY <3>1, <3>2, <3>3, <3>4, <3>5, <3>6 DEF Next, Worker, AcceptStep
  <2>4. wpc'[s] # wpc[s] => WorkLeft(s)' < WorkLeft(s)
    BY <2>3 DEF WorkLeft
  <2> QED
    BY <2>2, <2>4
<1> QED
  BY <1>1, SessionInvariant, PTL DEF Spec, JoinCountsDown
=============================================================================
