----------------------------- MODULE ConfigSaver -----------------------------
(***************************************************************************)
(* The process-wide autosaver: one worker thread that saves every dirty    *)
(* ConfigManager registered with it, flushAll() that does the same scan on *)
(* a caller's thread, and enable/disable, which register and unregister a  *)
(* manager, start the worker for the first and join it after the last.     *)
(*                                                                         *)
(* Critical sections of the registry mutex (mtx) and of a manager's mutex  *)
(* are one step each.  lifecycleMtx and the useMtx of a registration are   *)
(* held across steps and are explicit.                                     *)
(***************************************************************************)
EXTENDS Naturals

CONSTANTS
  Managers,    \* the ConfigManagers of the process
  MaxEnables,  \* bound: registrations ever made
  MaxEdits,    \* bound: edits
  MaxFaults,   \* bound: saves that fail
  MaxFlushes   \* bound: calls of flushAll()

ASSUME SaverBounds == {MaxEnables, MaxEdits, MaxFaults, MaxFlushes} \subseteq Nat

NoHolder == "nobody"
NoReg    == 0

ASSUME ManagersAssumption == NoHolder \notin Managers

\* A registration is named by the call of enable that made it.
Regs  == 1 .. MaxEnables
Users == {"worker", "flush"}

VARIABLES
  \* ConfigManager
  alive, dirty, autoSaveEnabled,
  \* Registration: its manager (never changes), manager # NULL, useMtx
  owner, bound, useMtx,
  \* ConfigSaver: the registrations in managers, pending, stopping
  managers, pending, stopping,
  \* the thread in enable or disable, and where each manager's caller is
  lifecycleMtx, ctl,
  \* the worker and flushAll: location, registrations still to visit, the one
  \* being saved, allSaved, and whether its manager was edited meanwhile
  pc, scan, cur, allSaved, stale,
  \* edits whose notifyDirty is still to come
  toNotify,
  \* counters for the bounds
  enables, edits, faults, flushes

mgrVars  == <<alive, dirty, autoSaveEnabled>>
regVars  == <<owner, bound, useMtx>>
savVars  == <<managers, pending, stopping>>
ctlVars  == <<lifecycleMtx, ctl>>
userVars == <<pc, scan, cur, allSaved, stale>>
counters == <<enables, edits, faults, flushes>>
vars == <<mgrVars, regVars, savVars, ctlVars, userVars, toNotify, counters>>

TypeOK ==
  /\ alive \in [Managers -> BOOLEAN]
  /\ dirty \in [Managers -> BOOLEAN]
  /\ autoSaveEnabled \in [Managers -> BOOLEAN]
  /\ enables \in 0 .. MaxEnables
  /\ owner \in [1 .. enables -> Managers]
  /\ bound \in [Regs -> BOOLEAN]
  /\ useMtx \in [Regs -> Users \cup {NoHolder}]
  /\ managers \subseteq 1 .. enables
  /\ pending \in BOOLEAN /\ stopping \in BOOLEAN
  /\ lifecycleMtx \in Managers \cup {NoHolder}
  /\ ctl \in [Managers -> {"idle", "register", "unregister", "release", "join"}]
  /\ pc \in [Users -> {"none", "wait", "coalesce", "scan", "saving", "exit"}]
  /\ scan \in [Users -> SUBSET (1 .. enables)]
  /\ cur \in [Users -> 0 .. enables]
  /\ \A u \in Users : cur[u] # NoReg <=> pc[u] = "saving"
  /\ allSaved \in [Users -> BOOLEAN]
  /\ stale \in [Users -> BOOLEAN]
  /\ toNotify \in [Managers -> BOOLEAN]
  /\ edits \in 0 .. MaxEdits /\ faults \in 0 .. MaxFaults /\ flushes \in 0 .. MaxFlushes

Init ==
  /\ alive = [m \in Managers |-> TRUE]
  /\ dirty = [m \in Managers |-> FALSE]
  /\ autoSaveEnabled = [m \in Managers |-> FALSE]
  /\ owner = <<>>
  /\ bound = [r \in Regs |-> FALSE]
  /\ useMtx = [r \in Regs |-> NoHolder]
  /\ managers = {} /\ pending = FALSE /\ stopping = FALSE
  /\ lifecycleMtx = NoHolder
  /\ ctl = [m \in Managers |-> "idle"]
  /\ pc = [u \in Users |-> "none"]
  /\ scan = [u \in Users |-> {}]
  /\ cur = [u \in Users |-> NoReg]
  /\ allSaved = [u \in Users |-> TRUE]
  /\ stale = [u \in Users |-> FALSE]
  /\ toNotify = [m \in Managers |-> FALSE]
  /\ enables = 0 /\ edits = 0 /\ faults = 0 /\ flushes = 0

-----------------------------------------------------------------------------
(***************************************************************************)
(* Editors.                                                                *)
(***************************************************************************)

\* ~EditAccess, release() up to the unlock of the manager.
Edit(m) ==
  /\ alive[m] /\ ~toNotify[m]
  /\ edits < MaxEdits /\ edits' = edits + 1
  /\ dirty' = [dirty EXCEPT ![m] = TRUE]
  /\ stale' = [u \in Users |-> stale[u] \/ (pc[u] = "saving" /\ owner[cur[u]] = m)]
  /\ toNotify' = [toNotify EXCEPT ![m] = TRUE]
  /\ UNCHANGED <<alive, autoSaveEnabled, regVars, savVars, ctlVars, pc, scan, cur, allSaved,
                 enables, faults, flushes>>

\* release() after the unlock, and notifyDirty().
NotifyDirty(m) ==
  /\ toNotify[m]
  /\ toNotify' = [toNotify EXCEPT ![m] = FALSE]
  /\ pending' = (pending \/ autoSaveEnabled[m])
  /\ UNCHANGED <<mgrVars, regVars, managers, stopping, ctlVars, userVars, counters>>

-----------------------------------------------------------------------------
(***************************************************************************)
(* enable and disable.                                                     *)
(***************************************************************************)

\* enable() up to the exchange of autoSaveEnabled.
Enable(m) ==
  /\ alive[m] /\ ctl[m] = "idle" /\ lifecycleMtx = NoHolder
  /\ ~autoSaveEnabled[m] /\ enables < MaxEnables
  /\ lifecycleMtx' = m
  /\ autoSaveEnabled' = [autoSaveEnabled EXCEPT ![m] = TRUE]
  /\ ctl' = [ctl EXCEPT ![m] = "register"]
  /\ UNCHANGED <<alive, dirty, regVars, savVars, userVars, toNotify, counters>>

Joinable == pc["worker"] # "none"

\* Mutant: a new worker finds stopping still set.
RegisterStopping(m) ==
  /\ ctl[m] = "register"
  /\ enables' = enables + 1
  /\ owner' = [r \in 1 .. enables + 1 |-> IF r = enables + 1 THEN m ELSE owner[r]]
  /\ bound' = [bound EXCEPT ![enables + 1] = TRUE]
  /\ managers' = managers \cup {enables + 1}
  /\ pending' = TRUE
  /\ pc' = [pc EXCEPT !["worker"] = IF Joinable THEN @ ELSE "wait"]
  /\ lifecycleMtx' = NoHolder
  /\ ctl' = [ctl EXCEPT ![m] = "idle"]
  /\ UNCHANGED <<mgrVars, useMtx, stopping, scan, cur, allSaved, stale, toNotify,
                 edits, faults, flushes>>

\* enable(), the registration; the first one starts the worker.
Register(m) ==
  /\ ctl[m] = "register"
  /\ enables' = enables + 1
  /\ owner' = [r \in 1 .. enables + 1 |-> IF r = enables + 1 THEN m ELSE owner[r]]
  /\ bound' = [bound EXCEPT ![enables + 1] = TRUE]
  /\ managers' = managers \cup {enables + 1}
  /\ pending' = TRUE
  /\ IF Joinable
     THEN UNCHANGED <<stopping, pc>>
     ELSE stopping' = FALSE /\ pc' = [pc EXCEPT !["worker"] = "wait"]
  /\ lifecycleMtx' = NoHolder
  /\ ctl' = [ctl EXCEPT ![m] = "idle"]
  /\ UNCHANGED <<mgrVars, useMtx, scan, cur, allSaved, stale, toNotify, edits, faults, flushes>>

\* disable() up to the exchange of autoSaveEnabled.
Disable(m) ==
  /\ alive[m] /\ ctl[m] = "idle" /\ lifecycleMtx = NoHolder
  /\ autoSaveEnabled[m]
  /\ lifecycleMtx' = m
  /\ autoSaveEnabled' = [autoSaveEnabled EXCEPT ![m] = FALSE]
  /\ ctl' = [ctl EXCEPT ![m] = "unregister"]
  /\ UNCHANGED <<alive, dirty, regVars, savVars, userVars, toNotify, counters>>

\* disable(), the registry; after the last manager the worker is to stop.
Unregister(m) ==
  /\ ctl[m] = "unregister"
  /\ managers' = {r \in managers : owner[r] # m}
  /\ stopping' = (stopping \/ (managers' = {} /\ Joinable))
  /\ ctl' = [ctl EXCEPT ![m] = "release"]
  /\ UNCHANGED <<mgrVars, regVars, pending, lifecycleMtx, userVars, toNotify, counters>>

\* disable() returns: lifecycleMtx is released.
DisableReturn(m) ==
  /\ lifecycleMtx' = NoHolder
  /\ ctl' = [ctl EXCEPT ![m] = "idle"]

\* Mutant: disable() does not wait for a save under way.
ReleaseInUse(m) ==
  /\ ctl[m] = "release"
  /\ bound' = [r \in Regs |-> bound[r] /\ owner[r] # m]
  /\ IF stopping
     THEN ctl' = [ctl EXCEPT ![m] = "join"] /\ UNCHANGED lifecycleMtx
     ELSE DisableReturn(m)
  /\ UNCHANGED <<mgrVars, owner, useMtx, savVars, userVars, toNotify, counters>>

\* disable(), useMtx: waits for a save under way, then unbinds the manager.
ReleaseUse(m) ==
  /\ ctl[m] = "release"
  /\ \A r \in DOMAIN owner : owner[r] = m /\ bound[r] => useMtx[r] = NoHolder
  /\ bound' = [r \in Regs |-> bound[r] /\ owner[r] # m]
  /\ IF stopping
     THEN ctl' = [ctl EXCEPT ![m] = "join"] /\ UNCHANGED lifecycleMtx
     ELSE DisableReturn(m)
  /\ UNCHANGED <<mgrVars, owner, useMtx, savVars, userVars, toNotify, counters>>

\* disable(), worker.join().
Join(m) ==
  /\ ctl[m] = "join" /\ pc["worker"] = "exit"
  /\ pc' = [pc EXCEPT !["worker"] = "none"]
  /\ DisableReturn(m)
  /\ UNCHANGED <<mgrVars, regVars, savVars, scan, cur, allSaved, stale, toNotify, counters>>

\* ~ConfigManager after disableAutoSaveImpl(); its editors are gone by then.
Destroy(m) ==
  /\ alive[m] /\ ctl[m] = "idle" /\ ~autoSaveEnabled[m] /\ ~toNotify[m]
  /\ alive' = [alive EXCEPT ![m] = FALSE]
  /\ UNCHANGED <<dirty, autoSaveEnabled, regVars, savVars, ctlVars, userVars, toNotify, counters>>

-----------------------------------------------------------------------------
(***************************************************************************)
(* The scan of saveManagers(), by the worker or by flushAll().             *)
(***************************************************************************)

\* One registration: useMtx, and saveIfDirty() up to its snapshot.  A
\* registration unbound since the scan began, or one that is not dirty, is
\* passed over.
Visit(u) ==
  /\ pc[u] = "scan"
  /\ \E r \in scan[u] :
       /\ useMtx[r] = NoHolder
       /\ scan' = [scan EXCEPT ![u] = @ \ {r}]
       /\ IF bound[r] /\ dirty[owner[r]]
          THEN /\ useMtx' = [useMtx EXCEPT ![r] = u]
               /\ cur' = [cur EXCEPT ![u] = r]
               /\ stale' = [stale EXCEPT ![u] = FALSE]
               /\ pc' = [pc EXCEPT ![u] = "saving"]
          ELSE UNCHANGED <<useMtx, cur, stale, pc>>
  /\ UNCHANGED <<mgrVars, owner, bound, savVars, ctlVars, allSaved, toNotify, counters>>

\* The save ends: dirty is cleared unless there was an edit meanwhile.
SaveDone(u) ==
  /\ pc[u] = "saving"
  /\ \/ /\ dirty' = [dirty EXCEPT ![owner[cur[u]]] = stale[u]]
        /\ UNCHANGED <<allSaved, faults>>
     \/ /\ faults < MaxFaults /\ faults' = faults + 1
        /\ allSaved' = [allSaved EXCEPT ![u] = FALSE]
        /\ UNCHANGED dirty
  /\ useMtx' = [useMtx EXCEPT ![cur[u]] = NoHolder]
  /\ cur' = [cur EXCEPT ![u] = NoReg]
  /\ stale' = [stale EXCEPT ![u] = FALSE]
  /\ pc' = [pc EXCEPT ![u] = "scan"]
  /\ UNCHANGED <<alive, autoSaveEnabled, owner, bound, savVars, ctlVars, scan, toNotify,
                 enables, edits, flushes>>

\* flushAll().
FlushAll ==
  /\ pc["flush"] = "none" /\ flushes < MaxFlushes /\ flushes' = flushes + 1
  /\ pc' = [pc EXCEPT !["flush"] = "scan"]
  /\ scan' = [scan EXCEPT !["flush"] = managers]
  /\ UNCHANGED <<mgrVars, regVars, savVars, ctlVars, cur, allSaved, stale, toNotify,
                 enables, edits, faults>>

FlushEnd ==
  /\ pc["flush"] = "scan" /\ scan["flush"] = {}
  /\ pc' = [pc EXCEPT !["flush"] = "none"]
  /\ allSaved' = [allSaved EXCEPT !["flush"] = TRUE]
  /\ UNCHANGED <<mgrVars, regVars, savVars, ctlVars, scan, cur, stale, toNotify, counters>>

-----------------------------------------------------------------------------
(***************************************************************************)
(* run(), the worker.                                                      *)
(***************************************************************************)

\* Mutant: the first wait does not end for stopping.
WorkerWaitPending ==
  /\ pc["worker"] = "wait" /\ pending
  /\ pc' = [pc EXCEPT !["worker"] = IF stopping THEN "exit" ELSE "coalesce"]
  /\ UNCHANGED <<mgrVars, regVars, savVars, ctlVars, scan, cur, allSaved, stale, toNotify,
                 counters>>

\* The loop test and the first wait.
WorkerWait ==
  /\ pc["worker"] = "wait" /\ (stopping \/ pending)
  /\ pc' = [pc EXCEPT !["worker"] = IF stopping THEN "exit" ELSE "coalesce"]
  /\ UNCHANGED <<mgrVars, regVars, savVars, ctlVars, scan, cur, allSaved, stale, toNotify,
                 counters>>

\* The second that passes before the scan, and the copy of the registry.
WorkerCoalesce ==
  /\ pc["worker"] = "coalesce"
  /\ IF stopping
     THEN pc' = [pc EXCEPT !["worker"] = "exit"] /\ UNCHANGED <<pending, scan, allSaved>>
     ELSE /\ pending' = FALSE
          /\ scan' = [scan EXCEPT !["worker"] = managers]
          /\ allSaved' = [allSaved EXCEPT !["worker"] = TRUE]
          /\ pc' = [pc EXCEPT !["worker"] = "scan"]
  /\ UNCHANGED <<mgrVars, regVars, managers, stopping, ctlVars, cur, stale, toNotify, counters>>

\* Mutant: pending is overwritten with the outcome of the scan.
WorkerScannedReset ==
  /\ pc["worker"] = "scan" /\ scan["worker"] = {}
  /\ pending' = ~allSaved["worker"]
  /\ pc' = [pc EXCEPT !["worker"] = "wait"]
  /\ UNCHANGED <<mgrVars, regVars, managers, stopping, ctlVars, scan, cur, allSaved, stale,
                 toNotify, counters>>

\* The scan is over: a failed save is tried again, and so is what was
\* notified during the scan.
WorkerScanned ==
  /\ pc["worker"] = "scan" /\ scan["worker"] = {}
  /\ pending' = (pending \/ ~allSaved["worker"])
  /\ pc' = [pc EXCEPT !["worker"] = "wait"]
  /\ UNCHANGED <<mgrVars, regVars, managers, stopping, ctlVars, scan, cur, allSaved, stale,
                 toNotify, counters>>

-----------------------------------------------------------------------------
Lifecycle(m) == Register(m) \/ Unregister(m) \/ ReleaseUse(m) \/ Join(m)
WorkerLoop   == WorkerWait \/ WorkerCoalesce \/ WorkerScanned

Next ==
  \/ \E m \in Managers :
       \/ Edit(m) \/ NotifyDirty(m)
       \/ Enable(m) \/ Disable(m) \/ Lifecycle(m) \/ Destroy(m)
  \/ \E u \in Users : Visit(u) \/ SaveDone(u)
  \/ FlushAll \/ FlushEnd
  \/ WorkerLoop

Spec == Init /\ [][Next]_vars

(***************************************************************************)
(* Every thread that has something to do goes on.  Nobody is obliged to    *)
(* edit, enable, disable, flush or destroy.                                *)
(***************************************************************************)
Fairness ==
  /\ WF_vars(WorkerLoop) /\ WF_vars(FlushEnd)
  /\ \A u \in Users : WF_vars(Visit(u)) /\ WF_vars(SaveDone(u))
  /\ \A m \in Managers : WF_vars(NotifyDirty(m)) /\ WF_vars(Lifecycle(m))

FairSpec == Spec /\ Fairness

-----------------------------------------------------------------------------
(***************************************************************************)
(* Properties.                                                             *)
(***************************************************************************)

\* After disable() has returned the saver does not use the manager, so it
\* may be destroyed: not the worker, not flushAll(), not through a scan taken
\* while it was still registered (config.cpp 410-416, 531-533).
ReleasedAfterDisable ==
  \A u \in Users : pc[u] = "saving" =>
    LET m == owner[cur[u]] IN
      alive[m] /\ (ctl[m] = "idle" => autoSaveEnabled[m])

\* Between calls of enable and disable there is a worker exactly when some
\* manager is registered, and it has not been told to stop: the last disable
\* joins it and the next enable starts another (config.cpp 378-381, 403-417).
WorkerServes ==
  lifecycleMtx = NoHolder =>
    /\ managers # {} <=> pc["worker"] \notin {"none", "exit"}
    /\ managers # {} => ~stopping
    /\ {owner[r] : r \in managers} = {m \in Managers : autoSaveEnabled[m]}

\* An edit of a manager that stays registered is saved in the end: no edit
\* slips between the notification, the worker's reset of pending, its scan
\* and a failed save, whichever the order (config.cpp 420-427, 487-494).
EditsAreSaved ==
  \A m \in Managers :
    dirty[m] /\ autoSaveEnabled[m] ~> ~dirty[m] \/ ~autoSaveEnabled[m]

\* enable and disable return, also while the worker is saving
\* (config.cpp 386-418).
LifecycleReturns == \A m \in Managers : ctl[m] # "idle" ~> ctl[m] = "idle"
=============================================================================
