-------------------------- MODULE ConfigSaverProofs --------------------------
(***************************************************************************)
(* ConfigSaver for any number of managers, registrations, edits, failed    *)
(* saves and calls of flushAll(): nothing is used after disable(), the     *)
(* worker is there exactly while somebody is registered, no edit of a      *)
(* registered manager is forgotten, and disable() is never stuck.          *)
(***************************************************************************)
EXTENDS ConfigSaver, FiniteSetTheorems, TLAPS

USE SaverBounds, ManagersAssumption DEF Regs, Users, NoHolder, NoReg

\* lifecycleMtx is held by the manager whose caller is inside enable() or
\* disable(), and autoSaveEnabled was exchanged on the way in.
LifecycleInv ==
  \A m \in Managers :
    /\ ctl[m] # "idle" <=> lifecycleMtx = m
    /\ ctl[m] # "idle" => alive[m]
    /\ ctl[m] = "register" => autoSaveEnabled[m] /\ enables < MaxEnables
    /\ ctl[m] \in {"unregister", "release", "join"} => ~autoSaveEnabled[m]

\* A save holds the useMtx of its registration, which is bound; a bound
\* registration has a manager that is alive and has not been released.
UseInv ==
  /\ \A u \in Users, r \in Regs : useMtx[r] = u <=> cur[u] = r
  /\ \A u \in Users : cur[u] # NoReg => bound[cur[u]]
  /\ \A r \in Regs : bound[r] =>
       /\ r <= enables
       /\ alive[owner[r]]
       /\ autoSaveEnabled[owner[r]] \/ ctl[owner[r]] \in {"unregister", "release"}

\* The registry, and the life of the worker between the first registration
\* and the join.
WorkerInv ==
  /\ {owner[r] : r \in managers}
       = {m \in Managers : autoSaveEnabled[m] /\ ctl[m] # "register"}
         \cup {m \in Managers : ctl[m] = "unregister"}
  /\ stopping => managers = {}
  /\ pc["worker"] = "exit" => stopping
  /\ managers # {} => Joinable
  /\ managers = {} /\ Joinable => stopping /\ \E m \in Managers : ctl[m] \in {"release", "join"}

IInv == TypeOK /\ LifecycleInv /\ UseInv /\ WorkerInv

\* Setting one of several flags.
LEMMA SetFlag ==
  ASSUME NEW S, NEW f \in [S -> BOOLEAN], NEW x, NEW b \in BOOLEAN
  PROVE  [f EXCEPT ![x] = b] \in [S -> BOOLEAN]
  BY Zenon

\* The initial states satisfy the inductive invariant.
LEMMA InitIInv == Init => IInv
<1> SUFFICES ASSUME Init PROVE IInv
  OBVIOUS
<1>1. TypeOK
  <2>1. owner \in [1 .. enables -> Managers]
    BY DEF Init
  <2>2. pending \in BOOLEAN /\ stopping \in BOOLEAN
    BY Zenon DEF Init
  <2>3. /\ alive \in [Managers -> BOOLEAN] /\ dirty \in [Managers -> BOOLEAN]
        /\ autoSaveEnabled \in [Managers -> BOOLEAN] /\ toNotify \in [Managers -> BOOLEAN]
        /\ bound \in [Regs -> BOOLEAN]
        /\ allSaved \in [Users -> BOOLEAN] /\ stale \in [Users -> BOOLEAN]
    BY DEF Init
  <2> QED
    BY <2>1, <2>2, <2>3 DEF Init, TypeOK
<1>2. LifecycleInv /\ UseInv /\ WorkerInv
  BY DEF Init, LifecycleInv, UseInv, WorkerInv, Joinable
<1> QED
  BY <1>1, <1>2 DEF IInv

\* Every step preserves it.
LEMMA NextIInv == IInv /\ [Next]_vars => IInv'
<1> SUFFICES ASSUME IInv, [Next]_vars PROVE IInv'
  OBVIOUS
<1>1. TypeOK /\ LifecycleInv /\ UseInv /\ WorkerInv
  BY DEF IInv
<1> USE DEF mgrVars, regVars, savVars, ctlVars, userVars, counters
<1>2. ASSUME NEW m \in Managers, Edit(m) PROVE IInv'
  <2> USE <1>1, <1>2 DEF Edit
  <2>1. TypeOK'
    BY DEF TypeOK
  <2>2. LifecycleInv'
    BY DEF TypeOK, LifecycleInv
  <2>3. UseInv'
    BY DEF TypeOK, LifecycleInv, UseInv
  <2>4. WorkerInv'
    BY DEF TypeOK, LifecycleInv, WorkerInv, Joinable
  <2> QED
    BY <2>1, <2>2, <2>3, <2>4 DEF IInv
<1>3. ASSUME NEW m \in Managers, NotifyDirty(m) PROVE IInv'
  <2> USE <1>1, <1>3 DEF NotifyDirty
  <2>1. TypeOK'
    BY DEF TypeOK
  <2>2. LifecycleInv'
    BY DEF TypeOK, LifecycleInv
  <2>3. UseInv'
    BY DEF TypeOK, LifecycleInv, UseInv
  <2>4. WorkerInv'
    BY DEF TypeOK, LifecycleInv, WorkerInv, Joinable
  <2> QED
    BY <2>1, <2>2, <2>3, <2>4 DEF IInv
<1>4. ASSUME NEW m \in Managers, Enable(m) PROVE IInv'
  <2> USE <1>1, <1>4 DEF Enable
  <2>1. TypeOK'
    BY DEF TypeOK
  <2>2. LifecycleInv'
    BY DEF TypeOK, LifecycleInv
  <2>3. UseInv'
    BY DEF TypeOK, LifecycleInv, UseInv
  <2>4. WorkerInv'
    BY DEF TypeOK, LifecycleInv, WorkerInv, Joinable
  <2> QED
    BY <2>1, <2>2, <2>3, <2>4 DEF IInv
<1>5. ASSUME NEW m \in Managers, Register(m) PROVE IInv'
  <2> USE <1>1, <1>5 DEF Register
  <2>1. TypeOK'
    <3>1. enables' \in 0 .. MaxEnables /\ enables' = enables + 1
      BY DEF TypeOK, LifecycleInv
    <3>2. owner' \in [1 .. enables' -> Managers]
      BY <3>1 DEF TypeOK
    <3>3. bound' \in [Regs -> BOOLEAN]
      BY DEF TypeOK
    <3>4. managers' \subseteq 1 .. enables' /\ scan' \in [Users -> SUBSET (1 .. enables')]
            /\ cur' \in [Users -> 0 .. enables']
      BY <3>1 DEF TypeOK
    <3>5. pending' \in BOOLEAN /\ stopping' \in BOOLEAN
      BY Zenon DEF TypeOK
    <3>6. /\ pc' \in [Users -> {"none", "wait", "coalesce", "scan", "saving", "exit"}]
          /\ \A u \in Users : cur'[u] # NoReg <=> pc'[u] = "saving"
      BY DEF TypeOK, Joinable
    <3> QED
      BY <3>1, <3>2, <3>3, <3>4, <3>5, <3>6 DEF TypeOK
  <2>2. LifecycleInv'
    BY DEF TypeOK, LifecycleInv
  <2>3. UseInv'
    <3>1. enables + 1 \in Regs /\ enables \in Nat
      BY DEF TypeOK, LifecycleInv
    <3>2. owner'[enables + 1] = m /\ \A r \in 1 .. enables : owner'[r] = owner[r]
      BY <3>1 DEF TypeOK
    <3>3. \A r \in Regs : bound'[r] <=> bound[r] \/ r = enables + 1
      BY <3>1 DEF TypeOK
    <3>4. alive[m]
      BY DEF LifecycleInv
    <3>5. \A r \in Regs : bound'[r] =>
            /\ r <= enables'
            /\ alive'[owner'[r]]
            /\ autoSaveEnabled'[owner'[r]] \/ ctl'[owner'[r]] \in {"unregister", "release"}
      BY <3>1, <3>2, <3>3, <3>4 DEF TypeOK, LifecycleInv, UseInv
    <3>6. \A u \in Users : cur'[u] # NoReg => bound'[cur'[u]]
      BY <3>3 DEF TypeOK, UseInv
    <3>7. \A u \in Users, r \in Regs : useMtx'[r] = u <=> cur'[u] = r
      BY DEF UseInv
    <3> QED
      BY <3>5, <3>6, <3>7 DEF UseInv
  <2>4. WorkerInv'
    <3>1. {owner'[r] : r \in managers'} = {owner[r] : r \in managers} \cup {m}
      <4>1. \A r \in managers : owner'[r] = owner[r] /\ r # enables + 1
        BY DEF TypeOK
      <4>2. owner'[enables + 1] = m
        BY DEF TypeOK
      <4> QED
        BY <4>1, <4>2
    <3>2. ctl'[m] = "idle" /\ \A x \in Managers \ {m} : ctl'[x] = ctl[x]
      BY DEF TypeOK
    <3>3. /\ ctl[m] = "register" /\ autoSaveEnabled[m]
          /\ \A x \in Managers \ {m} : ctl[x] = "idle"
      BY DEF LifecycleInv
    <3>4. {owner'[r] : r \in managers'}
            = {x \in Managers : autoSaveEnabled'[x] /\ ctl'[x] # "register"}
              \cup {x \in Managers : ctl'[x] = "unregister"}
      BY <3>1, <3>2, <3>3 DEF WorkerInv
    <3>5. managers = {} => ~Joinable
      BY <3>3 DEF WorkerInv
    <3>6. managers' # {}
      OBVIOUS
    <3>7. ~stopping' /\ pc'["worker"] \notin {"none", "exit"}
      BY <3>5 DEF WorkerInv, TypeOK, Joinable
    <3> QED
      BY <3>4, <3>6, <3>7 DEF WorkerInv, Joinable
  <2> QED
    BY <2>1, <2>2, <2>3, <2>4 DEF IInv
<1>6. ASSUME NEW m \in Managers, Disable(m) PROVE IInv'
  <2> USE <1>1, <1>6 DEF Disable
  <2>1. TypeOK'
    BY DEF TypeOK
  <2>2. LifecycleInv'
    BY DEF TypeOK, LifecycleInv
  <2>3. UseInv'
    BY DEF TypeOK, LifecycleInv, UseInv
  <2>4. WorkerInv'
    BY DEF TypeOK, LifecycleInv, WorkerInv, Joinable
  <2> QED
    BY <2>1, <2>2, <2>3, <2>4 DEF IInv
<1>7. ASSUME NEW m \in Managers, Unregister(m) PROVE IInv'
  <2> USE <1>1, <1>7 DEF Unregister
  <2>1. TypeOK'
    BY DEF TypeOK
  <2>2. LifecycleInv'
    BY DEF TypeOK, LifecycleInv
  <2>3. UseInv'
    BY DEF TypeOK, LifecycleInv, UseInv
  <2>4. WorkerInv'
    <3>1. {owner'[r] : r \in managers'} = {owner[r] : r \in managers} \ {m}
      OBVIOUS
    <3>2. ctl'[m] = "release" /\ \A x \in Managers \ {m} : ctl'[x] = ctl[x]
      BY DEF TypeOK
    <3>3. /\ ctl[m] = "unregister" /\ ~autoSaveEnabled[m]
          /\ \A x \in Managers \ {m} : ctl[x] = "idle"
      BY DEF LifecycleInv
    <3>4. {owner'[r] : r \in managers'}
            = {x \in Managers : autoSaveEnabled'[x] /\ ctl'[x] # "register"}
              \cup {x \in Managers : ctl'[x] = "unregister"}
      BY <3>1, <3>2, <3>3 DEF WorkerInv
    <3>5. m \in {owner[r] : r \in managers}
      BY <3>3 DEF WorkerInv
    <3>6. managers # {} /\ ~stopping /\ Joinable
      BY <3>5 DEF WorkerInv
    <3> QED
      BY <3>2, <3>4, <3>6 DEF WorkerInv, Joinable
  <2> QED
    BY <2>1, <2>2, <2>3, <2>4 DEF IInv
<1>8. ASSUME NEW m \in Managers, ReleaseUse(m) PROVE IInv'
  <2> USE <1>1, <1>8 DEF ReleaseUse, DisableReturn
  <2>1. TypeOK'
    BY DEF TypeOK
  <2>2. LifecycleInv'
    BY DEF TypeOK, LifecycleInv
  <2>3. UseInv'
    BY DEF TypeOK, LifecycleInv, UseInv
  <2>4. WorkerInv'
    BY DEF TypeOK, LifecycleInv, WorkerInv, Joinable
  <2> QED
    BY <2>1, <2>2, <2>3, <2>4 DEF IInv
<1>9. ASSUME NEW m \in Managers, Join(m) PROVE IInv'
  <2> USE <1>1, <1>9 DEF Join, DisableReturn
  <2>1. TypeOK'
    BY DEF TypeOK
  <2>2. LifecycleInv'
    BY DEF TypeOK, LifecycleInv
  <2>3. UseInv'
    BY DEF TypeOK, LifecycleInv, UseInv
  <2>4. WorkerInv'
    BY DEF TypeOK, LifecycleInv, WorkerInv, Joinable
  <2> QED
    BY <2>1, <2>2, <2>3, <2>4 DEF IInv
<1>10. ASSUME NEW m \in Managers, Destroy(m) PROVE IInv'
  <2> USE <1>1, <1>10 DEF Destroy
  <2>1. TypeOK'
    BY DEF TypeOK
  <2>2. LifecycleInv'
    BY DEF TypeOK, LifecycleInv
  <2>3. UseInv'
    BY DEF TypeOK, LifecycleInv, UseInv
  <2>4. WorkerInv'
    BY DEF TypeOK, LifecycleInv, WorkerInv, Joinable
  <2> QED
    BY <2>1, <2>2, <2>3, <2>4 DEF IInv
<1>11. ASSUME NEW u \in Users, Visit(u) PROVE IInv'
  <2> USE <1>1, <1>11 DEF Visit
  <2>1. TypeOK'
    <3>1. PICK r \in scan[u] :
            /\ useMtx[r] = NoHolder
            /\ scan' = [scan EXCEPT ![u] = @ \ {r}]
            /\ IF bound[r] /\ dirty[owner[r]]
               THEN /\ useMtx' = [useMtx EXCEPT ![r] = u]
                    /\ cur' = [cur EXCEPT ![u] = r]
                    /\ stale' = [stale EXCEPT ![u] = FALSE]
                    /\ pc' = [pc EXCEPT ![u] = "saving"]
               ELSE UNCHANGED <<useMtx, cur, stale, pc>>
      OBVIOUS
    <3>2. r \in 1 .. enables /\ r \in Regs /\ r # NoReg
      BY DEF TypeOK
    <3>3. scan' \in [Users -> SUBSET (1 .. enables)]
      BY <3>1 DEF TypeOK
    <3>4. CASE bound[r] /\ dirty[owner[r]]
      <4>1. useMtx' \in [Regs -> Users \cup {NoHolder}] /\ cur' \in [Users -> 0 .. enables]
        BY <3>1, <3>2, <3>4 DEF TypeOK
      <4>2. stale' \in [Users -> BOOLEAN]
        <5>1. stale' = [stale EXCEPT ![u] = FALSE] /\ stale \in [Users -> BOOLEAN]
          BY Zenon, <3>1, <3>4 DEF TypeOK
        <5> QED
          BY Zenon, <5>1, SetFlag
      <4>3. /\ pc' \in [Users -> {"none", "wait", "coalesce", "scan", "saving", "exit"}]
            /\ \A x \in Users : cur'[x] # NoReg <=> pc'[x] = "saving"
        BY <3>1, <3>2, <3>4 DEF TypeOK
      <4> QED
        BY <3>3, <4>1, <4>2, <4>3 DEF TypeOK
    <3>5. CASE ~(bound[r] /\ dirty[owner[r]])
      BY <3>1, <3>3, <3>5 DEF TypeOK
    <3> QED
      BY <3>4, <3>5
  <2>2. LifecycleInv'
    BY DEF TypeOK, LifecycleInv
  <2>3. UseInv'
    <3>1. PICK r \in scan[u] :
            /\ useMtx[r] = NoHolder
            /\ IF bound[r] /\ dirty[owner[r]]
               THEN /\ useMtx' = [useMtx EXCEPT ![r] = u]
                    /\ cur' = [cur EXCEPT ![u] = r]
               ELSE UNCHANGED <<useMtx, cur>>
      OBVIOUS
    <3>2. pc[u] = "scan" /\ UNCHANGED <<bound, enables, alive, owner, autoSaveEnabled, ctl>>
      OBVIOUS
    <3> HIDE <1>11 DEF Visit
    <3>3. scan[u] \subseteq 1 .. enables /\ enables \in 0 .. MaxEnables
      BY DEF TypeOK
    <3>4. r \in Regs /\ r # NoReg /\ cur[u] = NoReg
      BY <3>1, <3>2, <3>3 DEF TypeOK
    <3>5. CASE bound[r] /\ dirty[owner[r]]
      <4>1. \A x \in Users, i \in Regs : useMtx'[i] = x <=> cur'[x] = i
        <5>1. \A i \in Regs : useMtx'[i] = IF i = r THEN u ELSE useMtx[i]
          BY <3>1, <3>4, <3>5 DEF TypeOK
        <5>2. \A x \in Users : cur'[x] = IF x = u THEN r ELSE cur[x]
          BY <3>1, <3>5 DEF TypeOK
        <5>3. \A x \in Users : cur[x] # r
          BY <3>1, <3>4 DEF UseInv
        <5>4. \A i \in Regs : useMtx[i] # u
          BY <3>4 DEF UseInv
        <5> QED
          BY <5>1, <5>2, <5>3, <5>4, <3>4 DEF UseInv
      <4>2. \A x \in Users : cur'[x] # NoReg => bound'[cur'[x]]
        BY <3>1, <3>4, <3>5, <3>2 DEF TypeOK, UseInv
      <4> QED
        BY <3>2, <4>1, <4>2 DEF UseInv
    <3>6. CASE ~(bound[r] /\ dirty[owner[r]])
      BY <3>1, <3>6, <3>2 DEF UseInv
    <3> QED
      BY <3>5, <3>6
  <2>4. WorkerInv'
    <3>1. UNCHANGED <<owner, managers, stopping, autoSaveEnabled, ctl>>
      OBVIOUS
    <3>2. \/ pc'["worker"] = pc["worker"]
          \/ pc["worker"] = "scan" /\ pc'["worker"] = "saving"
      BY DEF TypeOK
    <3> HIDE <1>11 DEF Visit
    <3> QED
      BY <3>1, <3>2 DEF WorkerInv, Joinable
  <2> QED
    BY <2>1, <2>2, <2>3, <2>4 DEF IInv
<1>12. ASSUME NEW u \in Users, SaveDone(u) PROVE IInv'
  <2> USE <1>1, <1>12 DEF SaveDone
  <2>1. TypeOK'
    <3>1. cur[u] \in Regs /\ owner[cur[u]] \in Managers
      BY DEF TypeOK
    <3>2. stale[u] \in BOOLEAN
      BY Zenon DEF TypeOK
    <3>3. dirty' \in [Managers -> BOOLEAN]
      BY Zenon, <3>1, <3>2 DEF TypeOK
    <3>4. allSaved' \in [Users -> BOOLEAN]
      <4>1. /\ allSaved \in [Users -> BOOLEAN]
            /\ allSaved' = allSaved \/ allSaved' = [allSaved EXCEPT ![u] = FALSE]
        BY Zenon DEF TypeOK
      <4> QED
        BY Zenon, <4>1, SetFlag
    <3>5. stale' \in [Users -> BOOLEAN]
      BY Zenon DEF TypeOK
    <3>6. faults' \in 0 .. MaxFaults
      BY DEF TypeOK
    <3>7. useMtx' \in [Regs -> Users \cup {NoHolder}] /\ cur' \in [Users -> 0 .. enables]
      BY DEF TypeOK
    <3>8. /\ pc' \in [Users -> {"none", "wait", "coalesce", "scan", "saving", "exit"}]
          /\ \A x \in Users : cur'[x] # NoReg <=> pc'[x] = "saving"
      BY DEF TypeOK
    <3> QED
      BY <3>3, <3>4, <3>5, <3>6, <3>7, <3>8 DEF TypeOK
  <2>2. LifecycleInv'
    BY DEF TypeOK, LifecycleInv
  <2>3. UseInv'
    BY DEF TypeOK, LifecycleInv, UseInv
  <2>4. WorkerInv'
    BY DEF TypeOK, LifecycleInv, WorkerInv, Joinable
  <2> QED
    BY <2>1, <2>2, <2>3, <2>4 DEF IInv
<1>13. CASE FlushAll
  <2> USE <1>1, <1>13 DEF FlushAll
  <2>1. TypeOK'
    BY DEF TypeOK
  <2>2. LifecycleInv'
    BY DEF TypeOK, LifecycleInv
  <2>3. UseInv'
    BY DEF TypeOK, LifecycleInv, UseInv
  <2>4. WorkerInv'
    BY DEF TypeOK, LifecycleInv, WorkerInv, Joinable
  <2> QED
    BY <2>1, <2>2, <2>3, <2>4 DEF IInv
<1>14. CASE FlushEnd
  <2> USE <1>1, <1>14 DEF FlushEnd
  <2>1. TypeOK'
    BY DEF TypeOK
  <2>2. LifecycleInv'
    BY DEF TypeOK, LifecycleInv
  <2>3. UseInv'
    BY DEF TypeOK, LifecycleInv, UseInv
  <2>4. WorkerInv'
    BY DEF TypeOK, LifecycleInv, WorkerInv, Joinable
  <2> QED
    BY <2>1, <2>2, <2>3, <2>4 DEF IInv
<1>15. CASE WorkerWait
  <2> USE <1>1, <1>15 DEF WorkerWait
  <2>1. TypeOK'
    BY DEF TypeOK
  <2>2. LifecycleInv'
    BY DEF TypeOK, LifecycleInv
  <2>3. UseInv'
    BY DEF TypeOK, LifecycleInv, UseInv
  <2>4. WorkerInv'
    BY DEF TypeOK, LifecycleInv, WorkerInv, Joinable
  <2> QED
    BY <2>1, <2>2, <2>3, <2>4 DEF IInv
<1>16. CASE WorkerCoalesce
  <2> USE <1>1, <1>16 DEF WorkerCoalesce
  <2>1. TypeOK'
    <3>1. CASE stopping
      <4>1. UNCHANGED <<pending, scan, allSaved>> /\ pc' = [pc EXCEPT !["worker"] = "exit"]
        BY <3>1
      <4> QED
        BY <4>1 DEF TypeOK
    <3>2. CASE ~stopping
      <4>1. /\ pending' = FALSE
            /\ scan' = [scan EXCEPT !["worker"] = managers]
            /\ allSaved' = [allSaved EXCEPT !["worker"] = TRUE]
            /\ pc' = [pc EXCEPT !["worker"] = "scan"]
        BY <3>2
      <4>2. pending' \in BOOLEAN
        BY Zenon, <4>1
      <4>3. allSaved' \in [Users -> BOOLEAN]
        BY Zenon, <4>1, SetFlag DEF TypeOK
      <4>4. scan' \in [Users -> SUBSET (1 .. enables)]
        BY <4>1 DEF TypeOK
      <4> QED
        BY <4>1, <4>2, <4>3, <4>4 DEF TypeOK
    <3> QED
      BY <3>1, <3>2
  <2>2. LifecycleInv'
    BY DEF TypeOK, LifecycleInv
  <2>3. UseInv'
    BY DEF TypeOK, LifecycleInv, UseInv
  <2>4. WorkerInv'
    BY DEF TypeOK, LifecycleInv, WorkerInv, Joinable
  <2> QED
    BY <2>1, <2>2, <2>3, <2>4 DEF IInv
<1>17. CASE WorkerScanned
  <2> USE <1>1, <1>17 DEF WorkerScanned
  <2>1. TypeOK'
    BY DEF TypeOK
  <2>2. LifecycleInv'
    BY DEF TypeOK, LifecycleInv
  <2>3. UseInv'
    BY DEF TypeOK, LifecycleInv, UseInv
  <2>4. WorkerInv'
    BY DEF TypeOK, LifecycleInv, WorkerInv, Joinable
  <2> QED
    BY <2>1, <2>2, <2>3, <2>4 DEF IInv
<1>18. CASE UNCHANGED vars
  <2> USE <1>1, <1>18 DEF vars
  <2>1. TypeOK'
    BY DEF TypeOK
  <2>2. LifecycleInv' /\ UseInv'
    BY DEF LifecycleInv, UseInv
  <2>3. WorkerInv'
    BY DEF WorkerInv, Joinable
  <2> QED
    BY <2>1, <2>2, <2>3 DEF IInv
<1> QED
  BY <1>2, <1>3, <1>4, <1>5, <1>6, <1>7, <1>8, <1>9, <1>10, <1>11, <1>12, <1>13, <1>14, <1>15,
     <1>16, <1>17, <1>18 DEF Next, Lifecycle, WorkerLoop

\* The inductive invariant holds in every reachable state.
THEOREM SaverInvariant == Spec => []IInv
  BY InitIInv, NextIInv, PTL DEF Spec

\* TypeOK for every number of managers and registrations: what the saver and
\* the managers keep stays in its ranges (ConfigSaver of config.cpp).
THEOREM SaverTypeOK == Spec => []TypeOK
<1>1. IInv => TypeOK
  BY DEF IInv
<1> QED
  BY <1>1, SaverInvariant, PTL

\* ReleasedAfterDisable: once disable() has returned neither the worker nor
\* flushAll() uses the manager, however old the copy of the registry is that
\* they scan; useMtx is what makes it so (config.cpp disable, saveManagers).
THEOREM NoUseAfterDisable == Spec => []ReleasedAfterDisable
<1>1. IInv => ReleasedAfterDisable
  <2> SUFFICES ASSUME IInv, NEW u \in Users, pc[u] = "saving"
               PROVE  LET m == owner[cur[u]] IN alive[m] /\ (ctl[m] = "idle" => autoSaveEnabled[m])
    BY DEF ReleasedAfterDisable
  <2>1. cur[u] \in Regs /\ bound[cur[u]]
    BY DEF IInv, TypeOK, UseInv
  <2> QED
    BY <2>1 DEF IInv, UseInv
<1> QED
  BY <1>1, SaverInvariant, PTL

\* WorkerServes: between calls of enable() and disable() there is a worker
\* exactly while a manager is registered, and it has not been told to stop
\* (config.cpp enable, disable).
THEOREM WorkerWhileRegistered == Spec => []WorkerServes
<1>1. IInv => WorkerServes
  <2> SUFFICES ASSUME IInv, lifecycleMtx = NoHolder
               PROVE  /\ managers # {} <=> pc["worker"] \notin {"none", "exit"}
                      /\ managers # {} => ~stopping
                      /\ {owner[r] : r \in managers} = {m \in Managers : autoSaveEnabled[m]}
    BY DEF WorkerServes
  <2>1. \A m \in Managers : ctl[m] = "idle"
    BY DEF IInv, LifecycleInv
  <2> QED
    BY <2>1 DEF IInv, WorkerInv, Joinable
<1> QED
  BY <1>1, SaverInvariant, PTL

-----------------------------------------------------------------------------
(***************************************************************************)
(* No edit is forgotten: the safety EditsAreSaved rests on.                *)
(***************************************************************************)

\* A manager has one registration at a time.
RegInv ==
  /\ managers \subseteq {r \in Regs : bound[r]}
  /\ \A m \in Managers : ctl[m] = "register" => \A r \in Regs : bound[r] => owner[r] # m
  /\ \A r1, r2 \in Regs : bound[r1] /\ bound[r2] /\ owner[r1] = owner[r2] => r1 = r2

\* The worker's present scan still comes to the manager, is saving it, or will
\* be repeated because a save has failed.
InScan(m) ==
  /\ pc["worker"] \in {"scan", "saving"}
  /\ \/ ~allSaved["worker"]
     \/ \E r \in scan["worker"] : bound[r] /\ owner[r] = m
     \/ pc["worker"] = "saving" /\ owner[cur["worker"]] = m

\* Somebody is going to have the manager saved.
SaveOwed(m) == toNotify[m] \/ pending \/ InScan(m)

Watched(m) == autoSaveEnabled[m] /\ ctl[m] # "register"

DirtyInv == \A m \in Managers : Watched(m) /\ dirty[m] => SaveOwed(m)

\* An edit that falls into a save leaves the manager dirty, and is announced.
StaleInv ==
  \A u \in Users : pc[u] = "saving" /\ stale[u] =>
    LET m == owner[cur[u]] IN
      /\ dirty[m]
      /\ u = "worker" /\ Watched(m) => toNotify[m] \/ pending

\* While a registered manager is dirty its edit is still to be announced, or it
\* was announced and not yet taken up, or the scan that took it up is not done
\* with it; and there is a worker, which has not been told to stop.
NoEditForgotten ==
  \A m \in Managers : Watched(m) /\ dirty[m] =>
    /\ SaveOwed(m)
    /\ ~stopping /\ pc["worker"] \in {"wait", "coalesce", "scan", "saving"}

\* A step keeps the registrations of a manager apart.
LEMMA RegStep ==
  ASSUME IInv, RegInv, [Next]_vars
  PROVE  RegInv'
<1>1. TypeOK /\ LifecycleInv /\ UseInv /\ WorkerInv
  BY DEF IInv
<1> USE <1>1 DEF mgrVars, regVars, savVars, ctlVars, userVars, counters
<1>2. CASE /\ UNCHANGED <<owner, bound, managers>>
           /\ \A m \in Managers : ctl'[m] = "register" => ctl[m] = "register"
  BY <1>2 DEF RegInv
<1>3. ASSUME NEW m \in Managers, Enable(m) PROVE RegInv'
  <2>1. /\ UNCHANGED <<owner, bound, managers>> /\ ~autoSaveEnabled[m] /\ ctl[m] = "idle"
        /\ ctl' = [ctl EXCEPT ![m] = "register"]
    BY <1>3 DEF Enable
  <2>2. \A r \in Regs : bound[r] => owner[r] # m
    BY <2>1 DEF UseInv
  <2> QED
    BY <2>1, <2>2 DEF RegInv, TypeOK
<1>4. ASSUME NEW m \in Managers, Register(m) PROVE RegInv'
  <2>1. /\ managers' = managers \cup {enables + 1} /\ bound' = [bound EXCEPT ![enables + 1] = TRUE]
        /\ ctl[m] = "register" /\ ctl' = [ctl EXCEPT ![m] = "idle"]
        /\ owner' = [r \in 1 .. enables + 1 |-> IF r = enables + 1 THEN m ELSE owner[r]]
    BY <1>4 DEF Register
  <2>2. enables \in Nat /\ enables + 1 \in Regs
    BY <2>1 DEF TypeOK, LifecycleInv
  <2>3. \A r \in Regs : bound[r] => r \in 1 .. enables
    BY <2>2 DEF UseInv
  <2>4. owner'[enables + 1] = m /\ \A r \in 1 .. enables : r # enables + 1 /\ owner'[r] = owner[r]
    BY <2>1, <2>2
  <2>5. \A r \in Regs : bound'[r] <=> bound[r] \/ r = enables + 1
    BY <2>1, <2>2 DEF TypeOK
  <2>6. \A r \in Regs : bound[r] => owner[r] # m
    BY <2>1 DEF RegInv
  <2>7. managers' \subseteq {r \in Regs : bound'[r]}
    BY <2>1, <2>2, <2>5 DEF RegInv
  <2>8. \A n \in Managers : ctl'[n] = "register" => n # m /\ ctl[n] = "register"
    BY <2>1 DEF TypeOK
  <2>9. \A n \in Managers : ctl'[n] = "register" => \A r \in Regs : bound'[r] => owner'[r] # n
    BY <2>3, <2>4, <2>5, <2>8 DEF RegInv
  <2>10. \A r1, r2 \in Regs : bound'[r1] /\ bound'[r2] /\ owner'[r1] = owner'[r2] => r1 = r2
    BY <2>3, <2>4, <2>5, <2>6 DEF RegInv
  <2> QED
    BY <2>7, <2>9, <2>10 DEF RegInv
<1>5. ASSUME NEW m \in Managers, Unregister(m) PROVE RegInv'
  BY <1>5 DEF Unregister, RegInv, TypeOK
<1>6. ASSUME NEW m \in Managers, ReleaseUse(m) PROVE RegInv'
  <2>1. /\ UNCHANGED <<owner, managers>> /\ ctl[m] = "release"
        /\ bound' = [r \in Regs |-> bound[r] /\ owner[r] # m]
        /\ \A n \in Managers : ctl'[n] = "register" => ctl[n] = "register"
    BY <1>6 DEF ReleaseUse, DisableReturn, TypeOK
  <2>2. \A r \in managers : owner[r] # m
    BY <2>1 DEF WorkerInv, LifecycleInv
  <2> QED
    BY <2>1, <2>2 DEF RegInv
<1>7. \/ /\ UNCHANGED <<owner, bound, managers>>
         /\ \A m \in Managers : ctl'[m] = "register" => ctl[m] = "register"
      \/ \E m \in Managers : Enable(m) \/ Register(m) \/ Unregister(m) \/ ReleaseUse(m)
  <2>1. CASE UNCHANGED vars
    BY <2>1 DEF vars
  <2>2. ASSUME NEW m \in Managers,
               Edit(m) \/ NotifyDirty(m) \/ Disable(m) \/ Join(m) \/ Destroy(m)
        PROVE  /\ UNCHANGED <<owner, bound, managers>>
               /\ \A n \in Managers : ctl'[n] = "register" => ctl[n] = "register"
    BY <2>2 DEF Edit, NotifyDirty, Disable, Join, DisableReturn, Destroy, TypeOK
  <2>3. ASSUME (\E u \in Users : Visit(u) \/ SaveDone(u)) \/ FlushAll \/ FlushEnd \/ WorkerLoop
        PROVE  UNCHANGED <<owner, bound, managers, ctl>>
    BY <2>3 DEF Visit, SaveDone, FlushAll, FlushEnd, WorkerLoop, WorkerWait, WorkerCoalesce,
       WorkerScanned
  <2> QED
    BY <2>1, <2>2, <2>3 DEF Next, Lifecycle
<1> QED
  BY <1>2, <1>3, <1>4, <1>5, <1>6, <1>7

\* A step takes the obligation to save a dirty manager from one place to the
\* next and drops it only when the manager is saved.
LEMMA DirtyStep ==
  ASSUME IInv, RegInv, StaleInv, DirtyInv, [Next]_vars, NEW n \in Managers
  PROVE  Watched(n)' /\ dirty'[n] => SaveOwed(n)'
<1>1. TypeOK /\ LifecycleInv /\ UseInv /\ WorkerInv
  BY DEF IInv
<1> USE <1>1 DEF mgrVars, regVars, savVars, ctlVars, userVars, counters
<1>2. CASE UNCHANGED vars
  <2>1. UNCHANGED <<dirty, autoSaveEnabled, ctl, toNotify, pending, pc, allSaved, scan, bound,
                    owner, cur>>
    BY <1>2 DEF vars
  <2> QED
    BY <2>1 DEF DirtyInv, Watched, SaveOwed, InScan
<1>3. ASSUME NEW m \in Managers, Edit(m) PROVE Watched(n)' /\ dirty'[n] => SaveOwed(n)'
  <2>1. /\ UNCHANGED <<autoSaveEnabled, ctl, pending, pc, allSaved, scan, bound, owner, cur>>
        /\ dirty' = [dirty EXCEPT ![m] = TRUE] /\ toNotify' = [toNotify EXCEPT ![m] = TRUE]
    BY <1>3 DEF Edit
  <2>2. CASE n = m
    BY <2>1, <2>2 DEF SaveOwed, TypeOK
  <2>3. CASE n # m
    BY <2>1, <2>3 DEF DirtyInv, Watched, SaveOwed, InScan, TypeOK
  <2> QED
    BY <2>2, <2>3
<1>4. ASSUME NEW m \in Managers, NotifyDirty(m) PROVE Watched(n)' /\ dirty'[n] => SaveOwed(n)'
  <2>1. /\ UNCHANGED <<dirty, autoSaveEnabled, ctl, pc, allSaved, scan, bound, owner, cur>>
        /\ pending' = (pending \/ autoSaveEnabled[m])
        /\ toNotify' = [toNotify EXCEPT ![m] = FALSE]
    BY <1>4 DEF NotifyDirty
  <2>2. CASE n = m
    BY <2>1, <2>2 DEF Watched, SaveOwed
  <2>3. CASE n # m
    BY <2>1, <2>3 DEF DirtyInv, Watched, SaveOwed, InScan, TypeOK
  <2> QED
    BY <2>2, <2>3
<1>5. ASSUME NEW m \in Managers, Enable(m) \/ Disable(m)
      PROVE  Watched(n)' /\ dirty'[n] => SaveOwed(n)'
  <2>1. /\ UNCHANGED <<dirty, toNotify, pending, pc, allSaved, scan, bound, owner, cur>>
        /\ Watched(n)' => Watched(n)
    BY <1>5 DEF Enable, Disable, Watched, TypeOK
  <2> QED
    BY <2>1 DEF DirtyInv, SaveOwed, InScan
<1>6. ASSUME NEW m \in Managers, Register(m) PROVE Watched(n)' /\ dirty'[n] => SaveOwed(n)'
  BY <1>6 DEF Register, SaveOwed
<1>7. ASSUME NEW m \in Managers, Unregister(m) \/ Destroy(m)
      PROVE  Watched(n)' /\ dirty'[n] => SaveOwed(n)'
  <2>1. /\ UNCHANGED <<dirty, toNotify, pending, pc, allSaved, scan, bound, owner, cur>>
        /\ Watched(n)' => Watched(n)
    BY <1>7 DEF Unregister, Destroy, Watched, TypeOK, LifecycleInv
  <2> QED
    BY <2>1 DEF DirtyInv, SaveOwed, InScan
<1>8. ASSUME NEW m \in Managers, ReleaseUse(m) PROVE Watched(n)' /\ dirty'[n] => SaveOwed(n)'
  <2>1. /\ UNCHANGED <<dirty, autoSaveEnabled, toNotify, pending, pc, allSaved, scan, owner, cur>>
        /\ ctl[m] = "release" /\ bound' = [r \in Regs |-> bound[r] /\ owner[r] # m]
        /\ \A x \in Managers : x # m => ctl'[x] = ctl[x]
    BY <1>8 DEF ReleaseUse, DisableReturn, TypeOK
  <2>2. n = m => ~Watched(n)'
    BY <2>1 DEF Watched, LifecycleInv
  <2>3. scan["worker"] \subseteq Regs
    BY DEF TypeOK
  <2>4. CASE n # m
    BY <2>1, <2>3, <2>4 DEF DirtyInv, Watched, SaveOwed, InScan
  <2> QED
    BY <2>2, <2>4
<1>9. ASSUME NEW m \in Managers, Join(m) PROVE Watched(n)' /\ dirty'[n] => SaveOwed(n)'
  <2>1. /\ UNCHANGED <<dirty, autoSaveEnabled, toNotify, pending>> /\ pc["worker"] = "exit"
        /\ ctl[m] = "join" /\ ctl' = [ctl EXCEPT ![m] = "idle"]
    BY <1>9 DEF Join, DisableReturn
  <2>2. Watched(n)' => Watched(n)
    BY <2>1 DEF Watched, LifecycleInv, TypeOK
  <2> QED
    BY <2>1, <2>2 DEF DirtyInv, SaveOwed, InScan
<1>10. ASSUME Visit("flush") PROVE Watched(n)' /\ dirty'[n] => SaveOwed(n)'
  <2>1. /\ UNCHANGED <<dirty, autoSaveEnabled, ctl, toNotify, pending, allSaved, bound, owner>>
        /\ pc'["worker"] = pc["worker"] /\ scan'["worker"] = scan["worker"]
        /\ cur'["worker"] = cur["worker"]
    BY <1>10 DEF Visit, TypeOK
  <2> QED
    BY <2>1 DEF DirtyInv, Watched, SaveOwed, InScan
<1>11. ASSUME Visit("worker") PROVE Watched(n)' /\ dirty'[n] => SaveOwed(n)'
  <2>1. /\ UNCHANGED <<dirty, autoSaveEnabled, ctl, toNotify, pending, allSaved, bound, owner>>
        /\ pc["worker"] = "scan"
    BY <1>11 DEF Visit
  <2>2. PICK r \in scan["worker"] :
          /\ scan' = [scan EXCEPT !["worker"] = @ \ {r}]
          /\ IF bound[r] /\ dirty[owner[r]]
             THEN /\ cur' = [cur EXCEPT !["worker"] = r]
                  /\ pc' = [pc EXCEPT !["worker"] = "saving"]
             ELSE UNCHANGED <<cur, pc>>
    BY <1>11 DEF Visit
  <2>3. pc'["worker"] \in {"scan", "saving"} /\ scan'["worker"] = scan["worker"] \ {r}
    BY <2>1, <2>2 DEF TypeOK
  <2>4. CASE bound[r] /\ owner[r] = n
    <3>1. dirty[n] => cur'["worker"] = r /\ pc'["worker"] = "saving"
      BY <2>2, <2>4 DEF TypeOK
    <3> QED
      BY <2>1, <2>4, <3>1 DEF SaveOwed, InScan
  <2>5. CASE ~(bound[r] /\ owner[r] = n)
    <3>1. InScan(n) => InScan(n)'
      BY <2>1, <2>3, <2>5 DEF InScan
    <3> QED
      BY <2>1, <3>1 DEF DirtyInv, Watched, SaveOwed
  <2> QED
    BY <2>4, <2>5
<1>12. ASSUME SaveDone("flush") PROVE Watched(n)' /\ dirty'[n] => SaveOwed(n)'
  <2>1. /\ UNCHANGED <<autoSaveEnabled, ctl, toNotify, pending, bound, owner, scan>>
        /\ pc["flush"] = "saving"
        /\ pc'["worker"] = pc["worker"] /\ allSaved'["worker"] = allSaved["worker"]
        /\ cur'["worker"] = cur["worker"]
    BY <1>12 DEF SaveDone, TypeOK
  <2>2. \/ UNCHANGED dirty
        \/ dirty' = [dirty EXCEPT ![owner[cur["flush"]]] = stale["flush"]]
    BY <1>12 DEF SaveDone
  <2>3. stale["flush"] => dirty[owner[cur["flush"]]]
    BY <2>1 DEF StaleInv
  <2>4. dirty'[n] => dirty[n]
    BY <2>2, <2>3 DEF TypeOK
  <2> QED
    BY <2>1, <2>4 DEF DirtyInv, Watched, SaveOwed, InScan
<1>13. ASSUME SaveDone("worker") PROVE Watched(n)' /\ dirty'[n] => SaveOwed(n)'
  <2>1. /\ UNCHANGED <<autoSaveEnabled, ctl, toNotify, pending, bound, owner, scan>>
        /\ pc["worker"] = "saving" /\ pc'["worker"] = "scan"
    BY <1>13 DEF SaveDone, TypeOK
  <2>2. \/ allSaved'["worker"] = FALSE
        \/ /\ allSaved' = allSaved
           /\ dirty' = [dirty EXCEPT ![owner[cur["worker"]]] = stale["worker"]]
    BY <1>13 DEF SaveDone, TypeOK
  <2>3. CASE allSaved'["worker"] = FALSE
    BY <2>1, <2>3 DEF SaveOwed, InScan
  <2>4. CASE /\ allSaved' = allSaved
             /\ dirty' = [dirty EXCEPT ![owner[cur["worker"]]] = stale["worker"]]
    <3>1. CASE n = owner[cur["worker"]]
      <4>1. dirty'[n] => stale["worker"]
        BY <2>4, <3>1 DEF TypeOK
      <4>2. stale["worker"] /\ Watched(n) => toNotify[n] \/ pending
        BY <2>1, <3>1 DEF StaleInv
      <4> QED
        BY <2>1, <4>1, <4>2 DEF Watched, SaveOwed
    <3>2. CASE n # owner[cur["worker"]]
      <4>1. dirty'[n] = dirty[n]
        BY <2>4, <3>2 DEF TypeOK
      <4>2. InScan(n) => InScan(n)'
        BY <2>1, <2>4, <3>2 DEF InScan
      <4> QED
        BY <2>1, <4>1, <4>2 DEF DirtyInv, Watched, SaveOwed
    <3> QED
      BY <3>1, <3>2
  <2> QED
    BY <2>2, <2>3, <2>4
<1>14. ASSUME FlushAll \/ FlushEnd PROVE Watched(n)' /\ dirty'[n] => SaveOwed(n)'
  <2>1. /\ UNCHANGED <<dirty, autoSaveEnabled, ctl, toNotify, pending, bound, owner, cur>>
        /\ pc'["worker"] = pc["worker"] /\ scan'["worker"] = scan["worker"]
        /\ allSaved'["worker"] = allSaved["worker"]
    BY <1>14 DEF FlushAll, FlushEnd, TypeOK
  <2> QED
    BY <2>1 DEF DirtyInv, Watched, SaveOwed, InScan
<1>15. ASSUME WorkerWait PROVE Watched(n)' /\ dirty'[n] => SaveOwed(n)'
  <2>1. /\ UNCHANGED <<dirty, autoSaveEnabled, ctl, toNotify, pending>> /\ pc["worker"] = "wait"
    BY <1>15 DEF WorkerWait
  <2> QED
    BY <2>1 DEF DirtyInv, Watched, SaveOwed, InScan
<1>16. ASSUME WorkerCoalesce PROVE Watched(n)' /\ dirty'[n] => SaveOwed(n)'
  <2>1. /\ UNCHANGED <<dirty, autoSaveEnabled, ctl, toNotify, bound, owner>>
        /\ pc["worker"] = "coalesce"
    BY <1>16 DEF WorkerCoalesce
  <2>2. CASE stopping
    BY <1>16, <2>1, <2>2 DEF WorkerCoalesce, DirtyInv, Watched, SaveOwed, InScan
  <2>3. CASE ~stopping
    <3>1. scan'["worker"] = managers /\ pc'["worker"] = "scan"
      BY <1>16, <2>3 DEF WorkerCoalesce, TypeOK
    <3>2. Watched(n) => \E r \in managers : bound[r] /\ owner[r] = n
      BY DEF Watched, WorkerInv, RegInv
    <3> QED
      BY <2>1, <3>1, <3>2 DEF Watched, SaveOwed, InScan
  <2> QED
    BY <2>2, <2>3
<1>17. ASSUME WorkerScanned PROVE Watched(n)' /\ dirty'[n] => SaveOwed(n)'
  <2>1. /\ UNCHANGED <<dirty, autoSaveEnabled, ctl, toNotify>>
        /\ pc["worker"] = "scan" /\ scan["worker"] = {}
        /\ pending' = (pending \/ ~allSaved["worker"])
    BY <1>17 DEF WorkerScanned
  <2> QED
    BY <2>1 DEF DirtyInv, Watched, SaveOwed, InScan
<1> QED
  BY <1>2, <1>3, <1>4, <1>5, <1>6, <1>7, <1>8, <1>9, <1>10, <1>11, <1>12, <1>13, <1>14, <1>15,
     <1>16, <1>17 DEF Next, Lifecycle, WorkerLoop

\* A step keeps an edit that falls into a save announced: the save that ends
\* does not wipe it out.
LEMMA StaleStep ==
  ASSUME IInv, RegInv, StaleInv, [Next]_vars, NEW u \in Users, pc'[u] = "saving", stale'[u]
  PROVE  /\ dirty'[owner'[cur'[u]]]
         /\ u = "worker" /\ Watched(owner[cur[u]])' => toNotify'[owner'[cur'[u]]] \/ pending'
<1>1. TypeOK /\ LifecycleInv /\ UseInv /\ WorkerInv
  BY DEF IInv
<1> USE <1>1 DEF mgrVars, regVars, savVars, ctlVars, userVars, counters
<1> DEFINE n == owner[cur[u]]
           Goal == /\ dirty'[owner'[cur'[u]]]
                   /\ u = "worker" /\ Watched(owner[cur[u]])' => toNotify'[owner'[cur'[u]]] \/ pending'
<1>2. pc[u] = "saving" => /\ cur[u] \in 1 .. enables /\ cur[u] \in Regs /\ bound[cur[u]]
                          /\ owner[cur[u]] \in Managers
  BY DEF TypeOK, UseInv
<1>3. pc[u] = "saving" /\ stale[u] =>
        dirty[n] /\ (u = "worker" /\ Watched(n) => toNotify[n] \/ pending)
  BY DEF StaleInv
<1> HIDE DEF n, Goal
<1>4. CASE UNCHANGED vars
  <2>1. UNCHANGED <<pc, stale, cur, dirty, owner, toNotify, pending, autoSaveEnabled, ctl>>
    BY <1>4 DEF vars
  <2> QED
    BY <1>3, <2>1 DEF Watched, Goal, n
<1>5. ASSUME NEW m \in Managers, Edit(m) PROVE Goal
  <2>1. /\ UNCHANGED <<autoSaveEnabled, ctl, pending, pc, owner, cur>>
        /\ dirty' = [dirty EXCEPT ![m] = TRUE] /\ toNotify' = [toNotify EXCEPT ![m] = TRUE]
        /\ stale' = [v \in Users |-> stale[v] \/ (pc[v] = "saving" /\ owner[cur[v]] = m)]
    BY <1>5 DEF Edit
  <2>2. CASE n = m
    BY <1>2, <2>1, <2>2 DEF Goal, n, TypeOK
  <2>3. CASE n # m
    <3>1. stale[u]
      BY <2>1, <2>3 DEF n
    <3> QED
      BY <1>2, <1>3, <2>1, <2>3, <3>1 DEF Goal, n, Watched, TypeOK
  <2> QED
    BY <2>2, <2>3
<1>6. ASSUME NEW m \in Managers, NotifyDirty(m) PROVE Goal
  <2>1. /\ UNCHANGED <<dirty, autoSaveEnabled, ctl, pc, stale, owner, cur>>
        /\ pending' = (pending \/ autoSaveEnabled[m])
        /\ toNotify' = [toNotify EXCEPT ![m] = FALSE]
    BY <1>6 DEF NotifyDirty
  <2>2. CASE n = m
    BY <1>3, <2>1, <2>2 DEF Watched, Goal, n
  <2>3. CASE n # m
    BY <1>2, <1>3, <2>1, <2>3 DEF Watched, Goal, n, TypeOK
  <2> QED
    BY <2>2, <2>3
<1>7. ASSUME NEW m \in Managers, Enable(m) \/ Disable(m) \/ Unregister(m) \/ ReleaseUse(m) \/ Destroy(m)
      PROVE  Goal
  <2>1. UNCHANGED <<dirty, toNotify, pending, pc, stale, owner, cur>>
    BY <1>7 DEF Enable, Disable, Unregister, ReleaseUse, Destroy
  <2>2. ASSUME NEW x \in Managers, Watched(x)' PROVE Watched(x)
    BY <1>7, <2>2 DEF Enable, Disable, Unregister, ReleaseUse, DisableReturn, Destroy, Watched,
       TypeOK, LifecycleInv
  <2>3. n \in Managers
    BY <1>2, <2>1 DEF n
  <2> QED
    BY <1>3, <2>1, <2>2, <2>3 DEF Goal, n, Watched
<1>8. ASSUME NEW m \in Managers, Register(m) PROVE Goal
  <2>1. /\ UNCHANGED <<dirty, stale, cur>> /\ pending' = TRUE
        /\ owner' = [r \in 1 .. enables + 1 |-> IF r = enables + 1 THEN m ELSE owner[r]]
        /\ pc'[u] = "saving" => pc[u] = "saving"
    BY <1>8 DEF Register, TypeOK
  <2>2. enables \in Nat
    BY DEF TypeOK
  <2>3. owner'[cur[u]] = owner[cur[u]]
    BY <1>2, <2>1, <2>2
  <2> QED
    BY <1>3, <2>1, <2>3 DEF Goal, n
<1>9. ASSUME NEW m \in Managers, Join(m) PROVE Goal
  <2>1. /\ UNCHANGED <<dirty, autoSaveEnabled, toNotify, pending, stale, owner, cur>>
        /\ pc' = [pc EXCEPT !["worker"] = "none"]
    BY <1>9 DEF Join
  <2>2. u # "worker" /\ pc[u] = "saving"
    BY <2>1 DEF TypeOK
  <2> QED
    BY <1>3, <2>1, <2>2 DEF Goal, n
<1>10. ASSUME NEW v \in Users, Visit(v) PROVE Goal
  <2>1. /\ UNCHANGED <<dirty, autoSaveEnabled, ctl, toNotify, pending, owner>>
        /\ \/ UNCHANGED <<cur, stale, pc>>
           \/ /\ \E r \in scan[v] : cur' = [cur EXCEPT ![v] = r]
              /\ stale' = [stale EXCEPT ![v] = FALSE] /\ pc' = [pc EXCEPT ![v] = "saving"]
    BY <1>10 DEF Visit
  <2>2. cur'[u] = cur[u] /\ stale[u] /\ pc[u] = "saving"
    BY <2>1 DEF TypeOK
  <2> QED
    BY <1>3, <2>1, <2>2 DEF Goal, n, Watched
<1>11. ASSUME NEW v \in Users, SaveDone(v) PROVE Goal
  <2>1. /\ UNCHANGED <<autoSaveEnabled, ctl, toNotify, pending, owner>> /\ pc[v] = "saving"
        /\ cur' = [cur EXCEPT ![v] = NoReg] /\ stale' = [stale EXCEPT ![v] = FALSE]
        /\ pc' = [pc EXCEPT ![v] = "scan"]
        /\ UNCHANGED dirty \/ dirty' = [dirty EXCEPT ![owner[cur[v]]] = stale[v]]
    BY <1>11 DEF SaveDone
  <2>2. u # v /\ cur'[u] = cur[u] /\ stale[u] /\ pc[u] = "saving"
    BY <2>1 DEF TypeOK
  <2>3. owner[cur[v]] # owner[cur[u]]
    <3>1. cur[v] \in Regs /\ bound[cur[v]] /\ useMtx[cur[v]] = v
      BY <2>1 DEF TypeOK, UseInv
    <3>2. useMtx[cur[u]] = u
      BY <1>2, <2>2 DEF UseInv
    <3>3. cur[u] # cur[v]
      BY <2>2, <3>1, <3>2
    <3> QED
      BY <1>2, <2>2, <3>1, <3>3 DEF RegInv
  <2>4. dirty'[n] = dirty[n]
    BY <1>2, <2>1, <2>2, <2>3 DEF n, TypeOK
  <2> QED
    BY <1>3, <2>1, <2>2, <2>4 DEF Goal, n, Watched
<1>12. ASSUME FlushAll \/ FlushEnd \/ WorkerWait \/ WorkerCoalesce \/ WorkerScanned PROVE Goal
  <2>1. /\ UNCHANGED <<dirty, autoSaveEnabled, ctl, toNotify, stale, owner, cur>>
        /\ pc[u] = "saving"
        /\ u = "worker" => UNCHANGED pending
    BY <1>12 DEF FlushAll, FlushEnd, WorkerWait, WorkerCoalesce, WorkerScanned, TypeOK
  <2> QED
    BY <1>3, <2>1 DEF Goal, n, Watched
<1> QED
  BY <1>4, <1>5, <1>6, <1>7, <1>8, <1>9, <1>10, <1>11, <1>12
     DEF Next, Lifecycle, WorkerLoop, Goal

\* No edit is forgotten: for any number of managers, however the notification,
\* the worker's reset of pending, its scan, flushAll(), failed saves, enable and
\* disable fall together, a registered manager that is dirty has somebody who is
\* going to save it (config.cpp release, notifyDirty, saveManagers, run).
THEOREM EditsAreNotForgotten == Spec => []NoEditForgotten
<1>1. Init => RegInv /\ DirtyInv /\ StaleInv
  BY DEF Init, RegInv, DirtyInv, StaleInv, Watched
<1>2. IInv /\ RegInv /\ DirtyInv /\ StaleInv /\ [Next]_vars => RegInv' /\ DirtyInv' /\ StaleInv'
  <2> SUFFICES ASSUME IInv, RegInv, DirtyInv, StaleInv, [Next]_vars
               PROVE  RegInv' /\ DirtyInv' /\ StaleInv'
    OBVIOUS
  <2>1. RegInv'
    BY RegStep
  <2>2. DirtyInv'
    BY DirtyStep DEF DirtyInv
  <2>3. StaleInv'
    BY StaleStep DEF StaleInv, Watched
  <2> QED
    BY <2>1, <2>2, <2>3
<1>3. ASSUME IInv, DirtyInv PROVE NoEditForgotten
  <2> SUFFICES ASSUME NEW m \in Managers, Watched(m), dirty[m]
               PROVE  /\ SaveOwed(m)
                      /\ ~stopping /\ pc["worker"] \in {"wait", "coalesce", "scan", "saving"}
    BY DEF NoEditForgotten
  <2>1. SaveOwed(m)
    BY <1>3 DEF DirtyInv
  <2>2. managers # {}
    BY <1>3 DEF IInv, WorkerInv, Watched
  <2>3. ~stopping /\ pc["worker"] \notin {"none", "exit"}
    BY <1>3, <2>2 DEF IInv, WorkerInv, Joinable
  <2>4. pc["worker"] \in {"none", "wait", "coalesce", "scan", "saving", "exit"}
    BY <1>3 DEF IInv, TypeOK
  <2> QED
    BY <2>1, <2>3, <2>4
<1> QED
  BY <1>1, <1>2, <1>3, SaverInvariant, PTL DEF Spec

-----------------------------------------------------------------------------
(***************************************************************************)
(* What the return of enable() and disable() rests on.                     *)
(***************************************************************************)

\* disable() joins a worker that was told to stop, and it is there.
JoinInv ==
  \A m \in Managers :
    /\ ctl[m] = "join" => stopping
    /\ ctl[m] \in {"release", "join"} /\ stopping => Joinable

\* disable() waits for nobody who waits in turn: the holder of a useMtx is
\* saving, and the worker it joins has been woken, or is behind a save of
\* flushAll(), or can go on.
LifecycleNotBlocked ==
  \A m \in Managers :
    /\ ctl[m] = "release" =>
         \A r \in DOMAIN owner : owner[r] = m /\ useMtx[r] # NoHolder => pc[useMtx[r]] = "saving"
    /\ ctl[m] = "join" =>
         /\ stopping /\ pc["worker"] # "none"
         /\ pc["worker"] = "scan" =>
              \A r \in scan["worker"] : useMtx[r] # NoHolder => pc["flush"] = "saving"

\* The steps the worker has left when it is told to stop: those of the scan it
\* is in, and the end.
WorkerLeft ==
  2 * Cardinality(scan["worker"]) +
  CASE pc["worker"] = "saving" -> 4
    [] pc["worker"] = "scan" -> 3
    [] pc["worker"] \in {"wait", "coalesce"} -> 2
    [] pc["worker"] = "exit" -> 1
    [] pc["worker"] = "none" -> 0

JoinCountsDown ==
  [][\A m \in Managers :
       ctl[m] = "join" /\ (pc'["worker"] # pc["worker"] \/ scan'["worker"] # scan["worker"])
         => WorkerLeft' < WorkerLeft]_vars

\* stopping is set for a worker that runs, and only the join takes it away.
LEMMA JoinStep ==
  ASSUME IInv, JoinInv, [Next]_vars
  PROVE  JoinInv'
<1> USE DEF mgrVars, regVars, savVars, ctlVars, userVars, counters, Joinable
<1>1. TypeOK /\ LifecycleInv /\ WorkerInv
  BY DEF IInv
<1>2. ASSUME NEW m \in Managers, Enable(m) \/ Disable(m) PROVE JoinInv'
  <2>1. UNCHANGED <<stopping, pc>>
        /\ \A n \in Managers : ctl'[n] \in {"release", "join"} => ctl[n] = ctl'[n]
    BY <1>1, <1>2 DEF Enable, Disable, TypeOK
  <2> QED
    BY <2>1 DEF JoinInv
<1>3. ASSUME NEW m \in Managers, Register(m) \/ Join(m) PROVE JoinInv'
  <2>1. \A n \in Managers : ctl'[n] = "idle"
    BY <1>1, <1>3 DEF Register, Join, DisableReturn, TypeOK, LifecycleInv
  <2> QED
    BY <2>1 DEF JoinInv
<1>4. ASSUME NEW m \in Managers, Unregister(m) PROVE JoinInv'
  <2>1. /\ \A n \in Managers \ {m} : ctl'[n] = "idle"
        /\ ctl'[m] = "release" /\ pc' = pc
    BY <1>1, <1>4 DEF Unregister, TypeOK, LifecycleInv
  <2>2. ~stopping
    <3>1. m \in {owner[r] : r \in managers}
      BY <1>1, <1>4 DEF Unregister, WorkerInv
    <3> QED
      BY <1>1, <3>1 DEF WorkerInv
  <2>3. stopping' => Joinable
    BY <1>4, <2>2 DEF Unregister
  <2> QED
    BY <2>1, <2>3 DEF JoinInv
<1>5. ASSUME NEW m \in Managers, ReleaseUse(m) PROVE JoinInv'
  <2>1. /\ \A n \in Managers \ {m} : ctl'[n] = ctl[n]
        /\ ctl[m] = "release" /\ UNCHANGED <<pc, stopping>>
        /\ ctl'[m] = IF stopping THEN "join" ELSE "idle"
    BY <1>1, <1>5 DEF ReleaseUse, DisableReturn, TypeOK
  <2> QED
    BY <2>1 DEF JoinInv
<1>6. CASE \/ \E m \in Managers : Edit(m) \/ NotifyDirty(m) \/ Destroy(m)
           \/ \E u \in Users : Visit(u) \/ SaveDone(u)
           \/ FlushAll \/ FlushEnd \/ WorkerLoop \/ UNCHANGED vars
  <2>1. UNCHANGED <<ctl, stopping>> /\ (pc["worker"] # "none" => pc'["worker"] # "none")
    BY <1>1, <1>6 DEF Edit, NotifyDirty, Destroy, Visit, SaveDone, FlushAll, FlushEnd, WorkerLoop,
       WorkerWait, WorkerCoalesce, WorkerScanned, TypeOK, vars
  <2> QED
    BY <2>1 DEF JoinInv
<1> QED
  BY <1>2, <1>3, <1>4, <1>5, <1>6 DEF Next, Lifecycle

\* A disable() that finds stopping set is the one that set it, so it joins, as
\* its local variable join says in the code, and the worker is there.
THEOREM JoinInvariant == Spec => []JoinInv
<1>1. Init => JoinInv
  BY DEF Init, JoinInv
<1> QED
  BY <1>1, JoinStep, SaverInvariant, PTL DEF Spec

\* For any number of managers disable() waits only for a save under way or for
\* a worker that has been told to stop, and neither waits for disable(): there
\* is no circle of waits through lifecycleMtx, the useMtx's and the join
\* (config.cpp 386-418, 462-473).
THEOREM LifecycleIsNotBlocked == Spec => []LifecycleNotBlocked
<1>1. ASSUME IInv, JoinInv PROVE LifecycleNotBlocked
  <2>1. ASSUME NEW r \in 1 .. enables, useMtx[r] # NoHolder
        PROVE  useMtx[r] \in Users /\ pc[useMtx[r]] = "saving"
    <3>1. r \in Regs /\ useMtx[r] \in Users
      <4>1. enables \in 0 .. MaxEnables /\ useMtx \in [Regs -> Users \cup {NoHolder}]
        BY <1>1 DEF IInv, TypeOK
      <4>2. r \in Regs
        BY <2>1, <4>1
      <4> QED
        BY <2>1, <4>1, <4>2
    <3>2. cur[useMtx[r]] = r
      BY <1>1, <3>1 DEF IInv, UseInv
    <3> QED
      BY <1>1, <3>1, <3>2 DEF IInv, TypeOK
  <2>2. ASSUME NEW m \in Managers, ctl[m] = "release", NEW r \in DOMAIN owner, useMtx[r] # NoHolder
        PROVE  pc[useMtx[r]] = "saving"
    BY <1>1, <2>1, <2>2 DEF IInv, TypeOK
  <2>3. ASSUME NEW m \in Managers, ctl[m] = "join" PROVE stopping /\ pc["worker"] # "none"
    BY <1>1, <2>3 DEF JoinInv, Joinable
  <2>4. ASSUME pc["worker"] = "scan", NEW r \in scan["worker"], useMtx[r] # NoHolder
        PROVE  pc["flush"] = "saving"
    <3>1. r \in 1 .. enables
      BY <1>1 DEF IInv, TypeOK
    <3> QED
      BY <2>1, <2>4, <3>1
  <2> QED
    BY <2>2, <2>3, <2>4 DEF LifecycleNotBlocked
<1> QED
  BY <1>1, SaverInvariant, JoinInvariant, PTL

\* From the join on every step of the worker brings it nearer to its end: it
\* finishes the scan it is in and begins no other (config.cpp 475-496).
THEOREM JoinsCountDown == Spec => JoinCountsDown
<1>1. ASSUME IInv, JoinInv, [Next]_vars
      PROVE  [\A m \in Managers :
                ctl[m] = "join"
                /\ (pc'["worker"] # pc["worker"] \/ scan'["worker"] # scan["worker"])
                  => WorkerLeft' < WorkerLeft]_vars
  <2> SUFFICES ASSUME Next, NEW m \in Managers, ctl[m] = "join",
                      pc'["worker"] # pc["worker"] \/ scan'["worker"] # scan["worker"]
               PROVE  WorkerLeft' < WorkerLeft
    BY <1>1
  <2> USE DEF mgrVars, regVars, savVars, ctlVars, userVars, counters
  <2> DEFINE S == scan["worker"]
             p == pc["worker"]
  <2>1. /\ TypeOK /\ LifecycleInv /\ stopping
        /\ \A n \in Managers \ {m} : ctl[n] = "idle"
    BY <1>1 DEF IInv, JoinInv, LifecycleInv
  <2>2. /\ IsFiniteSet(S) /\ Cardinality(S) \in Nat
        /\ \A r \in S : Cardinality(S \ {r}) = Cardinality(S) - 1
    <3>1. S \subseteq 1 .. enables /\ enables \in Nat
      BY <2>1 DEF TypeOK
    <3>2. IsFiniteSet(1 .. enables)
      BY <3>1, FS_Interval
    <3>3. IsFiniteSet(S)
      BY <3>1, <3>2, FS_Subset
    <3> QED
      BY <3>3, FS_CardinalityType, FS_RemoveElement
  <2>3. \/ p = "exit" /\ p' = "none" /\ S' = S
        \/ p \in {"wait", "coalesce"} /\ p' = "exit" /\ S' = S
        \/ p = "scan" /\ p' = "wait" /\ S' = S
        \/ p = "saving" /\ p' = "scan" /\ S' = S
        \/ p = "scan" /\ p' \in {"scan", "saving"} /\ \E r \in S : S' = S \ {r}
    <3>1. ASSUME NEW n \in Managers,
                 \/ Edit(n) \/ NotifyDirty(n) \/ Enable(n) \/ Disable(n) \/ Destroy(n)
                 \/ Register(n) \/ Unregister(n) \/ ReleaseUse(n)
          PROVE  FALSE
      <4>1. n = m \/ ctl[n] = "idle"
        BY <2>1
      <4> QED
        BY <3>1, <4>1 DEF Edit, NotifyDirty, Enable, Disable, Destroy, Register, Unregister,
           ReleaseUse
    <3>2. ASSUME NEW n \in Managers, Join(n) PROVE p = "exit" /\ p' = "none" /\ S' = S
      BY <2>1, <3>2 DEF Join, TypeOK
    <3>3. ASSUME Visit("flush") \/ SaveDone("flush") \/ FlushAll \/ FlushEnd PROVE FALSE
      <4>1. pc \in [Users -> {"none", "wait", "coalesce", "scan", "saving", "exit"}]
            /\ scan \in [Users -> SUBSET (1 .. enables)]
        BY <2>1 DEF TypeOK
      <4>2. CASE Visit("flush")
        BY <4>1, <4>2 DEF Visit
      <4>3. CASE SaveDone("flush")
        BY <4>1, <4>3 DEF SaveDone
      <4>4. CASE FlushAll \/ FlushEnd
        BY <4>1, <4>4 DEF FlushAll, FlushEnd
      <4> QED
        BY <3>3, <4>2, <4>3, <4>4
    <3>4. ASSUME Visit("worker")
          PROVE  p = "scan" /\ p' \in {"scan", "saving"} /\ \E r \in S : S' = S \ {r}
      BY <2>1, <3>4 DEF Visit, TypeOK
    <3>5. ASSUME SaveDone("worker") PROVE p = "saving" /\ p' = "scan" /\ S' = S
      BY <2>1, <3>5 DEF SaveDone, TypeOK
    <3>6. ASSUME WorkerLoop
          PROVE  \/ p \in {"wait", "coalesce"} /\ p' = "exit" /\ S' = S
                 \/ p = "scan" /\ p' = "wait" /\ S' = S
      BY <2>1, <3>6 DEF WorkerLoop, WorkerWait, WorkerCoalesce, WorkerScanned, TypeOK
    <3> QED
      BY <3>1, <3>2, <3>3, <3>4, <3>5, <3>6 DEF Next, Lifecycle
  <2> HIDE DEF S, p
  <2>4. /\ p = "saving" => WorkerLeft = 2 * Cardinality(S) + 4
        /\ p = "scan" => WorkerLeft = 2 * Cardinality(S) + 3
        /\ p \in {"wait", "coalesce"} => WorkerLeft = 2 * Cardinality(S) + 2
        /\ p = "exit" => WorkerLeft = 2 * Cardinality(S) + 1
    BY DEF WorkerLeft, S, p
  <2>5. /\ p' = "saving" => WorkerLeft' = 2 * Cardinality(S') + 4
        /\ p' = "scan" => WorkerLeft' = 2 * Cardinality(S') + 3
        /\ p' = "wait" => WorkerLeft' = 2 * Cardinality(S') + 2
        /\ p' = "exit" => WorkerLeft' = 2 * Cardinality(S') + 1
        /\ p' = "none" => WorkerLeft' = 2 * Cardinality(S') + 0
    BY DEF WorkerLeft, S, p
  <2>6. CASE S' = S
    BY <2>2, <2>3, <2>4, <2>5, <2>6
  <2>7. ASSUME NEW r \in S, S' = S \ {r} PROVE WorkerLeft' < WorkerLeft
    <3>1. Cardinality(S') = Cardinality(S) - 1 /\ S' # S
      BY <2>2, <2>7
    <3> QED
      BY <2>2, <2>3, <2>4, <2>5, <3>1
  <2> QED
    BY <2>3, <2>6, <2>7
<1> QED
  BY <1>1, SaverInvariant, JoinInvariant, PTL DEF Spec, JoinCountsDown
=============================================================================
