-------------------------- MODULE ConfigStoreProofs --------------------------
(***************************************************************************)
(* ConfigStore for any number of processes, keys, values, edits, faults,   *)
(* restarts and crashes: the commit lock guards the file and is not left   *)
(* behind, no commit writes back a key its process did not edit, no edit   *)
(* is taken back, and what is not dirty is on disk.                        *)
(*                                                                         *)
(* The second half is about ConfigMerge, for documents of any nesting: the *)
(* merge keeps the local changes and what others wrote, and does not       *)
(* depend on the order of independent commits.                             *)
(***************************************************************************)
EXTENDS ConfigCommit, WellFoundedInduction, TLAPS

Saving(p) == op[p].kind \in {"save", "auto", "final"}

\* The commit lock, for one process: NoLockout.
LockInv(p) ==
  /\ op[p].pc \in {"read", "write", "rename"} => commitLock = p
  /\ commitLock = p => \/ op[p].pc \in {"read", "write", "rename"}
                       \/ Loading(p) /\ At(p, "commit")

\* Which operations there can be in which phase of a manager's life.
LifeInv(p) ==
  /\ op[p].kind = "none" \/ op[p].pc = "idle" => op[p] = NoOp
  /\ ~Running(p) => op[p] = NoOp /\ ~baselineValid[p] /\ shut[p] = "no"
  /\ Running(p) => (baselineValid[p] <=> ~Loading(p))
  /\ shut[p] # "no" => lifecycleState[p] = "Closing" /\ baselineValid[p]
  /\ shut[p] \in {"save", "check"} => ~autoSaveEnabled[p]
  /\ shut[p] = "check" => op[p] = NoOp
  /\ lifecycleState[p] = "Closed" => op[p] = NoOp /\ ~autoSaveEnabled[p] /\ ~dirty[p]
  /\ op[p].kind = "auto" => autoSaveEnabled[p]
  /\ op[p].kind = "final" => shut[p] = "save"

\* The live document, the snapshot of the operation under way and the
\* baseline differ only in keys edited in between, and in none that
\* belongs to another process; an uncommitted edit keeps the manager dirty.
EditInv(p) ==
  /\ \A q \in Procs \ {p} : (unsaved[p] \cup inflight[p]) \cap Own[q] = {}
  /\ op[p] # NoOp => \A k \in Keys : conf[p][k] # op[p].local[k] => k \in unsaved[p]
  /\ op[p] # NoOp /\ ~op[p].stale => conf[p] = op[p].local /\ unsaved[p] = {}
  /\ Saving(p) => \A k \in Keys : op[p].local[k] # baseline[p][k] => k \in inflight[p]
  /\ op[p] = NoOp /\ baselineValid[p] =>
       \A k \in Keys : conf[p][k] # baseline[p][k] => k \in unsaved[p]
  /\ baselineValid[p] /\ ~dirty[p] => conf[p] = baseline[p]
  /\ unsaved[p] \cup inflight[p] # {} => Running(p) /\ dirty[p]
  /\ ~Saving(p) => inflight[p] = {}

\* The document of the operation under way: the lock keeps the file as it
\* was when the document was made, and afterwards other processes leave p's
\* own keys alone.
DocInv(p) ==
  /\ Saving(p) /\ op[p].pc \in {"write", "rename"} =>
       op[p].doc = MergeFlat(baseline[p], op[p].local, Newest(p))
  /\ Saving(p) /\ op[p].pc = "commit" =>
       fstat = "ok" /\ \A k \in Own[p] : disk[k] = op[p].doc[k]
  /\ Saving(p) /\ op[p].pc \in {"write", "rename", "commit"} =>
       \A k \in Own[p] : ~blind[p] \/ op[p].local[k] # baseline[p][k] =>
         op[p].doc[k] = op[p].local[k]
  /\ Loading(p) /\ op[p].pc \in {"write", "rename"} => fstat # "ok"
  /\ Loading(p) /\ op[p].pc # "commit" => ~op[p].persisted
  /\ Loading(p) /\ op[p].persisted => commitLock = p /\ fstat = "ok" /\ disk = op[p].doc

\* The file has p's own keys as p's baseline has them, unless p started from
\* a default that is not on disk; what the user chose is live, and on disk
\* once it is committed.
DiskInv(p) ==
  /\ baselineValid[p] /\ ~blind[p] => fstat = "ok"
  /\ baselineValid[p] /\ ~blind[p] /\ ~(Saving(p) /\ op[p].pc = "commit") =>
       \A k \in Own[p] : disk[k] = baseline[p][k]
  /\ \A k \in Keys \ unseen[p] : intent[p][k] # NotSet =>
       /\ k \in Own[p]
       /\ k \notin unsaved[p] \cup inflight[p] => fstat = "ok" /\ disk[k] = intent[p][k]
       /\ k \in unsaved[p] \cup inflight[p] \/ (baselineValid[p] /\ ~blind[p]) =>
            conf[p][k] = intent[p][k]

ProcInv(p) == LockInv(p) /\ LifeInv(p) /\ EditInv(p) /\ DocInv(p) /\ DiskInv(p)

IInv == TypeOK /\ \A p \in Procs : ProcInv(p)

-----------------------------------------------------------------------------
(***************************************************************************)
(* What the proofs keep needing.                                           *)
(***************************************************************************)

\* A merge of documents is a document.
LEMMA MergeIsDoc ==
  ASSUME NEW b \in Docs, NEW l \in Docs, NEW n \in Docs
  PROVE  /\ MergeFlat(b, l, n) \in Docs
         /\ \A k \in Keys : MergeFlat(b, l, n)[k] = IF l[k] = b[k] THEN n[k] ELSE l[k]
  BY DEF MergeFlat, Docs

\* An idle manager's operation, and one that has just begun.
LEMMA OpTypes ==
  /\ Empty \in Docs /\ NoOp \in OpSet
  /\ NoOp.kind = "none" /\ NoOp.pc = "idle" /\ ~NoOp.stale /\ ~NoOp.persisted
  /\ \A kind \in OpKinds, l \in Docs :
       /\ BeginOp(kind, l) \in OpSet
       /\ BeginOp(kind, l).kind = kind /\ BeginOp(kind, l).pc = "lock"
       /\ BeginOp(kind, l).local = l
       /\ ~BeginOp(kind, l).stale /\ ~BeginOp(kind, l).persisted
       /\ BeginOp(kind, l) # NoOp
<1>1. Empty \in Docs
  BY DocAssumption DEF Empty, Docs
<1>2. NoOp \in OpSet
  BY <1>1 DEF NoOp, OpSet, OpKinds, OpPcs
<1>3. NoOp.kind = "none" /\ NoOp.pc = "idle" /\ ~NoOp.stale /\ ~NoOp.persisted
  BY DEF NoOp
<1>4. ASSUME NEW kind \in OpKinds, NEW l \in Docs
      PROVE  /\ BeginOp(kind, l) \in OpSet
             /\ BeginOp(kind, l).kind = kind /\ BeginOp(kind, l).pc = "lock"
             /\ BeginOp(kind, l).local = l
             /\ ~BeginOp(kind, l).stale /\ ~BeginOp(kind, l).persisted
             /\ BeginOp(kind, l) # NoOp
  BY <1>1, <1>3 DEF BeginOp, OpSet, OpPcs
<1> QED
  BY <1>1, <1>2, <1>3, <1>4

\* The ways in which a step changes the operation of its process.
LEMMA OpStep ==
  ASSUME TypeOK, NEW p \in Procs
  PROVE  /\ \A x \in OpPcs : [op EXCEPT ![p].pc = x] \in [Procs -> OpSet]
         /\ \A x \in OpPcs, d \in Docs :
              /\ [op EXCEPT ![p].pc = x, ![p].doc = d] \in [Procs -> OpSet]
              /\ [op EXCEPT ![p].doc = d, ![p].pc = x] \in [Procs -> OpSet]
         /\ \A x \in OpPcs, d \in Docs, b \in BOOLEAN :
              [op EXCEPT ![p].pc = x, ![p].doc = d, ![p].persisted = b] \in [Procs -> OpSet]
         /\ \A x \in OpPcs, b \in BOOLEAN :
              [op EXCEPT ![p].pc = x, ![p].persisted = b] \in [Procs -> OpSet]
         /\ \A b \in BOOLEAN : [op EXCEPT ![p].stale = b] \in [Procs -> OpSet]
<1>1. op \in [Procs -> OpSet] /\ op[p] \in OpSet
  BY DEF TypeOK
<1>2. ASSUME NEW x \in OpPcs PROVE [op EXCEPT ![p].pc = x] \in [Procs -> OpSet]
  <2>1. [op[p] EXCEPT !.pc = x] \in OpSet
    BY <1>1 DEF OpSet
  <2> QED
    BY <1>1, <2>1
<1>3. ASSUME NEW x \in OpPcs, NEW d \in Docs
      PROVE  /\ [op EXCEPT ![p].pc = x, ![p].doc = d] \in [Procs -> OpSet]
             /\ [op EXCEPT ![p].doc = d, ![p].pc = x] \in [Procs -> OpSet]
  <2>1. [op[p] EXCEPT !.pc = x, !.doc = d] \in OpSet
    BY <1>1 DEF OpSet
  <2>2. [op EXCEPT ![p].pc = x, ![p].doc = d] \in [Procs -> OpSet]
    BY <1>1, <2>1
  <2>3. [op EXCEPT ![p].doc = d, ![p].pc = x] \in [Procs -> OpSet]
    BY <1>1, <2>1
  <2> QED
    BY <2>2, <2>3
<1>4. ASSUME NEW x \in OpPcs, NEW d \in Docs, NEW b \in BOOLEAN
      PROVE  [op EXCEPT ![p].pc = x, ![p].doc = d, ![p].persisted = b] \in [Procs -> OpSet]
  <2>1. [op[p] EXCEPT !.pc = x, !.doc = d, !.persisted = b] \in OpSet
    BY <1>1 DEF OpSet
  <2> QED
    BY <1>1, <2>1
<1>5. ASSUME NEW x \in OpPcs, NEW b \in BOOLEAN
      PROVE  [op EXCEPT ![p].pc = x, ![p].persisted = b] \in [Procs -> OpSet]
  <2>1. [op[p] EXCEPT !.pc = x, !.persisted = b] \in OpSet
    BY <1>1 DEF OpSet
  <2> QED
    BY <1>1, <2>1
<1>6. ASSUME NEW b \in BOOLEAN PROVE [op EXCEPT ![p].stale = b] \in [Procs -> OpSet]
  <2>1. [op[p] EXCEPT !.stale = b] \in OpSet
    BY <1>1 DEF OpSet
  <2> QED
    BY <1>1, <2>1
<1> QED
  BY <1>2, <1>3, <1>4, <1>5, <1>6

\* The documents of a process and of its operation.
LEMMA DocTypes ==
  ASSUME TypeOK, NEW p \in Procs
  PROVE  /\ conf[p] \in Docs /\ baseline[p] \in Docs /\ disk \in Docs /\ Newest(p) \in Docs
         /\ op[p].local \in Docs /\ op[p].doc \in Docs
         /\ op[p].kind \in OpKinds /\ op[p].pc \in OpPcs
         /\ op[p].stale \in BOOLEAN /\ op[p].persisted \in BOOLEAN
  BY DEF TypeOK, OpSet, Newest

\* Process q takes no part in a step.
Same(q) ==
  /\ lifecycleState'[q] = lifecycleState[q] /\ conf'[q] = conf[q]
  /\ baseline'[q] = baseline[q] /\ baselineValid'[q] = baselineValid[q]
  /\ dirty'[q] = dirty[q] /\ autoSaveEnabled'[q] = autoSaveEnabled[q]
  /\ op'[q] = op[q] /\ shut'[q] = shut[q]
  /\ unsaved'[q] = unsaved[q] /\ inflight'[q] = inflight[q]
  /\ intent'[q] = intent[q] /\ blind'[q] = blind[q] /\ unseen'[q] = unseen[q]

\* A step of another process preserves what is known of q, if it respects
\* the commit lock and q's own keys.
LEMMA Bystander ==
  ASSUME NEW q \in Procs, ProcInv(q), Same(q),
         commitLock' = q <=> commitLock = q,
         commitLock = q => UNCHANGED <<fstat, disk>>,
         fstat = "ok" => fstat' = "ok" /\ \A k \in Own[q] : disk'[k] = disk[k]
  PROVE  ProcInv(q)'
<1> USE DEF Same
<1>1. LockInv(q)'
  BY DEF ProcInv, LockInv, Loading, At
<1>2. LifeInv(q)'
  BY DEF ProcInv, LifeInv, Running, Loading
<1>3. EditInv(q)'
  BY DEF ProcInv, EditInv, Saving, Running
<1>4. DocInv(q)'
  BY DEF ProcInv, LockInv, DocInv, Saving, Loading, Newest
<1>5. DiskInv(q)'
  BY DEF ProcInv, DiskInv, Saving, Loading
<1> QED
  BY <1>1, <1>2, <1>3, <1>4, <1>5 DEF ProcInv

\* The initial states satisfy the inductive invariant.
LEMMA InitIInv == Init => IInv
<1> SUFFICES ASSUME Init PROVE IInv
  OBVIOUS
<1> USE OpTypes, DocAssumption, StoreBounds DEF Init
<1>1. TypeOK
  BY DEF TypeOK, LifeStates, Nothing
<1>2. ASSUME NEW p \in Procs PROVE ProcInv(p)
  BY OwnAssumption DEF ProcInv, LockInv, LifeInv, EditInv, DocInv, DiskInv, Nothing, Saving,
     Running
<1> QED
  BY <1>1, <1>2 DEF IInv

-----------------------------------------------------------------------------
(***************************************************************************)
(* One lemma per action: what it does to the process (1) and to the file   *)
(* (2), what it leaves alone (3, 4), and the parts of the invariant.       *)
(***************************************************************************)

\* load() begins in a process that was down.
LEMMA BootPreserves ==
  ASSUME IInv, NEW p \in Procs, Boot(p)
  PROVE  IInv'
<1>1. TypeOK /\ LockInv(p) /\ LifeInv(p) /\ EditInv(p) /\ DocInv(p) /\ DiskInv(p)
  BY DEF IInv, ProcInv
<1>2. /\ conf'[p] = conf[p] /\ baseline'[p] = baseline[p]
      /\ baselineValid'[p] = baselineValid[p] /\ dirty'[p] = dirty[p]
      /\ autoSaveEnabled'[p] = autoSaveEnabled[p] /\ shut'[p] = shut[p]
      /\ unsaved'[p] = unsaved[p] /\ inflight'[p] = inflight[p]
      /\ intent'[p] = intent[p] /\ blind'[p] = blind[p] /\ unseen'[p] = unseen[p]
      /\ lifecycleState'[p] = "Open"
      /\ lifecycleState[p] = "down"
      /\ op'[p].kind = "load"
      /\ op'[p] # NoOp /\ op'[p].pc = "lock" /\ op'[p].local = conf[p]
      /\ ~op'[p].stale /\ ~op'[p].persisted
  <2>1. op'[p] = BeginOp("load", conf[p])
    BY <1>1 DEF Boot, TypeOK
  <2> QED
    BY <1>1, <2>1 DEF Boot, histVars, Running, TypeOK, BeginOp, NoOp
<1>3. UNCHANGED <<fstat, disk, commitLock>>
  BY <1>1 DEF Boot, fileVars
<1>4. \A q \in Procs \ {p} : Same(q)
  BY <1>1 DEF Boot, histVars, Same
<1>5. \A q \in Procs \ {p} : ProcInv(q)'
  BY <1>1, <1>3, <1>4, Bystander DEF IInv
<1>6. TypeOK'
  BY <1>1, OpTypes, StoreBounds DEF Boot, fileVars, histVars, TypeOK, LifeStates, OpKinds
<1>7. LockInv(p)'
  BY <1>1, <1>2, <1>3, OpTypes DEF LockInv, LifeInv, Loading, Running
<1>8. LifeInv(p)'
  BY <1>1, <1>2, <1>3 DEF LifeInv, Running, Loading
<1>9. EditInv(p)'
  BY <1>1, <1>2, <1>3 DEF EditInv, Saving, Running
<1>10. DocInv(p)'
  BY <1>1, <1>2, <1>3 DEF DocInv
<1>11. DiskInv(p)'
  BY <1>1, <1>2, <1>3 DEF DiskInv, LifeInv, Running
<1> QED
  BY <1>5, <1>6, <1>7, <1>8, <1>9, <1>10, <1>11 DEF IInv, ProcInv

\* load() gets the commit lock, or goes on with its default.
LEMMA LoadLockPreserves ==
  ASSUME IInv, NEW p \in Procs, LoadLock(p)
  PROVE  IInv'
<1>1. TypeOK /\ LockInv(p) /\ LifeInv(p) /\ EditInv(p) /\ DocInv(p) /\ DiskInv(p)
  BY DEF IInv, ProcInv
<1>2. /\ lifecycleState'[p] = lifecycleState[p] /\ conf'[p] = conf[p]
      /\ baseline'[p] = baseline[p] /\ baselineValid'[p] = baselineValid[p]
      /\ dirty'[p] = dirty[p] /\ autoSaveEnabled'[p] = autoSaveEnabled[p]
      /\ shut'[p] = shut[p] /\ unsaved'[p] = unsaved[p]
      /\ inflight'[p] = inflight[p] /\ intent'[p] = intent[p]
      /\ blind'[p] = blind[p] /\ unseen'[p] = unseen[p]
      /\ op[p].kind = "load" /\ op[p].pc = "lock"
      /\ op'[p].kind = op[p].kind
      /\ op'[p].local = op[p].local
      /\ op'[p].stale = op[p].stale
      /\ op'[p].persisted = op[p].persisted
  BY <1>1 DEF LoadLock, Goto, At, Loading, mgrVars, histVars, TypeOK, OpSet
<1>3. /\ UNCHANGED <<fstat, disk>>
      /\ \/ /\ commitLock = NoProc /\ commitLock' = p
            /\ op'[p].pc = "read" /\ op'[p].doc = op[p].doc
         \/ /\ commitLock' = commitLock
            /\ op'[p].pc = "commit" /\ op'[p].doc = Default
  BY <1>1 DEF LoadLock, Goto, TypeOK, OpSet
<1>4. \A q \in Procs \ {p} : Same(q)
  BY <1>1 DEF LoadLock, Goto, mgrVars, histVars, TypeOK, Same
<1>5. \A q \in Procs \ {p} : ProcInv(q)'
  BY <1>1, <1>3, <1>4, OwnAssumption, Bystander DEF IInv
<1>6. TypeOK'
  <2>1. op' \in [Procs -> OpSet]
    <3>1. CASE Goto(p, "read")
      BY <1>1, <3>1, OpStep DEF Goto, OpPcs
    <3>2. CASE op' = [op EXCEPT ![p].pc = "commit", ![p].doc = Default]
      BY <1>1, <3>2, OpStep, DocAssumption DEF OpPcs
    <3> QED
      BY <3>1, <3>2 DEF LoadLock
  <2> QED
    BY <1>1, <2>1, StoreBounds DEF LoadLock, Fault, mgrVars, histVars, TypeOK
<1>7. LockInv(p)'
  BY <1>1, <1>2, <1>3 DEF LockInv, At
<1>8. LifeInv(p)'
  BY <1>1, <1>2, <1>3, OpTypes DEF LifeInv, Running, Loading
<1>9. EditInv(p)'
  BY <1>1, <1>2, <1>3, OpTypes DEF EditInv, Saving, Running
<1>10. DocInv(p)'
  BY <1>1, <1>2, <1>3 DEF DocInv, Saving, Loading
<1>11. DiskInv(p)'
  BY <1>1, <1>2, <1>3 DEF DiskInv, Loading
<1> QED
  BY <1>5, <1>6, <1>7, <1>8, <1>9, <1>10, <1>11 DEF IInv, ProcInv

\* load() reads the file.
LEMMA LoadReadPreserves ==
  ASSUME IInv, NEW p \in Procs, LoadRead(p)
  PROVE  IInv'
<1>1. TypeOK /\ LockInv(p) /\ LifeInv(p) /\ EditInv(p) /\ DocInv(p) /\ DiskInv(p)
  BY DEF IInv, ProcInv
<1>2. /\ lifecycleState'[p] = lifecycleState[p] /\ conf'[p] = conf[p]
      /\ baseline'[p] = baseline[p] /\ baselineValid'[p] = baselineValid[p]
      /\ dirty'[p] = dirty[p] /\ autoSaveEnabled'[p] = autoSaveEnabled[p]
      /\ shut'[p] = shut[p] /\ unsaved'[p] = unsaved[p]
      /\ inflight'[p] = inflight[p] /\ intent'[p] = intent[p]
      /\ blind'[p] = blind[p] /\ unseen'[p] = unseen[p]
      /\ op[p].kind = "load" /\ op[p].pc = "read"
      /\ op'[p].kind = op[p].kind
      /\ op'[p].local = op[p].local
      /\ op'[p].stale = op[p].stale
  BY <1>1 DEF LoadRead, At, Loading, mgrVars, histVars, TypeOK, OpSet
<1>3. /\ UNCHANGED <<fstat, disk, commitLock>>
      /\ IF fstat = "ok" THEN op'[p].pc = "commit" /\ op'[p].doc = disk /\ op'[p].persisted
                         ELSE /\ op'[p].pc = "write" /\ op'[p].doc = Default
                              /\ op'[p].persisted = op[p].persisted
  BY <1>1 DEF LoadRead, fileVars, TypeOK, OpSet
<1>4. \A q \in Procs \ {p} : Same(q)
  BY <1>1 DEF LoadRead, mgrVars, histVars, TypeOK, Same
<1>5. \A q \in Procs \ {p} : ProcInv(q)'
  BY <1>1, <1>3, <1>4, Bystander DEF IInv
<1>6. TypeOK'
  <2>1. op' \in [Procs -> OpSet]
    <3>1. CASE op' = [op EXCEPT ![p].pc = "commit", ![p].doc = disk, ![p].persisted = TRUE]
      BY <1>1, <3>1, OpStep, DocTypes DEF OpPcs
    <3>2. CASE op' = [op EXCEPT ![p].pc = "write", ![p].doc = Default]
      BY <1>1, <3>2, OpStep, DocAssumption DEF OpPcs
    <3> QED
      BY <3>1, <3>2 DEF LoadRead
  <2> QED
    BY <1>1, <2>1 DEF LoadRead, fileVars, mgrVars, histVars, bounds, TypeOK
<1>7. LockInv(p)'
  BY <1>1, <1>2, <1>3 DEF LockInv, Loading, At
<1>8. LifeInv(p)'
  BY <1>1, <1>2, <1>3, OpTypes DEF LifeInv, Running, Loading
<1>9. EditInv(p)'
  BY <1>1, <1>2, <1>3, OpTypes DEF EditInv, Saving, Running
<1>10. DocInv(p)'
  BY <1>1, <1>2, <1>3 DEF DocInv, LockInv, Saving, Loading
<1>11. DiskInv(p)'
  BY <1>1, <1>2, <1>3 DEF DiskInv, Loading
<1> QED
  BY <1>5, <1>6, <1>7, <1>8, <1>9, <1>10, <1>11 DEF IInv, ProcInv

\* load() commits and releases the lock.
LEMMA LoadCommitPreserves ==
  ASSUME IInv, NEW p \in Procs, LoadCommit(p)
  PROVE  IInv'
<1>1. TypeOK /\ LockInv(p) /\ LifeInv(p) /\ EditInv(p) /\ DocInv(p) /\ DiskInv(p)
  BY DEF IInv, ProcInv
<1>2. /\ lifecycleState'[p] = lifecycleState[p] /\ autoSaveEnabled'[p] = autoSaveEnabled[p]
      /\ shut'[p] = shut[p] /\ unsaved'[p] = unsaved[p]
      /\ inflight'[p] = inflight[p]
      /\ baseline'[p] = op[p].doc
      /\ baselineValid'[p]
      /\ ~op[p].stale => conf'[p] = op[p].doc
      /\ \A k \in Keys : conf'[p][k] = IF op[p].stale /\ conf[p][k] # op[p].local[k]
                                    THEN conf[p][k] ELSE op[p].doc[k]
      /\ op[p].kind = "load" /\ op[p].pc = "commit"
      /\ op'[p] = NoOp
      /\ dirty'[p] <=> ~op[p].persisted \/ op[p].stale
      /\ blind'[p] <=> ~op[p].persisted
      /\ intent'[p] = intent[p]
      /\ unseen'[p] = unseen[p] \cup Unseen(p)
  <2>1. \A k \in Keys : MergeFlat(op[p].local, conf[p], op[p].doc)[k] =
                        IF conf[p][k] = op[p].local[k] THEN op[p].doc[k] ELSE conf[p][k]
    BY <1>1, DocTypes, MergeIsDoc
  <2>2. (dirty'[p] <=> ~op[p].persisted \/ op[p].stale) /\ (blind'[p] <=> ~op[p].persisted)
    BY <1>1, Zenon DEF LoadCommit, TypeOK
  <2> QED
    BY <1>1, <2>1, <2>2 DEF LoadCommit, At, Loading, Nothing, TypeOK
<1>3. /\ UNCHANGED <<fstat, disk>>
      /\ commitLock' = IF commitLock = p THEN NoProc ELSE commitLock
  BY <1>1 DEF LoadCommit, Unlock
<1>4. \A q \in Procs \ {p} : Same(q)
  BY <1>1 DEF LoadCommit, Same
<1>5. \A q \in Procs \ {p} : ProcInv(q)'
  BY <1>1, <1>3, <1>4, OwnAssumption, Bystander DEF IInv
<1>6. TypeOK'
  <2>1. MergeFlat(op[p].local, conf[p], op[p].doc) \in Docs
    BY <1>1, DocTypes, MergeIsDoc
  <2>2. conf' \in [Procs -> Docs] /\ baseline' \in [Procs -> Docs]
    BY <1>1, <2>1, DocTypes DEF LoadCommit, TypeOK
  <2>3. op' \in [Procs -> OpSet]
    BY <1>1, OpTypes DEF LoadCommit, TypeOK
  <2>4. /\ baselineValid' \in [Procs -> BOOLEAN] /\ dirty' \in [Procs -> BOOLEAN]
        /\ blind' \in [Procs -> BOOLEAN]
    BY <1>1, DocTypes, Zenon DEF LoadCommit, TypeOK
  <2>5. unseen' \in [Procs -> SUBSET Keys]
    BY <1>1 DEF LoadCommit, Unseen, TypeOK
  <2> QED
    BY <1>1, <2>1, <2>2, <2>3, <2>4, <2>5 DEF LoadCommit, Unlock, bounds, TypeOK
<1>7. LockInv(p)'
  BY <1>1, <1>2, <1>3, OpTypes, OwnAssumption DEF LockInv
<1>8. LifeInv(p)'
  BY <1>1, <1>2, <1>3, OpTypes DEF LifeInv, Running, Loading
<1>9. EditInv(p)'
  BY <1>1, <1>2, <1>3, OpTypes DEF EditInv, Saving, Running
<1>10. DocInv(p)'
  BY <1>1, <1>2, <1>3, OpTypes DEF DocInv
<1>11. DiskInv(p)'
  <2>1. inflight[p] = {} /\ (unsaved[p] # {} => op[p].stale)
    BY <1>1, <1>2, OpTypes DEF EditInv, Saving
  <2>2. op[p].persisted => fstat = "ok" /\ disk = op[p].doc
    BY <1>1, <1>2 DEF DocInv, Loading
  <2>3. ASSUME NEW k \in Keys, k \notin unseen'[p], intent[p][k] # NotSet
        PROVE  /\ k \in Own[p]
               /\ k \notin unsaved[p] => fstat = "ok" /\ disk[k] = intent[p][k]
               /\ k \in unsaved[p] \/ op[p].persisted => conf'[p][k] = intent[p][k]
    <3>1. k \notin unseen[p] /\ k \notin Unseen(p)
      BY <1>2, <2>3
    <3>2. k \in unsaved[p] => conf[p][k] # op[p].local[k]
      BY <1>2, <3>1 DEF Unseen, Loading
    <3>3. k \notin unsaved[p] => conf[p][k] = op[p].local[k]
      BY <1>1, <1>2, OpTypes DEF EditInv
    <3> QED
      BY <1>1, <1>2, <2>1, <2>2, <2>3, <3>1, <3>2, <3>3 DEF DiskInv
  <2> QED
    BY <1>2, <1>3, <2>1, <2>2, <2>3, OpTypes DEF DiskInv, Saving
<1> QED
  BY <1>5, <1>6, <1>7, <1>8, <1>9, <1>10, <1>11 DEF IInv, ProcInv

\* enableAutoSave().
LEMMA EnableAutoSavePreserves ==
  ASSUME IInv, NEW p \in Procs, EnableAutoSave(p)
  PROVE  IInv'
<1>1. TypeOK /\ LockInv(p) /\ LifeInv(p) /\ EditInv(p) /\ DocInv(p) /\ DiskInv(p)
  BY DEF IInv, ProcInv
<1>2. /\ lifecycleState'[p] = lifecycleState[p] /\ conf'[p] = conf[p]
      /\ baseline'[p] = baseline[p] /\ baselineValid'[p] = baselineValid[p]
      /\ dirty'[p] = dirty[p] /\ op'[p] = op[p]
      /\ shut'[p] = shut[p] /\ unsaved'[p] = unsaved[p]
      /\ inflight'[p] = inflight[p] /\ intent'[p] = intent[p]
      /\ blind'[p] = blind[p] /\ unseen'[p] = unseen[p]
      /\ autoSaveEnabled'[p]
      /\ lifecycleState[p] = "Open" /\ baselineValid[p]
  BY <1>1 DEF EnableAutoSave, histVars, TypeOK
<1>3. UNCHANGED <<fstat, disk, commitLock>>
  BY <1>1 DEF EnableAutoSave, fileVars
<1>4. \A q \in Procs \ {p} : Same(q)
  BY <1>1 DEF EnableAutoSave, histVars, Same
<1>5. \A q \in Procs \ {p} : ProcInv(q)'
  BY <1>1, <1>3, <1>4, Bystander DEF IInv
<1>6. TypeOK'
  BY <1>1 DEF EnableAutoSave, fileVars, histVars, bounds, TypeOK
<1>7. LockInv(p)'
  BY <1>1, <1>2, <1>3 DEF LockInv, LifeInv
<1>8. LifeInv(p)'
  BY <1>1, <1>2, <1>3 DEF LifeInv, Running, Loading
<1>9. EditInv(p)'
  BY <1>1, <1>2, <1>3 DEF EditInv, Saving, Running
<1>10. DocInv(p)'
  BY <1>1, <1>2, <1>3 DEF DocInv, Saving, Loading, Newest
<1>11. DiskInv(p)'
  BY <1>1, <1>2, <1>3 DEF DiskInv, Saving, Loading
<1> QED
  BY <1>5, <1>6, <1>7, <1>8, <1>9, <1>10, <1>11 DEF IInv, ProcInv

\* The user changes one value.
LEMMA EditPreserves ==
  ASSUME IInv, NEW p \in Procs, Edit(p)
  PROVE  IInv'
<1>1. TypeOK /\ LockInv(p) /\ LifeInv(p) /\ EditInv(p) /\ DocInv(p) /\ DiskInv(p)
  BY DEF IInv, ProcInv
<1> PICK k \in Keys, v \in Vals :
      /\ \A q \in Procs \ {p} : k \notin Own[q]
      /\ v # conf[p][k]
      /\ conf' = [conf EXCEPT ![p][k] = v]
      /\ unsaved' = [unsaved EXCEPT ![p] = @ \cup {k}]
      /\ intent' = [intent EXCEPT ![p][k] = IF k \in Own[p] THEN v ELSE NotSet]
      /\ unseen' = [unseen EXCEPT ![p] = @ \ {k}]
  BY DEF Edit
<1>2. /\ conf[p] \in [Keys -> Vals] /\ intent[p] \in [Keys -> Vals \cup {NotSet}]
      /\ lifecycleState[p] = "Open"
  BY <1>1 DEF TypeOK, Docs, Edit
<1>3. op[p] \in OpSet /\ op'[p] = [op[p] EXCEPT !.stale = (op[p] # NoOp)]
  BY <1>1 DEF Edit, TypeOK
<1>4. /\ lifecycleState'[p] = lifecycleState[p] /\ baseline'[p] = baseline[p]
      /\ baselineValid'[p] = baselineValid[p] /\ dirty'[p]
      /\ autoSaveEnabled'[p] = autoSaveEnabled[p] /\ shut'[p] = shut[p]
      /\ unsaved'[p] = unsaved[p] \cup {k} /\ inflight'[p] = inflight[p]
      /\ blind'[p] = blind[p] /\ unseen'[p] = unseen[p] \ {k}
      /\ conf'[p][k] = v /\ \A j \in Keys \ {k} : conf'[p][j] = conf[p][j]
      /\ intent'[p][k] = IF k \in Own[p] THEN v ELSE NotSet
      /\ \A j \in Keys \ {k} : intent'[p][j] = intent[p][j]
      /\ op'[p].kind = op[p].kind /\ op'[p].pc = op[p].pc
      /\ op'[p].local = op[p].local /\ op'[p].doc = op[p].doc
      /\ op'[p].persisted = op[p].persisted
      /\ op'[p].stale <=> op[p] # NoOp
      /\ op'[p] = NoOp <=> op[p] = NoOp
  <2>1. /\ lifecycleState'[p] = lifecycleState[p] /\ baseline'[p] = baseline[p]
        /\ baselineValid'[p] = baselineValid[p] /\ dirty'[p]
        /\ autoSaveEnabled'[p] = autoSaveEnabled[p] /\ shut'[p] = shut[p]
        /\ unsaved'[p] = unsaved[p] \cup {k} /\ inflight'[p] = inflight[p]
        /\ blind'[p] = blind[p] /\ unseen'[p] = unseen[p] \ {k}
    BY <1>1 DEF Edit, TypeOK
  <2>2. conf'[p] = [conf[p] EXCEPT ![k] = v]
    BY <1>1 DEF TypeOK
  <2>3. conf'[p][k] = v /\ \A j \in Keys \ {k} : conf'[p][j] = conf[p][j]
    BY <1>2, <2>2
  <2>4. intent'[p] = [intent[p] EXCEPT ![k] =
          IF k \in Own[p] THEN v ELSE NotSet]
    BY <1>1 DEF TypeOK
  <2>5. /\ intent'[p][k] = IF k \in Own[p] THEN v ELSE NotSet
        /\ \A j \in Keys \ {k} : intent'[p][j] = intent[p][j]
    BY <1>2, <2>4
  <2>6. /\ op'[p].kind = op[p].kind /\ op'[p].pc = op[p].pc
        /\ op'[p].local = op[p].local /\ op'[p].doc = op[p].doc
        /\ op'[p].persisted = op[p].persisted
        /\ op'[p].stale <=> op[p] # NoOp
    BY <1>3 DEF OpSet
  <2>7. CASE op[p] = NoOp
    <3>1. op'[p] \in OpSet
      BY <1>3 DEF OpSet
    <3>2. op'[p] = op[p]
      BY <1>3, <2>6, <2>7, <3>1, OpTypes DEF OpSet
    <3> QED
      BY <2>1, <2>3, <2>5, <2>6, <2>7, <3>1, <3>2
  <2>8. CASE op[p] # NoOp
    <3>1. op'[p] # NoOp
      BY <2>6, <2>8, OpTypes
    <3> QED
      BY <2>1, <2>3, <2>5, <2>6, <2>8, <3>1
  <2> QED
    BY <2>7, <2>8
<1>5. UNCHANGED <<fstat, disk, commitLock>>
  BY DEF Edit, fileVars
<1>6. \A q \in Procs \ {p} : Same(q)
  BY <1>1 DEF Edit, Same
<1>7. \A q \in Procs \ {p} : ProcInv(q)'
  BY <1>1, <1>5, <1>6, Bystander DEF IInv
<1>8. TypeOK'
  <2>1. op' \in [Procs -> OpSet]
    <3>1. op' = [op EXCEPT ![p].stale = (op[p] # NoOp)] /\ (op[p] # NoOp) \in BOOLEAN
      BY DEF Edit
    <3> QED
      BY <1>1, <3>1, OpStep
  <2>2. conf' \in [Procs -> Docs]
    BY <1>1 DEF TypeOK, Docs
  <2>3. intent' \in [Procs -> [Keys -> Vals \cup {NotSet}]]
    BY <1>1 DEF TypeOK
  <2>4. unsaved' \in [Procs -> SUBSET Keys] /\ unseen' \in [Procs -> SUBSET Keys]
    BY <1>1 DEF TypeOK
  <2> QED
    BY <1>1, <2>1, <2>2, <2>3, <2>4, StoreBounds DEF Edit, fileVars, TypeOK
<1>9. LockInv(p)'
  BY <1>1, <1>4, <1>5 DEF LockInv, Loading, At
<1>10. LifeInv(p)'
  BY <1>1, <1>4, <1>5, <1>2 DEF LifeInv, Running, Loading
<1>11. EditInv(p)'
  BY <1>1, <1>2, <1>4, <1>5 DEF EditInv, Saving, Running
<1>12. DocInv(p)'
  BY <1>1, <1>4, <1>5 DEF DocInv, Saving, Loading, Newest
<1>13. DiskInv(p)'
  BY <1>1, <1>4, <1>5, <1>2 DEF DiskInv, LifeInv, Saving, Loading
<1> QED
  BY <1>7, <1>8, <1>9, <1>10, <1>11, <1>12, <1>13 DEF IInv, ProcInv

\* A save takes its snapshot.
LEMMA SaveBeginPreserves ==
  ASSUME IInv, NEW p \in Procs, SaveBegin(p)
  PROVE  IInv'
<1>1. TypeOK /\ LockInv(p) /\ LifeInv(p) /\ EditInv(p) /\ DocInv(p) /\ DiskInv(p)
  BY DEF IInv, ProcInv
<1>2. /\ lifecycleState'[p] = lifecycleState[p] /\ conf'[p] = conf[p]
      /\ baseline'[p] = baseline[p] /\ baselineValid'[p] = baselineValid[p]
      /\ dirty'[p] = dirty[p] /\ autoSaveEnabled'[p] = autoSaveEnabled[p]
      /\ shut'[p] = shut[p] /\ intent'[p] = intent[p]
      /\ blind'[p] = blind[p] /\ unseen'[p] = unseen[p]
      /\ inflight'[p] = unsaved[p]
      /\ unsaved'[p] = {}
      /\ op[p] = NoOp /\ baselineValid[p]
      /\ op'[p].kind \in {"save", "auto", "final"}
      /\ op'[p].kind = "save" => lifecycleState[p] = "Open"
      /\ op'[p].kind = "auto" => autoSaveEnabled[p]
      /\ op'[p].kind = "final" => shut[p] = "save"
      /\ op'[p] # NoOp /\ op'[p].pc = "lock" /\ op'[p].local = conf[p]
      /\ ~op'[p].stale /\ ~op'[p].persisted
  <2>1. PICK kind \in {"save", "auto", "final"} :
          MayBegin(p, kind) /\ op' = [op EXCEPT ![p] = BeginOp(kind, conf[p])]
    BY DEF SaveBegin
  <2>2. op'[p] = BeginOp(kind, conf[p])
    BY <1>1, <2>1 DEF TypeOK
  <2>3. op'[p].kind = kind /\ op'[p] # NoOp /\ op'[p].pc = "lock" /\ op'[p].local = conf[p]
        /\ ~op'[p].stale /\ ~op'[p].persisted
    BY <2>1, <2>2 DEF BeginOp, NoOp
  <2> QED
    BY <1>1, <2>1, <2>3 DEF SaveBegin, MayBegin, mgrVars, TypeOK
<1>3. UNCHANGED <<fstat, disk, commitLock>>
  BY <1>1 DEF SaveBegin, fileVars
<1>4. \A q \in Procs \ {p} : Same(q)
  BY <1>1 DEF SaveBegin, mgrVars, Same
<1>5. \A q \in Procs \ {p} : ProcInv(q)'
  BY <1>1, <1>3, <1>4, Bystander DEF IInv
<1>6. TypeOK'
  BY <1>1, OpTypes DEF SaveBegin, fileVars, mgrVars, bounds, TypeOK, OpKinds
<1>7. LockInv(p)'
  BY <1>1, <1>2, <1>3, OpTypes DEF LockInv, LifeInv
<1>8. LifeInv(p)'
  BY <1>1, <1>2, <1>3 DEF LifeInv, Running, Loading
<1>9. EditInv(p)'
  BY <1>1, <1>2, <1>3, OpTypes DEF EditInv, LifeInv, Saving, Running
<1>10. DocInv(p)'
  BY <1>1, <1>2, <1>3 DEF DocInv
<1>11. DiskInv(p)'
  <2>1. inflight[p] = {} /\ ~Saving(p)
    BY <1>1, <1>2, OpTypes DEF EditInv, Saving
  <2> QED
    BY <1>1, <1>2, <1>3, <2>1 DEF DiskInv
<1> QED
  BY <1>5, <1>6, <1>7, <1>8, <1>9, <1>10, <1>11 DEF IInv, ProcInv

\* A save gives up.
LEMMA SaveFailsPreserves ==
  ASSUME IInv, NEW p \in Procs, Saving(p), op[p].pc # "commit", SaveFails(p)
  PROVE  IInv'
<1>1. TypeOK /\ LockInv(p) /\ LifeInv(p) /\ EditInv(p) /\ DocInv(p) /\ DiskInv(p)
  BY DEF IInv, ProcInv
<1>2. /\ lifecycleState'[p] = lifecycleState[p] /\ conf'[p] = conf[p]
      /\ baseline'[p] = baseline[p] /\ baselineValid'[p] = baselineValid[p]
      /\ dirty'[p] = dirty[p] /\ autoSaveEnabled'[p] = autoSaveEnabled[p]
      /\ intent'[p] = intent[p] /\ blind'[p] = blind[p] /\ unseen'[p] = unseen[p]
      /\ shut'[p] = (IF op[p].kind = "final" THEN "no" ELSE shut[p])
      /\ unsaved'[p] = unsaved[p] \cup inflight[p]
      /\ inflight'[p] = {}
      /\ op'[p] = NoOp
  BY <1>1 DEF SaveFails, mgrVars, TypeOK
<1>3. /\ UNCHANGED <<fstat, disk>>
      /\ commitLock' = IF commitLock = p THEN NoProc ELSE commitLock
  BY <1>1 DEF SaveFails, Unlock
<1>4. \A q \in Procs \ {p} : Same(q)
  BY <1>1 DEF SaveFails, mgrVars, Same
<1>5. \A q \in Procs \ {p} : ProcInv(q)'
  BY <1>1, <1>3, <1>4, OwnAssumption, Bystander DEF IInv
<1>6. TypeOK'
  BY <1>1, OpTypes, StoreBounds DEF SaveFails, Fault, Unlock, mgrVars, TypeOK
<1>7. LockInv(p)'
  BY <1>1, <1>2, <1>3, OpTypes, OwnAssumption DEF LockInv
<1>8. LifeInv(p)'
  BY <1>1, <1>2, <1>3, OpTypes DEF LifeInv, Running, Loading, Saving
<1>9. EditInv(p)'
  BY <1>1, <1>2, <1>3, OpTypes DEF EditInv, Saving, Running
<1>10. DocInv(p)'
  BY <1>1, <1>2, <1>3, OpTypes DEF DocInv
<1>11. DiskInv(p)'
  BY <1>1, <1>2, <1>3, OpTypes DEF DiskInv, Loading
<1> QED
  BY <1>5, <1>6, <1>7, <1>8, <1>9, <1>10, <1>11 DEF IInv, ProcInv

\* A save gets the commit lock or gives up.
LEMMA SaveLockPreserves ==
  ASSUME IInv, NEW p \in Procs, SaveLock(p)
  PROVE  IInv'
<1> SUFFICES ASSUME ~SaveFails(p) PROVE IInv'
  BY SaveFailsPreserves DEF SaveLock, Saving, At
<1>1. TypeOK /\ LockInv(p) /\ LifeInv(p) /\ EditInv(p) /\ DocInv(p) /\ DiskInv(p)
  BY DEF IInv, ProcInv
<1>2. /\ lifecycleState'[p] = lifecycleState[p] /\ conf'[p] = conf[p]
      /\ baseline'[p] = baseline[p] /\ baselineValid'[p] = baselineValid[p]
      /\ dirty'[p] = dirty[p] /\ autoSaveEnabled'[p] = autoSaveEnabled[p]
      /\ shut'[p] = shut[p] /\ unsaved'[p] = unsaved[p]
      /\ inflight'[p] = inflight[p] /\ intent'[p] = intent[p]
      /\ blind'[p] = blind[p] /\ unseen'[p] = unseen[p]
      /\ Saving(p) /\ op[p].pc = "lock"
      /\ op'[p].kind = op[p].kind
      /\ op'[p].pc = "read"
      /\ op'[p].local = op[p].local
      /\ op'[p].doc = op[p].doc
      /\ op'[p].stale = op[p].stale
      /\ op'[p].persisted = op[p].persisted
  BY <1>1 DEF SaveLock, Goto, At, mgrVars, histVars, Saving, TypeOK, OpSet
<1>3. /\ UNCHANGED <<fstat, disk>>
      /\ commitLock = NoProc /\ commitLock' = p
  BY <1>1 DEF SaveLock
<1>4. \A q \in Procs \ {p} : Same(q)
  BY <1>1 DEF SaveLock, Goto, mgrVars, histVars, TypeOK, Same
<1>5. \A q \in Procs \ {p} : ProcInv(q)'
  BY <1>1, <1>3, <1>4, OwnAssumption, Bystander DEF IInv
<1>6. TypeOK'
  <2>1. op' \in [Procs -> OpSet]
    <3>1. CASE Goto(p, "read")
      BY <1>1, <3>1, OpStep DEF Goto, OpPcs
    <3> QED
      BY <3>1 DEF SaveLock
  <2> QED
    BY <1>1, <2>1 DEF SaveLock, mgrVars, histVars, bounds, TypeOK
<1>7. LockInv(p)'
  BY <1>1, <1>2, <1>3 DEF LockInv
<1>8. LifeInv(p)'
  BY <1>1, <1>2, <1>3, OpTypes DEF LifeInv, Running, Loading
<1>9. EditInv(p)'
  BY <1>1, <1>2, <1>3, OpTypes DEF EditInv, Saving, Running
<1>10. DocInv(p)'
  BY <1>1, <1>2, <1>3 DEF DocInv, Loading
<1>11. DiskInv(p)'
  BY <1>1, <1>2, <1>3 DEF DiskInv, Loading
<1> QED
  BY <1>5, <1>6, <1>7, <1>8, <1>9, <1>10, <1>11 DEF IInv, ProcInv

\* A save merges its snapshot with the newest document.
LEMMA SaveMergePreserves ==
  ASSUME IInv, NEW p \in Procs, SaveMerge(p)
  PROVE  IInv'
<1>1. TypeOK /\ LockInv(p) /\ LifeInv(p) /\ EditInv(p) /\ DocInv(p) /\ DiskInv(p)
  BY DEF IInv, ProcInv
<1>2. /\ lifecycleState'[p] = lifecycleState[p] /\ conf'[p] = conf[p]
      /\ baseline'[p] = baseline[p] /\ baselineValid'[p] = baselineValid[p]
      /\ dirty'[p] = dirty[p] /\ autoSaveEnabled'[p] = autoSaveEnabled[p]
      /\ shut'[p] = shut[p] /\ unsaved'[p] = unsaved[p]
      /\ inflight'[p] = inflight[p] /\ intent'[p] = intent[p]
      /\ blind'[p] = blind[p] /\ unseen'[p] = unseen[p]
      /\ Saving(p) /\ op[p].pc = "read" /\ baselineValid[p]
      /\ op'[p].kind = op[p].kind
      /\ op'[p].local = op[p].local
      /\ op'[p].doc = MergeFlat(baseline[p], op[p].local, Newest(p))
      /\ op'[p].stale = op[p].stale
      /\ op'[p].persisted = op[p].persisted
      /\ \A k \in Keys : op'[p].doc[k] = IF op[p].local[k] = baseline[p][k]
                                       THEN Newest(p)[k] ELSE op[p].local[k]
  <2>1. Saving(p) /\ op[p].pc = "read" /\ baselineValid[p]
    BY <1>1, OpTypes DEF SaveMerge, At, Saving, LifeInv, Loading
  <2> DEFINE m == MergeFlat(baseline[p], op[p].local, Newest(p))
             x == IF fstat # "ok" \/ m # Newest(p) THEN "write" ELSE "commit"
  <2>2. op' = [op EXCEPT ![p].doc = m, ![p].pc = x]
    BY <2>1 DEF SaveMerge
  <2>3. op[p] \in OpSet /\ op'[p] = [op[p] EXCEPT !.doc = m, !.pc = x]
    BY <1>1, <2>2 DEF TypeOK
  <2> HIDE DEF x
  <2>4. /\ op'[p].kind = op[p].kind /\ op'[p].local = op[p].local
        /\ op'[p].stale = op[p].stale /\ op'[p].persisted = op[p].persisted /\ op'[p].doc = m
    BY <2>3
  <2>5. \A k \in Keys :
          m[k] = IF op[p].local[k] = baseline[p][k] THEN Newest(p)[k] ELSE op[p].local[k]
    BY <1>1, DocTypes, MergeIsDoc
  <2> HIDE DEF m
  <2> QED
    BY <1>1, <2>1, <2>4, <2>5 DEF m, SaveMerge, mgrVars, histVars
<1>3. /\ UNCHANGED <<fstat, disk>>
      /\ \/ /\ op'[p].pc = "write" /\ commitLock' = commitLock
         \/ /\ op'[p].pc = "commit" /\ fstat = "ok" /\ op'[p].doc = disk
            /\ commitLock' = IF commitLock = p THEN NoProc ELSE commitLock
  <2> DEFINE m == MergeFlat(baseline[p], op[p].local, Newest(p))
             x == IF fstat # "ok" \/ m # Newest(p) THEN "write" ELSE "commit"
  <2>1. op' = [op EXCEPT ![p].doc = m, ![p].pc = x]
        /\ IF x = "write" THEN UNCHANGED commitLock ELSE Unlock(p)
    BY <1>2 DEF SaveMerge
  <2>2. op[p] \in OpSet /\ op'[p] = [op[p] EXCEPT !.doc = m, !.pc = x]
    BY <1>1, <2>1 DEF TypeOK
  <2>3. op'[p].pc = x
    BY <2>2
  <2>4. x = "write" \/ (x = "commit" /\ fstat = "ok" /\ op'[p].doc = disk)
    BY <1>2 DEF Newest
  <2> HIDE DEF x
  <2> QED
    BY <2>1, <2>3, <2>4 DEF SaveMerge, Unlock
<1>4. \A q \in Procs \ {p} : Same(q)
  BY <1>1 DEF SaveMerge, mgrVars, histVars, TypeOK, Same
<1>5. \A q \in Procs \ {p} : ProcInv(q)'
  BY <1>1, <1>3, <1>4, OwnAssumption, Bystander DEF IInv
<1>6. TypeOK'
  <2>1. op' \in [Procs -> OpSet]
    <3>1. PICK x \in OpPcs, d \in Docs : op' = [op EXCEPT ![p].doc = d, ![p].pc = x]
      <4> DEFINE m == IF baselineValid[p] THEN MergeFlat(baseline[p], op[p].local, Newest(p))
                                          ELSE op[p].local
                 x == IF fstat # "ok" \/ m # Newest(p) THEN "write" ELSE "commit"
      <4>1. m \in Docs
        BY <1>1, DocTypes, MergeIsDoc
      <4>2. x \in OpPcs
        BY DEF OpPcs
      <4>3. op' = [op EXCEPT ![p].doc = m, ![p].pc = x]
        BY DEF SaveMerge
      <4> QED
        BY <4>1, <4>2, <4>3
    <3> QED
      BY <1>1, <3>1, OpStep
  <2> QED
    BY <1>1, <2>1 DEF SaveMerge, Unlock, mgrVars, histVars, bounds, TypeOK
<1>7. LockInv(p)'
  BY <1>1, <1>2, <1>3, OwnAssumption DEF LockInv
<1>8. LifeInv(p)'
  BY <1>1, <1>2, <1>3, OpTypes DEF LifeInv, Running, Loading
<1>9. EditInv(p)'
  BY <1>1, <1>2, <1>3, OpTypes DEF EditInv, Saving, Running
<1>10. DocInv(p)'
  <2>1. Newest(p)' = Newest(p)
    BY <1>2, <1>3 DEF Newest
  <2>2. fstat = "ok" => Newest(p) = disk
    BY DEF Newest
  <2>3. Own[p] \subseteq Keys
    BY OwnAssumption
  <2> QED
    BY <1>1, <1>2, <1>3, <2>1, <2>2, <2>3 DEF DocInv, DiskInv, Saving, Loading
<1>11. DiskInv(p)'
  BY <1>1, <1>2, <1>3 DEF DiskInv, Loading
<1> QED
  BY <1>5, <1>6, <1>7, <1>8, <1>9, <1>10, <1>11 DEF IInv, ProcInv

\* The temporary file is written.
LEMMA WriteTemporaryPreserves ==
  ASSUME IInv, NEW p \in Procs, WriteTemporary(p)
  PROVE  IInv'
<1> SUFFICES ASSUME ~(~Loading(p) /\ SaveFails(p)) PROVE IInv'
  <2>1. op[p].pc = "write" /\ LifeInv(p) /\ TypeOK
    BY DEF WriteTemporary, At, IInv, ProcInv
  <2>2. ~Loading(p) => Saving(p)
    BY <2>1, OpTypes, DocTypes DEF LifeInv, Loading, Saving, OpKinds
  <2>3. ~Loading(p) /\ SaveFails(p) => IInv'
    BY <2>1, <2>2, SaveFailsPreserves
  <2> QED
    BY <2>3
<1>1. TypeOK /\ LockInv(p) /\ LifeInv(p) /\ EditInv(p) /\ DocInv(p) /\ DiskInv(p)
  BY DEF IInv, ProcInv
<1>2. /\ lifecycleState'[p] = lifecycleState[p] /\ conf'[p] = conf[p]
      /\ baseline'[p] = baseline[p] /\ baselineValid'[p] = baselineValid[p]
      /\ dirty'[p] = dirty[p] /\ autoSaveEnabled'[p] = autoSaveEnabled[p]
      /\ shut'[p] = shut[p] /\ unsaved'[p] = unsaved[p]
      /\ inflight'[p] = inflight[p] /\ intent'[p] = intent[p]
      /\ blind'[p] = blind[p] /\ unseen'[p] = unseen[p]
      /\ op[p].pc = "write"
      /\ op'[p].kind = op[p].kind
      /\ op'[p].local = op[p].local
      /\ op'[p].doc = op[p].doc
      /\ op'[p].stale = op[p].stale
      /\ op'[p].persisted = op[p].persisted
  BY <1>1 DEF WriteTemporary, Goto, At, mgrVars, histVars, TypeOK, OpSet
<1>3. /\ UNCHANGED <<fstat, disk, commitLock>>
      /\ \/ op'[p].pc = "rename"
         \/ op[p].kind = "load" /\ op'[p].pc = "commit"
  BY <1>1 DEF WriteTemporary, Goto, Loading, fileVars, TypeOK, OpSet
<1>4. \A q \in Procs \ {p} : Same(q)
  BY <1>1 DEF WriteTemporary, Goto, mgrVars, histVars, TypeOK, Same
<1>5. \A q \in Procs \ {p} : ProcInv(q)'
  BY <1>1, <1>3, <1>4, Bystander DEF IInv
<1>6. TypeOK'
  <2>1. op' \in [Procs -> OpSet]
    <3>1. CASE Goto(p, "rename")
      BY <1>1, <3>1, OpStep DEF Goto, OpPcs
    <3>2. CASE Goto(p, "commit")
      BY <1>1, <3>2, OpStep DEF Goto, OpPcs
    <3> QED
      BY <3>1, <3>2 DEF WriteTemporary
  <2> QED
    BY <1>1, <2>1, StoreBounds DEF WriteTemporary, Fault, fileVars, mgrVars, histVars,
       bounds, TypeOK
<1>7. LockInv(p)'
  BY <1>1, <1>2, <1>3 DEF LockInv, Loading, At
<1>8. LifeInv(p)'
  BY <1>1, <1>2, <1>3, OpTypes DEF LifeInv, Running, Loading
<1>9. EditInv(p)'
  BY <1>1, <1>2, <1>3, OpTypes DEF EditInv, Saving, Running
<1>10. DocInv(p)'
  BY <1>1, <1>2, <1>3 DEF DocInv, Saving, Loading, Newest
<1>11. DiskInv(p)'
  BY <1>1, <1>2, <1>3 DEF DiskInv, Loading
<1> QED
  BY <1>5, <1>6, <1>7, <1>8, <1>9, <1>10, <1>11 DEF IInv, ProcInv

\* The file is replaced.
LEMMA ReplaceFilePreserves ==
  ASSUME IInv, NEW p \in Procs, ReplaceFile(p)
  PROVE  IInv'
<1> SUFFICES ASSUME ~(~Loading(p) /\ SaveFails(p)) PROVE IInv'
  <2>1. op[p].pc = "rename" /\ LifeInv(p) /\ TypeOK
    BY DEF ReplaceFile, At, IInv, ProcInv
  <2>2. ~Loading(p) => Saving(p)
    BY <2>1, OpTypes, DocTypes DEF LifeInv, Loading, Saving, OpKinds
  <2>3. ~Loading(p) /\ SaveFails(p) => IInv'
    BY <2>1, <2>2, SaveFailsPreserves
  <2> QED
    BY <2>3
<1>1. TypeOK /\ LockInv(p) /\ LifeInv(p) /\ EditInv(p) /\ DocInv(p) /\ DiskInv(p)
  BY DEF IInv, ProcInv
<1>2. /\ lifecycleState'[p] = lifecycleState[p] /\ conf'[p] = conf[p]
      /\ baseline'[p] = baseline[p] /\ baselineValid'[p] = baselineValid[p]
      /\ dirty'[p] = dirty[p] /\ autoSaveEnabled'[p] = autoSaveEnabled[p]
      /\ shut'[p] = shut[p] /\ unsaved'[p] = unsaved[p]
      /\ inflight'[p] = inflight[p] /\ intent'[p] = intent[p]
      /\ blind'[p] = blind[p] /\ unseen'[p] = unseen[p]
      /\ op[p].pc = "rename"
      /\ op'[p].kind = op[p].kind
      /\ op'[p].pc = "commit"
      /\ op'[p].local = op[p].local
      /\ op'[p].doc = op[p].doc
      /\ op'[p].stale = op[p].stale
  BY <1>1 DEF ReplaceFile, Goto, At, mgrVars, histVars, TypeOK, OpSet
<1>3. \/ /\ disk' = op[p].doc /\ fstat' = "ok" /\ op'[p].persisted
         /\ commitLock' = IF op[p].kind # "load" /\ commitLock = p THEN NoProc ELSE commitLock
      \/ /\ op[p].kind = "load" /\ op'[p].persisted = op[p].persisted
         /\ UNCHANGED <<fstat, disk, commitLock>>
  BY <1>1 DEF ReplaceFile, Goto, Unlock, Loading, fileVars, TypeOK, OpSet
<1>4. \A q \in Procs \ {p} : Same(q)
  BY <1>1 DEF ReplaceFile, Goto, mgrVars, histVars, TypeOK, Same
<1>5. \A q \in Procs \ {p} : ProcInv(q)'
  <2>1. commitLock = p
    BY <1>1, <1>2 DEF LockInv
  <2>2. ASSUME NEW q \in Procs \ {p}, fstat = "ok", NEW k \in Own[q] PROVE disk'[k] = disk[k]
    <3>1. CASE disk' = disk
      BY <3>1
    <3>2. CASE disk' = op[p].doc
      <4>1. ~Loading(p) /\ Saving(p)
        BY <1>1, <1>2, <2>2, OpTypes, DocTypes DEF DocInv, LifeInv, Loading, Saving, OpKinds
      <4>2. op[p].doc = MergeFlat(baseline[p], op[p].local, disk)
        BY <1>1, <1>2, <2>2, <4>1 DEF DocInv, Newest
      <4>3. k \in Keys /\ k \notin inflight[p]
        BY <1>1, <2>2, OwnAssumption DEF EditInv
      <4>4. op[p].local[k] = baseline[p][k]
        BY <1>1, <4>1, <4>3 DEF EditInv
      <4>5. op[p].doc[k] = disk[k]
        BY <1>1, <4>2, <4>3, <4>4, DocTypes, MergeIsDoc
      <4> QED
        BY <3>2, <4>5
    <3> QED
      BY <1>3, <3>1, <3>2
  <2> QED
    BY <1>1, <1>3, <1>4, <2>1, <2>2, OwnAssumption, Bystander DEF IInv
<1>6. TypeOK'
  <2>1. op' \in [Procs -> OpSet]
    <3>1. CASE op' = [op EXCEPT ![p].pc = "commit", ![p].persisted = TRUE]
      BY <1>1, <3>1, OpStep DEF OpPcs
    <3>2. CASE Goto(p, "commit")
      BY <1>1, <3>2, OpStep DEF Goto, OpPcs
    <3> QED
      BY <3>1, <3>2 DEF ReplaceFile
  <2>2. disk' \in Docs
    BY <1>1, DocTypes DEF ReplaceFile, fileVars
  <2> QED
    BY <1>1, <2>1, <2>2, StoreBounds DEF ReplaceFile, Fault, Unlock, fileVars, mgrVars,
       histVars, bounds, TypeOK
<1>7. LockInv(p)'
  BY <1>1, <1>2, <1>3, OwnAssumption DEF LockInv, Loading, At
<1>8. LifeInv(p)'
  BY <1>1, <1>2, <1>3, OpTypes DEF LifeInv, Running, Loading
<1>9. EditInv(p)'
  BY <1>1, <1>2, <1>3, OpTypes DEF EditInv, Saving, Running
<1>10. DocInv(p)'
  BY <1>1, <1>2, <1>3 DEF DocInv, LockInv, Saving, Loading
<1>11. DiskInv(p)'
  <2>1. CASE UNCHANGED <<fstat, disk, commitLock>>
    BY <1>1, <1>2, <1>3, <2>1 DEF DiskInv, Loading
  <2>2. CASE disk' = op[p].doc /\ fstat' = "ok" /\ op[p].kind = "load"
    <3>1. ~baselineValid[p] /\ fstat # "ok"
      BY <1>1, <1>2, <2>2 DEF LifeInv, DocInv, Loading
    <3> QED
      BY <1>1, <1>2, <2>2, <3>1 DEF DiskInv
  <2>3. CASE disk' = op[p].doc /\ fstat' = "ok" /\ op[p].kind # "load"
    <3>1. Saving(p) /\ baselineValid[p]
      BY <1>1, <1>2, <2>3, OpTypes, DocTypes DEF LifeInv, Saving, Loading, OpKinds
    <3>2. ASSUME NEW k \in Keys, k \notin inflight[p], fstat = "ok" PROVE disk'[k] = disk[k]
      <4>1. op[p].local[k] = baseline[p][k]
        BY <1>1, <3>1, <3>2 DEF EditInv
      <4>2. op[p].doc = MergeFlat(baseline[p], op[p].local, disk)
        BY <1>1, <1>2, <3>1, <3>2 DEF DocInv, Newest
      <4> QED
        BY <1>1, <2>3, <4>1, <4>2, DocTypes, MergeIsDoc
    <3> QED
      BY <1>1, <1>2, <2>3, <3>1, <3>2 DEF DiskInv, Saving
  <2> QED
    BY <1>3, <2>1, <2>2, <2>3
<1> QED
  BY <1>5, <1>6, <1>7, <1>8, <1>9, <1>10, <1>11 DEF IInv, ProcInv

\* A save commits in memory.
LEMMA SaveCommitPreserves ==
  ASSUME IInv, NEW p \in Procs, SaveCommit(p)
  PROVE  IInv'
<1>1. TypeOK /\ LockInv(p) /\ LifeInv(p) /\ EditInv(p) /\ DocInv(p) /\ DiskInv(p)
  BY DEF IInv, ProcInv
<1>2. /\ lifecycleState'[p] = lifecycleState[p] /\ autoSaveEnabled'[p] = autoSaveEnabled[p]
      /\ unsaved'[p] = unsaved[p] /\ intent'[p] = intent[p]
      /\ unseen'[p] = unseen[p] \cup Unseen(p)
      /\ baseline'[p] = op[p].doc
      /\ baselineValid'[p]
      /\ dirty'[p] <=> op[p].stale
      /\ shut'[p] = (IF op[p].kind = "final" THEN "check" ELSE shut[p])
      /\ inflight'[p] = {}
      /\ ~blind'[p]
      /\ ~op[p].stale => conf'[p] = op[p].doc
      /\ \A k \in Keys : conf'[p][k] = IF op[p].stale /\ conf[p][k] # op[p].local[k]
                                    THEN conf[p][k] ELSE op[p].doc[k]
      /\ Saving(p) /\ op[p].pc = "commit"
      /\ op'[p] = NoOp
  <2>1. \A k \in Keys : MergeFlat(op[p].local, conf[p], op[p].doc)[k] =
                        IF conf[p][k] = op[p].local[k] THEN op[p].doc[k] ELSE conf[p][k]
    BY <1>1, DocTypes, MergeIsDoc
  <2>2. (dirty'[p] <=> op[p].stale) /\ baselineValid'[p] /\ ~blind'[p]
    BY <1>1, Zenon DEF SaveCommit, SaveReturns, TypeOK
  <2> QED
    BY <1>1, <2>1, <2>2 DEF SaveCommit, SaveReturns, At, Saving, TypeOK
<1>3. UNCHANGED <<fstat, disk, commitLock>>
  BY <1>1 DEF SaveCommit, SaveReturns, fileVars
<1>4. \A q \in Procs \ {p} : Same(q)
  BY <1>1 DEF SaveCommit, SaveReturns, Same
<1>5. \A q \in Procs \ {p} : ProcInv(q)'
  BY <1>1, <1>3, <1>4, Bystander DEF IInv
<1>6. TypeOK'
  <2>1. MergeFlat(op[p].local, conf[p], op[p].doc) \in Docs
    BY <1>1, DocTypes, MergeIsDoc
  <2>2. conf' \in [Procs -> Docs] /\ baseline' \in [Procs -> Docs]
    BY <1>1, <2>1, DocTypes DEF SaveCommit, SaveReturns, TypeOK
  <2>3. op' \in [Procs -> OpSet]
    BY <1>1, OpTypes DEF SaveCommit, SaveReturns, TypeOK
  <2>4. /\ baselineValid' \in [Procs -> BOOLEAN] /\ dirty' \in [Procs -> BOOLEAN]
        /\ blind' \in [Procs -> BOOLEAN]
    BY <1>1, DocTypes, Zenon DEF SaveCommit, SaveReturns, TypeOK
  <2>5. unseen' \in [Procs -> SUBSET Keys]
    BY <1>1 DEF SaveCommit, SaveReturns, Unseen, TypeOK
  <2> QED
    BY <1>1, <2>1, <2>2, <2>3, <2>4, <2>5 DEF SaveCommit, SaveReturns, fileVars, bounds, TypeOK
<1>7. LockInv(p)'
  BY <1>1, <1>2, <1>3, OpTypes DEF LockInv, Loading, Saving
<1>8. LifeInv(p)'
  BY <1>1, <1>2, <1>3, OpTypes DEF LifeInv, Running, Loading
<1>9. EditInv(p)'
  BY <1>1, <1>2, <1>3, OpTypes DEF EditInv, Saving, Running
<1>10. DocInv(p)'
  BY <1>1, <1>2, <1>3, OpTypes DEF DocInv
<1>11. DiskInv(p)'
  <2>1. fstat = "ok" /\ \A k \in Own[p] : disk[k] = op[p].doc[k]
    BY <1>1, <1>2 DEF DocInv
  <2>2. ASSUME NEW k \in Keys, k \notin unseen'[p], intent[p][k] # NotSet
        PROVE  /\ k \in Own[p] /\ conf'[p][k] = intent[p][k]
               /\ k \notin unsaved[p] => disk[k] = intent[p][k]
    <3>1. k \notin unseen[p] /\ k \notin Unseen(p)
      BY <1>2, <2>2
    <3>2. k \in Own[p]
      BY <2>2, <3>1, <1>1 DEF DiskInv
    <3>3. k \notin unsaved[p] => conf[p][k] = op[p].local[k]
      BY <1>1, <1>2, OpTypes DEF EditInv, Saving
    <3>4. CASE k \in unsaved[p] \cup inflight[p]
      <4>1. conf[p][k] = intent[p][k]
        BY <1>1, <2>2, <3>1, <3>4 DEF DiskInv
      <4>2. conf[p][k] = op[p].local[k] => ~blind[p] \/ op[p].local[k] # baseline[p][k]
        BY <3>1, <3>4 DEF Unseen
      <4>3. conf[p][k] = op[p].local[k] => op[p].doc[k] = op[p].local[k]
        BY <1>1, <1>2, <3>2, <4>2 DEF DocInv
      <4>4. k \in unsaved[p] => op[p].stale
        BY <1>1, <1>2, OpTypes DEF EditInv, Saving
      <4> QED
        BY <1>2, <2>1, <3>2, <3>3, <3>4, <4>1, <4>3, <4>4
    <3>5. CASE k \notin unsaved[p] \cup inflight[p]
      <4>1. disk[k] = intent[p][k]
        BY <1>1, <2>2, <3>1, <3>5 DEF DiskInv
      <4> QED
        BY <1>2, <2>1, <3>2, <3>3, <3>5, <4>1
    <3> QED
      BY <3>2, <3>4, <3>5
  <2> QED
    BY <1>2, <1>3, <2>1, <2>2, OpTypes DEF DiskInv, Saving
<1> QED
  BY <1>5, <1>6, <1>7, <1>8, <1>9, <1>10, <1>11 DEF IInv, ProcInv

\* shutdown() begins.
LEMMA ShutdownPreserves ==
  ASSUME IInv, NEW p \in Procs, Shutdown(p)
  PROVE  IInv'
<1>1. TypeOK /\ LockInv(p) /\ LifeInv(p) /\ EditInv(p) /\ DocInv(p) /\ DiskInv(p)
  BY DEF IInv, ProcInv
<1>2. /\ conf'[p] = conf[p] /\ baseline'[p] = baseline[p]
      /\ baselineValid'[p] = baselineValid[p] /\ dirty'[p] = dirty[p]
      /\ autoSaveEnabled'[p] = autoSaveEnabled[p] /\ op'[p] = op[p]
      /\ unsaved'[p] = unsaved[p] /\ inflight'[p] = inflight[p]
      /\ intent'[p] = intent[p] /\ blind'[p] = blind[p] /\ unseen'[p] = unseen[p]
      /\ lifecycleState'[p] = "Closing"
      /\ shut'[p] = "disable"
      /\ lifecycleState[p] \in {"Open", "Closing"} /\ baselineValid[p] /\ shut[p] = "no"
  BY <1>1 DEF Shutdown, histVars, TypeOK
<1>3. UNCHANGED <<fstat, disk, commitLock>>
  BY <1>1 DEF Shutdown, fileVars
<1>4. \A q \in Procs \ {p} : Same(q)
  BY <1>1 DEF Shutdown, histVars, Same
<1>5. \A q \in Procs \ {p} : ProcInv(q)'
  BY <1>1, <1>3, <1>4, Bystander DEF IInv
<1>6. TypeOK'
  BY <1>1 DEF Shutdown, fileVars, histVars, bounds, TypeOK, LifeStates
<1>7. LockInv(p)'
  BY <1>1, <1>2, <1>3 DEF LockInv, LifeInv
<1>8. LifeInv(p)'
  BY <1>1, <1>2, <1>3 DEF LifeInv, Running, Loading
<1>9. EditInv(p)'
  BY <1>1, <1>2, <1>3 DEF EditInv, Saving, Running
<1>10. DocInv(p)'
  BY <1>1, <1>2, <1>3 DEF DocInv, Saving, Loading, Newest
<1>11. DiskInv(p)'
  BY <1>1, <1>2, <1>3 DEF DiskInv, Saving, Loading
<1> QED
  BY <1>5, <1>6, <1>7, <1>8, <1>9, <1>10, <1>11 DEF IInv, ProcInv

\* shutdown() waits for the saver.
LEMMA ShutdownDisablePreserves ==
  ASSUME IInv, NEW p \in Procs, ShutdownDisable(p)
  PROVE  IInv'
<1>1. TypeOK /\ LockInv(p) /\ LifeInv(p) /\ EditInv(p) /\ DocInv(p) /\ DiskInv(p)
  BY DEF IInv, ProcInv
<1>2. /\ lifecycleState'[p] = lifecycleState[p] /\ conf'[p] = conf[p]
      /\ baseline'[p] = baseline[p] /\ baselineValid'[p] = baselineValid[p]
      /\ dirty'[p] = dirty[p] /\ op'[p] = op[p]
      /\ unsaved'[p] = unsaved[p] /\ inflight'[p] = inflight[p]
      /\ intent'[p] = intent[p] /\ blind'[p] = blind[p] /\ unseen'[p] = unseen[p]
      /\ ~autoSaveEnabled'[p]
      /\ shut'[p] = "save"
      /\ shut[p] = "disable" /\ op[p].kind # "auto"
  BY <1>1 DEF ShutdownDisable, histVars, TypeOK
<1>3. UNCHANGED <<fstat, disk, commitLock>>
  BY <1>1 DEF ShutdownDisable, fileVars
<1>4. \A q \in Procs \ {p} : Same(q)
  BY <1>1 DEF ShutdownDisable, histVars, Same
<1>5. \A q \in Procs \ {p} : ProcInv(q)'
  BY <1>1, <1>3, <1>4, Bystander DEF IInv
<1>6. TypeOK'
  BY <1>1 DEF ShutdownDisable, fileVars, histVars, bounds, TypeOK
<1>7. LockInv(p)'
  BY <1>1, <1>2, <1>3 DEF LockInv, LifeInv
<1>8. LifeInv(p)'
  BY <1>1, <1>2, <1>3 DEF LifeInv, Running, Loading
<1>9. EditInv(p)'
  BY <1>1, <1>2, <1>3 DEF EditInv, Saving, Running
<1>10. DocInv(p)'
  BY <1>1, <1>2, <1>3 DEF DocInv, Saving, Loading, Newest
<1>11. DiskInv(p)'
  BY <1>1, <1>2, <1>3 DEF DiskInv, Saving, Loading
<1> QED
  BY <1>5, <1>6, <1>7, <1>8, <1>9, <1>10, <1>11 DEF IInv, ProcInv

\* shutdown() has nothing to save.
LEMMA ShutdownCleanPreserves ==
  ASSUME IInv, NEW p \in Procs, ShutdownClean(p)
  PROVE  IInv'
<1>1. TypeOK /\ LockInv(p) /\ LifeInv(p) /\ EditInv(p) /\ DocInv(p) /\ DiskInv(p)
  BY DEF IInv, ProcInv
<1>2. /\ lifecycleState'[p] = lifecycleState[p] /\ conf'[p] = conf[p]
      /\ baseline'[p] = baseline[p] /\ baselineValid'[p] = baselineValid[p]
      /\ dirty'[p] = dirty[p] /\ autoSaveEnabled'[p] = autoSaveEnabled[p]
      /\ op'[p] = op[p] /\ unsaved'[p] = unsaved[p]
      /\ inflight'[p] = inflight[p] /\ intent'[p] = intent[p]
      /\ blind'[p] = blind[p] /\ unseen'[p] = unseen[p]
      /\ shut'[p] = "check"
      /\ shut[p] = "save" /\ op[p] = NoOp
  BY <1>1 DEF ShutdownClean, mgrVars, histVars, TypeOK
<1>3. UNCHANGED <<fstat, disk, commitLock>>
  BY <1>1 DEF ShutdownClean, fileVars
<1>4. \A q \in Procs \ {p} : Same(q)
  BY <1>1 DEF ShutdownClean, mgrVars, histVars, Same
<1>5. \A q \in Procs \ {p} : ProcInv(q)'
  BY <1>1, <1>3, <1>4, Bystander DEF IInv
<1>6. TypeOK'
  BY <1>1 DEF ShutdownClean, fileVars, mgrVars, histVars, bounds, TypeOK
<1>7. LockInv(p)'
  BY <1>1, <1>2, <1>3 DEF LockInv, LifeInv
<1>8. LifeInv(p)'
  BY <1>1, <1>2, <1>3, OpTypes DEF LifeInv, Running, Loading
<1>9. EditInv(p)'
  BY <1>1, <1>2, <1>3 DEF EditInv, Saving, Running
<1>10. DocInv(p)'
  BY <1>1, <1>2, <1>3, OpTypes DEF DocInv
<1>11. DiskInv(p)'
  BY <1>1, <1>2, <1>3, OpTypes DEF DiskInv, Loading
<1> QED
  BY <1>5, <1>6, <1>7, <1>8, <1>9, <1>10, <1>11 DEF IInv, ProcInv

\* shutdown() closes a manager that is not dirty.
LEMMA ShutdownCheckPreserves ==
  ASSUME IInv, NEW p \in Procs, ShutdownCheck(p)
  PROVE  IInv'
<1>1. TypeOK /\ LockInv(p) /\ LifeInv(p) /\ EditInv(p) /\ DocInv(p) /\ DiskInv(p)
  BY DEF IInv, ProcInv
<1>2. /\ conf'[p] = conf[p] /\ baseline'[p] = baseline[p]
      /\ baselineValid'[p] = baselineValid[p] /\ dirty'[p] = dirty[p]
      /\ autoSaveEnabled'[p] = autoSaveEnabled[p] /\ op'[p] = op[p]
      /\ unsaved'[p] = unsaved[p] /\ inflight'[p] = inflight[p]
      /\ intent'[p] = intent[p] /\ blind'[p] = blind[p] /\ unseen'[p] = unseen[p]
      /\ lifecycleState'[p] = (IF dirty[p] THEN lifecycleState[p] ELSE "Closed")
      /\ shut'[p] = "no"
      /\ shut[p] = "check"
  BY <1>1 DEF ShutdownCheck, histVars, TypeOK
<1>3. UNCHANGED <<fstat, disk, commitLock>>
  BY <1>1 DEF ShutdownCheck, fileVars
<1>4. \A q \in Procs \ {p} : Same(q)
  BY <1>1 DEF ShutdownCheck, histVars, Same
<1>5. \A q \in Procs \ {p} : ProcInv(q)'
  BY <1>1, <1>3, <1>4, Bystander DEF IInv
<1>6. TypeOK'
  BY <1>1 DEF ShutdownCheck, fileVars, histVars, bounds, TypeOK, LifeStates
<1>7. LockInv(p)'
  BY <1>1, <1>2, <1>3 DEF LockInv, LifeInv
<1>8. LifeInv(p)'
  BY <1>1, <1>2, <1>3 DEF LifeInv, Running, Loading
<1>9. EditInv(p)'
  BY <1>1, <1>2, <1>3 DEF EditInv, Saving, Running
<1>10. DocInv(p)'
  BY <1>1, <1>2, <1>3, OpTypes DEF DocInv, LifeInv
<1>11. DiskInv(p)'
  BY <1>1, <1>2, <1>3, OpTypes DEF DiskInv, LifeInv, Loading
<1> QED
  BY <1>5, <1>6, <1>7, <1>8, <1>9, <1>10, <1>11 DEF IInv, ProcInv

\* The process ends after its shutdown.
LEMMA ExitPreserves ==
  ASSUME IInv, NEW p \in Procs, Exit(p)
  PROVE  IInv'
<1>1. TypeOK /\ LockInv(p) /\ LifeInv(p) /\ EditInv(p) /\ DocInv(p) /\ DiskInv(p)
  BY DEF IInv, ProcInv
<1>2. /\ intent'[p] = intent[p] /\ unseen'[p] = unseen[p]
      /\ lifecycleState'[p] = "down"
      /\ conf'[p] = Empty
      /\ baseline'[p] = Empty
      /\ ~baselineValid'[p]
      /\ ~dirty'[p]
      /\ ~autoSaveEnabled'[p]
      /\ shut'[p] = "no"
      /\ unsaved'[p] = {}
      /\ inflight'[p] = {}
      /\ ~blind'[p]
      /\ lifecycleState[p] = "Closed"
      /\ op'[p] = NoOp
  BY <1>1 DEF Exit, Die, TypeOK
<1>3. UNCHANGED <<fstat, disk, commitLock>>
  BY <1>1 DEF Exit, fileVars
<1>4. \A q \in Procs \ {p} : Same(q)
  BY <1>1 DEF Exit, Die, Same
<1>5. \A q \in Procs \ {p} : ProcInv(q)'
  BY <1>1, <1>3, <1>4, Bystander DEF IInv
<1>6. TypeOK'
  BY <1>1, OpTypes DEF Exit, Die, fileVars, bounds, TypeOK, LifeStates
<1>7. LockInv(p)'
  BY <1>1, <1>2, <1>3, OpTypes DEF LockInv, LifeInv, Loading
<1>8. LifeInv(p)'
  BY <1>1, <1>2, <1>3 DEF LifeInv, Running
<1>9. EditInv(p)'
  BY <1>1, <1>2, <1>3, OpTypes DEF EditInv, Saving, Running
<1>10. DocInv(p)'
  BY <1>1, <1>2, <1>3, OpTypes DEF DocInv
<1>11. DiskInv(p)'
  BY <1>1, <1>2, <1>3, OpTypes DEF DiskInv, LifeInv, EditInv, Loading
<1> QED
  BY <1>5, <1>6, <1>7, <1>8, <1>9, <1>10, <1>11 DEF IInv, ProcInv

\* The process dies.
LEMMA CrashPreserves ==
  ASSUME IInv, NEW p \in Procs, Crash(p)
  PROVE  IInv'
<1>1. TypeOK /\ LockInv(p) /\ LifeInv(p) /\ EditInv(p) /\ DocInv(p) /\ DiskInv(p)
  BY DEF IInv, ProcInv
<1>2. /\ lifecycleState'[p] = "down"
      /\ conf'[p] = Empty
      /\ baseline'[p] = Empty
      /\ ~baselineValid'[p]
      /\ ~dirty'[p]
      /\ ~autoSaveEnabled'[p]
      /\ shut'[p] = "no"
      /\ unsaved'[p] = {}
      /\ inflight'[p] = {}
      /\ ~blind'[p]
      /\ op'[p] = NoOp
      /\ unseen'[p] = unseen[p]
      /\ \A k \in Keys : intent'[p][k] =
           IF k \in unsaved[p] \cup inflight[p] THEN NotSet ELSE intent[p][k]
  BY <1>1 DEF Crash, Die, TypeOK
<1>3. /\ UNCHANGED <<fstat, disk>>
      /\ commitLock' = IF commitLock = p THEN NoProc ELSE commitLock
  BY <1>1 DEF Crash, Unlock
<1>4. \A q \in Procs \ {p} : Same(q)
  BY <1>1 DEF Crash, Die, Same
<1>5. \A q \in Procs \ {p} : ProcInv(q)'
  BY <1>1, <1>3, <1>4, OwnAssumption, Bystander DEF IInv
<1>6. TypeOK'
  <2>1. op' \in [Procs -> OpSet]
    BY <1>1, OpTypes DEF Crash, Die, TypeOK
  <2>2. intent' \in [Procs -> [Keys -> Vals \cup {NotSet}]]
    BY <1>1 DEF Crash, TypeOK
  <2> QED
    BY <1>1, <2>1, <2>2, StoreBounds, OpTypes DEF Crash, Die, Unlock, TypeOK, LifeStates
<1>7. LockInv(p)'
  BY <1>1, <1>2, <1>3, OpTypes, OwnAssumption DEF LockInv
<1>8. LifeInv(p)'
  BY <1>1, <1>2, <1>3, OpTypes DEF LifeInv, Running
<1>9. EditInv(p)'
  BY <1>1, <1>2, <1>3, OpTypes DEF EditInv, Saving, Running
<1>10. DocInv(p)'
  BY <1>1, <1>2, <1>3, OpTypes DEF DocInv
<1>11. DiskInv(p)'
  BY <1>1, <1>2, <1>3 DEF DiskInv
<1> QED
  BY <1>5, <1>6, <1>7, <1>8, <1>9, <1>10, <1>11 DEF IInv, ProcInv

\* Every step preserves the inductive invariant.
LEMMA NextIInv == IInv /\ [Next]_vars => IInv'
<1> SUFFICES ASSUME IInv, [Next]_vars PROVE IInv'
  OBVIOUS
<1>1. CASE UNCHANGED vars
  <2>1. UNCHANGED <<fstat, disk, commitLock, lifecycleState, conf, baseline, baselineValid,
                    dirty, autoSaveEnabled, op, shut, unsaved, inflight, intent, blind, unseen,
                    edits, faults, boots, crashes>>
    BY <1>1 DEF vars, fileVars, mgrVars, histVars, bounds
  <2>2. TypeOK'
    BY <2>1 DEF IInv, TypeOK
  <2>3. \A p \in Procs : ProcInv(p)'
    BY <2>1, Bystander DEF IInv, Same
  <2> QED
    BY <2>2, <2>3 DEF IInv
<1>2. CASE Next
  <2>1. PICK p \in Procs :
          \/ Boot(p) \/ LoadStep(p) \/ EnableAutoSave(p)
          \/ Edit(p) \/ SaveBegin(p) \/ SaveStep(p)
          \/ Shutdown(p) \/ ShutdownStep(p) \/ Exit(p) \/ Crash(p)
    BY <1>2 DEF Next
  <2>2. CASE Boot(p) \/ LoadStep(p) \/ EnableAutoSave(p)
    BY <2>2, BootPreserves, LoadLockPreserves, LoadReadPreserves, LoadCommitPreserves,
       EnableAutoSavePreserves DEF LoadStep
  <2>3. CASE Edit(p) \/ SaveBegin(p)
    BY <2>3, EditPreserves, SaveBeginPreserves
  <2>4. CASE SaveStep(p)
    BY <2>4, SaveLockPreserves, SaveMergePreserves, WriteTemporaryPreserves,
       ReplaceFilePreserves, SaveCommitPreserves DEF SaveStep
  <2>5. CASE Shutdown(p) \/ ShutdownStep(p)
    BY <2>5, ShutdownPreserves, ShutdownDisablePreserves, ShutdownCleanPreserves,
       ShutdownCheckPreserves DEF ShutdownStep
  <2>6. CASE Exit(p) \/ Crash(p)
    BY <2>6, ExitPreserves, CrashPreserves
  <2> QED
    BY <2>1, <2>2, <2>3, <2>4, <2>5, <2>6
<1> QED
  BY <1>1, <1>2

-----------------------------------------------------------------------------
(***************************************************************************)
(* The theorems.                                                           *)
(***************************************************************************)

\* In every reachable state the file, the baseline, the snapshot and the
\* live document of every process stand in the relations of IInv.
THEOREM StoreInvariant == Spec => []IInv
  BY InitIInv, NextIInv, PTL DEF Spec

\* The variables keep their types.
THEOREM StoreTypeOK == Spec => []TypeOK
<1>1. IInv => TypeOK
  BY DEF IInv
<1> QED
  BY <1>1, StoreInvariant, PTL

\* The commit lock guards every read-merge-write and is never left behind,
\* whatever fails or dies (config.cpp ConfigCommitLock, persistSnapshot,
\* load).
THEOREM LockIsReleased == Spec => []NoLockout
<1>1. IInv => NoLockout
  BY DEF IInv, ProcInv, LockInv, NoLockout
<1> QED
  BY <1>1, StoreInvariant, PTL

\* No load, save, merge or rebase takes back an edit of a key that no other
\* process edits, in any process, also one that could not read the file
\* (config.cpp 629-654, 694-719), but for an edit in unseen: one that went
\* back to what the merge takes for unchanged (config.cpp 278).
THEOREM EditsAreKept == Spec => []EditsStayLive
<1>1. IInv => EditsStayLive
  BY DEF IInv, ProcInv, DiskInv, EditsStayLive
<1> QED
  BY <1>1, StoreInvariant, PTL

\* What a manager that is not dirty, or was shut down, has been told is on
\* disk, whatever the other processes have committed since, and a crash loses
\* only what was not committed (config.h dirty), but for an edit in unseen.
THEOREM CleanManagersAreSaved == Spec => []CleanIsDurable
<1>1. ASSUME IInv PROVE CleanIsDurable
  <2> SUFFICES ASSUME NEW p \in Procs, NEW k \in Keys \ unseen[p], intent[p][k] # NotSet,
                      ~Running(p) \/ (~dirty[p] /\ op[p] = NoOp)
               PROVE  fstat = "ok" /\ disk[k] = intent[p][k]
    BY DEF CleanIsDurable
  <2>1. EditInv(p) /\ DiskInv(p)
    BY <1>1 DEF IInv, ProcInv
  <2>2. unsaved[p] \cup inflight[p] = {}
    BY <2>1 DEF EditInv
  <2> QED
    BY <2>1, <2>2 DEF DiskInv
<1> QED
  BY <1>1, StoreInvariant, PTL

\* A commit changes in a readable file only keys its process edited since
\* its last commit, to the values of its snapshot (config.cpp
\* mergeLocalChanges, persistSnapshot).
THEOREM OnlyOwnEditsAreCommitted == Spec => CommitsOwnEdits
<1>1. ASSUME IInv, [Next]_vars, fstat = "ok", disk' # disk
      PROVE  /\ commitLock \in Procs
             /\ \A k \in Keys : disk'[k] # disk[k] =>
                  k \in inflight[commitLock] /\ disk'[k] = op[commitLock].local[k]
  <2>1. PICK p \in Procs : \/ Boot(p) \/ LoadStep(p) \/ EnableAutoSave(p) \/ Edit(p)
                           \/ SaveBegin(p) \/ SaveStep(p) \/ Shutdown(p) \/ ShutdownStep(p)
                           \/ Exit(p) \/ Crash(p)
    BY <1>1 DEF Next, vars, fileVars
  <2>2. ~ LoadStep(p)
    BY <1>1 DEF LoadStep, LoadLock, LoadRead, LoadCommit, fileVars
  <2>3. ~ (Boot(p) \/ EnableAutoSave(p) \/ Edit(p) \/ SaveBegin(p))
    BY <1>1 DEF Boot, EnableAutoSave, Edit, SaveBegin, fileVars
  <2>4. ~ (Shutdown(p) \/ ShutdownStep(p) \/ Exit(p) \/ Crash(p))
    BY <1>1 DEF Shutdown, ShutdownStep, ShutdownDisable, ShutdownClean, ShutdownCheck, Exit,
       Crash, fileVars
  <2>5. SaveStep(p)
    BY <2>1, <2>2, <2>3, <2>4
  <2>6. ReplaceFile(p) /\ disk' = op[p].doc
    BY <1>1, <2>5 DEF SaveStep, fileVars, SaveLock, SaveMerge, WriteTemporary, ReplaceFile,
       SaveCommit, SaveReturns, SaveFails
  <2>7. TypeOK /\ LockInv(p) /\ LifeInv(p) /\ EditInv(p) /\ DocInv(p) /\ op[p].pc = "rename"
    BY <1>1, <2>6 DEF IInv, ProcInv, ReplaceFile, At
  <2>8. commitLock = p
    BY <2>7 DEF LockInv
  <2>9. Saving(p)
    BY <1>1, <2>7, OpTypes, DocTypes DEF DocInv, LifeInv, Loading, Saving, OpKinds
  <2>10. op[p].doc = MergeFlat(baseline[p], op[p].local, disk)
    BY <1>1, <2>7, <2>9 DEF DocInv, Newest
  <2>11. \A k \in Keys :
          op[p].doc[k] = IF op[p].local[k] = baseline[p][k] THEN disk[k] ELSE op[p].local[k]
    BY <2>7, <2>10, DocTypes, MergeIsDoc
  <2>12. \A k \in Keys : op[p].local[k] # baseline[p][k] => k \in inflight[p]
    BY <2>7, <2>9 DEF EditInv
  <2> QED
    BY <2>6, <2>8, <2>11, <2>12
<1> QED
  BY <1>1, StoreInvariant, PTL DEF Spec, CommitsOwnEdits

-----------------------------------------------------------------------------
(***************************************************************************)
(* mergeLocalChanges() for documents of any nesting.  The recursive        *)
(* function exists and unfolds because every call is on less deeply nested *)
(* values; what holds of it is proved by induction on the depth, or on the *)
(* length of the walk to a value.                                          *)
(***************************************************************************)
\* Every non-empty set of natural numbers has a least element.
LEMMA LeastOf ==
  ASSUME NEW T \in SUBSET Nat, T # {}
  PROVE  \E x \in T : \A y \in T : x <= y
<1>1. PICK x \in T : \A y \in T : ~ (<<y, x>> \in OpToRel(<, Nat))
  BY NatLessThanWellFounded, WFMin
<1>2. ASSUME NEW y \in T PROVE x <= y
  <2>1. ~ (y < x)
    BY <1>1 DEF OpToRel
  <2> QED
    BY <2>1
<1> QED
  BY <1>2

\* A set of natural numbers that is closed under successor has them all.
LEMMA SetInduction ==
  ASSUME NEW S, 0 \in S, \A n \in Nat : n \in S => n + 1 \in S
  PROVE  Nat \subseteq S
<1> DEFINE T == Nat \ S
<1>1. SUFFICES ASSUME T # {} PROVE FALSE
  OBVIOUS
<1>2. PICK x \in T : \A y \in T : x <= y
  BY <1>1, LeastOf
<1>3. x # 0 /\ x \in Nat
  OBVIOUS
<1>4. x - 1 \in Nat /\ x - 1 \notin T
  BY <1>2, <1>3
<1>5. (x - 1) + 1 \in S
  BY <1>4
<1> QED
  BY <1>3, <1>5

Triples == Json \X Json \X Json

\* The kinds of values are different.
LEMMA KindFacts ==
  /\ ~IsObject(Null) /\ ~IsObject(Missing) /\ Null # Missing
  /\ \A m : IsObject(Object(m)) /\ Object(m).members = m /\ Object(m) # Missing /\ Object(m) # Null
  /\ DOMAIN NoMembers = {}
  BY DEF IsObject, Null, Missing, Object, NoMembers

\* Depths are natural numbers.
LEMMA DepthNat ==
  MaxDepth \in Nat /\ \A j \in Json : Depth[j] \in Nat /\ Depth[j] <= MaxDepth
  BY JsonAssumption

\* What a JSON value is.
LEMMA JsonFacts ==
  ASSUME NEW j \in Json
  PROVE  /\ j # Missing /\ Depth[j] \in Nat /\ Depth[j] <= MaxDepth
         /\ IsObject(j) => /\ j = Object([k \in Members(j) |-> j.members[k]])
                           /\ Members(j) \subseteq Names
                           /\ \A k \in Members(j) : /\ j.members[k] \in Json
                                                    /\ Depth[j.members[k]] < Depth[j]
<1>1. Depth[j] \in Nat /\ Depth[j] <= MaxDepth
  BY JsonAssumption
<1>2. CASE j = Null \/ j.type = "scalar"
  <2>1. ~IsObject(j)
    BY <1>2 DEF IsObject, Null
  <2>2. j # Missing
    BY <1>2 DEF Missing, Null
  <2> QED
    BY <1>1, <2>1, <2>2
<1>3. CASE /\ j = Object([k \in Members(j) |-> j.members[k]])
           /\ Members(j) \subseteq Names /\ MembersBelow(j)
  BY <1>1, <1>3, KindFacts DEF MembersBelow
<1> QED
  BY <1>2, <1>3, JsonAssumption

\* A step of the merge uses the function on members of local only.
LEMMA MemberCongruence ==
  ASSUME NEW f, NEW g, NEW b, NEW l, NEW m, NEW k,
         \A x \in DOMAIN b : b[x] \in Json, \A x \in DOMAIN m : m[x] \in Json,
         k \in DOMAIN l => l[k] \in Json /\ \A x \in Json, y \in Json : f[<<x, l[k], y>>] = g[<<x, l[k], y>>]
  PROVE  MergedMember(f, b, l, m, k) = MergedMember(g, b, l, m, k)
<1>1. CASE k \notin DOMAIN l
  BY <1>1 DEF MergedMember
<1>2. CASE k \in DOMAIN l
  <2>1. \A x \in Json, y \in Json : f[<<x, l[k], y>>] = g[<<x, l[k], y>>]
    BY <1>2
  <2>2. CASE k \notin DOMAIN b
    <3>1. k \in DOMAIN m => f[<<Object(NoMembers), l[k], m[k]>>] = g[<<Object(NoMembers), l[k], m[k]>>]
      BY <2>1, JsonAssumption
    <3> QED
      BY <1>2, <2>2, <3>1 DEF MergedMember
  <2>3. CASE k \in DOMAIN b
    <3> DEFINE y == IF k \in DOMAIN m THEN m[k] ELSE b[k]
    <3>1. y \in Json /\ b[k] \in Json
      BY <2>3
    <3>2. f[<<b[k], l[k], y>>] = g[<<b[k], l[k], y>>]
      BY <2>1, <3>1
    <3> QED
      BY <1>2, <2>3, <3>2 DEF MergedMember
  <2> QED
    BY <2>2, <2>3
<1> QED
  BY <1>1, <1>2

\* So two functions that agree on what is nested less deep than local make
\* the same of it.
LEMMA StepCongruence ==
  ASSUME NEW f, NEW g, NEW base \in Json, NEW local \in Json, NEW newest \in Json,
         \A t \in Triples : Depth[t[2]] < Depth[local] => f[t] = g[t]
  PROVE  MergeStep(f, base, local, newest) = MergeStep(g, base, local, newest)
<1> DEFINE b == IF base = Null THEN NoMembers ELSE base.members
           l == local.members
           d == IF IsObject(newest) THEN newest.members ELSE b
           left == DOMAIN d \ (DOMAIN b \ DOMAIN l)
           merged == [k \in left |-> d[k]]
           changed == {k \in DOMAIN l : k \notin DOMAIN b \/ b[k] # l[k]}
<1>1. CASE base = local
  BY <1>1 DEF MergeStep
<1>2. CASE base # local /\ ((~IsObject(base) /\ base # Null) \/ ~IsObject(local))
  BY <1>2 DEF MergeStep
<1>3. CASE base # local /\ ~((~IsObject(base) /\ base # Null) \/ ~IsObject(local))
  <2>1. \A x \in DOMAIN b : b[x] \in Json
    BY <1>3, JsonFacts, KindFacts DEF Members
  <2>2. \A x \in DOMAIN d : d[x] \in Json
    BY <2>1, JsonFacts DEF Members
  <2>3. \A x \in DOMAIN merged : merged[x] \in Json
    BY <2>2
  <2>4. \A x \in DOMAIN l : l[x] \in Json /\ Depth[l[x]] < Depth[local]
    BY <1>3, JsonFacts DEF Members
  <2> HIDE DEF b, l, merged
  <2>5. ASSUME NEW k
        PROVE  MergedMember(f, b, l, merged, k) = MergedMember(g, b, l, merged, k)
    <3>1. ASSUME k \in DOMAIN l, NEW x \in Json, NEW y \in Json
          PROVE  f[<<x, l[k], y>>] = g[<<x, l[k], y>>]
      <4>1. <<x, l[k], y>> \in Triples
        BY <2>4, <3>1 DEF Triples
      <4> QED
        BY <4>1, <2>4, <3>1
    <3> QED
      BY <2>1, <2>3, <2>4, <3>1, MemberCongruence
  <2>6. [k \in left \cup changed |-> MergedMember(f, b, l, merged, k)]
          = [k \in left \cup changed |-> MergedMember(g, b, l, merged, k)]
    BY <2>5
  <2> QED
    BY <1>3, <2>6 DEF MergeStep, b, l, merged
<1> QED
  BY <1>1, <1>2, <1>3

\* f computes the merge of every local value nested less than n deep.
Merges(f, n) ==
  \A t \in Triples : Depth[t[2]] < n => f[t] = MergeStep(f, t[1], t[2], t[3])

\* The three values of a call.
LEMMA TripleParts ==
  ASSUME NEW t \in Triples
  PROVE  t[1] \in Json /\ t[2] \in Json /\ t[3] \in Json /\ t = <<t[1], t[2], t[3]>>
  BY DEF Triples

\* The same for the three values as one argument.
LEMMA TripleCongruence ==
  ASSUME NEW f, NEW g, NEW t \in Triples,
         \A u \in Triples : Depth[u[2]] < Depth[t[2]] => f[u] = g[u]
  PROVE  MergeStep(f, t[1], t[2], t[3]) = MergeStep(g, t[1], t[2], t[3])
<1>1. t[1] \in Json /\ t[2] \in Json /\ t[3] \in Json
  BY TripleParts
<1>2. ASSUME NEW b \in Json, NEW l \in Json, NEW n \in Json, l = t[2]
      PROVE  MergeStep(f, b, l, n) = MergeStep(g, b, l, n)
  <2>1. \A u \in Triples : Depth[u[2]] < Depth[l] => f[u] = g[u]
    BY <1>2
  <2> QED
    BY <2>1, StepCongruence
<1> QED
  BY <1>1, <1>2

\* There is such a function for every depth, from one level to the next.
LEMMA MergeExists ==
  \A n \in Nat : \E f : Merges(f, n)
<1> DEFINE S == {n \in Nat : \E f : Merges(f, n)}
<1>1. 0 \in S
  <2>1. ASSUME NEW t \in Triples PROVE ~(Depth[t[2]] < 0)
    <3>1. Depth[t[2]] \in Nat
      BY TripleParts, JsonFacts
    <3> QED
      BY <3>1
  <2>2. Merges(Null, 0)
    BY <2>1 DEF Merges
  <2> QED
    BY <2>2
<1>2. ASSUME NEW n \in Nat, n \in S PROVE n + 1 \in S
  <2>1. PICK f : Merges(f, n)
    BY <1>2
  <2> DEFINE g == [t \in Triples |-> MergeStep(f, t[1], t[2], t[3])]
  <2>2. ASSUME NEW t \in Triples PROVE g[t] = MergeStep(f, t[1], t[2], t[3])
    OBVIOUS
  <2> HIDE DEF g
  <2>3. ASSUME NEW t \in Triples, Depth[t[2]] < n PROVE f[t] = g[t]
    BY <2>1, <2>2, <2>3 DEF Merges
  <2>4. ASSUME NEW t \in Triples, Depth[t[2]] < n + 1
        PROVE  g[t] = MergeStep(g, t[1], t[2], t[3])
    <3>1. \A u \in Triples : Depth[u[2]] < Depth[t[2]] => f[u] = g[u]
      <4>1. ASSUME NEW u \in Triples, Depth[u[2]] < Depth[t[2]] PROVE Depth[u[2]] < n
        <5>1. Depth[u[2]] \in Nat /\ Depth[t[2]] \in Nat
          BY TripleParts, JsonFacts
        <5> QED
          BY <2>4, <4>1, <5>1
      <4> QED
        BY <4>1, <2>3
    <3>2. MergeStep(f, t[1], t[2], t[3]) = MergeStep(g, t[1], t[2], t[3])
      BY <3>1, TripleCongruence
    <3> QED
      BY <2>2, <3>2
  <2>5. Merges(g, n + 1)
    BY <2>4 DEF Merges
  <2> QED
    BY <2>5
<1> HIDE DEF S
<1>3. Nat \subseteq S
  BY <1>1, <1>2, SetInduction
<1> QED
  BY <1>3 DEF S

\* mergeLocalChanges() is what one level of it makes of itself.
LEMMA MergeUnfold ==
  ASSUME NEW base \in Json, NEW local \in Json, NEW newest \in Json
  PROVE  MergeLocalChanges(base, local, newest) = MergeStep(MergeFcn, base, local, newest)
<1> DEFINE Def(f) == [t \in Triples |-> MergeStep(f, t[1], t[2], t[3])]
<1>1. MergeFcn = CHOOSE f : f = Def(f)
  BY DEF MergeFcn, Triples
<1>2. \E f : f = Def(f)
  <2>1. MaxDepth + 1 \in Nat
    BY JsonAssumption
  <2>2. PICK f : Merges(f, MaxDepth + 1)
    BY <2>1, MergeExists
  <2> DEFINE g == [t \in Triples |-> f[t]]
  <2>3. ASSUME NEW t \in Triples
        PROVE  g[t] = MergeStep(g, t[1], t[2], t[3])
    <3>1. Depth[t[2]] \in Nat /\ Depth[t[2]] <= MaxDepth /\ MaxDepth \in Nat
      BY TripleParts, JsonFacts, JsonAssumption
    <3>2. Depth[t[2]] < MaxDepth + 1
      BY <3>1
    <3>3. f[t] = MergeStep(f, t[1], t[2], t[3])
      BY <2>2, <3>2 DEF Merges
    <3>4. MergeStep(f, t[1], t[2], t[3]) = MergeStep(g, t[1], t[2], t[3])
      <4>1. \A u \in Triples : Depth[u[2]] < Depth[t[2]] => f[u] = g[u]
        OBVIOUS
      <4> HIDE DEF g
      <4> QED
        BY <4>1, TripleCongruence
    <3> QED
      BY <3>3, <3>4
  <2> HIDE DEF g
  <2>4. Def(g) = [t \in Triples |-> g[t]]
    BY <2>3
  <2>5. g = [t \in Triples |-> g[t]]
    BY DEF g
  <2> QED
    BY <2>4, <2>5
<1>3. MergeFcn = Def(MergeFcn)
  BY <1>1, <1>2
<1>4. <<base, local, newest>> \in Triples
  BY DEF Triples
<1> QED
  BY <1>3, <1>4 DEF MergeLocalChanges

-----------------------------------------------------------------------------
\* A walk starts at the value and takes one key after the other.
LEMMA WalkUnfold ==
  ASSUME NEW j, NEW p
  PROVE  /\ Walk(j, p)[0] = j
         /\ \A i \in 1 .. MaxDepth : Walk(j, p)[i] = Member(Walk(j, p)[i - 1], p[i])
<1> DEFINE Taken(f, i) == IF i = 0 THEN j ELSE Member(f[i - 1], p[i])
           S == {n \in Nat : \E f : \A i \in 0 .. n : f[i] = Taken(f, i)}
<1>1. 0 \in S
  <2> DEFINE g == [i \in {0} |-> j]
  <2>1. \A i \in 0 .. 0 : i = 0 /\ g[i] = j
    OBVIOUS
  <2> HIDE DEF g
  <2>2. \A i \in 0 .. 0 : g[i] = Taken(g, i)
    BY <2>1
  <2> QED
    BY <2>2
<1>2. ASSUME NEW n \in Nat, n \in S PROVE n + 1 \in S
  <2>1. PICK f : \A i \in 0 .. n : f[i] = Taken(f, i)
    BY <1>2
  <2> DEFINE g == [i \in 0 .. n + 1 |-> IF i <= n THEN f[i] ELSE Member(f[n], p[i])]
  <2>2. \A i \in 0 .. n : g[i] = f[i]
    OBVIOUS
  <2>3. g[n + 1] = Member(f[n], p[n + 1])
    OBVIOUS
  <2> HIDE DEF g
  <2>4. ASSUME NEW i \in 0 .. n + 1 PROVE g[i] = Taken(g, i)
    <3>1. CASE i = 0
      BY <3>1, <2>1, <2>2
    <3>2. CASE i # 0 /\ i <= n
      <4>1. i \in 0 .. n /\ i - 1 \in 0 .. n
        BY <3>2
      <4> QED
        BY <2>1, <2>2, <3>2, <4>1
    <3>3. CASE i = n + 1
      <4>1. i # 0 /\ i - 1 = n /\ n \in 0 .. n
        BY <3>3
      <4>2. g[n] = f[n]
        BY <2>2, <4>1
      <4> QED
        BY <2>3, <3>3, <4>1, <4>2
    <3> QED
      BY <3>1, <3>2, <3>3
  <2> QED
    BY <2>4
<1> HIDE DEF S
<1>3. MaxDepth \in S
  <2>1. Nat \subseteq S
    BY <1>1, <1>2, SetInduction
  <2> QED
    BY <2>1, JsonAssumption
<1>4. PICK f : \A i \in Levels : f[i] = Taken(f, i)
  BY <1>3 DEF S, Levels
<1> DEFINE Def(w) == [i \in Levels |-> Taken(w, i)]
           h == [i \in Levels |-> f[i]]
<1>5. ASSUME NEW i \in Levels PROVE h[i] = Taken(h, i)
  <2>1. i # 0 => i - 1 \in Levels
    BY JsonAssumption DEF Levels
  <2> QED
    BY <1>4, <2>1
<1> HIDE DEF h
<1>6. h = Def(h)
  <2>1. h = [i \in Levels |-> h[i]]
    BY DEF h
  <2>2. Def(h) = [i \in Levels |-> h[i]]
    BY <1>5
  <2> QED
    BY <2>1, <2>2
<1>7. Walk(j, p) = CHOOSE w : w = Def(w)
  BY DEF Walk
<1>8. Walk(j, p) = Def(Walk(j, p))
  BY <1>6, <1>7
<1>9. \A i \in Levels : Walk(j, p)[i] = Taken(Walk(j, p), i)
  BY <1>8
<1>10. 0 \in Levels /\ \A i \in 1 .. MaxDepth : i \in Levels /\ i # 0
  BY JsonAssumption DEF Levels
<1> QED
  BY <1>9, <1>10

Values == Json \cup {Missing}

\* A member of a value is a value of lower nesting.
LEMMA MemberFacts ==
  ASSUME NEW j \in Values, NEW k
  PROVE  /\ Member(j, k) \in Values
         /\ ~IsObject(j) => Member(j, k) = Missing
         /\ Member(j, k) # Missing =>
              /\ j \in Json /\ IsObject(j) /\ k \in Members(j)
              /\ Member(j, k) \in Json /\ Depth[Member(j, k)] < Depth[j]
         /\ IsObject(j) /\ k \in Members(j) =>
              Member(j, k) = j.members[k] /\ Member(j, k) # Missing
<1>1. CASE ~(IsObject(j) /\ k \in Members(j))
  BY <1>1 DEF Member, Values
<1>2. CASE IsObject(j) /\ k \in Members(j)
  <2>1. j \in Json
    BY <1>2, KindFacts DEF Values
  <2>2. j.members[k] \in Json /\ Depth[j.members[k]] < Depth[j]
    BY <1>2, <2>1, JsonFacts
  <2>3. j.members[k] # Missing
    BY <2>2, JsonFacts
  <2> QED
    BY <1>2, <2>1, <2>2, <2>3 DEF Member, Values
<1> QED
  BY <1>1, <1>2

\* What the merge leaves in a place where the three documents have b, l and
\* d, each of them possibly nothing.
MergedPlace(b, l, d) ==
  IF l = b THEN d
  ELSE IF l = Missing THEN Missing
  ELSE IF b = Missing
       THEN IF IsObject(l) /\ IsObject(d) THEN MergeLocalChanges(Object(NoMembers), l, d) ELSE l
  ELSE MergeLocalChanges(b, l, IF d = Missing THEN b ELSE d)

\* The cases of mergeLocalChanges() in which nothing is merged.
LEMMA MergeAtomic ==
  ASSUME NEW b \in Json, NEW l \in Json, NEW n \in Json
  PROVE  /\ l = b => MergeLocalChanges(b, l, n) = n
         /\ l # b /\ ~MergesByKey(b, l) => MergeLocalChanges(b, l, n) = l
<1>1. MergeLocalChanges(b, l, n) = MergeStep(MergeFcn, b, l, n)
  BY MergeUnfold
<1>2. b # Missing
  BY JsonFacts
<1> QED
  BY <1>1, <1>2 DEF MergeStep, MergesByKey

\* A merge of values is never nothing.
LEMMA MergePresent ==
  ASSUME NEW b \in Json, NEW l \in Json, NEW n \in Json
  PROVE  MergeLocalChanges(b, l, n) # Missing
<1>1. MergeLocalChanges(b, l, n) = MergeStep(MergeFcn, b, l, n)
  BY MergeUnfold
<1>2. l # Missing /\ n # Missing /\ \A m : Object(m) # Missing
  BY JsonFacts, KindFacts
<1> QED
  BY <1>1, <1>2 DEF MergeStep

\* r is an object, and made of what it has under its keys.
WellFormed(r) ==
  /\ IsObject(r) /\ r = Object([k \in Members(r) |-> r.members[k]])
  /\ \A k \in Members(r) : r.members[k] # Missing

\* Where it merges by key it puts into every place what MergedPlace says.
LEMMA MergeByKey ==
  ASSUME NEW base \in Json, NEW local \in Json, NEW newest \in Json,
         local # base, MergesByKey(base, local)
  PROVE  LET r == MergeLocalChanges(base, local, newest)
             n == IF IsObject(newest) THEN newest ELSE base
         IN /\ WellFormed(r)
            /\ \A k : Member(r, k) = MergedPlace(Member(base, k), Member(local, k), Member(n, k))
<1> DEFINE r == MergeLocalChanges(base, local, newest)
           n == IF IsObject(newest) THEN newest ELSE base
           b == IF base = Null THEN NoMembers ELSE base.members
           l == local.members
           d == IF IsObject(newest) THEN newest.members ELSE b
           left == DOMAIN d \ (DOMAIN b \ DOMAIN l)
           merged == [k \in left |-> d[k]]
           changed == {k \in DOMAIN l : k \notin DOMAIN b \/ b[k] # l[k]}
           m == [k \in left \cup changed |-> MergedMember(MergeFcn, b, l, merged, k)]
<1>1. r = Object(m)
  <2>1. base # Missing
    BY JsonFacts
  <2>2. r = MergeStep(MergeFcn, base, local, newest)
    BY MergeUnfold
  <2> QED
    BY <2>1, <2>2 DEF MergeStep, MergesByKey
<1>2. IsObject(local) /\ (IsObject(base) \/ base = Null)
  BY JsonFacts DEF MergesByKey
<1>3. ASSUME NEW k
      PROVE  Member(r, k) = MergedPlace(Member(base, k), Member(local, k), Member(n, k))
  <2>1. Member(r, k) = IF k \in DOMAIN m THEN m[k] ELSE Missing
    BY <1>1, KindFacts DEF Member, Members
  <2>2. /\ Member(local, k) = IF k \in DOMAIN l THEN l[k] ELSE Missing
        /\ k \in DOMAIN l => l[k] # Missing /\ l[k] \in Json
    BY <1>2, JsonFacts DEF Member, Members
  <2>3. /\ Member(base, k) = IF k \in DOMAIN b THEN b[k] ELSE Missing
        /\ k \in DOMAIN b => b[k] # Missing /\ b[k] \in Json
    <3>1. CASE base = Null
      BY <3>1, KindFacts DEF Member
    <3>2. CASE base # Null
      BY <1>2, <3>2, JsonFacts DEF Member, Members
    <3> QED
      BY <3>1, <3>2
  <2>4. /\ Member(n, k) = IF k \in DOMAIN d THEN d[k] ELSE Missing
        /\ k \in DOMAIN d => d[k] # Missing /\ d[k] \in Json
    <3>1. CASE IsObject(newest)
      BY <3>1, JsonFacts DEF Member, Members
    <3>2. CASE ~IsObject(newest)
      BY <2>3, <3>2
    <3> QED
      BY <3>1, <3>2
  <2>5. k \in DOMAIN m => m[k] = MergedMember(MergeFcn, b, l, merged, k)
    OBVIOUS
  <2>6. DOMAIN m = left \cup changed /\ DOMAIN merged = left /\ (k \in left => merged[k] = d[k])
    OBVIOUS
  <2>7. /\ k \in left <=> k \in DOMAIN d /\ ~(k \in DOMAIN b /\ k \notin DOMAIN l)
        /\ k \in changed <=> k \in DOMAIN l /\ (k \notin DOMAIN b \/ b[k] # l[k])
    OBVIOUS
  <2> HIDE DEF r, n, b, l, d, left, merged, changed, m
  <2>8. CASE k \notin DOMAIN l
    BY <2>1, <2>2, <2>3, <2>4, <2>5, <2>6, <2>7, <2>8 DEF MergedMember, MergedPlace
  <2>9. CASE k \in DOMAIN l /\ k \notin DOMAIN b
    <3>1. MergedMember(MergeFcn, b, l, merged, k)
            = IF IsObject(l[k]) /\ k \in left /\ IsObject(d[k])
              THEN MergeFcn[<<Object(NoMembers), l[k], d[k]>>] ELSE l[k]
      BY <2>6, <2>9 DEF MergedMember
    <3>2. ~IsObject(Missing)
      BY KindFacts
    <3> QED
      BY <2>1, <2>2, <2>3, <2>4, <2>5, <2>6, <2>7, <2>9, <3>1, <3>2
         DEF MergedPlace, MergeLocalChanges
  <2>10. CASE k \in DOMAIN l /\ k \in DOMAIN b /\ b[k] = l[k]
    BY <2>1, <2>2, <2>3, <2>4, <2>5, <2>6, <2>7, <2>10 DEF MergedMember, MergedPlace
  <2>11. CASE k \in DOMAIN l /\ k \in DOMAIN b /\ b[k] # l[k]
    <3>1. MergedMember(MergeFcn, b, l, merged, k)
            = MergeFcn[<<b[k], l[k], IF k \in left THEN d[k] ELSE b[k]>>]
      BY <2>6, <2>11 DEF MergedMember
    <3> QED
      BY <2>1, <2>2, <2>3, <2>4, <2>5, <2>6, <2>7, <2>11, <3>1 DEF MergedPlace, MergeLocalChanges
  <2> QED
    BY <2>8, <2>9, <2>10, <2>11
<1>4. IsObject(r) /\ r = Object([k \in Members(r) |-> r.members[k]])
  <2>1. m = [k \in DOMAIN m |-> m[k]]
    OBVIOUS
  <2> HIDE DEF m, r
  <2>2. r.members = m /\ IsObject(r)
    BY <1>1, KindFacts
  <2> QED
    BY <1>1, <2>1, <2>2 DEF Members
<1>5. ASSUME NEW k \in Members(r) PROVE r.members[k] # Missing
  <2>1. r.members = m /\ k \in DOMAIN m
    BY <1>1, <1>5, KindFacts DEF Members
  <2>2. k \in left \cup changed /\ r.members[k] = MergedMember(MergeFcn, b, l, merged, k)
    BY <2>1
  <2>3. /\ \A x \in DOMAIN l : l[x] \in Json
        /\ \A x \in DOMAIN b : b[x] \in Json
        /\ \A x \in DOMAIN d : d[x] \in Json
    BY <1>2, JsonFacts, KindFacts DEF Members
  <2>4. \A x \in left : x \in DOMAIN merged /\ merged[x] \in Json
    BY <2>3
  <2>5. DOMAIN merged = left /\ (k \notin DOMAIN l => k \in left)
    BY <2>2
  <2>6. k \in DOMAIN l /\ k \in DOMAIN b /\ b[k] = l[k] => k \in left
    BY <2>2
  <2> HIDE DEF r, b, l, d, left, merged, changed, m
  <2>7. \A x, y, z \in Json : MergeFcn[<<x, y, z>>] # Missing
    BY MergePresent DEF MergeLocalChanges
  <2>8. \A x \in Json : x # Missing
    BY JsonFacts
  <2>9. Object(NoMembers) \in Json
    BY JsonAssumption
  <2> QED
    BY <2>2, <2>3, <2>4, <2>5, <2>6, <2>7, <2>8, <2>9 DEF MergedMember
<1>6. WellFormed(r)
  BY <1>4, <1>5 DEF WellFormed
<1> QED
  BY <1>3, <1>6

\* The same, for one key.
LEMMA MergedPlaces ==
  ASSUME NEW b \in Json, NEW l \in Json, NEW n \in Json, l # b, MergesByKey(b, l), NEW k
  PROVE  /\ WellFormed(MergeLocalChanges(b, l, n)) /\ IsObject(MergeLocalChanges(b, l, n))
         /\ IsObject(n) => Member(MergeLocalChanges(b, l, n), k)
                            = MergedPlace(Member(b, k), Member(l, k), Member(n, k))
         /\ ~IsObject(n) => Member(MergeLocalChanges(b, l, n), k)
                             = MergedPlace(Member(b, k), Member(l, k), Member(b, k))
<1> DEFINE r == MergeLocalChanges(b, l, n)
           m == IF IsObject(n) THEN n ELSE b
<1>1. WellFormed(r) /\ \A x : Member(r, x) = MergedPlace(Member(b, x), Member(l, x), Member(m, x))
  BY MergeByKey
<1> HIDE DEF r
<1>2. WellFormed(r) /\ Member(r, k) = MergedPlace(Member(b, k), Member(l, k), Member(m, k))
  BY <1>1
<1>3. IsObject(n) => m = n
  OBVIOUS
<1>4. ~IsObject(n) => m = b
  OBVIOUS
<1> HIDE DEF m
<1> QED
  BY <1>2, <1>3, <1>4 DEF r, WellFormed

\* Objects with the same members are the same.
LEMMA SameMembers ==
  ASSUME NEW r, NEW s, WellFormed(r), WellFormed(s),
         \A k : Member(r, k) = Member(s, k)
  PROVE  r = s
<1>1. \A k : k \in Members(r) <=> k \in Members(s)
  BY DEF Member, WellFormed
<1>2. Members(r) = Members(s)
  BY <1>1
<1>3. \A k \in Members(r) : r.members[k] = s.members[k]
  BY <1>2 DEF Member, WellFormed
<1>4. [k \in Members(r) |-> r.members[k]] = [k \in Members(s) |-> s.members[k]]
  BY <1>2, <1>3
<1> QED
  BY <1>4 DEF WellFormed

\* A JSON object is made of its members.
LEMMA ObjectFacts ==
  ASSUME NEW j \in Json, IsObject(j)
  PROVE  WellFormed(j)
  BY JsonFacts DEF WellFormed

-----------------------------------------------------------------------------
\* Merged onto its own baseline a document stays as it is.
LEMMA MergeOntoBaseline ==
  \A b, l \in Json : MergeLocalChanges(b, l, b) = l
<1> DEFINE S == {n \in Nat : \A b, l \in Json : Depth[l] < n => MergeLocalChanges(b, l, b) = l}
<1>1. 0 \in S
  <2>1. \A l \in Json : ~(Depth[l] < 0)
    BY DepthNat
  <2> QED
    BY <2>1
<1>2. ASSUME NEW n \in Nat, n \in S PROVE n + 1 \in S
  <2>1. SUFFICES ASSUME NEW b \in Json, NEW l \in Json, Depth[l] < n + 1
                 PROVE  MergeLocalChanges(b, l, b) = l
    OBVIOUS
  <2>2. \A x, y \in Json : Depth[y] < n => MergeLocalChanges(x, y, x) = y
    BY <1>2
  <2>3. CASE l = b \/ ~MergesByKey(b, l)
    BY <2>3, MergeAtomic
  <2>4. CASE l # b /\ MergesByKey(b, l)
    <3> DEFINE r == MergeLocalChanges(b, l, b)
    <3>1. /\ WellFormed(r)
          /\ \A k : Member(r, k) = MergedPlace(Member(b, k), Member(l, k), Member(b, k))
      BY <2>4, MergedPlaces
    <3>2. ASSUME NEW k PROVE Member(r, k) = Member(l, k)
      <4> DEFINE x == Member(b, k)
                 y == Member(l, k)
      <4>1. x \in Values /\ y \in Values
        BY MemberFacts DEF Values
      <4>2. y # Missing => Depth[y] < n /\ y \in Json
        <5>1. y # Missing => y \in Json /\ Depth[y] < Depth[l] /\ Depth[y] \in Nat /\ Depth[l] \in Nat
          BY MemberFacts, JsonFacts DEF Values
        <5> QED
          BY <5>1, <2>1
      <4>3. Member(r, k) = MergedPlace(x, y, x)
        BY <3>1
      <4> HIDE DEF x, y
      <4>4. MergedPlace(x, y, x) = y
        BY <4>1, <4>2, <2>2, KindFacts DEF MergedPlace, Values
      <4> QED
        BY <4>3, <4>4 DEF y
    <3>3. IsObject(l)
      BY <2>4 DEF MergesByKey
    <3> HIDE DEF r
    <3>4. r = l
      BY <3>1, <3>2, <3>3, SameMembers, ObjectFacts
    <3> QED
      BY <3>4 DEF r
  <2> QED
    BY <2>3, <2>4
<1> HIDE DEF S
<1>3. Nat \subseteq S
  BY <1>1, <1>2, SetInduction
<1>4. ASSUME NEW b \in Json, NEW l \in Json PROVE MergeLocalChanges(b, l, b) = l
  <2>1. Depth[l] \in Nat /\ Depth[l] + 1 \in Nat /\ Depth[l] < Depth[l] + 1
    BY DepthNat
  <2> QED
    BY <1>3, <2>1 DEF S
<1> QED
  BY <1>4

-----------------------------------------------------------------------------
\* What a walk meets are values.
LEMMA WalkValues ==
  ASSUME NEW j \in Json, NEW p
  PROVE  \A i \in Levels : Walk(j, p)[i] \in Values
<1> DEFINE w == Walk(j, p)
           S == {i \in Nat : i <= MaxDepth => w[i] \in Values}
<1>1. w[0] = j /\ \A i \in 1 .. MaxDepth : w[i] = Member(w[i - 1], p[i])
  BY WalkUnfold
<1> HIDE DEF w
<1>2. 0 \in S
  BY <1>1 DEF Values
<1>3. ASSUME NEW n \in Nat, n \in S PROVE n + 1 \in S
  <2>1. SUFFICES ASSUME n + 1 <= MaxDepth PROVE w[n + 1] \in Values
    OBVIOUS
  <2>2. w[n] \in Values
    BY <1>3, <2>1, DepthNat
  <2>3. n + 1 \in 1 .. MaxDepth /\ (n + 1) - 1 = n
    BY <2>1, DepthNat
  <2>4. w[n + 1] = Member(w[n], p[n + 1])
    BY <1>1, <2>3
  <2> QED
    BY <2>2, <2>4, MemberFacts
<1> HIDE DEF S
<1>4. Nat \subseteq S
  BY <1>2, <1>3, SetInduction
<1> QED
  BY <1>4, DepthNat DEF S, Levels, w

\* The end of a walk over something that was changed locally.
LEMMA ChangedPlace ==
  ASSUME NEW b \in Values, NEW l \in Values, NEW d \in Values, l # b
  PROVE  IF MergesByKey(b, l) THEN IsObject(MergedPlace(b, l, d)) ELSE MergedPlace(b, l, d) = l
<1> DEFINE r == MergedPlace(b, l, d)
<1>1. CASE l = Missing
  BY <1>1, KindFacts DEF MergedPlace, MergesByKey
<1>2. CASE l # Missing /\ b = Missing
  <2>1. l \in Json /\ Object(NoMembers) \in Json
    BY <1>2, JsonAssumption DEF Values
  <2>2. MergesByKey(b, l) <=> IsObject(l)
    BY <1>2 DEF MergesByKey
  <2>3. CASE ~(IsObject(l) /\ IsObject(d))
    BY <1>2, <2>2, <2>3 DEF MergedPlace
  <2>4. CASE IsObject(l) /\ IsObject(d)
    <3>1. d \in Json
      BY <2>4, KindFacts DEF Values
    <3>2. r = MergeLocalChanges(Object(NoMembers), l, d)
      BY <1>2, <2>4 DEF MergedPlace
    <3>3. MergesByKey(Object(NoMembers), l)
      BY <2>4, KindFacts DEF MergesByKey
    <3>4. IsObject(MergeLocalChanges(Object(NoMembers), l, d))
      BY <2>1, <2>4, <3>1, <3>3, MergeAtomic, MergedPlaces
    <3> QED
      BY <2>2, <2>4, <3>2, <3>4
  <2> QED
    BY <2>3, <2>4
<1>3. CASE l # Missing /\ b # Missing
  <2> DEFINE n == IF d = Missing THEN b ELSE d
  <2>1. l \in Json /\ b \in Json /\ n \in Json
    BY <1>3 DEF Values
  <2>2. r = MergeLocalChanges(b, l, n)
    BY <1>3 DEF MergedPlace
  <2> HIDE DEF n, r
  <2>3. MergesByKey(b, l) => IsObject(MergeLocalChanges(b, l, n))
    BY <2>1, MergedPlaces
  <2>4. ~MergesByKey(b, l) => MergeLocalChanges(b, l, n) = l
    BY <2>1, MergeAtomic
  <2> QED
    BY <2>2, <2>3, <2>4 DEF r
<1> QED
  BY <1>1, <1>2, <1>3

\* One key further down from a place where both sides have a section.
LEMMA SectionStep ==
  ASSUME NEW b \in Values, NEW l \in Values, NEW d \in Values, NEW k,
         MergesByKey(b, l), IsObject(d)
  PROVE  Member(MergedPlace(b, l, d), k)
           = MergedPlace(Member(b, k), Member(l, k), Member(d, k))
<1>1. l \in Json /\ d \in Json /\ IsObject(l) /\ l # Missing /\ d # Missing
  BY KindFacts DEF Values, MergesByKey
<1>2. CASE l = b
  BY <1>2 DEF MergedPlace
<1>3. CASE l # b /\ b = Missing
  <2> DEFINE e == Object(NoMembers)
  <2>1. e \in Json /\ IsObject(e) /\ Members(e) = {} /\ MergesByKey(e, l)
    BY <1>1, JsonAssumption, KindFacts DEF Members, MergesByKey
  <2>2. Member(e, k) = Missing /\ Member(b, k) = Missing
    BY <1>3, <2>1, KindFacts DEF Member
  <2> HIDE DEF e
  <2>3. MergedPlace(b, l, d) = MergeLocalChanges(e, l, d)
    BY <1>1, <1>3 DEF MergedPlace, e
  <2>4. CASE l = e
    <3>1. MergeLocalChanges(e, l, d) = d
      BY <1>1, <2>1, <2>4, MergeAtomic
    <3> QED
      BY <2>2, <2>3, <2>4, <3>1 DEF MergedPlace
  <2>5. CASE l # e
    <3>1. Member(MergeLocalChanges(e, l, d), k) = MergedPlace(Member(e, k), Member(l, k), Member(d, k))
      BY <1>1, <2>1, <2>5, MergedPlaces
    <3> QED
      BY <2>2, <2>3, <3>1
  <2> QED
    BY <2>4, <2>5
<1>4. CASE l # b /\ b # Missing
  <2>1. b \in Json
    BY <1>4 DEF Values
  <2>2. MergedPlace(b, l, d) = MergeLocalChanges(b, l, d)
    BY <1>1, <1>4 DEF MergedPlace
  <2>3. Member(MergeLocalChanges(b, l, d), k) = MergedPlace(Member(b, k), Member(l, k), Member(d, k))
    BY <1>1, <1>4, <2>1, MergedPlaces
  <2> QED
    BY <2>2, <2>3
<1> QED
  BY <1>2, <1>3, <1>4

\* One key further down from a place that was changed locally.
LEMMA ChangedStep ==
  ASSUME NEW b \in Values, NEW l \in Values, NEW d \in Values, NEW k, l # b
  PROVE  \/ Member(l, k) = Member(b, k)
         \/ \E x \in Values : Member(MergedPlace(b, l, d), k)
                                = MergedPlace(Member(b, k), Member(l, k), x)
<1>1. Missing \in Values /\ Member(l, k) \in Values /\ Member(b, k) \in Values /\ Member(d, k) \in Values
  BY MemberFacts DEF Values
<1>2. CASE MergesByKey(b, l) /\ IsObject(d)
  BY <1>1, <1>2, SectionStep
<1>3. CASE ~MergesByKey(b, l)
  <2>1. MergedPlace(b, l, d) = l
    BY <1>3, ChangedPlace
  <2>2. ~IsObject(l) \/ ~IsObject(b)
    BY <1>3 DEF MergesByKey
  <2>3. Member(l, k) = Missing \/ Member(b, k) = Missing
    BY <2>2, MemberFacts
  <2>4. Member(l, k) # Member(b, k) =>
          Member(l, k) = MergedPlace(Member(b, k), Member(l, k), Missing)
    BY <2>3, KindFacts DEF MergedPlace
  <2> QED
    BY <1>1, <2>1, <2>4
<1>4. CASE MergesByKey(b, l) /\ ~IsObject(d) /\ b = Missing
  <2>1. MergedPlace(b, l, d) = l
    BY <1>4, KindFacts DEF MergedPlace, MergesByKey
  <2>2. Member(b, k) = Missing
    BY <1>4, MemberFacts, KindFacts
  <2>3. Member(l, k) # Member(b, k) =>
          Member(l, k) = MergedPlace(Member(b, k), Member(l, k), Missing)
    BY <2>2, KindFacts DEF MergedPlace
  <2> QED
    BY <1>1, <2>1, <2>3
<1>5. CASE MergesByKey(b, l) /\ ~IsObject(d) /\ b # Missing
  <2> DEFINE n == IF d = Missing THEN b ELSE d
  <2>1. b \in Json /\ n \in Json /\ l \in Json /\ l # Missing
    BY <1>5, KindFacts DEF Values, MergesByKey
  <2>2. MergedPlace(b, l, d) = MergeLocalChanges(b, l, n)
    BY <1>5, <2>1 DEF MergedPlace
  <2> HIDE DEF n
  <2>3. Member(n, k) \in Values
    BY <2>1, MemberFacts DEF Values
  <2>4. \E x \in Values : Member(MergeLocalChanges(b, l, n), k) = MergedPlace(Member(b, k), Member(l, k), x)
    BY <1>1, <1>5, <2>1, <2>3, MergedPlaces
  <2> QED
    BY <2>2, <2>4
<1> QED
  BY <1>2, <1>3, <1>4, <1>5

\* The first key of a walk, and the walk one level further down.
LEMMA WalkStep ==
  ASSUME NEW j, NEW p, NEW i \in Nat, i + 1 <= MaxDepth
  PROVE  Walk(j, p)[i + 1] = Member(Walk(j, p)[i], p[i + 1])
<1>1. i + 1 \in 1 .. MaxDepth /\ (i + 1) - 1 = i
  BY DepthNat
<1> QED
  BY <1>1, WalkUnfold

\* A merge of whole documents is what MergedPlace says of them.
LEMMA MergeIsPlace ==
  ASSUME NEW b \in Json, NEW l \in Json, NEW n \in Json
  PROVE  MergeLocalChanges(b, l, n) = MergedPlace(b, l, n)
<1>1. b # Missing /\ l # Missing /\ n # Missing
  BY JsonFacts
<1>2. l = b => MergeLocalChanges(b, l, n) = n
  BY MergeAtomic
<1> QED
  BY <1>1, <1>2 DEF MergedPlace

\* Whatever was changed, added or deleted locally, at any depth of any
\* document, is in the merged one (config.cpp mergeLocalChanges "An actual
\* same-key conflict is resolved by the process committing last").  On the
\* way down the merged value is always MergedPlace of what baseline and
\* local have there and of some newer value.
THEOREM LocalChangesKept == KeepsLocalChanges
<1>1. SUFFICES ASSUME NEW base \in Json, NEW local \in Json, NEW newest \in Json,
                      NEW p \in Paths, NEW i \in Levels,
                      Walk(local, p)[i] # Walk(base, p)[i]
               PROVE  LET b == Walk(base, p)[i]
                          l == Walk(local, p)[i]
                          r == Walk(MergeLocalChanges(base, local, newest), p)[i]
                      IN IF MergesByKey(b, l) THEN IsObject(r) ELSE r = l
  BY DEF KeepsLocalChanges
<1> DEFINE b == Walk(base, p)
           l == Walk(local, p)
           r == Walk(MergeLocalChanges(base, local, newest), p)
           S == {n \in Nat : n <= MaxDepth =>
                   \/ l[n] = b[n]
                   \/ \E d \in Values : r[n] = MergedPlace(b[n], l[n], d)}
<1>2. \A n \in Levels : b[n] \in Values /\ l[n] \in Values
  BY WalkValues
<1>3. ASSUME NEW n \in Nat, n + 1 <= MaxDepth
      PROVE  /\ b[n + 1] = Member(b[n], p[n + 1])
             /\ l[n + 1] = Member(l[n], p[n + 1])
             /\ r[n + 1] = Member(r[n], p[n + 1])
  BY <1>3, WalkStep
<1>4. b[0] = base /\ l[0] = local /\ r[0] = MergeLocalChanges(base, local, newest)
  BY WalkUnfold
<1> HIDE DEF b, l, r
<1>5. 0 \in S
  <2>1. r[0] = MergedPlace(b[0], l[0], newest) /\ newest \in Values
    BY <1>4, MergeIsPlace DEF Values
  <2> QED
    BY <2>1
<1>6. ASSUME NEW n \in Nat, n \in S PROVE n + 1 \in S
  <2>1. SUFFICES ASSUME n + 1 <= MaxDepth
                 PROVE  \/ l[n + 1] = b[n + 1]
                        \/ \E d \in Values : r[n + 1] = MergedPlace(b[n + 1], l[n + 1], d)
    OBVIOUS
  <2>2. n \in Levels /\ n <= MaxDepth
    BY <2>1, DepthNat DEF Levels
  <2>3. CASE l[n] = b[n]
    BY <1>3, <2>1, <2>3
  <2>4. CASE l[n] # b[n]
    <3>1. PICK d \in Values : r[n] = MergedPlace(b[n], l[n], d)
      BY <1>6, <2>2, <2>4
    <3>2. \/ Member(l[n], p[n + 1]) = Member(b[n], p[n + 1])
          \/ \E x \in Values : Member(MergedPlace(b[n], l[n], d), p[n + 1])
                 = MergedPlace(Member(b[n], p[n + 1]), Member(l[n], p[n + 1]), x)
      BY <1>2, <2>2, <2>4, ChangedStep
    <3> QED
      BY <1>3, <2>1, <3>1, <3>2
  <2> QED
    BY <2>3, <2>4
<1> HIDE DEF S
<1>7. Nat \subseteq S
  BY <1>5, <1>6, SetInduction
<1>8. i \in Nat /\ i <= MaxDepth /\ i \in S
  BY <1>7, DepthNat DEF Levels
<1>9. PICK d \in Values : r[i] = MergedPlace(b[i], l[i], d)
  BY <1>1, <1>8 DEF S, b, l
<1>10. IF MergesByKey(b[i], l[i]) THEN IsObject(MergedPlace(b[i], l[i], d))
       ELSE MergedPlace(b[i], l[i], d) = l[i]
  <2>1. b[i] \in Values /\ l[i] \in Values /\ l[i] # b[i]
    BY <1>1, <1>2 DEF b, l
  <2> QED
    BY <2>1, ChangedPlace
<1> QED
  BY <1>9, <1>10 DEF b, l, r

\* What was not changed locally is as the newest document has it, at any
\* depth of any document (config.cpp mergeLocalChanges "Apply precisely the
\* local changes made since baseline").
THEOREM OthersAreKept == KeepsOthers
<1>1. SUFFICES ASSUME NEW base \in Json, NEW local \in Json, NEW newest \in Json,
                      NEW p \in Paths, NEW i \in Levels,
                      Walk(local, p)[i] = Walk(base, p)[i],
                      \A j \in 0 .. i - 1 :
                        /\ MergesByKey(Walk(base, p)[j], Walk(local, p)[j])
                        /\ IsObject(Walk(newest, p)[j])
               PROVE  Walk(MergeLocalChanges(base, local, newest), p)[i] = Walk(newest, p)[i]
  BY DEF KeepsOthers
<1> DEFINE b == Walk(base, p)
           l == Walk(local, p)
           d == Walk(newest, p)
           r == Walk(MergeLocalChanges(base, local, newest), p)
           S == {n \in Nat : n <= i => r[n] = MergedPlace(b[n], l[n], d[n])}
<1>2. \A n \in Levels : b[n] \in Values /\ l[n] \in Values /\ d[n] \in Values
  BY WalkValues
<1>3. ASSUME NEW n \in Nat, n + 1 <= MaxDepth
      PROVE  /\ b[n + 1] = Member(b[n], p[n + 1])
             /\ l[n + 1] = Member(l[n], p[n + 1])
             /\ d[n + 1] = Member(d[n], p[n + 1])
             /\ r[n + 1] = Member(r[n], p[n + 1])
  BY <1>3, WalkStep
<1>4. /\ b[0] = base /\ l[0] = local /\ d[0] = newest
      /\ r[0] = MergeLocalChanges(base, local, newest)
  BY WalkUnfold
<1>5. l[i] = b[i] /\ \A j \in 0 .. i - 1 : MergesByKey(b[j], l[j]) /\ IsObject(d[j])
  BY <1>1
<1>6. i \in Nat /\ i <= MaxDepth /\ MaxDepth \in Nat
  BY DepthNat DEF Levels
<1> HIDE DEF b, l, d, r
<1>7. 0 \in S
  BY <1>4, MergeIsPlace
<1>8. ASSUME NEW n \in Nat, n \in S PROVE n + 1 \in S
  <2>1. SUFFICES ASSUME n + 1 <= i
                 PROVE  r[n + 1] = MergedPlace(b[n + 1], l[n + 1], d[n + 1])
    OBVIOUS
  <2>2. n \in Levels /\ n <= i /\ n \in 0 .. i - 1 /\ n + 1 <= MaxDepth
    BY <1>6, <2>1 DEF Levels
  <2>3. r[n] = MergedPlace(b[n], l[n], d[n])
    BY <1>8, <2>2
  <2>4. Member(MergedPlace(b[n], l[n], d[n]), p[n + 1])
          = MergedPlace(Member(b[n], p[n + 1]), Member(l[n], p[n + 1]), Member(d[n], p[n + 1]))
    BY <1>2, <1>5, <2>2, SectionStep
  <2> QED
    BY <1>3, <2>2, <2>3, <2>4
<1> HIDE DEF S
<1>9. Nat \subseteq S
  BY <1>7, <1>8, SetInduction
<1>10. r[i] = MergedPlace(b[i], l[i], d[i])
  BY <1>6, <1>9 DEF S
<1>11. r[i] = d[i]
  BY <1>5, <1>10 DEF MergedPlace
<1> QED
  BY <1>11 DEF r, d

-----------------------------------------------------------------------------
\* The path that begins with k and goes on like q.
Under(k, q) == [x \in 1 .. MaxDepth |-> IF x = 1 THEN k ELSE q[x - 1]]

\* A walk whose first key is k goes on like a walk from what is under k.
LEMMA WalkFrom ==
  ASSUME NEW j, NEW k \in Names, NEW q \in Paths
  PROVE  /\ Under(k, q) \in Paths
         /\ \A i \in Nat : i + 1 <= MaxDepth =>
              Walk(j, Under(k, q))[i + 1] = Walk(Member(j, k), q)[i]
<1> DEFINE p == Under(k, q)
           w == Walk(j, p)
           v == Walk(Member(j, k), q)
           S == {i \in Nat : i + 1 <= MaxDepth => w[i + 1] = v[i]}
<1>1. \A i \in 1 .. MaxDepth : i # 1 => i - 1 \in 1 .. MaxDepth
  BY DepthNat
<1>2. p \in Paths
  BY <1>1 DEF Paths, Under
<1>3. \A i \in 1 .. MaxDepth : p[i] = IF i = 1 THEN k ELSE q[i - 1]
  BY DEF Under
<1> HIDE DEF p
<1>4. w[0] = j /\ v[0] = Member(j, k)
  BY WalkUnfold
<1>5. ASSUME NEW n \in Nat, n + 1 <= MaxDepth
      PROVE  w[n + 1] = Member(w[n], p[n + 1]) /\ v[n + 1] = Member(v[n], q[n + 1])
  BY <1>5, WalkStep
<1> HIDE DEF w, v
<1>6. 0 \in S
  <2>1. SUFFICES ASSUME 1 <= MaxDepth PROVE w[1] = v[0]
    OBVIOUS
  <2>2. p[1] = k
    BY <1>3, <2>1, DepthNat
  <2>3. w[0 + 1] = Member(w[0], p[0 + 1])
    BY <1>5, <2>1
  <2> QED
    BY <1>4, <2>2, <2>3
<1>7. ASSUME NEW n \in Nat, n \in S PROVE n + 1 \in S
  <2>1. SUFFICES ASSUME (n + 1) + 1 <= MaxDepth PROVE w[(n + 1) + 1] = v[n + 1]
    OBVIOUS
  <2>2. n + 1 <= MaxDepth /\ n + 1 \in Nat /\ (n + 1) + 1 \in 1 .. MaxDepth
    BY <2>1, DepthNat
  <2>3. p[(n + 1) + 1] = q[n + 1]
    BY <1>3, <2>2
  <2>4. w[n + 1] = v[n]
    BY <1>7, <2>2
  <2>5. w[(n + 1) + 1] = Member(w[n + 1], p[(n + 1) + 1])
    BY <1>5, <2>1, <2>2
  <2>6. v[n + 1] = Member(v[n], q[n + 1])
    BY <1>5, <2>2
  <2> QED
    BY <2>3, <2>4, <2>5, <2>6
<1> HIDE DEF S
<1>8. Nat \subseteq S
  BY <1>6, <1>7, SetInduction
<1>9. \A i \in Nat : i + 1 <= MaxDepth => w[i + 1] = v[i]
  BY <1>8 DEF S
<1> QED
  BY <1>2, <1>9 DEF p, w, v

\* In nothing there is nothing, and in an empty object nothing either.
LEMMA WalkOfNothing ==
  ASSUME NEW j, NEW p, \A k : Member(j, k) = Missing
  PROVE  \A i \in Nat : i + 1 <= MaxDepth => Walk(j, p)[i + 1] = Missing
<1> DEFINE w == Walk(j, p)
           S == {i \in Nat : i + 1 <= MaxDepth => w[i + 1] = Missing}
<1>1. w[0] = j
  BY WalkUnfold
<1>2. ASSUME NEW n \in Nat, n + 1 <= MaxDepth PROVE w[n + 1] = Member(w[n], p[n + 1])
  BY <1>2, WalkStep
<1>3. \A k : Member(Missing, k) = Missing
  BY KindFacts DEF Member
<1> HIDE DEF w
<1>4. 0 \in S
  <2>1. 1 <= MaxDepth => w[0 + 1] = Member(w[0], p[0 + 1])
    BY <1>2
  <2> QED
    BY <1>1, <2>1
<1>5. ASSUME NEW n \in Nat, n \in S PROVE n + 1 \in S
  <2>1. SUFFICES ASSUME (n + 1) + 1 <= MaxDepth PROVE w[(n + 1) + 1] = Missing
    OBVIOUS
  <2>2. n + 1 <= MaxDepth /\ n + 1 \in Nat
    BY <2>1, DepthNat
  <2>3. w[n + 1] = Missing
    BY <1>5, <2>2
  <2>4. w[(n + 1) + 1] = Member(w[n + 1], p[(n + 1) + 1])
    BY <1>2, <2>1, <2>2
  <2> QED
    BY <1>3, <2>3, <2>4
<1> HIDE DEF S
<1>6. Nat \subseteq S
  BY <1>4, <1>5, SetInduction
<1> QED
  BY <1>6 DEF S, w

IndependentAt(b, l, d) == l = b \/ d = b \/ (MergesByKey(b, l) /\ IsObject(d))

\* Independent in the first n levels.
IndependentBelow(base, local, newest, n) ==
  \A p \in Paths, i \in Levels : i < n =>
    IndependentAt(Walk(base, p)[i], Walk(local, p)[i], Walk(newest, p)[i])

\* Values nested less than n deep that are independent commute.
CommuteBelow(n) ==
  \A b, l, d \in Json :
    Depth[l] < n /\ Depth[d] < n /\ n <= MaxDepth + 1 /\ IndependentBelow(b, l, d, n)
      => MergeLocalChanges(b, l, d) = MergeLocalChanges(b, d, l)

\* Independent documents are independent at the top and under each key.
LEMMA IndependentRoot ==
  ASSUME NEW b, NEW l, NEW d, NEW n \in Nat, 0 < n, IndependentBelow(b, l, d, n)
  PROVE  IndependentAt(b, l, d)
<1>1. PICK k \in Names : TRUE
  BY JsonAssumption
<1>2. [i \in 1 .. MaxDepth |-> k] \in Paths
  BY DEF Paths
<1>3. PICK p \in Paths : TRUE
  BY <1>2
<1>4. 0 \in Levels
  BY DepthNat DEF Levels
<1>5. IndependentAt(Walk(b, p)[0], Walk(l, p)[0], Walk(d, p)[0])
  BY <1>4 DEF IndependentBelow
<1> QED
  BY <1>5, WalkUnfold

\* What is under the same key of independent documents is independent.
LEMMA IndependentMembers ==
  ASSUME NEW b, NEW l, NEW d, NEW n \in Nat, n <= MaxDepth, NEW k \in Names,
         IndependentBelow(b, l, d, n + 1)
  PROVE  IndependentBelow(Member(b, k), Member(l, k), Member(d, k), n)
<1>1. SUFFICES ASSUME NEW q \in Paths, NEW i \in Levels, i < n
               PROVE  IndependentAt(Walk(Member(b, k), q)[i], Walk(Member(l, k), q)[i],
                                    Walk(Member(d, k), q)[i])
  BY DEF IndependentBelow
<1> DEFINE p == Under(k, q)
<1>2. i \in Nat /\ i + 1 <= MaxDepth /\ i + 1 \in Levels /\ i + 1 < n + 1
  BY <1>1, DepthNat DEF Levels
<1>3. p \in Paths /\ \A j : Walk(j, p)[i + 1] = Walk(Member(j, k), q)[i]
  BY <1>2, WalkFrom
<1> HIDE DEF p
<1>4. IndependentAt(Walk(b, p)[i + 1], Walk(l, p)[i + 1], Walk(d, p)[i + 1])
  BY <1>2, <1>3 DEF IndependentBelow
<1> QED
  BY <1>3, <1>4

\* An empty baseline is as good as none.
LEMMA IndependentOfEmpty ==
  ASSUME NEW l, NEW d, IsObject(l), IsObject(d), NEW n \in Nat,
         IndependentBelow(Missing, l, d, n)
  PROVE  IndependentBelow(Object(NoMembers), l, d, n)
<1> DEFINE e == Object(NoMembers)
<1>1. SUFFICES ASSUME NEW p \in Paths, NEW i \in Levels, i < n
               PROVE  IndependentAt(Walk(e, p)[i], Walk(l, p)[i], Walk(d, p)[i])
  BY DEF IndependentBelow
<1>2. \A k : Member(e, k) = Missing /\ Member(Missing, k) = Missing
  BY KindFacts DEF Member, Members
<1>3. IsObject(e)
  BY KindFacts
<1> HIDE DEF e
<1>4. CASE i = 0
  <2>1. Walk(e, p)[i] = e /\ Walk(l, p)[i] = l /\ Walk(d, p)[i] = d
    BY <1>4, WalkUnfold
  <2> QED
    BY <1>3, <2>1 DEF IndependentAt, MergesByKey
<1>5. CASE i # 0
  <2>1. i - 1 \in Nat /\ (i - 1) + 1 <= MaxDepth /\ (i - 1) + 1 = i
    BY <1>5, DepthNat DEF Levels
  <2>2. Walk(e, p)[(i - 1) + 1] = Missing /\ Walk(Missing, p)[(i - 1) + 1] = Missing
    BY <1>2, <2>1, WalkOfNothing
  <2>3. IndependentAt(Walk(Missing, p)[i], Walk(l, p)[i], Walk(d, p)[i])
    BY <1>1 DEF IndependentBelow
  <2> QED
    BY <2>1, <2>2, <2>3
<1> QED
  BY <1>4, <1>5

\* The places in which both sides put something commute, if what is nested
\* less deep does.
LEMMA PlaceCommutes ==
  ASSUME NEW n \in Nat, n <= MaxDepth, CommuteBelow(n),
         NEW b \in Values, NEW l \in Values, NEW d \in Values,
         l # Missing => Depth[l] < n, d # Missing => Depth[d] < n,
         IndependentBelow(b, l, d, n)
  PROVE  MergedPlace(b, l, d) = MergedPlace(b, d, l)
<1>1. CASE l = d
  BY <1>1
<1>2. CASE l # d /\ l = b
  <2>1. d # Missing /\ b # Missing => MergeLocalChanges(b, d, b) = d
    BY MergeOntoBaseline DEF Values
  <2> QED
    BY <1>2, <2>1, KindFacts DEF MergedPlace
<1>3. CASE l # d /\ d = b
  <2>1. l # Missing /\ b # Missing => MergeLocalChanges(b, l, b) = l
    BY MergeOntoBaseline DEF Values
  <2> QED
    BY <1>3, <2>1, KindFacts DEF MergedPlace
<1>4. CASE l # d /\ l # b /\ d # b
  <2>1. 0 < n
    <3>1. l # Missing \/ d # Missing
      BY <1>4
    <3>2. /\ l # Missing => Depth[l] \in Nat
          /\ d # Missing => Depth[d] \in Nat
      BY DepthNat DEF Values
    <3> QED
      BY <3>1, <3>2
  <2>2. MergesByKey(b, l) /\ IsObject(l) /\ IsObject(d)
    BY <1>4, <2>1, IndependentRoot DEF IndependentAt, MergesByKey
  <2>3. l # Missing /\ d # Missing /\ l \in Json /\ d \in Json /\ n <= MaxDepth + 1
    BY <2>2, KindFacts, DepthNat DEF Values
  <2>4. CASE b = Missing
    <3> DEFINE e == Object(NoMembers)
    <3>1. IndependentBelow(e, l, d, n) /\ e \in Json
      BY <2>2, <2>4, IndependentOfEmpty, JsonAssumption
    <3> HIDE DEF e
    <3>2. MergeLocalChanges(e, l, d) = MergeLocalChanges(e, d, l)
      BY <2>3, <3>1 DEF CommuteBelow
    <3> QED
      BY <1>4, <2>2, <2>3, <2>4, <3>2 DEF MergedPlace, e
  <2>5. CASE b # Missing
    <3>1. b \in Json
      BY <2>5 DEF Values
    <3>2. MergeLocalChanges(b, l, d) = MergeLocalChanges(b, d, l)
      BY <2>3, <3>1 DEF CommuteBelow
    <3> QED
      BY <1>4, <2>3, <2>5, <3>2 DEF MergedPlace
  <2> QED
    BY <2>4, <2>5
<1> QED
  BY <1>1, <1>2, <1>3, <1>4

\* One level more.
LEMMA CommuteStep ==
  ASSUME NEW n \in Nat, CommuteBelow(n)
  PROVE  CommuteBelow(n + 1)
<1>1. SUFFICES ASSUME NEW b \in Json, NEW l \in Json, NEW d \in Json,
                      Depth[l] < n + 1, Depth[d] < n + 1, n + 1 <= MaxDepth + 1,
                      IndependentBelow(b, l, d, n + 1)
               PROVE  MergeLocalChanges(b, l, d) = MergeLocalChanges(b, d, l)
  BY DEF CommuteBelow
<1>2. n <= MaxDepth /\ n + 1 \in Nat /\ 0 < n + 1
  BY <1>1, DepthNat
<1>3. IndependentAt(b, l, d)
  BY <1>1, <1>2, IndependentRoot
<1>4. CASE l = b
  BY <1>4, MergeAtomic, MergeOntoBaseline
<1>5. CASE d = b
  BY <1>5, MergeAtomic, MergeOntoBaseline
<1>6. CASE l # b /\ d # b
  <2>1. MergesByKey(b, l) /\ MergesByKey(b, d) /\ IsObject(l) /\ IsObject(d)
    BY <1>3, <1>6 DEF IndependentAt, MergesByKey
  <2> DEFINE r == MergeLocalChanges(b, l, d)
             s == MergeLocalChanges(b, d, l)
  <2>2. /\ WellFormed(r) /\ WellFormed(s)
        /\ \A k : Member(r, k) = MergedPlace(Member(b, k), Member(l, k), Member(d, k))
        /\ \A k : Member(s, k) = MergedPlace(Member(b, k), Member(d, k), Member(l, k))
    BY <1>6, <2>1, MergedPlaces
  <2>3. ASSUME NEW k
        PROVE  MergedPlace(Member(b, k), Member(l, k), Member(d, k))
                 = MergedPlace(Member(b, k), Member(d, k), Member(l, k))
    <3>1. CASE Member(l, k) = Member(d, k)
      BY <3>1
    <3>2. CASE Member(l, k) # Member(d, k)
      <4> DEFINE x == Member(b, k)
                 y == Member(l, k)
                 z == Member(d, k)
      <4>1. x \in Values /\ y \in Values /\ z \in Values
        BY MemberFacts DEF Values
      <4>2. y # Missing => k \in Members(l) /\ y \in Json /\ Depth[y] < Depth[l]
        BY MemberFacts DEF Values
      <4>3. z # Missing => k \in Members(d) /\ z \in Json /\ Depth[z] < Depth[d]
        BY MemberFacts DEF Values
      <4>4. k \in Names
        <5>1. Members(l) \subseteq Names /\ Members(d) \subseteq Names
          BY <2>1, JsonFacts
        <5>2. y # Missing \/ z # Missing
          BY <3>2
        <5> QED
          BY <4>2, <4>3, <5>1, <5>2
      <4>5. IndependentBelow(x, y, z, n)
        BY <1>1, <1>2, <4>4, IndependentMembers
      <4> HIDE DEF x, y, z
      <4>6. y # Missing => Depth[y] < n
        <5>1. y # Missing => Depth[y] \in Nat /\ Depth[l] \in Nat
          BY <4>2, DepthNat
        <5> QED
          BY <1>1, <4>2, <5>1
      <4>7. z # Missing => Depth[z] < n
        <5>1. z # Missing => Depth[z] \in Nat /\ Depth[d] \in Nat
          BY <4>3, DepthNat
        <5> QED
          BY <1>1, <4>3, <5>1
      <4>8. MergedPlace(x, y, z) = MergedPlace(x, z, y)
        BY <1>2, <4>1, <4>5, <4>6, <4>7, PlaceCommutes
      <4> QED
        BY <4>8 DEF x, y, z
    <3> QED
      BY <3>1, <3>2
  <2> HIDE DEF r, s
  <2>4. r = s
    BY <2>2, <2>3, SameMembers
  <2> QED
    BY <2>4 DEF r, s
<1> QED
  BY <1>4, <1>5, <1>6

\* Independent edits of any documents give the same file whichever process
\* commits first (config.cpp mergeLocalChanges, doc/design/config-access.md
\* "independent edits survive concurrent instance shutdown").
THEOREM MergeCommutes == Commutes
<1> DEFINE S == {n \in Nat : CommuteBelow(n)}
<1>1. 0 \in S
  <2>1. \A l \in Json : ~(Depth[l] < 0)
    BY DepthNat
  <2> QED
    BY <2>1 DEF CommuteBelow
<1>2. ASSUME NEW n \in Nat, n \in S PROVE n + 1 \in S
  BY <1>2, CommuteStep
<1> HIDE DEF S
<1>3. Nat \subseteq S
  BY <1>1, <1>2, SetInduction
<1>4. CommuteBelow(MaxDepth + 1)
  BY <1>3, DepthNat DEF S
<1>5. ASSUME NEW base \in Json, NEW local \in Json, NEW newest \in Json,
             Independent(base, local, newest)
      PROVE  MergeLocalChanges(base, local, newest) = MergeLocalChanges(base, newest, local)
  <2>1. IndependentBelow(base, local, newest, MaxDepth + 1)
    BY <1>5 DEF Independent, IndependentBelow, IndependentAt
  <2>2. /\ Depth[local] < MaxDepth + 1 /\ Depth[newest] < MaxDepth + 1
        /\ MaxDepth + 1 <= MaxDepth + 1
    BY DepthNat
  <2> QED
    BY <1>4, <2>1, <2>2 DEF CommuteBelow
<1> QED
  BY <1>5 DEF Commutes

-----------------------------------------------------------------------------
(***************************************************************************)
(* The merges that the saves commit with.                                  *)
(***************************************************************************)

\* What a flat document has under a key.
LEMMA FlatMember ==
  ASSUME NEW doc \in Docs, NEW k
  PROVE  /\ AsObject(doc) \in Json /\ IsObject(AsObject(doc)) /\ WellFormed(AsObject(doc))
         /\ k \in Keys /\ doc[k] # Absent =>
              /\ Member(AsObject(doc), k) = Scalar(doc[k])
              /\ Scalar(doc[k]) \in Json
         /\ ~(k \in Keys /\ doc[k] # Absent) => Member(AsObject(doc), k) = Missing
<1> DEFINE D == {key \in Keys : doc[key] # Absent}
           m == [x \in D |-> Scalar(doc[x])]
<1>1. AsObject(doc) = Object(m) /\ AsObject(doc) \in Json
  BY FlatAssumption DEF AsObject
<1>2. IsObject(AsObject(doc)) /\ AsObject(doc).members = m
  BY <1>1, KindFacts
<1>3. Members(AsObject(doc)) = D
  BY <1>2 DEF Members
<1>4. k \in D => AsObject(doc).members[k] = Scalar(doc[k])
  BY <1>2
<1>5. k \in D => AsObject(doc).members[k] \in Json
  BY <1>1, <1>2, <1>3, JsonFacts
<1>6. WellFormed(AsObject(doc))
  BY <1>1, <1>2, ObjectFacts
<1> QED
  BY <1>1, <1>2, <1>3, <1>4, <1>5, <1>6 DEF Member

\* Scalars are not objects, and are told apart by their values.
LEMMA ScalarFacts ==
  /\ \A v : ~IsObject(Scalar(v)) /\ Scalar(v) # Missing
  /\ \A v, w : Scalar(v) = Scalar(w) => v = w
<1>1. \A v : Scalar(v).type = "scalar" /\ Scalar(v).value = v
  BY DEF Scalar
<1>2. Missing.type = "missing"
  BY DEF Missing
<1> QED
  BY <1>1, <1>2 DEF IsObject

\* The flat merge puts into every place what the nested one does.
LEMMA FlatPlace ==
  ASSUME NEW b \in Docs, NEW l \in Docs, NEW n \in Docs, NEW k
  PROVE  Member(AsObject(MergeFlat(b, l, n)), k)
           = MergedPlace(Member(AsObject(b), k), Member(AsObject(l), k), Member(AsObject(n), k))
<1> DEFINE m == MergeFlat(b, l, n)
           B == Member(AsObject(b), k)
           L == Member(AsObject(l), k)
           N == Member(AsObject(n), k)
           R == Member(AsObject(m), k)
<1>1. m \in Docs /\ (k \in Keys => m[k] = IF l[k] = b[k] THEN n[k] ELSE l[k])
  BY MergeIsDoc
<1> HIDE DEF m
<1>2. k \in Keys =>
        /\ B = IF b[k] # Absent THEN Scalar(b[k]) ELSE Missing
        /\ L = IF l[k] # Absent THEN Scalar(l[k]) ELSE Missing
        /\ N = IF n[k] # Absent THEN Scalar(n[k]) ELSE Missing
        /\ R = IF m[k] # Absent THEN Scalar(m[k]) ELSE Missing
  BY <1>1, FlatMember
<1>3. k \notin Keys => B = Missing /\ L = Missing /\ N = Missing /\ R = Missing
  BY <1>1, FlatMember
<1>4. B \in Values /\ L \in Values /\ N \in Values
  BY FlatMember, MemberFacts DEF Values
<1> HIDE DEF B, L, N, R
<1>5. CASE L = B
  <2>1. k \in Keys => l[k] = b[k]
    BY <1>2, <1>5, ScalarFacts
  <2>2. R = N
    BY <1>1, <1>2, <1>3, <2>1
  <2> QED
    BY <1>5, <2>2 DEF MergedPlace, B, L, N, R, m
<1>6. CASE L # B
  <2>1. k \in Keys /\ l[k] # b[k] /\ m[k] = l[k] /\ R = L
    BY <1>1, <1>2, <1>3, <1>6
  <2>2. ~IsObject(L)
    BY <1>2, <2>1, ScalarFacts, KindFacts
  <2>3. ~MergesByKey(B, L)
    BY <2>2 DEF MergesByKey
  <2>4. MergedPlace(B, L, N) = L
    BY <1>4, <1>6, <2>3, ChangedPlace
  <2> QED
    BY <2>1, <2>4 DEF B, L, N, R, m
<1> QED
  BY <1>5, <1>6

\* The merge of flat documents is mergeLocalChanges() on them.
LEMMA FlatMerge ==
  ASSUME NEW b \in Docs, NEW l \in Docs, NEW n \in Docs
  PROVE  AsObject(MergeFlat(b, l, n))
           = MergeLocalChanges(AsObject(b), AsObject(l), AsObject(n))
<1> DEFINE m == MergeFlat(b, l, n)
           B == AsObject(b)
           L == AsObject(l)
           N == AsObject(n)
           R == AsObject(m)
<1>1. m \in Docs
  BY MergeIsDoc
<1>2. /\ B \in Json /\ L \in Json /\ N \in Json
      /\ IsObject(B) /\ IsObject(L) /\ IsObject(N) /\ WellFormed(N) /\ WellFormed(R)
  BY <1>1, FlatMember
<1>3. \A k : Member(R, k) = MergedPlace(Member(B, k), Member(L, k), Member(N, k))
  BY FlatPlace
<1> HIDE DEF m, B, L, N, R
<1>4. CASE L = B
  <2>1. \A k : Member(R, k) = Member(N, k)
    BY <1>3, <1>4 DEF MergedPlace
  <2>2. R = N
    BY <1>2, <2>1, SameMembers
  <2>3. MergeLocalChanges(B, L, N) = N
    BY <1>2, <1>4, MergeAtomic
  <2> QED
    BY <2>2, <2>3 DEF m, B, L, N, R
<1>5. CASE L # B
  <2>1. MergesByKey(B, L)
    BY <1>2 DEF MergesByKey
  <2> DEFINE r == MergeLocalChanges(B, L, N)
  <2>2. /\ WellFormed(r)
        /\ \A k : Member(r, k) = MergedPlace(Member(B, k), Member(L, k), Member(N, k))
    BY <1>2, <1>5, <2>1, MergedPlaces
  <2> HIDE DEF r
  <2>3. R = r
    BY <1>2, <1>3, <2>2, SameMembers
  <2> QED
    BY <2>3 DEF r, m, B, L, N, R
<1> QED
  BY <1>4, <1>5

\* What every save of every process commits is what mergeLocalChanges()
\* makes of its three documents (config.cpp persistSnapshot,
\* mergeLocalChanges).
THEOREM SavesMergeAsTheCode == Spec => []FlatIsNested
<1>1. ASSUME TypeOK PROVE FlatIsNested
  <2>1. SUFFICES ASSUME NEW p \in Procs
                 PROVE  AsObject(MergeFlat(baseline[p], op[p].local, Newest(p)))
                          = MergeLocalChanges(AsObject(baseline[p]), AsObject(op[p].local),
                                              AsObject(Newest(p)))
    BY DEF FlatIsNested
  <2>2. baseline[p] \in Docs /\ op[p].local \in Docs /\ Newest(p) \in Docs
    BY <1>1, DocTypes
  <2> QED
    BY <2>2, FlatMerge
<1> QED
  BY <1>1, StoreTypeOK, PTL

\* No save, whatever it merges, gives up a local change (config.cpp
\* mergeLocalChanges).
THEOREM SavesKeepLocalChanges == Spec => []LocalChangesWin
<1>1. LocalChangesWin
  BY LocalChangesKept DEF LocalChangesWin
<1> QED
  BY <1>1, PTL

\* No save takes back what another process wrote (config.cpp
\* mergeLocalChanges).
THEOREM SavesKeepOthers == Spec => []OthersKept
<1>1. OthersKept
  BY OthersAreKept DEF OthersKept
<1> QED
  BY <1>1, PTL

\* Two saves of independent edits give the same file in either order
\* (config.cpp persistSnapshot).
THEOREM SavesCommute == Spec => []CommitOrderIrrelevant
<1>1. CommitOrderIrrelevant
  BY MergeCommutes DEF CommitOrderIrrelevant
<1> QED
  BY <1>1, PTL
=============================================================================
