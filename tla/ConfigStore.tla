----------------------------- MODULE ConfigStore -----------------------------
(***************************************************************************)
(* ConfigManager: several SDRIAK processes that share one configuration    *)
(* file.  Each process keeps a live document (conf), the document it last  *)
(* saw on disk (baseline) and a dirty flag.  A save takes a snapshot under *)
(* the manager mutex, releases it, takes the commit lock that all          *)
(* processes share, merges the snapshot onto the newest disk document,     *)
(* replaces the file, and folds the committed document back into the live  *)
(* one.  persistenceMtx lets one load or save of a manager run at a time.  *)
(*                                                                         *)
(* A document is a flat map from keys to values; Absent is a missing key.  *)
(* Merging nested documents is the subject of ConfigMerge.                 *)
(***************************************************************************)
EXTENDS Naturals

CONSTANTS
  Procs,       \* the SDRIAK processes
  Keys, Vals,  \* of a document
  Absent,      \* the value of a key a document does not have
  Default,     \* the document load() is given
  Own,         \* Own[p]: the keys no process but p edits
  NotSet,      \* the intent for a key the user has not set
  NoProc,      \* "nobody holds the commit lock"
  MaxEdits,    \* bound: edits, over all processes
  MaxFaults,   \* bound: failed locks, writes and renames
  MaxBoots,    \* bound: times a process is started
  MaxCrashes   \* bound: times a process dies

Docs  == [Keys -> Vals]
Empty == [k \in Keys |-> Absent]

ASSUME DocAssumption == Absent \in Vals /\ NotSet \notin Vals /\ Default \in Docs

ASSUME OwnAssumption ==
  /\ Own \in [Procs -> SUBSET Keys]
  /\ \A p, q \in Procs : p # q => Own[p] \cap Own[q] = {}
  /\ NoProc \notin Procs

ASSUME StoreBounds == {MaxEdits, MaxFaults, MaxBoots, MaxCrashes} \subseteq Nat

VARIABLES
  \* the file: whether it is there and parses, and what it says
  fstat, disk,
  \* the holder of the commit lock
  commitLock,
  \* ConfigManager, one per process
  lifecycleState, conf, baseline, baselineValid, dirty, autoSaveEnabled,
  \* the load() or save under way, and where shutdown() is
  op, shut,
  \* history: keys edited since the last snapshot, keys the save under way
  \* took from there, the value the user last gave each own key, whether
  \* the process started from a default that is not on disk, and the keys
  \* whose last edit a merge could not tell from no edit
  unsaved, inflight, intent, blind, unseen,
  \* counters for the bounds
  edits, faults, boots, crashes

fileVars == <<fstat, disk, commitLock>>
mgrVars  == <<lifecycleState, conf, baseline, baselineValid, dirty, autoSaveEnabled>>
histVars == <<unsaved, inflight, intent, blind, unseen>>
bounds   == <<edits, faults, boots, crashes>>
vars     == <<fileVars, mgrVars, op, shut, histVars, bounds>>

(***************************************************************************)
(* An operation: local is the live document when it began, doc the         *)
(* document it read or commits, stale says that the manager's revision has *)
(* moved since, persisted is load()'s documentPersisted.                   *)
(***************************************************************************)
OpKinds == {"none", "load", "save", "auto", "final"}
OpPcs   == {"idle", "lock", "read", "write", "rename", "commit"}

OpSet == [kind : OpKinds, pc : OpPcs, local : Docs, doc : Docs,
          stale : BOOLEAN, persisted : BOOLEAN]

NoOp == [kind |-> "none", pc |-> "idle", local |-> Empty, doc |-> Empty,
         stale |-> FALSE, persisted |-> FALSE]

BeginOp(kind, local) == [kind |-> kind, pc |-> "lock", local |-> local, doc |-> Empty,
                         stale |-> FALSE, persisted |-> FALSE]

\* "down" is a process that is not running, the others are LifecycleState.
LifeStates == {"down", "Open", "Closing", "Closed"}

TypeOK ==
  /\ fstat \in {"ok", "missing", "invalid"}
  /\ disk \in Docs
  /\ commitLock \in Procs \cup {NoProc}
  /\ lifecycleState \in [Procs -> LifeStates]
  /\ conf \in [Procs -> Docs]
  /\ baseline \in [Procs -> Docs]
  /\ baselineValid \in [Procs -> BOOLEAN]
  /\ dirty \in [Procs -> BOOLEAN]
  /\ autoSaveEnabled \in [Procs -> BOOLEAN]
  /\ op \in [Procs -> OpSet]
  /\ shut \in [Procs -> {"no", "disable", "save", "check"}]
  /\ unsaved \in [Procs -> SUBSET Keys]
  /\ inflight \in [Procs -> SUBSET Keys]
  /\ intent \in [Procs -> [Keys -> Vals \cup {NotSet}]]
  /\ blind \in [Procs -> BOOLEAN]
  /\ unseen \in [Procs -> SUBSET Keys]
  /\ edits \in 0 .. MaxEdits /\ faults \in 0 .. MaxFaults
  /\ boots \in 0 .. MaxBoots /\ crashes \in 0 .. MaxCrashes

Nothing == [k \in Keys |-> NotSet]

Init ==
  /\ fstat \in {"ok", "missing", "invalid"}
  /\ disk = Empty
  /\ commitLock = NoProc
  /\ lifecycleState = [p \in Procs |-> "down"]
  /\ conf = [p \in Procs |-> Empty]
  /\ baseline = [p \in Procs |-> Empty]
  /\ baselineValid = [p \in Procs |-> FALSE]
  /\ dirty = [p \in Procs |-> FALSE]
  /\ autoSaveEnabled = [p \in Procs |-> FALSE]
  /\ op = [p \in Procs |-> NoOp]
  /\ shut = [p \in Procs |-> "no"]
  /\ unsaved = [p \in Procs |-> {}]
  /\ inflight = [p \in Procs |-> {}]
  /\ intent = [p \in Procs |-> Nothing]
  /\ blind = [p \in Procs |-> FALSE]
  /\ unseen = [p \in Procs |-> {}]
  /\ edits = 0 /\ faults = 0 /\ boots = 0 /\ crashes = 0

-----------------------------------------------------------------------------
\* Mutant: a key deleted locally is taken from the disk.
MergeFlatKeepingDeleted(base, local, newest) ==
  [k \in Keys |-> IF local[k] \in {base[k], Absent} THEN newest[k] ELSE local[k]]

\* mergeLocalChanges() on flat documents: the keys that differ between
\* base and local come from local (deletions included), the rest from the
\* disk.  ConfigMerge has the whole algorithm; see FlatIsNested.
MergeFlat(base, local, newest) ==
  [k \in Keys |-> IF local[k] = base[k] THEN newest[k] ELSE local[k]]

Running(p) == lifecycleState[p] # "down"
At(p, pc)  == op[p].pc = pc
Goto(p, pc) == op' = [op EXCEPT ![p].pc = pc]
Loading(p) == op[p].kind = "load"

Fault == faults < MaxFaults /\ faults' = faults + 1

\* ~ConfigCommitLock, also by the operating system when p dies.
Unlock(p) == commitLock' = IF commitLock = p THEN NoProc ELSE commitLock

\* The edited keys that a commit finds at the value from which it measures
\* changes: back at what the document said when load() began, or, before
\* the first commit of a process that started from a default that is not on
\* disk, back at that default.  mergeLocalChanges() takes base = local for
\* "not edited", and the document's value.
Unseen(p) ==
  {k \in unsaved[p] \cup inflight[p] :
     /\ conf[p][k] = op[p].local[k]
     /\ Loading(p) \/ (blind[p] /\ op[p].local[k] = baseline[p][k])}

-----------------------------------------------------------------------------
(***************************************************************************)
(* load().  Every caller calls setPath, load and enableAutoSave in this    *)
(* order at start-up.  load() keeps the commit lock until it returns.      *)
(***************************************************************************)
Boot(p) ==
  /\ ~Running(p)
  /\ boots < MaxBoots /\ boots' = boots + 1
  /\ lifecycleState' = [lifecycleState EXCEPT ![p] = "Open"]
  /\ op' = [op EXCEPT ![p] = BeginOp("load", conf[p])]
  /\ UNCHANGED <<fileVars, conf, baseline, baselineValid, dirty, autoSaveEnabled, shut,
                 histVars, edits, faults, crashes>>

\* ConfigCommitLock(); load() goes on without the lock, with its default.
LoadLock(p) ==
  /\ Loading(p) /\ At(p, "lock")
  /\ \/ /\ commitLock = NoProc /\ commitLock' = p
        /\ Goto(p, "read")
        /\ UNCHANGED faults
     \/ /\ Fault
        /\ op' = [op EXCEPT ![p].pc = "commit", ![p].doc = Default]
        /\ UNCHANGED commitLock
  /\ UNCHANGED <<fstat, disk, mgrVars, shut, histVars, edits, boots, crashes>>

\* readJsonFile(): a missing or invalid file is replaced by the default.
LoadRead(p) ==
  /\ Loading(p) /\ At(p, "read")
  /\ IF fstat = "ok"
     THEN op' = [op EXCEPT ![p].pc = "commit", ![p].doc = disk, ![p].persisted = TRUE]
     ELSE op' = [op EXCEPT ![p].pc = "write", ![p].doc = Default]
  /\ UNCHANGED <<fileVars, mgrVars, shut, histVars, bounds>>

\* Mutant: a default that could not be written is not taken as baseline.
LoadCommitNoBaseline(p) ==
  /\ Loading(p) /\ At(p, "commit")
  /\ conf' = [conf EXCEPT ![p] =
       IF op[p].stale THEN MergeFlat(op[p].local, conf[p], op[p].doc)
                      ELSE op[p].doc]
  /\ baseline' = [baseline EXCEPT ![p] = IF op[p].persisted THEN op[p].doc ELSE @]
  /\ baselineValid' = [baselineValid EXCEPT ![p] = TRUE]
  /\ dirty' = [dirty EXCEPT ![p] = ~op[p].persisted \/ op[p].stale]
  /\ Unlock(p)
  /\ op' = [op EXCEPT ![p] = NoOp]
  /\ blind' = [blind EXCEPT ![p] = ~op[p].persisted]
  /\ unseen' = [unseen EXCEPT ![p] = @ \cup Unseen(p)]
  /\ UNCHANGED <<fstat, disk, lifecycleState, autoSaveEnabled, shut, unsaved, inflight, intent,
                 bounds>>

\* A load commits its document whether or not it could be written; the
\* edits made meanwhile are carried over.
LoadCommit(p) ==
  /\ Loading(p) /\ At(p, "commit")
  /\ conf' = [conf EXCEPT ![p] =
       IF op[p].stale THEN MergeFlat(op[p].local, conf[p], op[p].doc)
                      ELSE op[p].doc]
  /\ baseline' = [baseline EXCEPT ![p] = op[p].doc]
  /\ baselineValid' = [baselineValid EXCEPT ![p] = TRUE]
  /\ dirty' = [dirty EXCEPT ![p] = ~op[p].persisted \/ op[p].stale]
  /\ Unlock(p)
  /\ op' = [op EXCEPT ![p] = NoOp]
  /\ blind' = [blind EXCEPT ![p] = ~op[p].persisted]
  /\ unseen' = [unseen EXCEPT ![p] = @ \cup Unseen(p)]
  /\ UNCHANGED <<fstat, disk, lifecycleState, autoSaveEnabled, shut, unsaved, inflight, intent,
                 bounds>>

\* enableAutoSave(), after load() has returned.
EnableAutoSave(p) ==
  /\ lifecycleState[p] = "Open" /\ baselineValid[p] /\ ~autoSaveEnabled[p]
  /\ autoSaveEnabled' = [autoSaveEnabled EXCEPT ![p] = TRUE]
  /\ UNCHANGED <<fileVars, lifecycleState, conf, baseline, baselineValid, dirty, op, shut,
                 histVars, bounds>>

-----------------------------------------------------------------------------
\* edit() ... ~EditAccess: acquire(), one changed value, release().
Edit(p) ==
  /\ lifecycleState[p] = "Open"
  /\ edits < MaxEdits /\ edits' = edits + 1
  /\ \E k \in Keys, v \in Vals :
       /\ \A q \in Procs \ {p} : k \notin Own[q]
       /\ v # conf[p][k]
       /\ conf' = [conf EXCEPT ![p][k] = v]
       /\ unsaved' = [unsaved EXCEPT ![p] = @ \cup {k}]
       /\ intent' = [intent EXCEPT ![p][k] = IF k \in Own[p] THEN v ELSE NotSet]
       /\ unseen' = [unseen EXCEPT ![p] = @ \ {k}]
  /\ dirty' = [dirty EXCEPT ![p] = TRUE]
  /\ op' = [op EXCEPT ![p].stale = (op[p] # NoOp)]
  /\ UNCHANGED <<fileVars, lifecycleState, baseline, baselineValid, autoSaveEnabled, shut, inflight,
                 blind, faults, boots, crashes>>

-----------------------------------------------------------------------------
(***************************************************************************)
(* saveImpl().  "save" is an explicit save(), "auto" a saveIfDirty() by    *)
(* the saver, "final" the commit of shutdown().                            *)
(***************************************************************************)
MayBegin(p, kind) ==
  \/ kind = "save" /\ lifecycleState[p] = "Open"
  \/ kind = "auto" /\ autoSaveEnabled[p] /\ dirty[p]
  \/ kind = "final" /\ shut[p] = "save" /\ dirty[p]

\* The snapshot.
SaveBegin(p) ==
  /\ op[p] = NoOp /\ baselineValid[p]
  /\ \E kind \in {"save", "auto", "final"} :
       MayBegin(p, kind) /\ op' = [op EXCEPT ![p] = BeginOp(kind, conf[p])]
  /\ inflight' = [inflight EXCEPT ![p] = unsaved[p]]
  /\ unsaved' = [unsaved EXCEPT ![p] = {}]
  /\ UNCHANGED <<fileVars, mgrVars, shut, intent, blind, unseen, bounds>>

\* Mutant: a failed save returns without releasing the commit lock.
SaveFailsLocked(p) ==
  /\ Fault
  /\ op' = [op EXCEPT ![p] = NoOp]
  /\ shut' = [shut EXCEPT ![p] = IF op[p].kind = "final" THEN "no" ELSE @]
  /\ unsaved' = [unsaved EXCEPT ![p] = @ \cup inflight[p]]
  /\ inflight' = [inflight EXCEPT ![p] = {}]
  /\ UNCHANGED <<fileVars, mgrVars, intent, blind, unseen, edits, boots, crashes>>

\* A save gives up: its edits stay unsaved and the manager stays dirty.  A
\* failed shutdown() returns and stays in Closing.
SaveFails(p) ==
  /\ Fault
  /\ Unlock(p)
  /\ op' = [op EXCEPT ![p] = NoOp]
  /\ shut' = [shut EXCEPT ![p] = IF op[p].kind = "final" THEN "no" ELSE @]
  /\ unsaved' = [unsaved EXCEPT ![p] = @ \cup inflight[p]]
  /\ inflight' = [inflight EXCEPT ![p] = {}]
  /\ UNCHANGED <<fstat, disk, mgrVars, intent, blind, unseen, edits, boots, crashes>>

\* persistSnapshot(): the commit lock.
SaveLock(p) ==
  /\ op[p].kind \in {"save", "auto", "final"} /\ At(p, "lock")
  /\ \/ /\ commitLock = NoProc /\ commitLock' = p
        /\ Goto(p, "read")
        /\ UNCHANGED <<fstat, disk, mgrVars, shut, histVars, bounds>>
     \/ SaveFails(p)

\* persistSnapshot(): the newest document; one that cannot be read is
\* repaired from the baseline.
Newest(p) ==
  IF fstat = "ok" THEN disk
  ELSE IF baselineValid[p] THEN baseline[p] ELSE op[p].local

\* persistSnapshot(): read the newest document and merge.  A document the
\* disk already has is not written; the lock is then released.
SaveMerge(p) ==
  /\ op[p].kind \in {"save", "auto", "final"} /\ At(p, "read")
  /\ LET merged == IF baselineValid[p]
                   THEN MergeFlat(baseline[p], op[p].local, Newest(p))
                   ELSE op[p].local
         write  == fstat # "ok" \/ merged # Newest(p)
     IN /\ op' = [op EXCEPT ![p].doc = merged,
                            ![p].pc = IF write THEN "write" ELSE "commit"]
        /\ IF write THEN UNCHANGED commitLock ELSE Unlock(p)
  /\ UNCHANGED <<fstat, disk, mgrVars, shut, histVars, bounds>>

\* writeJsonAtomically(), the temporary file.
WriteTemporary(p) ==
  /\ At(p, "write")
  /\ \/ /\ Goto(p, "rename")
        /\ UNCHANGED <<fileVars, mgrVars, shut, histVars, bounds>>
     \/ ~Loading(p) /\ SaveFails(p)
     \/ /\ Loading(p) /\ Fault
        /\ Goto(p, "commit")
        /\ UNCHANGED <<fileVars, mgrVars, shut, histVars, edits, boots, crashes>>

\* replaceFile() is atomic.  persistSnapshot() then returns and releases
\* the lock; load() keeps it.
ReplaceFile(p) ==
  /\ At(p, "rename")
  /\ \/ /\ disk' = op[p].doc /\ fstat' = "ok"
        /\ op' = [op EXCEPT ![p].pc = "commit", ![p].persisted = TRUE]
        /\ IF Loading(p) THEN UNCHANGED commitLock ELSE Unlock(p)
        /\ UNCHANGED <<mgrVars, shut, histVars, bounds>>
     \/ ~Loading(p) /\ SaveFails(p)
     \/ /\ Loading(p) /\ Fault
        /\ Goto(p, "commit")
        /\ UNCHANGED <<fileVars, mgrVars, shut, histVars, edits, boots, crashes>>

\* What a committed save leaves behind, whatever becomes of conf and dirty.
SaveReturns(p) ==
  /\ baseline' = [baseline EXCEPT ![p] = op[p].doc]
  /\ baselineValid' = [baselineValid EXCEPT ![p] = TRUE]
  /\ op' = [op EXCEPT ![p] = NoOp]
  /\ shut' = [shut EXCEPT ![p] = IF op[p].kind = "final" THEN "check" ELSE @]
  /\ inflight' = [inflight EXCEPT ![p] = {}]
  /\ blind' = [blind EXCEPT ![p] = FALSE]
  /\ unseen' = [unseen EXCEPT ![p] = @ \cup Unseen(p)]
  /\ UNCHANGED <<fileVars, lifecycleState, autoSaveEnabled, unsaved, intent, bounds>>

\* Mutant: edits made while the file was written are not rebased.
SaveCommitNoRebase(p) ==
  /\ op[p].kind \in {"save", "auto", "final"} /\ At(p, "commit")
  /\ conf' = [conf EXCEPT ![p] = op[p].doc]
  /\ dirty' = [dirty EXCEPT ![p] = op[p].stale]
  /\ SaveReturns(p)

\* Mutant: dirty is cleared whatever happened during the save.
SaveCommitClean(p) ==
  /\ op[p].kind \in {"save", "auto", "final"} /\ At(p, "commit")
  /\ conf' = [conf EXCEPT ![p] =
       IF op[p].stale THEN MergeFlat(op[p].local, conf[p], op[p].doc)
                      ELSE op[p].doc]
  /\ dirty' = [dirty EXCEPT ![p] = FALSE]
  /\ SaveReturns(p)

\* saveImpl(), after persistSnapshot(): edits made since the snapshot are
\* rebased onto the committed document and keep the manager dirty.
SaveCommit(p) ==
  /\ op[p].kind \in {"save", "auto", "final"} /\ At(p, "commit")
  /\ conf' = [conf EXCEPT ![p] =
       IF op[p].stale THEN MergeFlat(op[p].local, conf[p], op[p].doc)
                      ELSE op[p].doc]
  /\ dirty' = [dirty EXCEPT ![p] = op[p].stale]
  /\ SaveReturns(p)

-----------------------------------------------------------------------------
(***************************************************************************)
(* shutdown().                                                             *)
(***************************************************************************)
Shutdown(p) ==
  /\ lifecycleState[p] \in {"Open", "Closing"} /\ baselineValid[p] /\ shut[p] = "no"
  /\ lifecycleState' = [lifecycleState EXCEPT ![p] = "Closing"]
  /\ shut' = [shut EXCEPT ![p] = "disable"]
  /\ UNCHANGED <<fileVars, conf, baseline, baselineValid, dirty, autoSaveEnabled, op,
                 histVars, bounds>>

\* disableAutoSaveImpl() waits for the saver to leave the manager.
ShutdownDisable(p) ==
  /\ shut[p] = "disable" /\ op[p].kind # "auto"
  /\ autoSaveEnabled' = [autoSaveEnabled EXCEPT ![p] = FALSE]
  /\ shut' = [shut EXCEPT ![p] = "save"]
  /\ UNCHANGED <<fileVars, lifecycleState, conf, baseline, baselineValid, dirty, op, histVars, bounds>>

\* saveImpl() in shutdown() finds nothing to save.
ShutdownClean(p) ==
  /\ shut[p] = "save" /\ op[p] = NoOp /\ ~dirty[p]
  /\ shut' = [shut EXCEPT ![p] = "check"]
  /\ UNCHANGED <<fileVars, mgrVars, op, histVars, bounds>>

ShutdownCheck(p) ==
  /\ shut[p] = "check"
  /\ lifecycleState' = [lifecycleState EXCEPT ![p] = IF dirty[p] THEN @ ELSE "Closed"]
  /\ shut' = [shut EXCEPT ![p] = "no"]
  /\ UNCHANGED <<fileVars, conf, baseline, baselineValid, dirty, autoSaveEnabled, op,
                 histVars, bounds>>

\* A process is gone, and what it had in memory with it.
Die(p) ==
  /\ lifecycleState' = [lifecycleState EXCEPT ![p] = "down"]
  /\ conf' = [conf EXCEPT ![p] = Empty]
  /\ baseline' = [baseline EXCEPT ![p] = Empty]
  /\ baselineValid' = [baselineValid EXCEPT ![p] = FALSE]
  /\ dirty' = [dirty EXCEPT ![p] = FALSE]
  /\ autoSaveEnabled' = [autoSaveEnabled EXCEPT ![p] = FALSE]
  /\ op' = [op EXCEPT ![p] = NoOp]
  /\ shut' = [shut EXCEPT ![p] = "no"]
  /\ unsaved' = [unsaved EXCEPT ![p] = {}]
  /\ inflight' = [inflight EXCEPT ![p] = {}]
  /\ blind' = [blind EXCEPT ![p] = FALSE]

\* The process ends after its shutdown.
Exit(p) ==
  /\ lifecycleState[p] = "Closed"
  /\ Die(p)
  /\ UNCHANGED <<fileVars, intent, unseen, bounds>>

\* The process dies at any other time.  The operating system releases its
\* lock, a temporary file may stay behind.  Edits not yet committed are lost.
Crash(p) ==
  /\ Running(p)
  /\ crashes < MaxCrashes /\ crashes' = crashes + 1
  /\ Die(p)
  /\ Unlock(p)
  /\ intent' = [intent EXCEPT ![p] =
       [k \in Keys |-> IF k \in unsaved[p] \cup inflight[p] THEN NotSet ELSE @[k]]]
  /\ UNCHANGED <<fstat, disk, unseen, edits, faults, boots>>

-----------------------------------------------------------------------------
LoadStep(p) == LoadLock(p) \/ LoadRead(p) \/ LoadCommit(p)

SaveStep(p) ==
  SaveLock(p) \/ SaveMerge(p) \/ WriteTemporary(p) \/ ReplaceFile(p) \/ SaveCommit(p)

ShutdownStep(p) == ShutdownDisable(p) \/ ShutdownClean(p) \/ ShutdownCheck(p)

Next ==
  \E p \in Procs :
    \/ Boot(p) \/ LoadStep(p) \/ EnableAutoSave(p)
    \/ Edit(p) \/ SaveBegin(p) \/ SaveStep(p)
    \/ Shutdown(p) \/ ShutdownStep(p) \/ Exit(p) \/ Crash(p)

Spec == Init /\ [][Next]_vars

-----------------------------------------------------------------------------
(***************************************************************************)
(* Properties.                                                             *)
(***************************************************************************)

\* A commit carries exactly its own process's edits: of a readable file it
\* changes no key that the process has not edited since its last commit, so
\* a stale copy of another process's settings is never written back, not by
\* a load that had to start from its default either
\* (config.cpp mergeLocalChanges, persistSnapshot, 642-645).
CommitsOwnEdits ==
  [][fstat = "ok" /\ disk' # disk =>
       /\ commitLock \in Procs
       /\ \A k \in Keys : disk'[k] # disk[k] =>
            k \in inflight[commitLock] /\ disk'[k] = op[commitLock].local[k]]_vars

\* The live document shows what the user last chose: no load, save, merge or
\* rebase takes back an edit of a key that no other process edits, also one
\* made during a load, while the file was being written, or in a process
\* that could not read the file (config.cpp 629-654, 694-719).  Two cases are
\* excepted.  An edit in unseen, which went back to what the merge takes for
\* unchanged: the code does take it back (config.cpp 278).  And a choice of
\* an earlier run that a load without the file could not see: it is live
\* again after the first commit.
EditsStayLive ==
  \A p \in Procs : Running(p) /\ baselineValid[p] =>
    \A k \in Keys \ unseen[p] :
      /\ intent[p][k] # NotSet
      /\ blind[p] => k \in unsaved[p] \cup inflight[p]
      => conf[p][k] = intent[p][k]

\* A manager that is not dirty has everything on disk, whatever the other
\* processes committed since; so has one that was shut down, and one that
\* crashed has all but its uncommitted edits, until it is started again
\* (config.h dirty, doc/design/config-access.md "independent edits survive
\* concurrent instance shutdown").  Excepted is an edit in unseen: one that
\* gives back the default of a load that did not reach the file is dropped,
\* and the manager is clean without it (config.cpp 278, 645, 703).
CleanIsDurable ==
  \A p \in Procs : (~Running(p) \/ (~dirty[p] /\ op[p] = NoOp)) =>
    \A k \in Keys \ unseen[p] : intent[p][k] # NotSet => fstat = "ok" /\ disk[k] = intent[p][k]

\* The commit lock guards every read-merge-write of the file, and is never
\* left behind: its holder is in the middle of a commit that waits for
\* nobody else, so no failure, crash or exit locks the other processes out
\* and every save and shutdown() gets its turn (config.cpp ConfigCommitLock,
\* persistSnapshot, load).
NoLockout ==
  \A p \in Procs :
    /\ op[p].pc \in {"read", "write", "rename"} => commitLock = p
    /\ commitLock = p =>
         \/ op[p].pc \in {"read", "write", "rename"}
         \/ Loading(p) /\ At(p, "commit")
=============================================================================
