---------------------------- MODULE ConfigCommit -----------------------------
(***************************************************************************)
(* ConfigStore and ConfigMerge together: the saves of the processes that   *)
(* share the file, and the merge they commit with.  ConfigStore merges     *)
(* flat documents; they are nested ones without sections.                  *)
(***************************************************************************)
EXTENDS ConfigStore, ConfigMerge

\* A flat document as ConfigMerge writes it.
AsObject(doc) ==
  Object([k \in {key \in Keys : doc[key] # Absent} |-> Scalar(doc[k])])

ASSUME FlatAssumption == \A doc \in Docs : AsObject(doc) \in Json

\* A save that is about to merge: it holds the commit lock and has a baseline.
Merging(p) == At(p, "read") /\ ~Loading(p) /\ baselineValid[p]

\* What a save commits is what mergeLocalChanges() gives for the baseline,
\* the snapshot and the newest document of that moment, so what the runs of
\* ConfigStore show is about the algorithm the code has (config.cpp
\* persistSnapshot, mergeLocalChanges).
FlatIsNested ==
  \A p \in {q \in Procs : Merging(q)} :
    AsObject(MergeFlat(baseline[p], op[p].local, Newest(p)))
      = MergeLocalChanges(AsObject(baseline[p]), AsObject(op[p].local), AsObject(Newest(p)))

\* A save never gives up what its process changed, added or deleted since
\* its baseline, were the three documents any nested ones: the process that
\* commits last wins its own keys (config.cpp mergeLocalChanges).
LocalChangesWin ==
  (\E p \in Procs : Merging(p)) => KeepsLocalChanges

\* A save never takes back what another process wrote and this one did not
\* change, were the three documents any nested ones (config.cpp
\* mergeLocalChanges).
OthersKept ==
  (\E p \in Procs : Merging(p)) => KeepsOthers

\* Were the two processes to save the other way round, independent edits of
\* nested documents would give the same file (config.cpp persistSnapshot,
\* doc/design/config-access.md "independent edits survive concurrent
\* instance shutdown").
CommitOrderIrrelevant ==
  (\E p \in Procs : Merging(p)) => Commutes
=============================================================================
