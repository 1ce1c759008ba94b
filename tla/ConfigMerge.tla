----------------------------- MODULE ConfigMerge -----------------------------
(***************************************************************************)
(* mergeLocalChanges() of config.cpp on nested documents: the algorithm as *)
(* the code computes it, and what the merge has to mean at every place of  *)
(* any three documents.                                                    *)
(*                                                                         *)
(* A JSON value is a scalar, null or an object; arrays are atomic like     *)
(* scalars.  Objects map the keys they have to values.  The recursion is a *)
(* recursive function and each level of it an operator that is given the   *)
(* function, so that the proofs can unfold it.                             *)
(***************************************************************************)
EXTENDS Naturals

CONSTANTS
  Names,     \* the keys an object may have
  Json,      \* the JSON values: the documents and all that is in them
  Depth,     \* Depth[j]: how deep the value j is nested
  MaxDepth   \* bound: the deepest nesting

Scalar(v) == [type |-> "scalar", value |-> v]
Object(m) == [type |-> "object", members |-> m]
Null      == [type |-> "null"]
Missing   == [type |-> "missing"]  \* what is found under a key that is not there

IsObject(j) == j.type = "object"
Members(j)  == DOMAIN j.members
NoMembers   == [k \in {} |-> Null]

\* The members of an object, which are values of lower nesting.
MembersBelow(j) ==
  \A k \in Members(j) : j.members[k] \in Json /\ Depth[j.members[k]] < Depth[j]

\* json: every value is finite, and what an object contains is a value too.
ASSUME JsonAssumption ==
  /\ Names # {} /\ MaxDepth \in Nat
  /\ Depth \in [Json -> 0 .. MaxDepth]
  /\ Null \in Json /\ Object(NoMembers) \in Json
  /\ \A j \in Json :
       \/ j = Null \/ j.type = "scalar"
       \/ /\ j = Object([k \in Members(j) |-> j.members[k]])
          /\ Members(j) \subseteq Names /\ MembersBelow(j)

\* Mutant: a section that both sides added is replaced.
MergedMemberAdded(merge, base, local, merged, k) ==
  IF k \notin DOMAIN local THEN merged[k]
  ELSE IF k \notin DOMAIN base THEN local[k]
  ELSE IF base[k] = local[k] THEN merged[k]
  ELSE merge[<<base[k], local[k], IF k \in DOMAIN merged THEN merged[k] ELSE base[k]>>]

\* The value of key k after the second loop: a key new in local, a key equal
\* in both, a key that differs.  merged is the document after the deletions.
MergedMember(merge, base, local, merged, k) ==
  IF k \notin DOMAIN local THEN merged[k]
  ELSE IF k \notin DOMAIN base
       THEN IF IsObject(local[k]) /\ k \in DOMAIN merged /\ IsObject(merged[k])
            THEN merge[<<Object(NoMembers), local[k], merged[k]>>]
            ELSE local[k]
  ELSE IF base[k] = local[k] THEN merged[k]
  ELSE merge[<<base[k], local[k], IF k \in DOMAIN merged THEN merged[k] ELSE base[k]>>]

\* Mutant: keys that were deleted locally stay.
MergeKeepingDeleted(merge, base, local, newest) ==
  IF base = local THEN newest
  ELSE IF (~IsObject(base) /\ base # Null) \/ ~IsObject(local) THEN local
  ELSE LET b == IF base = Null THEN NoMembers ELSE base.members
           l == local.members
           d == IF IsObject(newest) THEN newest.members ELSE b
           changed == {k \in DOMAIN l : k \notin DOMAIN b \/ b[k] # l[k]}
       IN Object([k \in DOMAIN d \cup changed |-> MergedMember(merge, b, l, d, k)])

\* Mutant: sections are replaced as a whole.
MergeShallow(merge, base, local, newest) ==
  IF base = local THEN newest
  ELSE IF (~IsObject(base) /\ base # Null) \/ ~IsObject(local) THEN local
  ELSE LET b == IF base = Null THEN NoMembers ELSE base.members
           l == local.members
           d == IF IsObject(newest) THEN newest.members ELSE b
           left == DOMAIN d \ (DOMAIN b \ DOMAIN l)
           changed == {k \in DOMAIN l : k \notin DOMAIN b \/ b[k] # l[k]}
       IN Object([k \in left \cup changed |-> IF k \in changed THEN l[k] ELSE d[k]])

\* One level of mergeLocalChanges(): deletions first, then additions and
\* changes.
MergeStep(merge, base, local, newest) ==
  IF base = local THEN newest
  ELSE IF (~IsObject(base) /\ base # Null) \/ ~IsObject(local) THEN local
  ELSE LET b == IF base = Null THEN NoMembers ELSE base.members
           l == local.members
           d == IF IsObject(newest) THEN newest.members ELSE b
           left == DOMAIN d \ (DOMAIN b \ DOMAIN l)
           merged == [k \in left |-> d[k]]
           changed == {k \in DOMAIN l : k \notin DOMAIN b \/ b[k] # l[k]}
       IN Object([k \in left \cup changed |-> MergedMember(merge, b, l, merged, k)])

MergeFcn[t \in Json \X Json \X Json] == MergeStep(MergeFcn, t[1], t[2], t[3])

MergeLocalChanges(base, local, newest) == MergeFcn[<<base, local, newest>>]

-----------------------------------------------------------------------------
(***************************************************************************)
(* What the merge has to mean.  A path names a key for every level; Walk   *)
(* is what is found after 0, 1, 2, ... of its keys.  ConfigCommit demands  *)
(* each of these of every merge.                                           *)
(***************************************************************************)
Member(j, k) == IF IsObject(j) /\ k \in Members(j) THEN j.members[k] ELSE Missing

Levels == 0 .. MaxDepth
Paths  == [1 .. MaxDepth -> Names]

Walk(j, p) ==
  LET at[i \in Levels] == IF i = 0 THEN j ELSE Member(at[i - 1], p[i]) IN at

\* Where the two sides are merged by key: a section onto a section, or onto
\* a baseline that is null or has nothing there.
MergesByKey(base, local) ==
  IsObject(local) /\ (IsObject(base) \/ base \in {Null, Missing})

\* Every value the process changed, added or deleted since its baseline is
\* in the committed document, however deep it is and whatever the disk
\* holds: its own edit wins (config.cpp "An actual same-key conflict is
\* resolved by the process committing last").
KeepsLocalChanges ==
  \A base, local, newest \in Json, p \in Paths, i \in Levels :
    LET b == Walk(base, p)[i]
        l == Walk(local, p)[i]
        r == Walk(MergeLocalChanges(base, local, newest), p)[i]
    IN l # b => IF MergesByKey(b, l) THEN IsObject(r) ELSE r = l

\* What the process did not change is as the newest file has it, at the top
\* and inside of sections that both have (config.cpp "Apply precisely the
\* local changes made since baseline onto the newest disk document").
KeepsOthers ==
  \A base, local, newest \in Json, p \in Paths, i \in Levels :
    LET b == Walk(base, p)  l == Walk(local, p)  d == Walk(newest, p)
        r == Walk(MergeLocalChanges(base, local, newest), p)
    IN l[i] = b[i] /\ (\A j \in 0 .. i - 1 : MergesByKey(b[j], l[j]) /\ IsObject(d[j]))
         => r[i] = d[i]

\* At every place at most one side changed something, or both have a
\* section there.
Independent(base, local, newest) ==
  \A p \in Paths, i \in Levels :
    LET b == Walk(base, p)[i]  l == Walk(local, p)[i]  d == Walk(newest, p)[i]
    IN l = b \/ d = b \/ (MergesByKey(b, l) /\ IsObject(d))

\* Independent edits of two processes give the same document whichever
\* process commits first.
Commutes ==
  \A base, local, newest \in Json :
    Independent(base, local, newest)
      => MergeLocalChanges(base, local, newest) = MergeLocalChanges(base, newest, local)
=============================================================================
