---------------------------- MODULE MCConfigStore ----------------------------
(***************************************************************************)
(* Two processes, a key of each and a key they share.  The documents that  *)
(* ConfigMerge merges have two top-level keys and sections of one key, or  *)
(* one top-level key and sections of two.                                  *)
(***************************************************************************)
EXTENDS ConfigCommit, TLC

CONSTANTS p1, p2, k1, k2, shared, v1, v2

MCOwn     == (p1 :> {k1} \cap Keys) @@ (p2 :> {k2} \cap Keys)
MCDefault == [k \in Keys |-> v1]

ObjectsOver(keys, values) ==
  {Object(m) : m \in UNION {[ks -> values] : ks \in SUBSET keys}}

Scalars == {Scalar(v1), Scalar(v2)}

Wide == ObjectsOver({k1, shared}, Scalars \cup ObjectsOver({k1}, Scalars))
Deep == ObjectsOver({k1}, Scalars \cup {Null} \cup ObjectsOver({k1, shared}, Scalars))

MCJson == Scalars \cup {Null} \cup Wide \cup Deep

MCDepth ==
  [j \in MCJson |->
     IF ~IsObject(j) THEN 0
     ELSE IF \A k \in Members(j) : ~IsObject(j.members[k]) THEN 1 ELSE 2]
=============================================================================
