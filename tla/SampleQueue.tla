---------------------------- MODULE SampleQueue ----------------------------
(***************************************************************************)
(* What a ring buffer promises: a FIFO queue of samples in which a writer  *)
(* puts runs of consecutive samples and from which a reader takes runs,    *)
(* never holding more than its capacity or its latency limit.              *)
(***************************************************************************)
EXTENDS Integers, Sequences

CONSTANT Capacity  \* samples the memory has room for

VARIABLES
  q,      \* the samples put and not yet taken, numbered as they were put
  count,  \* samples put so far
  limit   \* the latency limit in force

vars == <<q, count, limit>>

Init == q = <<>> /\ count = 0 /\ limit \in Nat

Put ==
  \E n \in 1 .. Capacity :
    /\ Len(q) + n <= Capacity
    /\ Len(q) + n <= limit
    /\ q' = q \o [i \in 1 .. n |-> count + i]
    /\ count' = count + n
    /\ UNCHANGED limit

Take ==
  \E n \in 1 .. Len(q) :
    /\ q' = SubSeq(q, n + 1, Len(q))
    /\ UNCHANGED <<count, limit>>

SetLimit == limit' \in Nat /\ UNCHANGED <<q, count>>

Next == Put \/ Take \/ SetLimit

Spec == Init /\ [][Next]_vars
=============================================================================
