---------------------------- MODULE PacketChannel ----------------------------
(***************************************************************************)
(* What a dsp::stream promises its two ends: a queue that is exactly one   *)
(* packet deep.  Packets are named by increasing serial numbers; sent and  *)
(* got are the last packet put into and taken out of each stream, so a     *)
(* stream is empty exactly when they agree.  A packet that was put is      *)
(* taken before the next is put: none is overwritten, lost or reordered.   *)
(***************************************************************************)
EXTENDS Integers

CONSTANTS Streams, Items

VARIABLES sent, got

Init ==
  /\ sent = [s \in Streams |-> 0]
  /\ got  = [s \in Streams |-> 0]

Put(s) ==
  /\ sent[s] = got[s]
  /\ \E x \in Items : x > sent[s] /\ sent' = [sent EXCEPT ![s] = x]
  /\ UNCHANGED got

Get(s) ==
  /\ sent[s] # got[s]
  /\ got' = [got EXCEPT ![s] = sent[s]]
  /\ UNCHANGED sent

Next == \E s \in Streams : Put(s) \/ Get(s)

Spec == Init /\ [][Next]_<<sent, got>>
=============================================================================
