------------------------- MODULE MCServerSessions -------------------------
(***************************************************************************)
(* Small instances of ServerSessions.  Sessions are interchangeable.       *)
(***************************************************************************)
EXTENDS ServerSessions, TLC

CONSTANTS a, b, c

\* Enough to take the slot with a password, to fail to, and to stream.
FewPackets == {"hello", "auth", "badauth", "start"}

SessionSymmetry == Permutations(Sessions)
=============================================================================
