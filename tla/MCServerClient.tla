--------------------------- MODULE MCServerClient ---------------------------
(* One or two threads that use a client.                                   *)
EXTENDS ServerClient

CONSTANTS gui, tuner
=============================================================================
