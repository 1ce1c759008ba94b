-------------------------- MODULE MCAsyncConnector --------------------------
(* A small instance of AsyncConnector; Connector.cfg bounds the attempts. *)
EXTENDS AsyncConnector
=============================================================================
