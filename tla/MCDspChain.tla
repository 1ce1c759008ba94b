----------------------------- MODULE MCDspChain -----------------------------
(* A small instance of DspChain: Chain.cfg names the blocks and streams. *)
EXTENDS DspChain
=============================================================================
