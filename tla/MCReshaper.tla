----------------------------- MODULE MCReshaper -----------------------------
(* Small frames over a ring that is shorter than the larger latency limit,  *)
(* as the ring of a million samples is for the largest FFT.                 *)
EXTENDS Reshaper

MCSkips     == {-2, -1, 0, 1}
MCLatencies == {2 * n : n \in Keeps}
=============================================================================
