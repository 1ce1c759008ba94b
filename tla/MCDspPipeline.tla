---------------------------- MODULE MCDspPipeline ----------------------------
(***************************************************************************)
(* A small graph for DspPipeline: a source, a splitter, a sink on one of   *)
(* its branches, and a multirate processor with a sink on the other.       *)
(***************************************************************************)
EXTENDS DspPipeline, TLC

CONSTANTS src, spl, proc, snk, snk2, s1, s2, s3, s4

TreeIn ==
  (src :> NoStream) @@ (spl :> s1) @@ (proc :> s2) @@ (snk :> s3) @@ (snk2 :> s4)
TreeOuts ==
  (src :> <<s1>>) @@ (spl :> <<s2, s3>>) @@ (proc :> <<s4>>) @@ (snk :> <<>>) @@ (snk2 :> <<>>)
=============================================================================
