---------------------------- MODULE MCConfigSaver ----------------------------
(* Two managers.                                                           *)
EXTENDS ConfigSaver

CONSTANTS m1, m2
=============================================================================
