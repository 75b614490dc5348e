-------------------------- MODULE MCThreadPerTask --------------------------
(***************************************************************************)
(* Instances of ThreadPerTask for TLC.                                      *)
(***************************************************************************)
EXTENDS ThreadPerTask
=============================================================================
