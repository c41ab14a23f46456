------------------------------- MODULE MCProc -------------------------------
(***************************************************************************)
(* An instance of Proc for TLC: two tracers with a child each, and numbers *)
(* that come round.                                                        *)
(***************************************************************************)
EXTENDS Proc
=============================================================================
