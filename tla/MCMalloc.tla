------------------------------ MODULE MCMalloc -----------------------------
(* Instances of Malloc for TLC.                                            *)
EXTENDS Malloc

MCSizes == 1 .. 4
=============================================================================
