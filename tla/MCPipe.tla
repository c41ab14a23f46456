------------------------------ MODULE MCPipe -------------------------------
(***************************************************************************)
(* An instance of a pipe for TLC.                                          *)
(***************************************************************************)
EXTENDS Pipe

CONSTANTS r1, r2, w1, w2
=============================================================================
