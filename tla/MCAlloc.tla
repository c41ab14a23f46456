------------------------------ MODULE MCAlloc ------------------------------
(***************************************************************************)
(* An instance of Alloc for TLC: up to two links, and one bad number.      *)
(***************************************************************************)
EXTENDS Alloc, TLC

CONSTANTS p1, p2, p3, b1, b2, b3, b4, bad

Symmetry == Permutations(Procs) \cup Permutations(Blocks)
=============================================================================
