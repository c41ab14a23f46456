------------------------------ MODULE MCInode ------------------------------
(***************************************************************************)
(* Small instances of Inode for TLC.                                       *)
(***************************************************************************)
EXTENDS Inode, TLC

CONSTANTS p1, p2, p3, n1, n2

Symmetry == Permutations(Procs) \cup Permutations(Names)
=============================================================================
