------------------------------- MODULE MCBio -------------------------------
(***************************************************************************)
(* Small instances of the buffer cache for TLC.                            *)
(***************************************************************************)
EXTENDS Bio

CONSTANTS p1, p2, b1, b2, b3, k1, k2, k3, k4, v0, v1

\* Processes, buffers and the block contents are interchangeable names.
Symmetry == Permutations(Procs) \cup Permutations(Bufs)
=============================================================================
