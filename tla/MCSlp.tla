------------------------------- MODULE MCSlp -------------------------------
(***************************************************************************)
(* Small instances of sleep, wakeup and the swapper for TLC.               *)
(***************************************************************************)
EXTENDS Slp, TLC

CONSTANTS p1, p2, p3, c1, c2

\* The swapper's channels have a queue of their own; c1 and c2 share one.
HashApart == [c \in Channels |-> IF c \in Chans THEN 0 ELSE 1]

\* c1 hashes to the queue of &runout.
HashTogether == [c \in Channels |-> IF c \in {c1, Runout} THEN 0 ELSE 1]

Symmetry == Permutations(Users)
=============================================================================
