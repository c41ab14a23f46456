------------------------------ MODULE Channel ------------------------------
(***************************************************************************)
(* What a pipe promises: a first-in first-out queue of bytes with a write  *)
(* side and a read side.  What is put in comes out in the same order, once; *)
(* nothing is put in when nobody can read it, and what is in the queue     *)
(* when the write side is closed can still be read.  What is put in is what *)
(* the writer gave, except that a write that fails may put in something    *)
(* else at its end: the channel keeps the order, not the writer's word.    *)
(***************************************************************************)
EXTENDS Naturals, Sequences

CONSTANT Capacity  \* the most it ever holds

VARIABLES
  queue,   \* the bytes in the channel
  got,     \* the bytes that have come out of it
  sides    \* the sides that are open

ChannelInit == queue = <<>> /\ got = <<>> /\ sides = {"read", "write"}

\* A piece of a write goes in, in one step.
Put ==
  /\ sides = {"read", "write"}
  /\ \E n \in 0 .. Capacity :
       /\ Len(queue') = Len(queue) + n
       /\ Len(queue') <= Capacity
       /\ SubSeq(queue', 1, Len(queue)) = queue
  /\ UNCHANGED <<got, sides>>

\* A read takes a prefix out.
Get ==
  /\ "read" \in sides
  /\ \E n \in 0 .. Len(queue) :
       /\ got' = got \o SubSeq(queue, 1, n)
       /\ queue' = SubSeq(queue, n + 1, Len(queue))
  /\ UNCHANGED sides

Close ==
  /\ \E s \in sides : sides' = sides \ {s}
  /\ UNCHANGED <<queue, got>>

ChannelNext == Put \/ Get \/ Close

ChannelSpec == ChannelInit /\ [][ChannelNext]_<<queue, got, sides>>
=============================================================================
