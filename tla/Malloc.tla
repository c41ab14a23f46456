------------------------------- MODULE Malloc ------------------------------
(***************************************************************************)
(* The first-fit allocator of core and of swap space (sys/malloc.c).       *)
(*                                                                         *)
(* A map is an array of (address, size) pairs; a size of 0 ends the list.  *)
(* Neither routine writes a new end when it adds an entry: what is behind  *)
(* the end has to be of size 0 already.  Neither tests for the end of the  *)
(* array: the last entry may become a hole, and the list then goes on in   *)
(* the memory behind.  The loops that move entries are given by the array  *)
(* they leave behind; nothing is said once one of them has left the array. *)
(***************************************************************************)
EXTENDS Integers, FiniteSets

CONSTANTS
  Units,     \* the units handed over at start-up are 1 .. Units
  MapSize,   \* entries of the array, CMAPSIZ or SMAPSIZ
  Sizes      \* sizes that are asked for

ASSUME MallocAssumption ==
  /\ Units \in Nat \ {0}
  /\ MapSize \in Nat \ {0}
  /\ Sizes \subseteq Nat \ {0}

VARIABLES
  map,       \* 1 .. MapSize -> [m_addr, m_size]
  busy,      \* what has been allocated: a set of [a, size]
  lost       \* a loop has run off the array; map and busy are as it found them

vars == <<map, busy, lost>>

Slots == 1 .. MapSize

Least(S) == CHOOSE i \in S : \A j \in S : i <= j

\* The unused slots are 0; main() frees the whole space into an empty map.
Init ==
  /\ map = [i \in Slots |-> IF i = 1 THEN [m_addr |-> 1, m_size |-> Units]
                            ELSE [m_addr |-> 0, m_size |-> 0]]
  /\ busy = {} /\ lost = FALSE

\* Slots of size 0 from slot b on; the first is where a loop stops.
Zeros(b) == {i \in Slots : i >= b /\ map[i].m_size = 0}

\* A loop that looks for a size of 0 from slot b on stays in the array.
InArray(b) == Zeros(b) # {}

-----------------------------------------------------------------------------
(* malloc                                                                  *)

\* The entries the search sees: those before the first 0.
Live == {i \in Slots : \A j \in 1 .. i : map[j].m_size # 0}

\* Mutant: the entry must be larger than the request.
Fits_Larger(size) == {i \in Live : map[i].m_size > size}

Fits(size) == {i \in Live : map[i].m_size >= size}

\* Mutant: the entry behind a used-up one is lost.
Remove_Skip(b) ==
  LET e == Least(Zeros(b + 1)) IN
  [i \in Slots |-> IF i \in b .. e - 2 THEN map[i + 2] ELSE map[i]]

\* Slot b is used up: the entries behind it move down, the end with them.
Remove(b) ==
  LET e == Least(Zeros(b + 1)) IN
  [i \in Slots |-> IF i \in b .. e - 1 THEN map[i + 1] ELSE map[i]]

\* The space is taken from the low end of entry b.
Cut(b, size) ==
  [map EXCEPT ![b] = [m_addr |-> @.m_addr + size, m_size |-> @.m_size - size]]

malloc(size) ==
  /\ ~ lost
  /\ Fits(size) # {}
  /\ LET b == Least(Fits(size))
         a == map[b].m_addr
     IN /\ \/ /\ map[b].m_size = size
              /\ InArray(b + 1)
              /\ map' = Remove(b)
           \/ /\ map[b].m_size > size
              /\ map' = Cut(b, size)
        /\ busy' = busy \cup {[a |-> a, size |-> size]}
  /\ UNCHANGED lost

\* The search, or the loop that moves entries down, finds no size of 0.
MallocOff(size) ==
  \/ Fits(size) = {} /\ ~ InArray(1)
  \/ /\ Fits(size) # {}
     /\ LET b == Least(Fits(size)) IN map[b].m_size = size /\ ~ InArray(b + 1)

-----------------------------------------------------------------------------
(* mfree                                                                   *)

\* for (; bp->m_addr<=a && bp->m_size!=0; bp++);
Stops(a) == {i \in Slots : map[i].m_addr > a \/ map[i].m_size = 0}

Place(a) == Least(Stops(a))

\* Mutant: an entry that ends where the space starts is not noticed.
JoinsBelow_Never(b, a) == FALSE

JoinsBelow(b, a) == b > 1 /\ map[b - 1].m_addr + map[b - 1].m_size = a

\* The space joins the entry below, and closes the gap to the one above.
FreeBelow(b, a, size) ==
  LET grown == [map EXCEPT ![b - 1].m_size = @ + size]
      e     == Least(Zeros(b))
  IN IF a + size = map[b].m_addr
     THEN [i \in Slots |->
             CASE i = b - 1     -> [m_addr |-> map[i].m_addr,
                                    m_size |-> map[i].m_size + size + map[b].m_size]
               [] i \in b .. e - 1 -> map[i + 1]
               [] OTHER         -> map[i]]
     ELSE grown

\* The space joins the entry above.
FreeAbove(b, a, size) ==
  [map EXCEPT ![b] = [m_addr |-> @.m_addr - size, m_size |-> @.m_size + size]]

\* A new entry: those from slot b on move up, over the end of the list.
Insert(b, a, size) ==
  LET e == Least(Zeros(b)) IN
  [i \in Slots |-> CASE i = b            -> [m_addr |-> a, m_size |-> size]
                     [] i \in b + 1 .. e -> map[i - 1]
                     [] OTHER            -> map[i]]

\* Slot b, which holds something, starts where the space ends.
JoinsAbove(b, a, size) == a + size = map[b].m_addr /\ map[b].m_size # 0

\* The entries from slot b on are moved, down or up.
Moves(b, a, size) ==
  IF JoinsBelow(b, a) THEN a + size = map[b].m_addr
  ELSE ~ JoinsAbove(b, a, size) /\ size # 0

mfree(size, a) ==
  LET b == Place(a) IN
  /\ Stops(a) # {}
  /\ Moves(b, a, size) => InArray(b)
  /\ map' = IF JoinsBelow(b, a) THEN FreeBelow(b, a, size)
            ELSE IF JoinsAbove(b, a, size) THEN FreeAbove(b, a, size)
            ELSE IF size # 0 THEN Insert(b, a, size)
            ELSE map

\* The search for the place, or a loop that moves entries, finds no size of 0.
MfreeOff(size, a) ==
  \/ Stops(a) = {}
  \/ Stops(a) # {} /\ Moves(Place(a), a, size) /\ ~ InArray(Place(a))

\* An image or a text is given up, or expand() gives its end back, which may
\* be nothing at all.
Free(r, size) ==
  /\ ~ lost
  /\ mfree(size, r.a + r.size - size)
  /\ busy' = (busy \ {r}) \cup
             (IF size = r.size THEN {} ELSE {[a |-> r.a, size |-> r.size - size]})
  /\ UNCHANGED lost

\* A call that leaves the array: what it reads and overwrites there is open.
RunOff ==
  /\ ~ lost
  /\ \/ \E size \in Sizes : MallocOff(size)
     \/ \E r \in busy : \E size \in 0 .. r.size : MfreeOff(size, r.a + r.size - size)
  /\ lost' = TRUE
  /\ UNCHANGED <<map, busy>>

-----------------------------------------------------------------------------
Next ==
  \/ \E size \in Sizes : malloc(size)
  \/ \E r \in busy : \E size \in 0 .. r.size : Free(r, size)
  \/ RunOff

Spec == Init /\ [][Next]_vars

-----------------------------------------------------------------------------
(* Properties                                                              *)

\* Addresses and sizes are natural numbers inside the space.
TypeOK ==
  /\ map \in [Slots -> [m_addr : 0 .. Units + 1, m_size : 0 .. Units]]
  /\ busy \subseteq [a : 1 .. Units, size : 1 .. Units]
  /\ lost \in BOOLEAN

\* "In a map, the addresses are increasing and the list is terminated by a 0
\* size" (malloc.c:9).  Everything behind the first 0 is of size 0, because an
\* entry that is added there must find its new end in place; there is such a 0,
\* and no loop leaves the array, until every entry of the array is a hole.
Ended ==
  /\ \A i, j \in Slots : i < j /\ map[i].m_size = 0 => map[j].m_size = 0
  /\ lost => \A i \in Slots : map[i].m_size # 0

Span(i) == map[i].m_addr .. map[i].m_addr + map[i].m_size - 1

\* The entries are in order and apart: neighbours have been joined, however
\* the space was cut up before.
Coalesced ==
  \A i, j \in Live : i < j => map[i].m_addr + map[i].m_size < map[j].m_addr

\* The map is well formed after every sequence of calls: in range, in order and
\* joined, with nothing behind its end, which it has as long as the holes leave
\* an entry for it.
WellFormed == TypeOK /\ Ended /\ Coalesced

\* Every unit is either in the map or allocated, and allocated once: no space
\* is lost, and none is given out twice.
Conserved ==
  /\ (UNION {Span(i) : i \in Live}) \cap (UNION {r.a .. r.a + r.size - 1 : r \in busy}) = {}
  /\ (UNION {Span(i) : i \in Live}) \cup (UNION {r.a .. r.a + r.size - 1 : r \in busy}) = 1 .. Units
  /\ \A r, s \in busy : r # s => r.a + r.size <= s.a \/ s.a + s.size <= r.a

\* The search finds an entry whenever some run of units that nobody holds is
\* long enough, however the space was cut up and joined again.
NeverRefused ==
  \A size \in Sizes :
    (\E a \in 1 .. Units : /\ a + size - 1 <= Units
                           /\ \A r \in busy : r.a + r.size <= a \/ a + size <= r.a)
      => Fits(size) # {}
=============================================================================
