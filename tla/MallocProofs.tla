---------------------------- MODULE MallocProofs ----------------------------
(***************************************************************************)
(* Proofs about the maps of core and swap space, for a space and an array  *)
(* of any size.  Neither routine tests for the end of the array: the       *)
(* theorems say that no loop leaves it before every entry is a hole.       *)
(***************************************************************************)
EXTENDS Malloc, FiniteSetTheorems, NaturalsInduction, WellFoundedInduction, TLAPS

(***************************************************************************)
(* The inductive invariant.                                                *)
(***************************************************************************)

Entry == [m_addr : 0 .. Units + 1, m_size : 0 .. Units]

\* The map m is a list of n entries, in order and apart, with nothing behind.
Good(m, n) ==
  /\ m \in [Slots -> Entry]
  /\ n \in 0 .. MapSize
  /\ \A i \in Slots : i > n => m[i].m_size = 0
  /\ \A i \in 1 .. n : /\ m[i].m_size > 0 /\ m[i].m_addr > 0
                       /\ m[i].m_addr + m[i].m_size <= Units + 1
  /\ \A i, j \in 1 .. n : i < j => m[i].m_addr + m[i].m_size < m[j].m_addr

\* Unit u is in one of the first n entries of m.
Has(m, n, u) == \E i \in 1 .. n : m[i].m_addr <= u /\ u < m[i].m_addr + m[i].m_size

\* Unit u has been allocated.
Held(u) == \E r \in busy : r.a <= u /\ u < r.a + r.size

\* What is allocated is in range and apart, and each unit is in the map or
\* allocated, not both.
Shared(n) ==
  /\ busy \subseteq [a : 1 .. Units, size : 1 .. Units]
  /\ \A r, s \in busy : r # s => r.a + r.size <= s.a \/ s.a + s.size <= r.a
  /\ \A u \in Nat : ~(Has(map, n, u) /\ Held(u))
  /\ \A u \in Nat : Has(map, n, u) \/ Held(u) <=> u \in 1 .. Units

\* There is no n + 1 when a loop has left the array.
IInv ==
  /\ lost \in BOOLEAN
  /\ \E n \in Nat : Good(map, n) /\ Shared(n) /\ (lost => n = MapSize)

-----------------------------------------------------------------------------
(* The list.                                                               *)

\* A set of numbers that is not empty has a least member.
LEMMA LeastMember ==
  ASSUME NEW T, T \subseteq Nat, T # {}
  PROVE  Least(T) \in T /\ \A i \in T : Least(T) <= i
<1> DEFINE R == {xy \in Nat \X Nat : xy[1] < xy[2]}
<1>1. IsWellFoundedOn(R, Nat)
  BY NatLessThanWellFounded DEF OpToRel
<1> HIDE DEF R
<1>2. PICK x \in T : \A y \in T : <<y, x>> \notin R
  BY <1>1, WFMin
<1>3. ASSUME NEW y \in T PROVE x <= y
  <2>1. ~(y < x)
    BY <1>2 DEF R
  <2> QED BY <2>1
<1>4. \E i \in T : \A j \in T : i <= j
  BY <1>3
<1> QED BY <1>4 DEF Least

\* What Good says of an entry.
LEMMA EntryFacts ==
  ASSUME NEW m, NEW n, Good(m, n)
  PROVE  /\ n \in Nat /\ n <= MapSize /\ MapSize \in Nat /\ Units \in Nat \ {0}
         /\ \A i \in Slots : /\ m[i].m_addr \in Nat /\ m[i].m_addr <= Units + 1
                             /\ m[i].m_size \in Nat /\ m[i].m_size <= Units
                             /\ m[i] = [m_addr |-> m[i].m_addr, m_size |-> m[i].m_size]
         /\ 1 .. n \subseteq Slots
BY MallocAssumption DEF Good, Entry, Slots

\* The entries are those the search sees, and the others are of size 0.
LEMMA LiveIs ==
  ASSUME NEW n, Good(map, n)
  PROVE  Live = 1 .. n /\ \A i \in Slots : map[i].m_size = 0 <=> i > n
<1>1. /\ n \in Nat /\ 1 .. n \subseteq Slots /\ Slots \subseteq Nat /\ \A i \in Slots : i >= 1
  BY EntryFacts DEF Slots
<1>2. \A i \in Slots : map[i].m_size = 0 <=> i > n
  BY <1>1, EntryFacts DEF Good, Slots
<1>3. ASSUME NEW i \in Slots PROVE (\A j \in 1 .. i : map[j].m_size # 0) <=> i \in 1 .. n
  <2>1. CASE i \in 1 .. n
    BY <1>1, <1>2, <2>1
  <2>2. CASE i \notin 1 .. n
    <3>1. i > n /\ i \in 1 .. i
      BY <1>1, <2>2
    <3> QED BY <1>2, <2>2, <3>1
  <2> QED BY <2>1, <2>2
<1> QED BY <1>1, <1>2, <1>3 DEF Live

\* A loop that starts at an entry or at the end stops at the end, if there is one
\* in the array.
LEMMA Loops ==
  ASSUME NEW n, Good(map, n), NEW b \in 1 .. n + 1
  PROVE  /\ InArray(b) <=> n + 1 \in Slots
         /\ InArray(b) => Least(Zeros(b)) = n + 1
<1>1. /\ n \in Nat /\ MapSize \in Nat /\ Slots \subseteq Nat /\ \A i \in Slots : i >= 1 /\ i <= MapSize
  BY EntryFacts DEF Slots
<1>2. \A i \in Slots : map[i].m_size = 0 <=> i > n
  BY LiveIs
<1>3. Zeros(b) \subseteq Nat /\ \A i \in Zeros(b) : i \in Slots /\ i >= n + 1
  <2>1. \A i \in Zeros(b) : i \in Slots /\ map[i].m_size = 0
    BY DEF Zeros
  <2>2. \A i \in Zeros(b) : i \in Nat /\ i > n
    BY <1>1, <1>2, <2>1
  <2> QED BY <1>1, <2>1, <2>2
<1>4. ASSUME NEW i \in Zeros(b) PROVE n + 1 \in Slots
  <2>1. i \in Nat /\ i <= MapSize /\ i >= n + 1
    BY <1>1, <1>3
  <2> QED BY <1>1, <2>1 DEF Slots
<1>5. n + 1 \in Slots => n + 1 \in Zeros(b)
  BY <1>1, <1>2 DEF Zeros
<1>6. ASSUME InArray(b) PROVE Least(Zeros(b)) = n + 1
  <2>1. Zeros(b) # {} /\ n + 1 \in Zeros(b)
    BY <1>4, <1>5, <1>6 DEF InArray
  <2>2. Least(Zeros(b)) \in Zeros(b) /\ Least(Zeros(b)) <= n + 1
    BY <1>3, <2>1, LeastMember
  <2>3. Least(Zeros(b)) >= n + 1 /\ Least(Zeros(b)) \in Nat
    BY <1>3, <2>2
  <2> QED BY <1>1, <2>2, <2>3
<1> QED BY <1>4, <1>5, <1>6 DEF InArray

\* Where mfree() stops.
LEMMA Placed ==
  ASSUME NEW n, Good(map, n), NEW a \in Nat, Stops(a) # {}
  PROVE  /\ Place(a) \in 1 .. n + 1 /\ Place(a) \in Slots
         /\ \A i \in 1 .. n : i < Place(a) => map[i].m_addr <= a
         /\ Place(a) <= n => map[Place(a)].m_addr > a
<1> DEFINE T == {i \in Slots : map[i].m_addr > a \/ map[i].m_size = 0}
<1>a. \A i \in Slots : i \in Nat /\ i >= 1
  BY MallocAssumption DEF Slots
<1>1. /\ n \in Nat /\ 1 .. n \subseteq Slots
      /\ \A i \in Slots : i \in Nat /\ i >= 1 /\ map[i].m_addr \in Nat
  BY <1>a, EntryFacts
<1>2. T \subseteq Nat /\ T # {} /\ (n + 1 \in Slots => n + 1 \in T)
  BY <1>1 DEF Good, Stops
<1>3. Least(T) \in T /\ \A i \in T : Least(T) <= i
  BY <1>2, LeastMember
<1>4. PICK b \in T : b = Least(T) /\ Place(a) = b /\ \A i \in T : b <= i
  BY <1>3 DEF Place, Stops
<1>5. b \in 1 .. n + 1 /\ b \in Slots
  BY <1>1, <1>2, <1>4, EntryFacts DEF Slots
<1>6. ASSUME NEW i \in 1 .. n, i < b PROVE map[i].m_addr <= a
  <2>1. i \in Slots /\ i \in Nat /\ b \in Nat
    BY <1>1, <1>5
  <2>2. i \notin T
    BY <1>4, <1>6, <2>1
  <2> QED BY <1>1, <2>1, <2>2
<1>7. b <= n => map[b].m_addr > a
  BY <1>1, <1>4, <1>5 DEF Good
<1> QED BY <1>4, <1>5, <1>6, <1>7
-----------------------------------------------------------------------------
(* What an operation does to the list.                                     *)

\* Unit u is in entry i.
In(m, i, u) == m[i].m_addr <= u /\ u < m[i].m_addr + m[i].m_size

\* The space from x on lies in range, after the entries before b and before those
\* from c on, and touches neither.
Clear(m, n, b, c, x, s) ==
  /\ x \in Nat /\ s \in Nat /\ x > 0 /\ s > 0 /\ x + s <= Units + 1
  /\ \A i \in 1 .. n : i < b => m[i].m_addr + m[i].m_size < x
  /\ \A i \in 1 .. n : i >= c => x + s < m[i].m_addr

\* Entry b has another extent.
Changed(m, b, x, s) == [m EXCEPT ![b] = [m_addr |-> x, m_size |-> s]]

\* No unit is in two entries.
LEMMA Once ==
  ASSUME NEW m, NEW n, Good(m, n), NEW i \in 1 .. n, NEW j \in 1 .. n, NEW u \in Nat,
         In(m, i, u), In(m, j, u)
  PROVE  i = j
<1>1. /\ m[i].m_addr \in Nat /\ m[i].m_size \in Nat /\ m[j].m_addr \in Nat /\ m[j].m_size \in Nat
      /\ i \in Nat /\ j \in Nat
  <2>1. n \in Nat /\ i \in Slots /\ j \in Slots
    BY EntryFacts
  <2>2. \A k \in Slots : m[k].m_addr \in Nat /\ m[k].m_size \in Nat
    BY EntryFacts
  <2> QED BY <2>1, <2>2
<1>2. /\ i < j => m[i].m_addr + m[i].m_size < m[j].m_addr
      /\ j < i => m[j].m_addr + m[j].m_size < m[i].m_addr
  BY DEF Good
<1> QED BY <1>1, <1>2 DEF In

\* An entry is given another extent that stays clear of its neighbours.
LEMMA ChangeGood ==
  ASSUME NEW m, NEW n, Good(m, n), NEW b \in 1 .. n, NEW x, NEW s, Clear(m, n, b, b + 1, x, s),
         NEW m2, m2 = Changed(m, b, x, s)
  PROVE  /\ Good(m2, n)
         /\ \A u \in Nat : Has(m2, n, u) <=> (Has(m, n, u) /\ ~In(m, b, u)) \/ (x <= u /\ u < x + s)
<1>1. /\ n \in Nat /\ Units \in Nat /\ 1 .. n \subseteq Slots /\ b \in Slots /\ m \in [Slots -> Entry]
      /\ n \in 0 .. MapSize
  BY EntryFacts DEF Good
<1>a. /\ x \in Nat /\ s \in Nat /\ x > 0 /\ s > 0 /\ x + s <= Units + 1
      /\ \A i \in 1 .. n : i < b => m[i].m_addr + m[i].m_size < x
      /\ \A i \in 1 .. n : i > b => x + s < m[i].m_addr
  BY <1>1 DEF Clear
<1>2. m2 \in [Slots -> Entry]
  BY <1>1, <1>a DEF Entry, Changed
<1>3. m2[b].m_addr = x /\ m2[b].m_size = s /\ \A i \in Slots : i # b => m2[i] = m[i]
  BY <1>1 DEF Changed
<1>4. \A i \in Slots : i > n => m2[i].m_size = 0
  BY <1>1, <1>3 DEF Good
<1>5. \A i \in 1 .. n : /\ m2[i].m_size > 0 /\ m2[i].m_addr > 0
                        /\ m2[i].m_addr + m2[i].m_size <= Units + 1
  BY <1>1, <1>a, <1>3 DEF Good
<1>6. ASSUME NEW i \in 1 .. n, NEW j \in 1 .. n, i < j
      PROVE  m2[i].m_addr + m2[i].m_size < m2[j].m_addr
  <2>1. CASE i = b
    BY <1>1, <1>a, <1>3, <1>6, <2>1
  <2>2. CASE j = b
    BY <1>1, <1>a, <1>3, <1>6, <2>2
  <2>3. CASE i # b /\ j # b
    BY <1>1, <1>3, <1>6, <2>3 DEF Good
  <2> QED BY <2>1, <2>2, <2>3
<1>7. Good(m2, n)
  BY <1>1, <1>2, <1>4, <1>5, <1>6 DEF Good
<1>8. ASSUME NEW u \in Nat
      PROVE  Has(m2, n, u) <=> (Has(m, n, u) /\ ~In(m, b, u)) \/ (x <= u /\ u < x + s)
  <2>1. In(m2, b, u) <=> x <= u /\ u < x + s
    BY <1>3 DEF In
  <2>2. \A i \in 1 .. n : i # b => (In(m2, i, u) <=> In(m, i, u))
    BY <1>1, <1>3 DEF In
  <2>3. Has(m2, n, u) <=> \E i \in 1 .. n : In(m2, i, u)
    BY DEF Has, In
  <2>4. Has(m, n, u) <=> \E i \in 1 .. n : In(m, i, u)
    BY DEF Has, In
  <2>5. \A i \in 1 .. n : In(m, b, u) /\ In(m, i, u) => i = b
    BY Once
  <2> HIDE DEF In
  <2> QED BY <2>1, <2>2, <2>3, <2>4, <2>5
<1> QED BY <1>7, <1>8

\* An entry is taken out, those behind it move down.
LEMMA RemoveGood ==
  ASSUME NEW m, NEW n, Good(m, n), NEW b \in 1 .. n, n + 1 \in Slots,
         NEW m2, m2 = [i \in Slots |-> IF i \in b .. n THEN m[i + 1] ELSE m[i]]
  PROVE  /\ Good(m2, n - 1) /\ n - 1 \in Nat
         /\ \A u \in Nat : Has(m2, n - 1, u) <=> Has(m, n, u) /\ ~In(m, b, u)
<1>1. /\ n \in Nat /\ MapSize \in Nat /\ n >= 1 /\ b \in Nat /\ n <= MapSize /\ m \in [Slots -> Entry]
      /\ 1 .. n \subseteq Slots
  BY EntryFacts DEF Good
<1>2. \A i \in b .. n : i + 1 \in Slots
  BY <1>1 DEF Slots
<1>3. m2 \in [Slots -> Entry]
  BY <1>1, <1>2
<1>4. /\ \A i \in Slots : i < b => m2[i] = m[i]
      /\ \A i \in Slots : i >= b /\ i <= n => m2[i] = m[i + 1]
      /\ \A i \in Slots : i > n => m2[i] = m[i]
  BY <1>1 DEF Slots
<1>5. \A i \in Slots : i > n - 1 => m2[i].m_size = 0
  <2>1. n \in Slots /\ m2[n] = m[n + 1] /\ m[n + 1].m_size = 0
    BY <1>1, <1>4 DEF Good
  <2>2. \A i \in Slots : i > n => m2[i].m_size = 0
    BY <1>4 DEF Good
  <2>3. \A i \in Slots : i > n - 1 => i > n \/ i = n
    BY <1>1 DEF Slots
  <2> QED BY <2>1, <2>2, <2>3
<1>6. PICK S : S = [i \in 1 .. n - 1 |-> IF i < b THEN i ELSE i + 1]
  OBVIOUS
<1>7. /\ \A i \in 1 .. n - 1 : S[i] \in 1 .. n /\ S[i] # b /\ m2[i] = m[S[i]]
      /\ \A i, j \in 1 .. n - 1 : i < j => S[i] < S[j]
  BY <1>1, <1>4, <1>6 DEF Slots
<1>8. \A k \in 1 .. n : k # b => \E i \in 1 .. n - 1 : S[i] = k
  <2> SUFFICES ASSUME NEW k \in 1 .. n, k # b PROVE \E i \in 1 .. n - 1 : S[i] = k
    OBVIOUS
  <2>1. CASE k < b
    <3>1. k \in 1 .. n - 1 /\ S[k] = k
      BY <1>1, <1>6, <2>1
    <3> QED BY <3>1
  <2>2. CASE k > b
    <3>1. k - 1 \in 1 .. n - 1 /\ S[k - 1] = k
      BY <1>1, <1>6, <2>2
    <3> QED BY <3>1
  <2> QED BY <1>1, <2>1, <2>2
<1>9. Good(m2, n - 1)
  <2>1. n - 1 \in 0 .. MapSize
    BY <1>1
  <2>2. \A i \in 1 .. n - 1 : /\ m2[i].m_size > 0 /\ m2[i].m_addr > 0
                              /\ m2[i].m_addr + m2[i].m_size <= Units + 1
    BY <1>7 DEF Good
  <2>3. \A i, j \in 1 .. n - 1 : i < j => m2[i].m_addr + m2[i].m_size < m2[j].m_addr
    BY <1>7 DEF Good
  <2> QED BY <1>3, <1>5, <2>1, <2>2, <2>3 DEF Good
<1>10. ASSUME NEW u \in Nat PROVE Has(m2, n - 1, u) <=> Has(m, n, u) /\ ~In(m, b, u)
  <2>1. \A i \in 1 .. n - 1 : In(m2, i, u) <=> In(m, S[i], u)
    BY <1>7 DEF In
  <2>2. Has(m2, n - 1, u) <=> \E i \in 1 .. n - 1 : In(m2, i, u)
    BY DEF Has, In
  <2>3. Has(m, n, u) <=> \E i \in 1 .. n : In(m, i, u)
    BY DEF Has, In
  <2>4. \A i \in 1 .. n : In(m, b, u) /\ In(m, i, u) => i = b
    BY Once
  <2> HIDE DEF In
  <2>5. ASSUME Has(m2, n - 1, u) PROVE Has(m, n, u) /\ ~In(m, b, u)
    BY <1>7, <2>1, <2>2, <2>3, <2>4, <2>5
  <2>6. ASSUME Has(m, n, u), ~In(m, b, u) PROVE Has(m2, n - 1, u)
    <3>1. PICK k \in 1 .. n : In(m, k, u) /\ k # b
      BY <2>3, <2>6
    <3>2. PICK i \in 1 .. n - 1 : S[i] = k
      BY <1>8, <3>1
    <3> QED BY <2>1, <2>2, <3>1, <3>2
  <2> QED BY <2>5, <2>6
<1> QED BY <1>1, <1>9, <1>10

\* An entry is put in, those from its place on move up.
LEMMA InsertGood ==
  ASSUME NEW m, NEW n, Good(m, n), NEW b \in 1 .. n + 1, n + 1 \in Slots,
         NEW x, NEW s, Clear(m, n, b, b, x, s),
         NEW m2, m2 = [i \in Slots |-> CASE i = b -> [m_addr |-> x, m_size |-> s]
                                         [] i \in b + 1 .. n + 1 -> m[i - 1]
                                         [] OTHER -> m[i]]
  PROVE  /\ Good(m2, n + 1)
         /\ \A u \in Nat : Has(m2, n + 1, u) <=> Has(m, n, u) \/ (x <= u /\ u < x + s)
<1>a. /\ x \in Nat /\ s \in Nat /\ x > 0 /\ s > 0 /\ x + s <= Units + 1
      /\ \A i \in 1 .. n : i < b => m[i].m_addr + m[i].m_size < x
      /\ \A i \in 1 .. n : i >= b => x + s < m[i].m_addr
  BY DEF Clear
<1>1. /\ n \in Nat /\ MapSize \in Nat /\ Units \in Nat /\ b \in Nat /\ n + 1 <= MapSize
      /\ m \in [Slots -> Entry] /\ 1 .. n \subseteq Slots /\ 1 .. n + 1 \subseteq Slots
  <2>1. n \in Nat /\ MapSize \in Nat /\ Units \in Nat /\ 1 .. n \subseteq Slots
    BY EntryFacts
  <2>2. n + 1 <= MapSize /\ 1 .. n + 1 \subseteq Slots
    BY <2>1 DEF Slots
  <2> QED BY <2>1, <2>2 DEF Good
<1>2. \A i \in b + 1 .. n + 1 : i - 1 \in Slots
  BY <1>1 DEF Slots
<1>3. [m_addr |-> x, m_size |-> s] \in Entry
  BY <1>1, <1>a DEF Entry
<1>4. m2 \in [Slots -> Entry]
  BY <1>1, <1>2, <1>3
<1>5. /\ b \in Slots /\ m2[b].m_addr = x /\ m2[b].m_size = s
      /\ \A i \in Slots : i < b => m2[i] = m[i]
      /\ \A i \in Slots : i > b /\ i <= n + 1 => m2[i] = m[i - 1]
      /\ \A i \in Slots : i > n + 1 => m2[i] = m[i]
  BY <1>1 DEF Slots
<1>6. \A i \in Slots : i > n + 1 => m2[i].m_size = 0
  <2>1. \A i \in Slots : i > n + 1 => i > n
    BY <1>1 DEF Slots
  <2> QED BY <1>5, <2>1 DEF Good
<1>7. PICK S : S = [i \in 1 .. n + 1 |-> IF i < b THEN i ELSE i - 1]
  OBVIOUS
<1>8. /\ \A i \in 1 .. n + 1 : i # b => S[i] \in 1 .. n /\ m2[i] = m[S[i]]
      /\ \A i \in 1 .. n + 1 : i < b => S[i] < b
      /\ \A i \in 1 .. n + 1 : i > b => S[i] >= b
      /\ \A i, j \in 1 .. n + 1 : i # b /\ j # b /\ i < j => S[i] < S[j]
  BY <1>1, <1>5, <1>7 DEF Slots
<1>9. \A k \in 1 .. n : \E i \in 1 .. n + 1 : i # b /\ S[i] = k
  <2> SUFFICES ASSUME NEW k \in 1 .. n PROVE \E i \in 1 .. n + 1 : i # b /\ S[i] = k
    OBVIOUS
  <2>1. CASE k < b
    <3>1. k \in 1 .. n + 1 /\ k # b /\ S[k] = k
      BY <1>1, <1>7, <2>1
    <3> QED BY <3>1
  <2>2. CASE k >= b
    <3>1. k + 1 \in 1 .. n + 1 /\ k + 1 # b /\ S[k + 1] = k
      BY <1>1, <1>7, <2>2
    <3> QED BY <3>1
  <2> QED BY <1>1, <2>1, <2>2
<1>10. Good(m2, n + 1)
  <2>1. n + 1 \in 0 .. MapSize
    BY <1>1
  <2>2. \A i \in 1 .. n + 1 : /\ m2[i].m_size > 0 /\ m2[i].m_addr > 0
                              /\ m2[i].m_addr + m2[i].m_size <= Units + 1
    BY <1>a, <1>5, <1>8 DEF Good
  <2>3. ASSUME NEW i \in 1 .. n + 1, NEW j \in 1 .. n + 1, i < j
        PROVE  m2[i].m_addr + m2[i].m_size < m2[j].m_addr
    <3>1. CASE i = b
      <4>1. j > b /\ j # b
        BY <1>1, <2>3, <3>1
      <4> QED BY <1>a, <1>5, <1>8, <3>1, <4>1
    <3>2. CASE j = b
      <4>1. i < b /\ i # b
        BY <1>1, <2>3, <3>2
      <4> QED BY <1>a, <1>5, <1>8, <3>2, <4>1
    <3>3. CASE i # b /\ j # b
      BY <1>8, <2>3, <3>3 DEF Good
    <3> QED BY <3>1, <3>2, <3>3
  <2> QED BY <1>4, <1>6, <2>1, <2>2, <2>3 DEF Good
<1>11. ASSUME NEW u \in Nat
       PROVE  Has(m2, n + 1, u) <=> Has(m, n, u) \/ (x <= u /\ u < x + s)
  <2>1. \A i \in 1 .. n + 1 : i # b => (In(m2, i, u) <=> In(m, S[i], u))
    BY <1>8 DEF In
  <2>2. In(m2, b, u) <=> x <= u /\ u < x + s
    BY <1>5 DEF In
  <2>3. Has(m2, n + 1, u) <=> \E i \in 1 .. n + 1 : In(m2, i, u)
    BY DEF Has, In
  <2>4. Has(m, n, u) <=> \E i \in 1 .. n : In(m, i, u)
    BY DEF Has, In
  <2> HIDE DEF In
  <2>5. ASSUME Has(m2, n + 1, u) PROVE Has(m, n, u) \/ (x <= u /\ u < x + s)
    BY <1>8, <2>1, <2>2, <2>3, <2>4, <2>5
  <2>6. ASSUME Has(m, n, u) PROVE Has(m2, n + 1, u)
    <3>1. PICK k \in 1 .. n : In(m, k, u)
      BY <2>4, <2>6
    <3>2. PICK i \in 1 .. n + 1 : i # b /\ S[i] = k
      BY <1>9, <3>1
    <3> QED BY <2>1, <2>3, <3>1, <3>2
  <2>7. ASSUME x <= u /\ u < x + s PROVE Has(m2, n + 1, u)
    BY <1>1, <2>2, <2>3, <2>7
  <2> QED BY <2>5, <2>6, <2>7
<1> QED BY <1>10, <1>11
-----------------------------------------------------------------------------
(* malloc                                                                  *)

\* malloc() takes the space it returns out of the map.
LEMMA MallocGood ==
  ASSUME NEW n \in Nat, Good(map, n), NEW size \in Sizes, malloc(size)
  PROVE  \E k \in Nat, x \in 1 .. Units :
           /\ Good(map', k)
           /\ size \in 1 .. Units /\ x + size <= Units + 1
           /\ busy' = busy \cup {[a |-> x, size |-> size]}
           /\ \A u \in Nat : x <= u /\ u < x + size => Has(map, n, u)
           /\ \A u \in Nat : Has(map', k, u) <=> Has(map, n, u) /\ ~(x <= u /\ u < x + size)
<1>1. size \in Nat /\ size > 0 /\ Units \in Nat
  BY MallocAssumption
<1>2. Live = 1 .. n
  BY LiveIs
<1>3. Fits(size) \subseteq 1 .. n /\ Fits(size) # {} /\ Fits(size) \subseteq Nat
  BY <1>2 DEF Fits, malloc
<1>4. PICK b \in Fits(size) : b = Least(Fits(size))
  BY <1>3, LeastMember
<1>5. b \in 1 .. n /\ map[b].m_size >= size
  BY <1>3, <1>4 DEF Fits
<1>6. PICK x \in Nat, s \in Nat : /\ x = map[b].m_addr /\ s = map[b].m_size
                                  /\ x > 0 /\ s >= size /\ x + s <= Units + 1
  BY <1>5, EntryFacts DEF Good
<1>7. busy' = busy \cup {[a |-> x, size |-> size]}
  BY <1>4, <1>6 DEF malloc
<1>8. x \in 1 .. Units /\ size \in 1 .. Units /\ x + size <= Units + 1
  BY <1>1, <1>6
<1>9. \A u \in Nat : In(map, b, u) <=> x <= u /\ u < x + s
  BY <1>6 DEF In
<1>10. \A u \in Nat : In(map, b, u) => Has(map, n, u)
  BY <1>5 DEF In, Has
<1>11. \A u \in Nat : x <= u /\ u < x + size => Has(map, n, u)
  BY <1>1, <1>6, <1>9, <1>10
<1>12. CASE s = size /\ map' = Remove(b) /\ InArray(b + 1)
  <2>1. Least(Zeros(b + 1)) = n + 1 /\ n + 1 \in Slots
    BY <1>5, <1>12, Loops
  <2>2. map' = [i \in Slots |-> IF i \in b .. n THEN map[i + 1] ELSE map[i]]
    <3>1. (n + 1) - 1 = n
      OBVIOUS
    <3> QED BY <1>12, <2>1, <3>1 DEF Remove
  <2>3. /\ Good(map', n - 1) /\ n - 1 \in Nat
        /\ \A u \in Nat : Has(map', n - 1, u) <=> Has(map, n, u) /\ ~In(map, b, u)
    BY <1>5, <2>1, <2>2, RemoveGood
  <2> QED BY <1>7, <1>8, <1>9, <1>11, <1>12, <2>3
<1>13. CASE s > size /\ map' = Cut(b, size)
  <2>1. map' = [map EXCEPT ![b] = [m_addr |-> x + size, m_size |-> s - size]]
    BY <1>6, <1>13 DEF Cut
  <2>2. /\ x + size \in Nat /\ s - size \in Nat /\ x + size > 0 /\ s - size > 0
        /\ (x + size) + (s - size) = x + s
    BY <1>1, <1>6, <1>13
  <2>3. \A i \in 1 .. n : /\ i < b => map[i].m_addr + map[i].m_size < x
                          /\ i > b => x + s < map[i].m_addr
                          /\ map[i].m_addr \in Nat /\ map[i].m_size \in Nat
    BY <1>5, <1>6, EntryFacts DEF Good
  <2>6. PICK y \in Nat, t \in Nat : y = x + size /\ t = s - size
    BY <2>2
  <2>5. Clear(map, n, b, b + 1, y, t)
    BY <1>1, <1>5, <1>6, <2>2, <2>3, <2>6 DEF Clear
  <2>7. /\ Good(map', n)
        /\ \A u \in Nat : Has(map', n, u) <=> (Has(map, n, u) /\ ~In(map, b, u)) \/ (y <= u /\ u < y + t)
    <3>1. map' = Changed(map, b, y, t)
      BY <2>1, <2>6 DEF Changed
    <3> QED BY <1>5, <2>5, <3>1, ChangeGood
  <2>8. ASSUME NEW u \in Nat
        PROVE  Has(map', n, u) <=> Has(map, n, u) /\ ~(x <= u /\ u < x + size)
    <3>1. y <= u /\ u < y + t <=> In(map, b, u) /\ ~(x <= u /\ u < x + size)
      BY <1>1, <1>6, <1>9, <2>2, <2>6
    <3>2. x <= u /\ u < x + size => In(map, b, u)
      BY <1>1, <1>6, <1>9
    <3> QED BY <1>10, <2>7, <3>1, <3>2
  <2> QED BY <1>7, <1>8, <1>11, <2>7, <2>8
<1> QED BY <1>4, <1>6, <1>12, <1>13 DEF malloc

-----------------------------------------------------------------------------
(* mfree                                                                   *)

\* mfree() of nothing changes nothing, as long as the unit before is not in
\* the map.
LEMMA FreeNothing ==
  ASSUME NEW n \in Nat, Good(map, n), NEW a \in Nat, a > 0, ~Has(map, n, a - 1), mfree(0, a)
  PROVE  map' = map
<1>2. PICK b \in 1 .. n + 1 : b = Place(a) /\ b \in Slots
  BY Placed DEF mfree
<1>3. ~JoinsBelow(b, a)
  <2> SUFFICES ASSUME b > 1, map[b - 1].m_addr + map[b - 1].m_size = a PROVE FALSE
    BY DEF JoinsBelow
  <2>1. PICK c \in 1 .. n : c = b - 1
    OBVIOUS
  <2>2. map[c].m_addr \in Nat /\ map[c].m_size \in Nat /\ map[c].m_size > 0
    BY EntryFacts DEF Good
  <2>3. map[c].m_addr <= a - 1 /\ a - 1 < map[c].m_addr + map[c].m_size
    BY <2>1, <2>2
  <2> QED BY <2>3 DEF Has
<1>4. CASE a + 0 = map[b].m_addr /\ map[b].m_size # 0
  <2>1. map' = FreeAbove(b, a, 0)
    BY <1>2, <1>3, <1>4 DEF mfree, JoinsAbove
  <2>2. b \in Slots
    BY <1>2
  <2>3. map[b].m_addr \in Nat /\ map[b].m_size \in Nat /\ map[b] = [m_addr |-> map[b].m_addr, m_size |-> map[b].m_size]
    BY <2>2, EntryFacts
  <2>4. map[b].m_addr - 0 = map[b].m_addr /\ map[b].m_size + 0 = map[b].m_size
    BY <2>3
  <2>5. map' = [map EXCEPT ![b] = map[b]]
    BY <2>1, <2>3, <2>4 DEF FreeAbove
  <2>6. map \in [Slots -> Entry]
    BY DEF Good
  <2> QED BY <2>2, <2>5, <2>6
<1>5. CASE ~(a + 0 = map[b].m_addr /\ map[b].m_size # 0)
  BY <1>2, <1>3, <1>5 DEF mfree, JoinsAbove
<1> QED BY <1>4, <1>5

\* mfree() puts the space into the map: joined below, joined above, joined on
\* both ends or as an entry of its own.
LEMMA MfreeGood ==
  ASSUME NEW n \in Nat, Good(map, n), NEW a \in Nat, NEW size \in Nat, a > 0, size > 0,
         a + size <= Units + 1, \A u \in Nat : a <= u /\ u < a + size => ~Has(map, n, u),
         mfree(size, a)
  PROVE  \E k \in Nat : /\ Good(map', k)
                        /\ \A u \in Nat : Has(map', k, u) <=> Has(map, n, u) \/ (a <= u /\ u < a + size)
<1>1. Units \in Nat /\ Stops(a) # {}
  BY MallocAssumption DEF mfree
<1>3. PICK b \in 1 .. n + 1 :
        /\ b = Place(a) /\ b \in Slots
        /\ \A i \in 1 .. n : i < b => map[i].m_addr <= a
        /\ b <= n => map[b].m_addr > a
  BY <1>1, Placed
<1>2. /\ Moves(b, a, size) => InArray(b)
      /\ InArray(b) => n + 1 \in Slots /\ Least(Zeros(b)) = n + 1
  BY <1>3, Loops DEF mfree
<1>4. /\ \A i \in 1 .. n : /\ map[i].m_addr \in Nat /\ map[i].m_size \in Nat
                           /\ map[i].m_size > 0 /\ map[i].m_addr > 0
                           /\ map[i].m_addr + map[i].m_size <= Units + 1
      /\ \A i, j \in 1 .. n : i < j => map[i].m_addr + map[i].m_size < map[j].m_addr
  BY EntryFacts DEF Good
<1>5. \A i \in 1 .. n : i < b => map[i].m_addr + map[i].m_size <= a
  <2> SUFFICES ASSUME NEW i \in 1 .. n, i < b, ~(map[i].m_addr + map[i].m_size <= a) PROVE FALSE
    OBVIOUS
  <2>1. map[i].m_addr <= a /\ a < map[i].m_addr + map[i].m_size
    BY <1>3, <1>4
  <2>2. Has(map, n, a)
    BY <2>1 DEF Has
  <2> QED BY <2>2
<1>6. b <= n => map[b].m_addr >= a + size
  <2> SUFFICES ASSUME b <= n, ~(map[b].m_addr >= a + size) PROVE FALSE
    OBVIOUS
  <2>1. b \in 1 .. n
    OBVIOUS
  <2>2. PICK u \in Nat : u = map[b].m_addr
    BY <1>4, <2>1
  <2>3. a <= u /\ u < a + size
    BY <1>3, <2>2
  <2>4. Has(map, n, u)
    BY <1>4, <2>1, <2>2 DEF Has
  <2> QED BY <2>3, <2>4
<1>7. \A i \in 1 .. n : i > b => map[i].m_addr > a + size
  <2> SUFFICES ASSUME NEW i \in 1 .. n, i > b PROVE map[i].m_addr > a + size
    OBVIOUS
  <2>1. b \in 1 .. n /\ b <= n
    OBVIOUS
  <2>2. map[b].m_addr + map[b].m_size < map[i].m_addr
    BY <1>4, <2>1
  <2> QED BY <1>4, <1>6, <2>1, <2>2
<1>b. ASSUME ~JoinsBelow(b, a), NEW i \in 1 .. n, i < b PROVE map[i].m_addr + map[i].m_size < a
  <2>1. b \in Nat /\ b - 1 \in 1 .. n
    BY <1>3, <1>b
  <2>2. map[b - 1].m_addr + map[b - 1].m_size # a
    BY <1>b, <2>1 DEF JoinsBelow
  <2>3. CASE i = b - 1
    BY <1>4, <1>5, <1>b, <2>2, <2>3, SMTT(30)
  <2>4. CASE i < b - 1
    <3>1. map[i].m_addr + map[i].m_size < map[b - 1].m_addr
      BY <1>4, <2>1, <2>4
    <3>2. map[b - 1].m_addr <= a
      BY <1>3, <2>1
    <3> QED BY <1>4, <1>b, <2>1, <3>1, <3>2
  <2> QED BY <1>b, <2>1, <2>3, <2>4
<1>8. ASSUME NEW c \in 1 .. n, c = b - 1, map[c].m_addr + map[c].m_size = a, JoinsBelow(b, a),
             map' = FreeBelow(b, a, size)
      PROVE  \E k \in Nat : /\ Good(map', k)
                            /\ \A u \in Nat : Has(map', k, u) <=> Has(map, n, u) \/ (a <= u /\ u < a + size)
  <2>1. PICK x \in Nat, s \in Nat : /\ x = map[c].m_addr /\ s = map[c].m_size
                                    /\ x > 0 /\ s > 0 /\ x + s = a
    BY <1>4, <1>8
  <2>2. \A u \in Nat : In(map, c, u) <=> x <= u /\ u < a
    BY <2>1 DEF In
  <2>3. \A u \in Nat : In(map, c, u) => Has(map, n, u)
    BY DEF In, Has
  <2>4. \A i \in 1 .. n : i < c => map[i].m_addr + map[i].m_size < x
    BY <1>4, <2>1
  <2>5. /\ a + size = map[b].m_addr => Least(Zeros(b)) = n + 1 /\ n + 1 \in Slots
        /\ (n + 1) - 1 = n
    BY <1>2, <1>8 DEF Moves
  <2>6. map \in [Slots -> Entry] /\ 1 .. n \subseteq Slots
    BY EntryFacts DEF Good
  <2>7. CASE a + size = map[b].m_addr /\ b <= n
    <3>1. b \in 1 .. n
      BY <2>7
    <3>2. PICK t \in Nat : t = map[b].m_size /\ t > 0 /\ (a + size) + t <= Units + 1
      BY <1>4, <2>7, <3>1
    <3> DEFINE m1 == [i \in Slots |-> IF i \in b .. n THEN map[i + 1] ELSE map[i]]
    <3>3. /\ Good(m1, n - 1) /\ n - 1 \in Nat
          /\ \A u \in Nat : Has(m1, n - 1, u) <=> Has(map, n, u) /\ ~In(map, b, u)
      BY <2>5, <2>7, <3>1, RemoveGood
    <3>4. /\ \A i \in Slots : i < b => m1[i] = map[i]
          /\ \A i \in Slots : i >= b /\ i <= n => m1[i] = map[i + 1]
      BY DEF Slots
    <3>5. map' = [m1 EXCEPT ![c] = [m_addr |-> x, m_size |-> s + size + t]]
      <4>1. map' = [i \in Slots |->
                      CASE i = c -> [m_addr |-> map[i].m_addr, m_size |-> map[i].m_size + size + t]
                        [] i \in b .. n -> map[i + 1]
                        [] OTHER -> map[i]]
        BY <1>8, <2>5, <2>7, <3>2 DEF FreeBelow
      <4>2. c \notin b .. n
        BY <1>8
      <4> QED BY <2>1, <4>1, <4>2
    <3> HIDE DEF m1
    <3>6. c \in 1 .. n - 1 /\ c \in Slots
      BY <1>8, <2>6, <3>1
    <3>7. PICK z \in Nat : z = s + size + t /\ z > 0 /\ x + z = (a + size) + t
      BY <2>1, <3>2
    <3>8. \A i \in 1 .. n - 1 : i < c => m1[i].m_addr + m1[i].m_size < x
      <4> SUFFICES ASSUME NEW i \in 1 .. n - 1, i < c PROVE m1[i].m_addr + m1[i].m_size < x
        OBVIOUS
      <4>1. i \in 1 .. n /\ i < b /\ i \in Slots
        BY <1>8, <2>6
      <4> QED BY <2>4, <3>4, <4>1
    <3>9. \A i \in 1 .. n - 1 : i > c => x + z < m1[i].m_addr
      <4> SUFFICES ASSUME NEW i \in 1 .. n - 1, i > c PROVE x + z < m1[i].m_addr
        OBVIOUS
      <4>1. i + 1 \in 1 .. n /\ i + 1 > b /\ i \in Slots /\ i >= b /\ i <= n
        BY <1>8, <2>6
      <4>2. map[b].m_addr + map[b].m_size < map[i + 1].m_addr
        BY <1>4, <3>1, <4>1
      <4>3. m1[i] = map[i + 1]
        BY <3>4, <4>1
      <4> QED BY <2>7, <3>2, <3>7, <4>2, <4>3
    <3>10. In(m1, c, 0) \in BOOLEAN /\ \A u \in Nat : In(m1, c, u) <=> In(map, c, u)
      BY <1>8, <3>4, <3>6 DEF In
    <3>11. /\ Good(map', n - 1)
           /\ \A u \in Nat : Has(map', n - 1, u) <=>
                (Has(m1, n - 1, u) /\ ~In(m1, c, u)) \/ (x <= u /\ u < x + z)
      <4>1. Clear(m1, n - 1, c, c + 1, x, z)
        BY <2>1, <3>2, <3>6, <3>7, <3>8, <3>9 DEF Clear
      <4>2. map' = Changed(m1, c, x, z)
        BY <3>5, <3>7 DEF Changed
      <4> QED BY <3>3, <3>6, <4>1, <4>2, ChangeGood
    <3>12. \A u \in Nat : In(map, b, u) <=> a + size <= u /\ u < (a + size) + t
      BY <2>7, <3>2 DEF In
    <3>13. \A u \in Nat : In(map, b, u) => Has(map, n, u)
      BY <3>1 DEF In, Has
    <3>14. ASSUME NEW u \in Nat PROVE Has(map', n - 1, u) <=> Has(map, n, u) \/ (a <= u /\ u < a + size)
      <4>1. x <= u /\ u < x + z <=> In(map, c, u) \/ (a <= u /\ u < a + size) \/ In(map, b, u)
        BY <2>1, <2>2, <3>2, <3>7, <3>12
      <4> QED BY <2>3, <3>3, <3>10, <3>11, <3>13, <4>1
    <3> QED BY <3>3, <3>11, <3>14
  <2>8. CASE ~(a + size = map[b].m_addr /\ b <= n)
    <3>1. PICK z \in Nat : z = s + size /\ z > 0 /\ x + z = a + size
      BY <2>1
    <3>2. map' = [map EXCEPT ![c] = [m_addr |-> x, m_size |-> z]]
      <4>1. c \in Slots /\ map[c] = [m_addr |-> x, m_size |-> s]
        BY <2>1, <2>6, EntryFacts
      <4>2. [map EXCEPT ![c].m_size = map[c].m_size + size] = [map EXCEPT ![c] = [m_addr |-> x, m_size |-> z]]
        <5>1. [map[c] EXCEPT !.m_size = map[c].m_size + size] = [m_addr |-> x, m_size |-> z]
          BY <2>1, <3>1, <4>1
        <5> QED BY <5>1
      <4>3. CASE a + size # map[b].m_addr
        BY <1>8, <4>2, <4>3 DEF FreeBelow
      <4>4. CASE a + size = map[b].m_addr
        <5>1. b = n + 1 /\ map[b].m_size = 0
          BY <1>3, <2>8, <4>4 DEF Good
        <5>2. map' = [i \in Slots |->
                        CASE i = c -> [m_addr |-> map[i].m_addr, m_size |-> map[i].m_size + size + 0]
                          [] i \in b .. n -> map[i + 1]
                          [] OTHER -> map[i]]
          BY <1>8, <2>5, <4>4, <5>1 DEF FreeBelow
        <5>3. b .. n = {}
          BY <5>1
        <5>4. map[c].m_size + size + 0 = z
          BY <2>1, <3>1
        <5> QED BY <2>1, <2>6, <4>1, <5>2, <5>3, <5>4
      <4> QED BY <4>3, <4>4
    <3>3. \A i \in 1 .. n : i > c => x + z < map[i].m_addr
      <4> SUFFICES ASSUME NEW i \in 1 .. n, i > c PROVE a + size < map[i].m_addr
        BY <3>1
      <4>1. CASE i = b
        BY <1>4, <1>6, <2>8, <4>1
      <4>2. CASE i > b
        BY <1>7, <4>2
      <4> QED BY <1>8, <4>1, <4>2
    <3>4. /\ Good(map', n)
          /\ \A u \in Nat : Has(map', n, u) <=> (Has(map, n, u) /\ ~In(map, c, u)) \/ (x <= u /\ u < x + z)
      <4>1. Clear(map, n, c, c + 1, x, z)
        BY <2>1, <2>4, <3>1, <3>3 DEF Clear
      <4>2. map' = Changed(map, c, x, z)
        BY <3>2 DEF Changed
      <4> QED BY <4>1, <4>2, ChangeGood
    <3>5. ASSUME NEW u \in Nat PROVE Has(map', n, u) <=> Has(map, n, u) \/ (a <= u /\ u < a + size)
      <4>1. x <= u /\ u < x + z <=> In(map, c, u) \/ (a <= u /\ u < a + size)
        BY <2>1, <2>2, <3>1
      <4> QED BY <2>3, <3>4, <4>1
    <3> QED BY <3>4, <3>5
  <2> QED BY <2>7, <2>8
<1>9. ASSUME b <= n, a + size = map[b].m_addr, ~JoinsBelow(b, a), map' = FreeAbove(b, a, size)
      PROVE  \E k \in Nat : /\ Good(map', k)
                            /\ \A u \in Nat : Has(map', k, u) <=> Has(map, n, u) \/ (a <= u /\ u < a + size)
  <2>1. b \in 1 .. n
    BY <1>9
  <2>2. PICK t \in Nat : t = map[b].m_size /\ t > 0 /\ (a + size) + t <= Units + 1
    BY <1>4, <1>9, <2>1
  <2>3. PICK z \in Nat : z = t + size /\ z > 0 /\ a + z = (a + size) + t
    BY <2>2
  <2>4. map' = [map EXCEPT ![b] = [m_addr |-> a, m_size |-> z]]
    <3>1. map[b].m_addr - size = a /\ map[b].m_size + size = z
      BY <1>9, <2>2, <2>3
    <3> QED BY <1>9, <3>1 DEF FreeAbove
  <2>5. \A i \in 1 .. n : i < b => map[i].m_addr + map[i].m_size < a
    BY <1>b, <1>9
  <2>6. \A i \in 1 .. n : i > b => a + z < map[i].m_addr
    BY <1>4, <1>9, <2>1, <2>2, <2>3
  <2>7. /\ Good(map', n)
        /\ \A u \in Nat : Has(map', n, u) <=> (Has(map, n, u) /\ ~In(map, b, u)) \/ (a <= u /\ u < a + z)
    <3>1. Clear(map, n, b, b + 1, a, z)
      BY <2>1, <2>2, <2>3, <2>5, <2>6 DEF Clear
    <3>2. map' = Changed(map, b, a, z)
      BY <2>4 DEF Changed
    <3> QED BY <2>1, <3>1, <3>2, ChangeGood
  <2>8. \A u \in Nat : In(map, b, u) <=> a + size <= u /\ u < (a + size) + t
    BY <1>9, <2>2 DEF In
  <2>9. \A u \in Nat : In(map, b, u) => Has(map, n, u)
    BY <2>1 DEF In, Has
  <2>10. ASSUME NEW u \in Nat PROVE Has(map', n, u) <=> Has(map, n, u) \/ (a <= u /\ u < a + size)
    <3>1. a <= u /\ u < a + z <=> (a <= u /\ u < a + size) \/ In(map, b, u)
      BY <2>2, <2>3, <2>8
    <3> QED BY <2>7, <2>9, <3>1
  <2> QED BY <2>7, <2>10
<1>10. ASSUME b <= n => a + size # map[b].m_addr, ~JoinsBelow(b, a), ~JoinsAbove(b, a, size),
              map' = Insert(b, a, size)
       PROVE  \E k \in Nat : /\ Good(map', k)
                             /\ \A u \in Nat : Has(map', k, u) <=> Has(map, n, u) \/ (a <= u /\ u < a + size)
  <2>0. Least(Zeros(b)) = n + 1 /\ n + 1 \in Slots
    BY <1>2, <1>10 DEF Moves
  <2>1. map' = [i \in Slots |-> CASE i = b -> [m_addr |-> a, m_size |-> size]
                                  [] i \in b + 1 .. n + 1 -> map[i - 1]
                                  [] OTHER -> map[i]]
    BY <1>10, <2>0 DEF Insert
  <2>2. \A i \in 1 .. n : i < b => map[i].m_addr + map[i].m_size < a
    BY <1>b, <1>10
  <2>3. \A i \in 1 .. n : i >= b => a + size < map[i].m_addr
    <3> SUFFICES ASSUME NEW i \in 1 .. n, i >= b PROVE a + size < map[i].m_addr
      OBVIOUS
    <3>1. CASE i = b
      BY <1>4, <1>6, <1>10, <3>1
    <3>2. CASE i > b
      BY <1>7, <3>2
    <3> QED BY <3>1, <3>2
  <2>4. /\ Good(map', n + 1)
        /\ \A u \in Nat : Has(map', n + 1, u) <=> Has(map, n, u) \/ (a <= u /\ u < a + size)
    <3>1. Clear(map, n, b, b, a, size)
      BY <2>2, <2>3 DEF Clear
    <3> QED BY <2>0, <2>1, <3>1, InsertGood
  <2> QED BY <2>4
<1>11. b \in 1 .. n \/ (b = n + 1 /\ map[b].m_size = 0)
  BY <1>3 DEF Good
<1>12. CASE JoinsBelow(b, a)
  <2>1. map' = FreeBelow(b, a, size)
    BY <1>3, <1>12 DEF mfree
  <2>2. PICK c \in 1 .. n : c = b - 1
    BY <1>12 DEF JoinsBelow
  <2> QED BY <1>8, <1>12, <2>1, <2>2 DEF JoinsBelow
<1>13. CASE ~JoinsBelow(b, a) /\ a + size = map[b].m_addr /\ map[b].m_size # 0
  <2>1. map' = FreeAbove(b, a, size)
    BY <1>3, <1>13 DEF mfree, JoinsAbove
  <2> QED BY <1>9, <1>11, <1>13, <2>1
<1>14. CASE ~JoinsBelow(b, a) /\ ~(a + size = map[b].m_addr /\ map[b].m_size # 0)
  <2>1. map' = Insert(b, a, size)
    BY <1>3, <1>14 DEF mfree, JoinsAbove
  <2>2. b <= n => a + size # map[b].m_addr
    BY <1>4, <1>14
  <2> QED BY <1>10, <1>14, <2>1, <2>2 DEF JoinsAbove
<1> QED BY <1>12, <1>13, <1>14
-----------------------------------------------------------------------------
(* The invariant.                                                          *)

\* malloc() keeps it: what was in the map is allocated.
LEMMA MallocStep ==
  ASSUME IInv, NEW size \in Sizes, malloc(size)
  PROVE  IInv'
<1>1. PICK n \in Nat : Good(map, n) /\ Shared(n)
  BY DEF IInv
<1>2. PICK k \in Nat, x \in 1 .. Units :
        /\ Good(map', k)
        /\ size \in 1 .. Units /\ x + size <= Units + 1
        /\ busy' = busy \cup {[a |-> x, size |-> size]}
        /\ \A u \in Nat : x <= u /\ u < x + size => Has(map, n, u)
        /\ \A u \in Nat : Has(map', k, u) <=> Has(map, n, u) /\ ~(x <= u /\ u < x + size)
  BY <1>1, MallocGood
<1>3. /\ busy \subseteq [a : 1 .. Units, size : 1 .. Units] /\ Units \in Nat
      /\ \A r, s \in busy : r # s => r.a + r.size <= s.a \/ s.a + s.size <= r.a
      /\ \A u \in Nat : ~(Has(map, n, u) /\ Held(u))
      /\ \A u \in Nat : Has(map, n, u) \/ Held(u) <=> u \in 1 .. Units
  BY <1>1, MallocAssumption DEF Shared
<1>4. PICK r0 : r0 = [a |-> x, size |-> size]
  OBVIOUS
<1>5. r0.a = x /\ r0.size = size /\ busy' = busy \cup {r0} /\ x \in Nat /\ size \in Nat /\ size > 0
  BY <1>2, <1>3, <1>4
<1>6. \A u \in Nat : Held(u)' <=> Held(u) \/ (x <= u /\ u < x + size)
  BY <1>5 DEF Held
<1>7. ASSUME NEW r \in busy PROVE r.a + r.size <= x \/ x + size <= r.a
  <2>1. r.a \in Nat /\ r.size \in Nat /\ r.size > 0
    BY <1>3
  <2>2. Held(x) => ~Has(map, n, x)
    BY <1>3, <1>5
  <2>3. ~(r.a <= x /\ x < r.a + r.size)
    <3>1. Has(map, n, x)
      BY <1>2, <1>5
    <3> QED BY <2>2, <3>1 DEF Held
  <2>4. ~(x <= r.a /\ r.a < x + size)
    <3>1. Held(r.a)
      BY <2>1 DEF Held
    <3>2. ~Has(map, n, r.a)
      BY <1>3, <2>1, <3>1
    <3> QED BY <1>2, <2>1, <3>2
  <2> QED BY <1>5, <2>1, <2>3, <2>4
<1>8. busy' \subseteq [a : 1 .. Units, size : 1 .. Units]
  BY <1>2, <1>3
<1>9. \A r, s \in busy' : r # s => r.a + r.size <= s.a \/ s.a + s.size <= r.a
  BY <1>3, <1>5, <1>7
<1>10. \A u \in Nat : ~(Has(map', k, u) /\ Held(u)')
  BY <1>2, <1>3, <1>6
<1>11. \A u \in Nat : Has(map', k, u) \/ Held(u)' <=> u \in 1 .. Units
  BY <1>2, <1>3, <1>6
<1>12. Shared(k)'
  BY <1>8, <1>9, <1>10, <1>11 DEF Shared
<1>13. lost' = FALSE
  BY DEF malloc, IInv
<1> QED BY <1>2, <1>12, <1>13 DEF IInv

\* mfree() keeps it: the end of what was allocated is in the map, the rest is
\* still allocated.
LEMMA FreeStep ==
  ASSUME IInv, NEW r \in busy, NEW size \in 0 .. r.size, Free(r, size)
  PROVE  IInv'
<1>1. PICK n \in Nat : Good(map, n) /\ Shared(n)
  BY DEF IInv
<1>2. /\ busy \subseteq [a : 1 .. Units, size : 1 .. Units] /\ Units \in Nat
      /\ \A q, s \in busy : q # s => q.a + q.size <= s.a \/ s.a + s.size <= q.a
      /\ \A u \in Nat : ~(Has(map, n, u) /\ Held(u))
      /\ \A u \in Nat : Has(map, n, u) \/ Held(u) <=> u \in 1 .. Units
  BY <1>1, MallocAssumption DEF Shared
<1>3. PICK x \in Nat, s \in Nat : x = r.a /\ s = r.size /\ x > 0 /\ s > 0 /\ r = [a |-> x, size |-> s]
  BY <1>2
<1>4. size \in Nat /\ size <= s
  BY <1>3
<1>5. \A u \in Nat : x <= u /\ u < x + s => Held(u)
  BY <1>3 DEF Held
<1>6. x + s <= Units + 1
  <2>1. PICK u \in Nat : u = x + s - 1
    BY <1>3
  <2>2. u \in 1 .. Units
    BY <1>2, <1>3, <1>5, <2>1
  <2> QED BY <1>2, <1>3, <2>1, <2>2
<1>7. PICK y \in Nat : y = x + s - size /\ y > 0 /\ y >= x /\ y + size = x + s
  BY <1>3, <1>4
<1>8. /\ mfree(size, y)
      /\ busy' = (busy \ {r}) \cup (IF size = s THEN {} ELSE {[a |-> x, size |-> s - size]})
  BY <1>3, <1>7 DEF Free
<1>9. \E k \in Nat : /\ Good(map', k)
                     /\ \A u \in Nat : Has(map', k, u) <=> Has(map, n, u) \/ (y <= u /\ u < y + size)
  <2>1. CASE size = 0
    <3>1. y - 1 \in Nat /\ x <= y - 1 /\ y - 1 < x + s
      BY <1>3, <1>7, <2>1
    <3>2. ~Has(map, n, y - 1)
      BY <1>2, <1>5, <3>1
    <3>3. map' = map
      BY <1>1, <1>7, <1>8, <2>1, <3>2, FreeNothing
    <3>4. \A u \in Nat : ~(y <= u /\ u < y + size)
      BY <2>1
    <3> QED BY <1>1, <3>3, <3>4
  <2>2. CASE size # 0
    <3>1. size > 0 /\ y + size <= Units + 1
      BY <1>4, <1>6, <1>7, <2>2
    <3>2. \A u \in Nat : y <= u /\ u < y + size => ~Has(map, n, u)
      BY <1>2, <1>3, <1>5, <1>7
    <3> QED BY <1>1, <1>4, <1>7, <1>8, <3>1, <3>2, MfreeGood
  <2> QED BY <2>1, <2>2
<1>10. PICK k \in Nat : /\ Good(map', k)
                        /\ \A u \in Nat : Has(map', k, u) <=> Has(map, n, u) \/ (y <= u /\ u < y + size)
  BY <1>9
<1>11. \A q \in busy : /\ q.a \in Nat /\ q.size \in Nat /\ q.size > 0
                       /\ q # r => q.a + q.size <= x \/ x + s <= q.a
  BY <1>2, <1>3
<1>12. PICK r1 : r1 = [a |-> x, size |-> s - size]
  OBVIOUS
<1>13. r1.a = x /\ r1.size = s - size
  BY <1>12
<1>14. /\ \A q \in busy' : (q \in busy /\ q # r) \/ (size # s /\ q = r1)
       /\ \A q \in busy : q # r => q \in busy'
       /\ size # s => r1 \in busy'
  BY <1>8, <1>12
<1>15. ASSUME NEW u \in Nat PROVE Held(u)' <=> Held(u) /\ ~(y <= u /\ u < y + size)
  <2>1. ASSUME Held(u)' PROVE Held(u) /\ ~(y <= u /\ u < y + size)
    <3>1. PICK q \in busy' : q.a <= u /\ u < q.a + q.size
      BY <2>1 DEF Held
    <3>2. CASE q \in busy /\ q # r
      <4>1. Held(u)
        BY <3>1, <3>2 DEF Held
      <4> QED BY <1>3, <1>4, <1>7, <1>11, <3>1, <3>2, <4>1
    <3>3. CASE size # s /\ q = r1
      <4>1. x <= u /\ u < x + (s - size)
        BY <1>13, <3>1, <3>3
      <4> QED BY <1>3, <1>4, <1>5, <1>7, <4>1
    <3> QED BY <1>14, <3>2, <3>3
  <2>2. ASSUME Held(u), ~(y <= u /\ u < y + size) PROVE Held(u)'
    <3>1. PICK q \in busy : q.a <= u /\ u < q.a + q.size
      BY <2>2 DEF Held
    <3>2. CASE q # r
      BY <1>14, <3>1, <3>2 DEF Held
    <3>3. CASE q = r
      <4>1. size # s /\ x <= u /\ u < x + (s - size)
        BY <1>3, <1>4, <1>7, <2>2, <3>1, <3>3
      <4> QED BY <1>13, <1>14, <4>1 DEF Held
    <3> QED BY <3>2, <3>3
  <2> QED BY <2>1, <2>2
<1>16. busy' \subseteq [a : 1 .. Units, size : 1 .. Units]
  <2>1. size # s => r1 \in [a : 1 .. Units, size : 1 .. Units]
    <3>1. size # s => x \in 1 .. Units /\ s - size \in 1 .. Units
      BY <1>2, <1>3, <1>4, <1>6
    <3> QED BY <1>12, <3>1
  <2> QED BY <1>2, <1>14, <2>1
<1>17. \A q, t \in busy' : q # t => q.a + q.size <= t.a \/ t.a + t.size <= q.a
  <2>1. \A q \in busy : q # r /\ size # s => q.a + q.size <= r1.a \/ r1.a + r1.size <= q.a
    BY <1>3, <1>4, <1>11, <1>13
  <2> QED BY <1>2, <1>14, <2>1
<1>18. \A u \in Nat : ~(Has(map', k, u) /\ Held(u)')
  BY <1>2, <1>10, <1>15
<1>19. \A u \in Nat : Has(map', k, u) \/ Held(u)' <=> u \in 1 .. Units
  <2> SUFFICES ASSUME NEW u \in Nat PROVE Has(map', k, u) \/ Held(u)' <=> u \in 1 .. Units
    OBVIOUS
  <2>1. y <= u /\ u < y + size => Held(u)
    BY <1>3, <1>5, <1>7
  <2> QED BY <1>2, <1>10, <1>15, <2>1
<1>20. Shared(k)'
  BY <1>16, <1>17, <1>18, <1>19 DEF Shared
<1>21. lost' = FALSE
  BY DEF Free, IInv
<1> QED BY <1>10, <1>20, <1>21 DEF IInv

\* A loop leaves the array only when there is no end in it.
LEMMA RunOffStep ==
  ASSUME IInv, RunOff
  PROVE  IInv'
<1>1. PICK n \in Nat : Good(map, n) /\ Shared(n)
  BY DEF IInv
<1>2. /\ \/ \E size \in Sizes : MallocOff(size)
         \/ \E r \in busy : \E size \in 0 .. r.size : MfreeOff(size, r.a + r.size - size)
      /\ lost' = TRUE /\ map' = map /\ busy' = busy
  BY DEF RunOff
<1>3. ASSUME n + 1 \in Slots PROVE FALSE
  <2>1. \A b \in 1 .. n + 1 : InArray(b)
    BY <1>1, <1>3, Loops
  <2>2. ASSUME NEW size \in Sizes PROVE ~MallocOff(size)
    <3>1. Live = 1 .. n
      BY <1>1, LiveIs
    <3>2. Fits(size) \subseteq 1 .. n /\ Fits(size) \subseteq Nat
      BY <3>1 DEF Fits
    <3>3. Fits(size) # {} => Least(Fits(size)) \in 1 .. n
      BY <3>2, LeastMember
    <3>4. 1 \in 1 .. n + 1 /\ \A b \in 1 .. n : b + 1 \in 1 .. n + 1
      OBVIOUS
    <3> QED BY <2>1, <3>3, <3>4 DEF MallocOff
  <2>3. ASSUME NEW r \in busy, NEW size \in 0 .. r.size, MfreeOff(size, r.a + r.size - size) PROVE FALSE
    <3>1. r.a \in Nat /\ r.size \in Nat /\ Units \in Nat
      BY <1>1, MallocAssumption DEF Shared
    <3>2. PICK a \in Nat : a = r.a + r.size - size
      BY <3>1
    <3>3. n + 1 \in Stops(a)
      BY <1>1, <1>3 DEF Stops, Good
    <3>4. Place(a) \in 1 .. n + 1
      BY <1>1, <3>3, Placed
    <3> QED BY <2>1, <2>3, <3>2, <3>3, <3>4 DEF MfreeOff
  <2> QED BY <1>2, <2>2, <2>3
<1>4. n = MapSize
  BY <1>1, <1>3, EntryFacts DEF Slots
<1>5. Good(map, n)' /\ Shared(n)'
  BY <1>1, <1>2 DEF Good, Shared, Has, Held
<1> QED BY <1>2, <1>4, <1>5 DEF IInv

\* The map main() makes is one hole.
LEMMA InitIInv ==
  ASSUME Init
  PROVE  IInv
<1>1. Units \in Nat /\ Units > 0 /\ MapSize \in Nat /\ MapSize > 0 /\ 1 \in Slots
  BY MallocAssumption DEF Slots
<1>2. map \in [Slots -> Entry]
  BY <1>1 DEF Init, Entry
<1>3. map[1].m_addr = 1 /\ map[1].m_size = Units /\ \A i \in Slots : i > 1 => map[i].m_size = 0
  BY <1>1 DEF Init
<1>4. 1 .. 1 = {1}
  OBVIOUS
<1>5. Good(map, 1)
  BY <1>1, <1>2, <1>3, <1>4 DEF Good
<1>6. \A u \in Nat : Has(map, 1, u) <=> u \in 1 .. Units
  BY <1>1, <1>3, <1>4 DEF Has
<1>7. \A u \in Nat : ~Held(u)
  BY DEF Init, Held
<1>8. Shared(1)
  BY <1>6, <1>7 DEF Shared, Init
<1> QED BY <1>5, <1>8 DEF IInv, Init

\* IInv holds initially and is kept by every call of malloc() and mfree().
THEOREM Invariance == Spec => []IInv
<1>1. Init => IInv
  BY InitIInv
<1>2. ASSUME IInv, [Next]_vars PROVE IInv'
  <2>1. CASE Next
    BY <1>2, <2>1, MallocStep, FreeStep, RunOffStep DEF Next
  <2>2. CASE UNCHANGED vars
    BY <1>2, <2>2 DEF vars, IInv, Good, Shared, Has, Held
  <2> QED BY <1>2, <2>1, <2>2
<1> QED BY <1>1, <1>2, PTL DEF Spec

\* The map is in range, in order and joined (malloc.c:9), with nothing behind its
\* end, whatever is allocated and given back; no loop leaves the array before
\* every entry of it is a hole.
THEOREM FormedCorrect == Spec => []WellFormed
<1>1. ASSUME IInv PROVE WellFormed
  <2>1. PICK n \in Nat : Good(map, n) /\ Shared(n) /\ (lost => n = MapSize)
    BY <1>1 DEF IInv
  <2>2. Live = 1 .. n /\ \A i \in Slots : map[i].m_size = 0 <=> i > n
    BY <2>1, LiveIs
  <2>3. TypeOK
    BY <1>1, <2>1 DEF TypeOK, IInv, Good, Shared, Entry
  <2>4. Ended
    <3>1. \A i \in Slots : i \in Nat /\ i <= MapSize
      BY MallocAssumption DEF Slots
    <3>2. \A i, j \in Slots : i < j /\ map[i].m_size = 0 => map[j].m_size = 0
      BY <2>2, <3>1
    <3>3. lost => \A i \in Slots : map[i].m_size # 0
      BY <2>1, <2>2, <3>1
    <3> QED BY <3>2, <3>3 DEF Ended
  <2>5. Coalesced
    BY <2>1, <2>2 DEF Coalesced, Good
  <2> QED BY <2>3, <2>4, <2>5 DEF WellFormed
<1> QED BY <1>1, Invariance, PTL

\* No unit is lost and none is given out twice (malloc.c:15, malloc.c:43).
THEOREM ConservedCorrect == Spec => []Conserved
<1>1. ASSUME IInv PROVE Conserved
  <2>1. PICK n \in Nat : Good(map, n) /\ Shared(n)
    BY <1>1 DEF IInv
  <2>3. Live = 1 .. n
    BY <2>1, LiveIs
  <2>4. \A u : u \in UNION {Span(i) : i \in Live} <=> u \in Nat /\ Has(map, n, u)
    <3>1. \A i \in 1 .. n : map[i].m_addr \in Nat /\ map[i].m_size \in Nat
      BY <2>1, EntryFacts
    <3>2. \A i \in 1 .. n : \A u : u \in Span(i) <=> u \in Nat /\ map[i].m_addr <= u /\ u < map[i].m_addr + map[i].m_size
      BY <3>1 DEF Span
    <3> QED BY <2>3, <3>2 DEF Has
  <2>5. \A u : u \in UNION {r.a .. r.a + r.size - 1 : r \in busy} <=> u \in Nat /\ Held(u)
    <3>1. \A r \in busy : r.a \in Nat /\ r.size \in Nat
      BY <2>1, MallocAssumption DEF Shared
    <3>2. \A r \in busy : \A u : u \in r.a .. r.a + r.size - 1 <=> u \in Nat /\ r.a <= u /\ u < r.a + r.size
      BY <3>1
    <3> QED BY <3>2 DEF Held
  <2>6. /\ \A u \in Nat : ~(Has(map, n, u) /\ Held(u))
        /\ \A u \in Nat : Has(map, n, u) \/ Held(u) <=> u \in 1 .. Units
        /\ \A r, s \in busy : r # s => r.a + r.size <= s.a \/ s.a + s.size <= r.a
    BY <2>1 DEF Shared
  <2>7. 1 .. Units \subseteq Nat
    BY MallocAssumption
  <2> DEFINE F == UNION {Span(i) : i \in Live}
             H == UNION {r.a .. r.a + r.size - 1 : r \in busy}
  <2> HIDE DEF F, H
  <2>8. F \cap H = {} /\ F \cup H = 1 .. Units
    BY <2>4, <2>5, <2>6, <2>7 DEF F, H
  <2> QED BY <2>6, <2>8 DEF Conserved, F, H
<1> QED BY <1>1, Invariance, PTL

\* malloc() refuses only what does not fit anywhere: a run of units that nobody
\* holds is never split between two entries (malloc.c:22).
THEOREM RefusedCorrect == Spec => []NeverRefused
<1>1. ASSUME IInv PROVE NeverRefused
  <2>1. PICK n \in Nat : Good(map, n) /\ Shared(n)
    BY <1>1 DEF IInv
  <2>3. Live = 1 .. n
    BY <2>1, LiveIs
  <2> SUFFICES ASSUME NEW size \in Sizes, NEW a \in 1 .. Units, a + size - 1 <= Units,
                      \A r \in busy : r.a + r.size <= a \/ a + size <= r.a
               PROVE  Fits(size) # {}
    BY DEF NeverRefused
  <2>4. size \in Nat /\ size > 0 /\ Units \in Nat /\ a \in Nat
    BY MallocAssumption
  <2>5. \A r \in busy : r.a \in Nat /\ r.size \in Nat
    BY <2>1, MallocAssumption DEF Shared
  <2>6. ASSUME NEW u \in Nat, a <= u, u < a + size PROVE Has(map, n, u)
    <3>1. ~Held(u)
      BY <2>4, <2>5, <2>6 DEF Held
    <3>2. u \in 1 .. Units
      BY <2>4, <2>6
    <3> QED BY <2>1, <3>1, <3>2 DEF Shared
  <2>7. Has(map, n, a)
    BY <2>4, <2>6
  <2>8. /\ \A i \in 1 .. n : map[i].m_addr \in Nat /\ map[i].m_size \in Nat
        /\ \A i, j \in 1 .. n : i < j => map[i].m_addr + map[i].m_size < map[j].m_addr
    BY <2>1, EntryFacts DEF Good
  <2>9. PICK i \in 1 .. n : map[i].m_addr <= a /\ a < map[i].m_addr + map[i].m_size
    BY <2>7 DEF Has
  <2>10. a + size <= map[i].m_addr + map[i].m_size
    <3> SUFFICES ASSUME ~(a + size <= map[i].m_addr + map[i].m_size) PROVE FALSE
      OBVIOUS
    <3>1. PICK x \in Nat : x = map[i].m_addr + map[i].m_size
      BY <2>8
    <3>2. Has(map, n, x)
      BY <2>4, <2>6, <2>8, <2>9, <3>1
    <3>3. PICK j \in 1 .. n : map[j].m_addr <= x /\ x < map[j].m_addr + map[j].m_size
      BY <3>2 DEF Has
    <3>4. ~(i < j) /\ ~(j < i) /\ j # i
      BY <2>8, <2>9, <3>1, <3>3
    <3> QED BY <3>4
  <2>11. map[i].m_size >= size
    BY <2>4, <2>8, <2>9, <2>10
  <2> QED BY <2>3, <2>11 DEF Fits
<1> QED BY <1>1, Invariance, PTL
=============================================================================
