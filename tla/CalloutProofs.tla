---------------------------- MODULE CalloutProofs ---------------------------
(***************************************************************************)
(* Proofs about the callout table, for any functions, any times and a      *)
(* table of any size.                                                      *)
(***************************************************************************)
EXTENDS Callout, NaturalsInduction, WellFoundedInduction, TLAPS

(***************************************************************************)
(* The inductive invariant.  Wherever clock() is, the entries that count   *)
(* are a list: the Mv entries it has moved down, and those from Lo to the  *)
(* end.                                                                    *)
(***************************************************************************)

Lo == CASE mode = "call"    -> p1
        [] mode = "handler" -> p1 + 1
        [] Moving           -> p1
        [] OTHER            -> 0

Mv == IF Moving THEN p2 ELSE 0

Size == Mv + End - Lo

\* Where the k-th entry of the list is.
Slot(k) == IF k < Mv THEN k ELSE Lo + (k - Mv)

Fn == [k \in 0 .. Size - 1 |-> callout[Slot(k)].c_func]
Tm == [k \in 0 .. Size - 1 |-> callout[Slot(k)].c_time]

\* A list of m functions F with times T: each is asked for, once and nobody else
\* is, and its time is what it is due after the one before.  L is what is left.
Listed(m, F, T, L) ==
  /\ m \in Nat
  /\ F \in [0 .. m - 1 -> Funcs] /\ T \in [0 .. m - 1 -> Nat] /\ L \in [Funcs -> Nat \cup {Off}]
  /\ \A k \in 0 .. m - 1 :
       L[F[k]] \in Nat /\ L[F[k]] = T[k] + (IF k = 0 THEN 0 ELSE L[F[k - 1]])
  /\ \A j, k \in 0 .. m - 1 : F[j] = F[k] => j = k
  /\ \A f \in Funcs : L[f] # Off => \E k \in 0 .. m - 1 : F[k] = f

\* clock()'s pointers are in the list.
Pointers ==
  /\ mode \in {"base", "call", "handler"} => p2 = 0
  /\ mode = "call" => p1 <= End
  /\ mode = "handler" => p1 < End
  /\ Moving => p2 <= p1 /\ p1 <= End
  /\ mode = "time" => p1 < End /\ callout[p2].c_func = callout[p1].c_func

\* What clock() has called has no time left, until something is moved there.
Passed ==
  /\ mode \in {"call", "handler"} \/ (Moving /\ p2 = 0) =>
       \A i \in 0 .. p1 - 1 : callout[i].c_time = 0
  /\ mode = "handler" => callout[p1].c_time = 0

\* What stopped clock() has time left, until a nested clock() counts it down.
Ahead ==
  Moving /\ ~nested => /\ p2 = 0 /\ p1 < End => callout[p1].c_time > 0
                       /\ p2 > 0 => callout[0].c_time > 0

Exact == ~ Halted => Pointers /\ Passed /\ Ahead /\ Listed(Size, Fn, Tm, left)

IInv == TypeOK /\ Contained /\ Exact


-----------------------------------------------------------------------------
(* Loops and sums.                                                         *)

\* A set of numbers that is not empty has a least member.
LEMMA LeastMember ==
  ASSUME NEW T, T \subseteq Nat, T # {}
  PROVE  Least(T) \in T /\ \A i \in T : Least(T) <= i
<1> DEFINE R == {xy \in Nat \X Nat : xy[1] < xy[2]}
<1>1. IsWellFoundedOn(R, Nat)
  BY NatLessThanWellFounded DEF OpToRel
<1> HIDE DEF R
<1>2. PICK x \in T : \A y \in T : <<y, x>> \notin R
  BY <1>1, WFMin
<1>3. ASSUME NEW y \in T PROVE x <= y
  <2>1. ~(y < x)
    BY <1>2 DEF R
  <2> QED BY <2>1
<1>4. \E i \in T : \A j \in T : i <= j
  BY <1>3
<1> QED BY <1>4 DEF Least

\* What the sums of g are.
Summed(g, n, s) == s = [j \in 0 .. n |-> g[j] + (IF j = 0 THEN 0 ELSE s[j - 1])]

\* t adds up as far as n.
AddsUp(g, n, t) == \A j \in 0 .. n : t[j] = g[j] + (IF j = 0 THEN 0 ELSE t[j - 1])

\* There are such sums.
LEMMA SumsExist ==
  ASSUME NEW N \in Nat, NEW g \in [0 .. N -> Nat]
  PROVE  \E s \in [0 .. N -> Nat] : Summed(g, N, s)
<1> DEFINE P(n) == \E s \in [0 .. n -> Nat] : \A j \in 0 .. n : s[j] = g[j] + (IF j = 0 THEN 0 ELSE s[j - 1])
           T == {n \in 0 .. N : ~P(n)}
<1> HIDE DEF P
<1>1. T = {}
  <2> SUFFICES ASSUME T # {} PROVE FALSE
    OBVIOUS
  <2>1. T \subseteq Nat
    OBVIOUS
  <2>2. PICK n \in T : \A m \in T : n <= m
    BY <2>1, LeastMember
  <2>3. n \in 0 .. N /\ ~P(n)
    BY <2>2
  <2>4. CASE n = 0
    <3>1. [j \in 0 .. 0 |-> g[0]] \in [0 .. 0 -> Nat]
      OBVIOUS
    <3>2. \A j \in 0 .. 0 : [k \in 0 .. 0 |-> g[0]][j] = g[j] + (IF j = 0 THEN 0 ELSE [k \in 0 .. 0 |-> g[0]][j - 1])
      OBVIOUS
    <3>3. P(0)
      BY <3>1, <3>2 DEF P
    <3> QED BY <2>3, <2>4, <3>3
  <2>5. CASE n # 0
    <3>1. n - 1 \in 0 .. N /\ n - 1 \notin T /\ n \in Nat
      BY <2>2, <2>3, <2>5
    <3>2. P(n - 1)
      BY <3>1
    <3>3. PICK s \in [0 .. n - 1 -> Nat] : \A j \in 0 .. n - 1 : s[j] = g[j] + (IF j = 0 THEN 0 ELSE s[j - 1])
      BY <3>2 DEF P
    <3> DEFINE t == [j \in 0 .. n |-> IF j = n THEN g[n] + s[n - 1] ELSE s[j]]
    <3>4. t \in [0 .. n -> Nat]
      BY <2>3, <2>5, <3>1
    <3>5. ASSUME NEW j \in 0 .. n PROVE t[j] = g[j] + (IF j = 0 THEN 0 ELSE t[j - 1])
      <4>1. CASE j = n
        BY <2>3, <2>5, <3>1, <4>1
      <4>2. CASE j # n
        <5>1. j \in 0 .. n - 1 /\ t[j] = s[j] /\ (j # 0 => t[j - 1] = s[j - 1])
          BY <3>1, <4>2
        <5> QED BY <3>3, <5>1
      <4> QED BY <4>1, <4>2
    <3> HIDE DEF t
    <3>6. P(n)
      BY <3>4, <3>5 DEF P
    <3> QED BY <2>3, <3>6
  <2> QED BY <2>4, <2>5
<1>2. P(N)
  BY <1>1
<1>3. PICK s \in [0 .. N -> Nat] : \A j \in 0 .. N : s[j] = g[j] + (IF j = 0 THEN 0 ELSE s[j - 1])
  BY <1>2 DEF P
<1> QED BY <1>3 DEF Summed

\* There is only one: a table of numbers that adds up is the sums.
LEMMA SumsUnique ==
  ASSUME NEW N \in Nat, NEW g \in [0 .. N -> Nat], NEW s, Summed(g, N, s), NEW n \in 0 .. N, NEW t,
         AddsUp(g, n, t)
  PROVE  \A j \in 0 .. n : s[j] = t[j]
<1> DEFINE T == {j \in 0 .. n : s[j] # t[j]}
<1>0. \A j \in 0 .. n : s[j] = g[j] + (IF j = 0 THEN 0 ELSE s[j - 1])
  BY DEF Summed
<1> SUFFICES ASSUME T # {} PROVE FALSE
  OBVIOUS
<1>1. T \subseteq Nat
  OBVIOUS
<1>2. PICK j \in T : \A m \in T : j <= m
  BY <1>1, LeastMember
<1>3. j \in 0 .. n /\ s[j] # t[j]
  BY <1>2
<1>4. CASE j = 0
  BY <1>0, <1>3, <1>4 DEF AddsUp
<1>5. CASE j # 0
  <2>1. j - 1 \in 0 .. n /\ j - 1 \notin T
    BY <1>2, <1>3, <1>5
  <2>2. s[j - 1] = t[j - 1]
    BY <2>1
  <2> QED BY <1>0, <1>3, <1>5, <2>2 DEF AddsUp
<1> QED BY <1>4, <1>5

\* So there is one, and it is a table of numbers.
LEMMA SumsTyped ==
  ASSUME NEW N \in Nat, NEW g \in [0 .. N -> Nat], NEW t, Summed(g, N, t)
  PROVE  t \in [0 .. N -> Nat]
<1>1. PICK s \in [0 .. N -> Nat] : Summed(g, N, s)
  BY SumsExist
<1>2. AddsUp(g, N, s) /\ N \in 0 .. N
  BY <1>1 DEF Summed, AddsUp
<1>3. \A j \in 0 .. N : t[j] = s[j]
  BY <1>2, SumsUnique
<1>4. t = [j \in 0 .. N |-> t[j]]
  BY DEF Summed
<1> QED BY <1>3, <1>4

\* Sum is the sums of the times.
LEMMA SumFacts ==
  ASSUME TypeOK
  PROVE  /\ Sum \in [Entries -> Nat]
         /\ \A i \in Entries : Sum[i] = callout[i].c_time + (IF i = 0 THEN 0 ELSE Sum[i - 1])
<1>1. PICK g : g = [j \in 0 .. NCALL |-> callout[j].c_time]
  OBVIOUS
<1>a. NCALL \in Nat /\ NCALL \in 0 .. NCALL /\ g \in [0 .. NCALL -> Nat]
  BY <1>1, CalloutAssumption DEF TypeOK, Entries
<1>2. PICK s \in [0 .. NCALL -> Nat] : Summed(g, NCALL, s)
  BY <1>a, SumsExist
<1>3. s = [i \in Entries |-> callout[i].c_time + (IF i = 0 THEN 0 ELSE s[i - 1])]
  BY <1>1, <1>2 DEF Summed, Entries
<1>4. Sum = [i \in Entries |-> callout[i].c_time + (IF i = 0 THEN 0 ELSE Sum[i - 1])]
  BY <1>3 DEF Sum
<1>5. PICK t : t = Sum
  OBVIOUS
<1>6. Summed(g, NCALL, t)
  BY <1>1, <1>4, <1>5 DEF Summed, Entries
<1>7. t \in [0 .. NCALL -> Nat]
  BY <1>a, <1>6, SumsTyped
<1> QED BY <1>4, <1>5, <1>7 DEF Entries

-----------------------------------------------------------------------------
(* Lists of functions and times.                                           *)

\* Up to entry c nothing is left; from a c with time left on, something is.
LEMMA ListSigns ==
  ASSUME NEW m, NEW F, NEW T, NEW L, Listed(m, F, T, L), NEW c \in 0 .. m,
         \A k \in 0 .. c - 1 : T[k] = 0, c < m => T[c] > 0
  PROVE  \A k \in 0 .. m - 1 : /\ k < c => L[F[k]] = 0
                               /\ k >= c => L[F[k]] > 0
<1>1. /\ m \in Nat /\ T \in [0 .. m - 1 -> Nat]
      /\ \A k \in 0 .. m - 1 :
           L[F[k]] \in Nat /\ L[F[k]] = T[k] + (IF k = 0 THEN 0 ELSE L[F[k - 1]])
  BY DEF Listed
<1> DEFINE P(k) == /\ k < c => L[F[k]] = 0
                   /\ k >= c => L[F[k]] > 0
           S == {k \in 0 .. m - 1 : ~P(k)}
<1> SUFFICES ASSUME S # {} PROVE FALSE
  OBVIOUS
<1>2. S \subseteq Nat
  BY <1>1
<1>3. PICK k \in S : \A j \in S : k <= j
  BY <1>2, LeastMember
<1>4. k \in 0 .. m - 1 /\ ~P(k)
  BY <1>3
<1>5. k # 0 => k - 1 \in 0 .. m - 1 /\ P(k - 1)
  BY <1>1, <1>3, <1>4
<1>a. L[F[k]] \in Nat /\ T[k] \in Nat /\ L[F[k]] = T[k] + (IF k = 0 THEN 0 ELSE L[F[k - 1]])
  BY <1>1, <1>4
<1>b. k \in Int /\ c \in Int /\ (k # 0 => k - 1 >= 0)
  BY <1>1, <1>4
<1>6. CASE k < c
  <2>1. T[k] = 0 /\ (k # 0 => L[F[k - 1]] = 0)
    <3>1. k \in 0 .. c - 1 /\ k - 1 < c
      BY <1>b, <1>4, <1>6
    <3> QED BY <1>5, <3>1
  <2> QED BY <1>4, <1>6, <1>a, <1>b, <2>1
<1>7. CASE k = c
  <2>1. T[k] > 0 /\ (k # 0 => L[F[k - 1]] = 0)
    <3>1. k < m /\ k - 1 < c
      BY <1>1, <1>b, <1>4, <1>7
    <3> QED BY <1>5, <1>7, <3>1
  <2> QED BY <1>4, <1>7, <1>a, <1>b, <2>1
<1>8. CASE k > c
  <2>1. k # 0 /\ k - 1 >= c
    BY <1>b, <1>8
  <2>2. L[F[k - 1]] > 0 /\ L[F[k - 1]] \in Nat
    BY <1>1, <1>5, <2>1
  <2>3. L[F[k]] > 0
    BY <1>a, <2>1, <2>2
  <2> QED BY <1>4, <1>8, <1>b, <2>3
<1> QED BY <1>1, <1>4, <1>6, <1>7, <1>8

\* A tick: the first entry with time left is counted down.
Ticked(L) == [f \in Funcs |-> IF L[f] > 0 THEN L[f] - 1 ELSE L[f]]

\* Counting that entry takes a tick from all that is left.
LEMMA ListCount ==
  ASSUME NEW m, NEW F, NEW T, NEW L, Listed(m, F, T, L), NEW c \in 0 .. m,
         \A k \in 0 .. c - 1 : T[k] = 0, c < m => T[c] > 0,
         NEW U, U = [k \in 0 .. m - 1 |-> IF k = c THEN T[k] - 1 ELSE T[k]]
  PROVE  Listed(m, F, U, Ticked(L))
<1>1. /\ m \in Nat /\ T \in [0 .. m - 1 -> Nat] /\ F \in [0 .. m - 1 -> Funcs]
      /\ L \in [Funcs -> Nat \cup {Off}]
      /\ \A k \in 0 .. m - 1 :
           L[F[k]] \in Nat /\ L[F[k]] = T[k] + (IF k = 0 THEN 0 ELSE L[F[k - 1]])
      /\ \A j, k \in 0 .. m - 1 : F[j] = F[k] => j = k
      /\ \A f \in Funcs : L[f] # Off => \E k \in 0 .. m - 1 : F[k] = f
  BY DEF Listed
<1>2. \A k \in 0 .. m - 1 : /\ k < c => L[F[k]] = 0
                            /\ k >= c => L[F[k]] > 0
  BY ListSigns
<1>3. PICK M : M = Ticked(L)
  OBVIOUS
<1>4. \A f \in Funcs : M[f] = IF L[f] > 0 THEN L[f] - 1 ELSE L[f]
  BY <1>3 DEF Ticked
<1>5. M \in [Funcs -> Nat \cup {Off}]
  <2>1. ASSUME NEW f \in Funcs PROVE M[f] \in Nat \cup {Off}
    <3>1. L[f] \in Nat \/ L[f] = -1
      BY <1>1 DEF Off
    <3>2. M[f] = IF L[f] > 0 THEN L[f] - 1 ELSE L[f]
      BY <1>4
    <3> QED BY <3>1, <3>2 DEF Off
  <2>2. M = [f \in Funcs |-> M[f]]
    BY <1>3 DEF Ticked
  <2> QED BY <2>1, <2>2
<1>6. U \in [0 .. m - 1 -> Nat]
  <2>1. \A k \in 0 .. m - 1 : (IF k = c THEN T[k] - 1 ELSE T[k]) \in Nat
    BY <1>1
  <2> QED BY <2>1
<1>7. \A k \in 0 .. m - 1 : M[F[k]] = IF k < c THEN 0 ELSE L[F[k]] - 1
  BY <1>1, <1>2, <1>4
<1>8. ASSUME NEW k \in 0 .. m - 1
      PROVE  M[F[k]] \in Nat /\ M[F[k]] = U[k] + (IF k = 0 THEN 0 ELSE M[F[k - 1]])
  <2>1. k # 0 => k - 1 \in 0 .. m - 1
    BY <1>1
  <2>2. CASE k < c
    <3>a. k \in 0 .. c - 1 /\ k # c /\ (k # 0 => k - 1 < c)
      BY <1>1, <2>2
    <3>1. U[k] = 0 /\ M[F[k]] = 0 /\ (k # 0 => M[F[k - 1]] = 0)
      BY <1>7, <2>1, <2>2, <3>a
    <3> QED BY <3>1
  <2>3. CASE k = c
    <3>1. U[k] = T[k] - 1 /\ M[F[k]] = L[F[k]] - 1 /\ (k # 0 => M[F[k - 1]] = 0 /\ L[F[k - 1]] = 0)
      <4>1. ~(k < c) /\ (k # 0 => k - 1 < c)
        BY <1>1, <2>3
      <4> QED BY <1>2, <1>7, <2>1, <2>3, <4>1
    <3>2. L[F[k]] \in Nat /\ L[F[k]] > 0 /\ L[F[k]] = T[k] + (IF k = 0 THEN 0 ELSE L[F[k - 1]])
      BY <1>1, <1>2, <2>3
    <3>3. L[F[k]] = T[k] /\ T[k] \in Nat
      BY <1>1, <3>1, <3>2, SMTT(30)
    <3>4. M[F[k]] = U[k] /\ U[k] \in Nat
      BY <3>1, <3>2, <3>3
    <3> QED BY <3>1, <3>4
  <2>4. CASE k > c
    <3>1. k # 0 /\ U[k] = T[k] /\ M[F[k]] = L[F[k]] - 1 /\ M[F[k - 1]] = L[F[k - 1]] - 1
      <4>1. k # 0 /\ k # c /\ ~(k < c) /\ ~(k - 1 < c)
        BY <1>1, <2>4
      <4> QED BY <1>7, <2>1, <4>1
    <3>2. L[F[k]] \in Nat /\ L[F[k]] > 0 /\ L[F[k]] = T[k] + L[F[k - 1]]
      BY <1>1, <1>2, <2>4, <3>1
    <3>3. L[F[k - 1]] \in Nat /\ T[k] \in Nat
      BY <1>1, <2>1, <3>1
    <3> QED BY <3>1, <3>2, <3>3
  <2> QED BY <1>1, <2>2, <2>3, <2>4
<1>9. \A f \in Funcs : M[f] # Off => L[f] # Off
  BY <1>1, <1>4 DEF Off
<1> QED BY <1>1, <1>3, <1>5, <1>6, <1>8, <1>9 DEF Listed

\* The head, when it is due, leaves the list.
LEMMA ListDrop ==
  ASSUME NEW m, NEW F, NEW T, NEW L, Listed(m, F, T, L), m > 0, T[0] = 0,
         NEW G, G = [k \in 0 .. m - 2 |-> F[k + 1]],
         NEW U, U = [k \in 0 .. m - 2 |-> T[k + 1]]
  PROVE  Listed(m - 1, G, U, [L EXCEPT ![F[0]] = Off]) /\ L[F[0]] = 0
<1>1. /\ m \in Nat /\ T \in [0 .. m - 1 -> Nat] /\ F \in [0 .. m - 1 -> Funcs]
      /\ L \in [Funcs -> Nat \cup {Off}]
      /\ \A k \in 0 .. m - 1 :
           L[F[k]] \in Nat /\ L[F[k]] = T[k] + (IF k = 0 THEN 0 ELSE L[F[k - 1]])
      /\ \A j, k \in 0 .. m - 1 : F[j] = F[k] => j = k
      /\ \A f \in Funcs : L[f] # Off => \E k \in 0 .. m - 1 : F[k] = f
  BY DEF Listed
<1>2. 0 \in 0 .. m - 1 /\ L[F[0]] = 0 /\ F[0] \in Funcs /\ m - 1 \in Nat /\ (m - 1) - 1 = m - 2
  BY <1>1
<1>3. PICK M : M = [L EXCEPT ![F[0]] = Off]
  OBVIOUS
<1>4. M \in [Funcs -> Nat \cup {Off}] /\ \A f \in Funcs : M[f] = IF f = F[0] THEN Off ELSE L[f]
  BY <1>1, <1>2, <1>3
<1>5. \A k \in 0 .. m - 2 : k + 1 \in 0 .. m - 1 /\ F[k + 1] # F[0] /\ G[k] = F[k + 1] /\ U[k] = T[k + 1]
  BY <1>1, <1>2
<1>6. G \in [0 .. m - 2 -> Funcs] /\ U \in [0 .. m - 2 -> Nat]
  BY <1>1, <1>5
<1>7. ASSUME NEW k \in 0 .. m - 2
      PROVE  M[G[k]] \in Nat /\ M[G[k]] = U[k] + (IF k = 0 THEN 0 ELSE M[G[k - 1]])
  <2>1. M[G[k]] = L[F[k + 1]] /\ k + 1 \in 0 .. m - 1 /\ k + 1 # 0 /\ U[k] = T[k + 1]
    BY <1>1, <1>4, <1>5
  <2>2. L[F[k + 1]] \in Nat /\ L[F[k + 1]] = T[k + 1] + L[F[k]]
    BY <1>1, <2>1
  <2>3. CASE k = 0
    BY <1>2, <2>1, <2>2, <2>3
  <2>4. CASE k # 0
    <3>1. k - 1 \in 0 .. m - 2 /\ (k - 1) + 1 = k
      BY <1>1, <2>4
    <3>2. G[k - 1] = F[k] /\ F[k] # F[0] /\ k \in 0 .. m - 1
      BY <1>5, <3>1
    <3>3. M[G[k - 1]] = L[F[k]]
      BY <1>1, <1>4, <3>2
    <3> QED BY <2>1, <2>2, <2>4, <3>3
  <2> QED BY <2>3, <2>4
<1>8. \A j, k \in 0 .. m - 2 : G[j] = G[k] => j = k
  BY <1>1, <1>5
<1>9. ASSUME NEW f \in Funcs, M[f] # Off PROVE \E k \in 0 .. m - 2 : G[k] = f
  <2>1. f # F[0] /\ L[f] # Off
    BY <1>4, <1>9
  <2>2. PICK k \in 0 .. m - 1 : F[k] = f
    BY <1>1, <2>1
  <2>3. k - 1 \in 0 .. m - 2 /\ (k - 1) + 1 = k
    BY <1>1, <2>1, <2>2
  <2> QED BY <1>5, <2>2, <2>3
<1> QED BY <1>2, <1>3, <1>4, <1>6, <1>7, <1>8, <1>9, ZenonT(40) DEF Listed

\* A new entry at b, where what was left becomes more than t.
LEMMA ListInsert ==
  ASSUME NEW m, NEW F, NEW T, NEW L, Listed(m, F, T, L), NEW b \in 0 .. m,
         NEW f \in Funcs, L[f] = Off, NEW t \in Nat,
         b > 0 => L[F[b - 1]] <= t, b < m => L[F[b]] > t,
         NEW r, r = t - (IF b = 0 THEN 0 ELSE L[F[b - 1]]),
         NEW G, G = [k \in 0 .. m |-> IF k < b THEN F[k] ELSE IF k = b THEN f ELSE F[k - 1]],
         NEW U, U = [k \in 0 .. m |-> IF k < b THEN T[k] ELSE IF k = b THEN r
                                      ELSE IF k = b + 1 THEN T[b] - r ELSE T[k - 1]]
  PROVE  Listed(m + 1, G, U, [L EXCEPT ![f] = t])
<1>1. /\ m \in Nat /\ T \in [0 .. m - 1 -> Nat] /\ F \in [0 .. m - 1 -> Funcs]
      /\ L \in [Funcs -> Nat \cup {Off}]
      /\ \A k \in 0 .. m - 1 :
           L[F[k]] \in Nat /\ L[F[k]] = T[k] + (IF k = 0 THEN 0 ELSE L[F[k - 1]])
      /\ \A j, k \in 0 .. m - 1 : F[j] = F[k] => j = k
      /\ \A g \in Funcs : L[g] # Off => \E k \in 0 .. m - 1 : F[k] = g
  BY DEF Listed
<1>2. m + 1 \in Nat /\ (m + 1) - 1 = m
  BY <1>1
<1>3. PICK M : M = [L EXCEPT ![f] = t]
  OBVIOUS
<1>4. M \in [Funcs -> Nat \cup {Off}] /\ \A g \in Funcs : M[g] = IF g = f THEN t ELSE L[g]
  BY <1>1, <1>3
<1>5. \A k \in 0 .. m - 1 : F[k] \in Funcs /\ F[k] # f /\ M[F[k]] = L[F[k]]
  BY <1>1, <1>4 DEF Off
<1>6. r \in Nat /\ r <= t /\ (b > 0 => b - 1 \in 0 .. m - 1)
  BY <1>1
<1>7. b < m => T[b] - r \in Nat /\ T[b] - r = L[F[b]] - t
  <2> HAVE b < m
  <2>1. b \in 0 .. m - 1 /\ T[b] \in Nat /\ L[F[b]] \in Nat
    BY <1>1
  <2>2. L[F[b]] = T[b] + (IF b = 0 THEN 0 ELSE L[F[b - 1]])
    BY <1>1, <2>1
  <2>3. CASE b = 0
    BY <2>1, <2>2, <2>3
  <2>4. CASE b # 0
    <3>1. L[F[b - 1]] \in Nat
      BY <1>1, <1>6, <2>4
    <3> QED BY <2>1, <2>2, <2>4, <3>1, SMTT(30)
  <2> QED BY <2>3, <2>4
<1>8. ASSUME NEW k \in 0 .. m
      PROVE  G[k] \in Funcs /\ U[k] \in Nat
  <2>1. CASE k < b
    <3>1. k \in 0 .. m - 1
      BY <1>1, <2>1
    <3> QED BY <1>1, <2>1, <3>1
  <2>2. CASE k = b
    BY <1>6, <2>2
  <2>3. CASE k > b
    <3>1. ~(k < b) /\ k # b /\ k - 1 \in 0 .. m - 1 /\ b < m
      BY <1>1, <2>3
    <3>2. G[k] = F[k - 1] /\ U[k] = IF k = b + 1 THEN T[b] - r ELSE T[k - 1]
      BY <3>1
    <3> QED BY <1>1, <1>7, <3>1, <3>2
  <2> QED BY <1>1, <2>1, <2>2, <2>3
<1>9. G \in [0 .. m -> Funcs] /\ U \in [0 .. m -> Nat]
  BY <1>8
<1>10. ASSUME NEW k \in 0 .. m
       PROVE  M[G[k]] \in Nat /\ M[G[k]] = U[k] + (IF k = 0 THEN 0 ELSE M[G[k - 1]])
  <2>1. CASE k < b
    <3>1. k \in 0 .. m - 1 /\ G[k] = F[k] /\ U[k] = T[k] /\ M[F[k]] = L[F[k]]
      BY <1>1, <1>5, <2>1
    <3>2. k # 0 => k - 1 \in 0 .. m - 1 /\ k - 1 \in 0 .. m /\ k - 1 < b
      BY <1>1, <2>1
    <3>3. k # 0 => M[G[k - 1]] = L[F[k - 1]]
      BY <1>5, <3>2
    <3>4. L[F[k]] \in Nat /\ L[F[k]] = T[k] + (IF k = 0 THEN 0 ELSE L[F[k - 1]])
      BY <1>1, <3>1
    <3>5. CASE k = 0
      BY <3>1, <3>4, <3>5
    <3>6. CASE k # 0
      BY <3>1, <3>3, <3>4, <3>6
    <3> QED BY <3>5, <3>6
  <2>2. CASE k = b
    <3>1. G[k] = f /\ U[k] = r /\ M[G[k]] = t
      BY <1>4, <2>2
    <3>2. k # 0 => k - 1 \in 0 .. m - 1 /\ k - 1 \in 0 .. m /\ k - 1 < b
      BY <1>1, <2>2
    <3>3. k # 0 => M[G[k - 1]] = L[F[k - 1]] /\ L[F[k - 1]] \in Nat
      BY <1>1, <1>5, <3>2
    <3> QED BY <2>2, <3>1, <3>3
  <2>3. CASE k = b + 1
    <3>1. k # 0 /\ k - 1 = b /\ b < m /\ b \in 0 .. m - 1 /\ ~(k < b) /\ k # b /\ k - 1 \in 0 .. m
      BY <1>1, <2>3
    <3>2. G[k] = F[b] /\ G[k - 1] = f /\ U[k] = T[b] - r
      BY <2>3, <3>1
    <3>3. M[G[k]] = L[F[b]] /\ M[G[k - 1]] = t /\ L[F[b]] \in Nat
      BY <1>1, <1>4, <1>5, <3>1, <3>2
    <3> QED BY <1>7, <3>1, <3>2, <3>3
  <2>4. CASE k > b + 1
    <3>1. /\ k # 0 /\ k - 1 \in 0 .. m - 1 /\ k - 1 \in 0 .. m /\ ~(k < b) /\ k # b /\ k # b + 1
          /\ ~(k - 1 < b) /\ k - 1 # b /\ k - 1 # 0 /\ k - 2 \in 0 .. m - 1 /\ (k - 1) - 1 = k - 2
      BY <1>1, <2>4
    <3>2. G[k] = F[k - 1] /\ G[k - 1] = F[k - 2] /\ U[k] = T[k - 1]
      BY <3>1
    <3>3. M[G[k]] = L[F[k - 1]] /\ M[G[k - 1]] = L[F[k - 2]]
      BY <1>5, <3>1, <3>2
    <3>4. L[F[k - 1]] \in Nat /\ L[F[k - 1]] = T[k - 1] + L[F[k - 2]]
      BY <1>1, <3>1
    <3> QED BY <3>1, <3>2, <3>3, <3>4
  <2> QED BY <1>1, <2>1, <2>2, <2>3, <2>4
<1>11. ASSUME NEW j \in 0 .. m, NEW k \in 0 .. m, G[j] = G[k] PROVE j = k
  <2>1. \A i \in 0 .. m : /\ i < b => i \in 0 .. m - 1 /\ G[i] = F[i]
                          /\ i = b => G[i] = f
                          /\ i > b => i - 1 \in 0 .. m - 1 /\ G[i] = F[i - 1]
    BY <1>1
  <2>2. CASE j = b \/ k = b
    BY <1>5, <1>11, <2>1, <2>2
  <2>3. CASE j # b /\ k # b
    BY <1>1, <1>11, <2>1, <2>3, SMTT(30)
  <2> QED BY <2>2, <2>3
<1>12. ASSUME NEW g \in Funcs, M[g] # Off PROVE \E k \in 0 .. m : G[k] = g
  <2>1. CASE g = f
    <3>1. G[b] = f
      OBVIOUS
    <3> QED BY <2>1, <3>1
  <2>2. CASE g # f
    <3>1. PICK k \in 0 .. m - 1 : F[k] = g
      BY <1>1, <1>4, <1>12, <2>2
    <3>2. CASE k < b
      <4>1. k \in 0 .. m /\ G[k] = F[k]
        BY <1>1, <3>2
      <4> QED BY <3>1, <4>1
    <3>3. CASE k >= b
      <4>1. k + 1 \in 0 .. m /\ ~(k + 1 < b) /\ k + 1 # b /\ (k + 1) - 1 = k
        BY <1>1, <3>3
      <4>2. G[k + 1] = F[k]
        BY <4>1
      <4> QED BY <3>1, <4>1, <4>2
    <3> QED BY <1>1, <3>2, <3>3
  <2> QED BY SMTT(30), <2>1, <2>2
<1>13. PICK H, V : H = G /\ V = U
  OBVIOUS
<1>14. Listed(m + 1, H, V, M)
  <2>1. m + 1 \in Nat /\ H \in [0 .. m -> Funcs] /\ V \in [0 .. m -> Nat]
        /\ M \in [Funcs -> Nat \cup {Off}]
    BY <1>2, <1>4, <1>9, <1>13
  <2>2. \A k \in 0 .. m : M[H[k]] \in Nat /\ M[H[k]] = V[k] + (IF k = 0 THEN 0 ELSE M[H[k - 1]])
    BY <1>10, <1>13
  <2>3. \A j, k \in 0 .. m : H[j] = H[k] => j = k
    BY <1>11, <1>13
  <2>4. \A g \in Funcs : M[g] # Off => \E k \in 0 .. m : H[k] = g
    BY <1>12, <1>13
  <2> HIDE DEF Off
  <2> QED BY <1>2, <2>1, <2>2, <2>3, <2>4 DEF Listed
<1> QED BY <1>3, <1>13, <1>14

-----------------------------------------------------------------------------
(* The list in the table.                                                  *)

\* The end of the list in a table c.
EndOf(c) == Least({i \in Entries : c[i].c_func = NULL} \cup {NCALL})

\* An entry with no function, behind entries that have one, is the end.
LEMMA EndIs ==
  ASSUME NEW c, NEW e \in Entries, c[e].c_func = NULL, \A i \in 0 .. e - 1 : c[i].c_func # NULL
  PROVE  EndOf(c) = e
<1> DEFINE S == {i \in Entries : c[i].c_func = NULL} \cup {NCALL}
<1>1. S \subseteq Nat /\ e \in S /\ e \in Nat /\ e <= NCALL
  BY CalloutAssumption DEF Entries
<1>2. Least(S) \in S /\ \A i \in S : Least(S) <= i
  BY <1>1, LeastMember
<1>3. Least(S) \in Nat /\ Least(S) <= e
  BY <1>1, <1>2
<1>4. ~(Least(S) < e)
  <2> SUFFICES ASSUME Least(S) < e PROVE FALSE
    OBVIOUS
  <2>1. Least(S) \in 0 .. e - 1 /\ Least(S) # NCALL
    BY <1>1, <1>3, CalloutAssumption
  <2> QED BY <1>2, <2>1
<1>5. Least(S) = e
  BY <1>1, <1>3, <1>4
<1> QED BY <1>5 DEF EndOf

\* A table with no function in its last entry has such an end.
LEMMA EndFound ==
  ASSUME NEW c, c[NCALL].c_func = NULL
  PROVE  /\ EndOf(c) \in Entries /\ c[EndOf(c)].c_func = NULL
         /\ \A i \in 0 .. EndOf(c) - 1 : c[i].c_func # NULL
<1> DEFINE S == {i \in Entries : c[i].c_func = NULL} \cup {NCALL}
<1>1. S \subseteq Nat /\ NCALL \in S /\ NCALL \in Entries
  BY CalloutAssumption DEF Entries
<1>2. Least(S) \in S /\ \A i \in S : Least(S) <= i
  BY <1>1, LeastMember
<1>3. Least(S) \in Entries /\ c[Least(S)].c_func = NULL
  BY <1>1, <1>2
<1>4. ASSUME NEW i \in 0 .. Least(S) - 1 PROVE c[i].c_func # NULL
  <2>1. i \in Entries /\ ~(Least(S) <= i)
    BY <1>3, CalloutAssumption DEF Entries
  <2>2. i \notin S
    BY <1>2, <2>1
  <2> QED BY <2>1, <2>2
<1> QED BY <1>3, <1>4 DEF EndOf

\* The end, in a table that is inside the array.
LEMMA EndFacts ==
  ASSUME TypeOK, InTable
  PROVE  /\ End \in 0 .. NCALL - 1 /\ callout[End].c_func = NULL
         /\ \A i \in 0 .. End - 1 : /\ i \in Entries /\ callout[i].c_func \in Funcs
                                    /\ callout[i].c_time \in Nat
<1>1. callout[NCALL].c_func = NULL /\ End = EndOf(callout) /\ End < NCALL
  BY DEF InTable, End, EndOf
<1>2. /\ End \in Entries /\ callout[End].c_func = NULL
      /\ \A i \in 0 .. End - 1 : callout[i].c_func # NULL
  BY <1>1, EndFound
<1>3. End \in 0 .. NCALL - 1
  BY <1>1, <1>2, CalloutAssumption DEF Entries
<1>4. ASSUME NEW i \in 0 .. End - 1
      PROVE  /\ i \in Entries /\ callout[i].c_func \in Funcs
             /\ callout[i].c_time \in Nat
  <2>1. i \in Entries
    BY <1>3, CalloutAssumption DEF Entries
  <2> QED BY <1>2, <2>1 DEF TypeOK
<1> QED BY <1>2, <1>3, <1>4

\* Where the list is.
LEMMA Shape ==
  ASSUME TypeOK, InTable, ~Halted, Pointers
  PROVE  /\ Lo \in 0 .. End /\ Mv \in 0 .. Lo /\ Size \in Nat
         /\ Size = Mv + (End - Lo)
         /\ \A k \in 0 .. Size - 1 : Slot(k) \in 0 .. End - 1
         /\ \A k \in 0 .. Size - 1 : IF k < Mv THEN Slot(k) = k ELSE Slot(k) = Lo + (k - Mv)
         /\ \A j, k \in 0 .. Size - 1 : Slot(j) = Slot(k) => j = k
<1>1. End \in Nat
  BY EndFacts, CalloutAssumption
<1>2. Lo \in 0 .. End /\ Mv \in 0 .. Lo
  <2>1. p1 \in Nat /\ p2 \in Nat
    BY CalloutAssumption DEF TypeOK, Entries
  <2>2. CASE mode = "call"
    BY <1>1, <2>1, <2>2 DEF Lo, Mv, Moving, Pointers
  <2>3. CASE mode = "handler"
    BY <1>1, <2>1, <2>3 DEF Lo, Mv, Moving, Pointers
  <2>4. CASE Moving
    BY <1>1, <2>1, <2>4 DEF Lo, Mv, Moving, Pointers
  <2>5. CASE mode = "base"
    BY <1>1, <2>1, <2>5 DEF Lo, Mv, Moving, Pointers
  <2> QED BY <2>2, <2>3, <2>4, <2>5 DEF TypeOK, Halted, Moving
<1>3. Size \in Nat /\ Size = Mv + (End - Lo)
  BY <1>1, <1>2 DEF Size
<1>4. \A k \in 0 .. Size - 1 : IF k < Mv THEN Slot(k) = k ELSE Slot(k) = Lo + (k - Mv)
  BY DEF Slot
<1>5. \A k \in 0 .. Size - 1 : Slot(k) \in 0 .. End - 1
  BY <1>1, <1>2, <1>3, <1>4
<1>6. \A j, k \in 0 .. Size - 1 : Slot(j) = Slot(k) => j = k
  BY <1>1, <1>2, <1>3, <1>4
<1> QED BY <1>2, <1>3, <1>4, <1>5, <1>6

\* A step that leaves the entries of the list what they are leaves the list.
LEMMA SameSlots ==
  ASSUME Size' = Size,
         \A k \in 0 .. Size - 1 : /\ callout'[Slot(k)'].c_func = callout[Slot(k)].c_func
                                  /\ callout'[Slot(k)'].c_time = callout[Slot(k)].c_time,
         left' = left
  PROVE  Listed(Size, Fn, Tm, left) => Listed(Size', Fn', Tm', left')
<1>1. Fn' = [k \in 0 .. Size' - 1 |-> callout'[Slot(k)'].c_func]
  BY DEF Fn
<1>2. Tm' = [k \in 0 .. Size' - 1 |-> callout'[Slot(k)'].c_time]
  BY DEF Tm
<1>3. Fn' = Fn
  BY <1>1 DEF Fn
<1>4. Tm' = Tm
  BY <1>2 DEF Tm
<1> QED BY <1>3, <1>4

\* So does one that leaves the table and the list's place in it.
LEMMA SameTable ==
  ASSUME callout' = callout, Lo' = Lo, Mv' = Mv, left' = left
  PROVE  End' = End /\ (Listed(Size, Fn, Tm, left) => Listed(Size', Fn', Tm', left'))
<1>1. End' = End
  BY DEF End
<1>2. Size' = Size
  BY <1>1 DEF Size
<1>3. \A k \in 0 .. Size - 1 : Slot(k)' = Slot(k)
  BY DEF Slot
<1>4. \A k \in 0 .. Size - 1 : /\ callout'[Slot(k)'].c_func = callout[Slot(k)].c_func
                               /\ callout'[Slot(k)'].c_time = callout[Slot(k)].c_time
  BY <1>3
<1> QED BY <1>1, <1>2, <1>4, SameSlots

-----------------------------------------------------------------------------
(* A tick.                                                                 *)

\* The entry that is counted down: the first with time left, or the end.
LEMMA FirstFound ==
  ASSUME TypeOK, InTable
  PROVE  \E i \in 0 .. End :
           /\ i < End => callout[i].c_time > 0
           /\ \A j \in 0 .. i - 1 : callout[j].c_time = 0
           /\ Counted = IF i = End THEN callout ELSE [callout EXCEPT ![i].c_time = @ - 1]
<1> DEFINE S == {End} \cup {j \in 0 .. End - 1 : callout[j].c_time > 0}
<1>1. End \in Nat /\ \A i \in 0 .. End - 1 : callout[i].c_time \in Nat
  BY EndFacts, CalloutAssumption
<1>2. S \subseteq Nat /\ S # {}
  BY <1>1
<1>3. Least(S) \in S /\ \A i \in S : Least(S) <= i
  BY <1>2, LeastMember
<1>4. Counted = IF Least(S) = End THEN callout ELSE [callout EXCEPT ![Least(S)].c_time = @ - 1]
  BY DEF Counted
<1>5. PICK i : i = Least(S)
  OBVIOUS
<1>6. i \in 0 .. End /\ (i < End => callout[i].c_time > 0)
  BY <1>1, <1>3, <1>5
<1>7. ASSUME NEW j \in 0 .. i - 1 PROVE callout[j].c_time = 0
  <2>1. j \in 0 .. End - 1 /\ ~(i <= j)
    BY <1>1, <1>6
  <2>2. j \notin S
    BY <1>3, <1>5, <2>1
  <2>3. ~(callout[j].c_time > 0) /\ callout[j].c_time \in Nat
    BY <1>1, <2>1, <2>2
  <2> QED BY <2>3
<1> QED BY <1>4, <1>5, <1>6, <1>7

\* That entry is one of the list: what clock() has called has no time left, and
\* what it has begun to move down starts with an entry that has.
LEMMA FirstListed ==
  ASSUME TypeOK, InTable, ~Halted, Pointers, Passed, Ahead, Moving => ~nested,
         NEW i \in 0 .. End - 1, callout[i].c_time > 0,
         \A j \in 0 .. i - 1 : callout[j].c_time = 0
  PROVE  \E c \in 0 .. Size - 1 : Slot(c) = i /\ \A k \in 0 .. c - 1 : Slot(k) < i
<1>1. /\ Lo \in 0 .. End /\ Mv \in 0 .. Lo /\ Size \in Nat
      /\ Size = Mv + (End - Lo) /\ End \in Nat
      /\ \A k \in 0 .. Size - 1 : IF k < Mv THEN Slot(k) = k ELSE Slot(k) = Lo + (k - Mv)
  BY Shape, EndFacts, CalloutAssumption
<1>p. p1 \in Nat /\ p2 \in Nat
  BY CalloutAssumption DEF TypeOK, Entries
<1>2. CASE Mv = 0
  <2>1. \A j \in 0 .. Lo - 1 : callout[j].c_time = 0
    <3>1. CASE mode = "call"
      BY <3>1 DEF Lo, Passed
    <3>2. CASE mode = "handler"
      BY <1>p, <3>2 DEF Lo, Passed
    <3>3. CASE Moving
      <4>1. Lo = p1 /\ p2 = 0
        BY <1>2, <3>3 DEF Lo, Mv, Moving
      <4> QED BY <3>3, <4>1 DEF Passed
    <3>4. CASE mode = "base"
      <4>1. Lo = 0
        BY <3>4 DEF Lo, Moving
      <4> QED BY <4>1
    <3> QED BY <3>1, <3>2, <3>3, <3>4 DEF TypeOK, Halted, Moving
  <2>2. ~(i < Lo)
    <3> SUFFICES ASSUME i < Lo PROVE FALSE
      OBVIOUS
    <3>1. i \in 0 .. Lo - 1
      BY <1>1
    <3>2. callout[i].c_time = 0
      BY <2>1, <3>1
    <3> QED BY <3>2
  <2>3. i - Lo \in 0 .. Size - 1
    BY <1>1, <1>2, <2>2
  <2>4. \A k \in 0 .. Size - 1 : Slot(k) = Lo + k
    BY <1>1, <1>2
  <2>5. Slot(i - Lo) = i /\ \A k \in 0 .. (i - Lo) - 1 : Slot(k) < i
    BY <1>1, <2>3, <2>4
  <2> QED BY <2>3, <2>5
<1>3. CASE Mv # 0
  <2>1. Moving /\ p2 > 0
    BY <1>1, <1>3, <1>p DEF Mv
  <2>2. callout[0].c_time > 0
    BY <2>1 DEF Ahead
  <2>3. i = 0
    <3> SUFFICES ASSUME i # 0 PROVE FALSE
      OBVIOUS
    <3>1. 0 \in 0 .. i - 1
      BY <1>1
    <3>2. callout[0].c_time = 0
      BY <3>1
    <3> QED BY <2>2, <3>2
  <2>4. 0 \in 0 .. Size - 1 /\ 0 < Mv
    BY <1>1, <1>3
  <2>5. Slot(0) = 0
    BY <1>1, <2>4
  <2> QED BY <2>3, <2>4, <2>5
<1> QED BY <1>2, <1>3

\* A tick takes one from the time of everything in the list.
LEMMA CountStep ==
  ASSUME TypeOK, InTable, ~Halted, Pointers, Passed, Ahead, Moving => ~nested,
         Listed(Size, Fn, Tm, left), Count, Lo' = Lo, Mv' = Mv
  PROVE  /\ Listed(Size', Fn', Tm', left')
         /\ callout' \in [Entries -> [c_time : Nat, c_func : Funcs \cup {NULL}]]
         /\ \A i \in Entries : /\ callout'[i].c_func = callout[i].c_func
                               /\ callout[i].c_time = 0 => callout'[i].c_time = 0
         /\ InTable' /\ End' = End
<1>1. /\ Lo \in 0 .. End /\ Mv \in 0 .. Lo /\ Size \in Nat
      /\ \A k \in 0 .. Size - 1 : Slot(k) \in 0 .. End - 1
      /\ \A j, k \in 0 .. Size - 1 : Slot(j) = Slot(k) => j = k
  BY Shape
<1>2. /\ End \in 0 .. NCALL - 1 /\ callout[End].c_func = NULL
      /\ \A i \in 0 .. End - 1 : /\ i \in Entries /\ callout[i].c_func \in Funcs
                                 /\ callout[i].c_time \in Nat
  BY EndFacts
<1>3. PICK i \in 0 .. End :
           /\ i < End => callout[i].c_time > 0
           /\ \A j \in 0 .. i - 1 : callout[j].c_time = 0
           /\ Counted = IF i = End THEN callout ELSE [callout EXCEPT ![i].c_time = @ - 1]
  BY FirstFound
<1>4. callout \in [Entries -> [c_time : Nat, c_func : Funcs \cup {NULL}]]
  BY DEF TypeOK
<1>5. i \in Entries /\ End \in Entries /\ NCALL \in Entries /\ (i # NCALL)
  BY <1>2, CalloutAssumption DEF Entries
<1>6. \A j \in Entries : /\ callout'[j].c_func = callout[j].c_func
                         /\ callout'[j].c_time = IF j = i /\ i < End THEN callout[j].c_time - 1
                                                 ELSE callout[j].c_time
  <2>1. CASE i = End
    BY <1>2, <1>3, <2>1 DEF Count
  <2>2. CASE i # End
    <3>1. callout' = [callout EXCEPT ![i].c_time = @ - 1] /\ i < End
      BY <1>2, <1>3, <2>2 DEF Count
    <3> QED BY <1>4, <1>5, <3>1
  <2> QED BY <2>1, <2>2
<1>7. callout' \in [Entries -> [c_time : Nat, c_func : Funcs \cup {NULL}]]
  <2>1. CASE i = End
    BY <1>3, <1>4, <2>1 DEF Count
  <2>2. CASE i # End
    <3>1. callout' = [callout EXCEPT ![i].c_time = @ - 1] /\ i < End
      BY <1>2, <1>3, <2>2 DEF Count
    <3>2. callout[i].c_time - 1 \in Nat
      BY <1>2, <1>3, <3>1
    <3> QED BY <1>4, <1>5, <3>1, <3>2
  <2> QED BY <2>1, <2>2
<1>8. End' = End
  <2>1. callout'[End].c_func = NULL /\ \A j \in 0 .. End - 1 : callout'[j].c_func # NULL
    BY <1>2, <1>5, <1>6, CalloutAssumption
  <2>2. EndOf(callout') = End
    BY <1>5, <2>1, EndIs
  <2> QED BY <2>2 DEF End, EndOf
<1>9. InTable'
  <2>1. callout'[NCALL].c_func = NULL /\ callout'[NCALL].c_time = 0
    <3>1. callout[NCALL].c_func = NULL /\ callout[NCALL].c_time = 0
      BY DEF InTable
    <3> QED BY <1>5, <1>6, <3>1
  <2>2. callout'[NCALL] = [c_time |-> 0, c_func |-> NULL]
    BY <1>5, <1>7, <2>1
  <2> QED BY <1>2, <1>8, <2>2, CalloutAssumption DEF InTable
<1>10. Size' = Size /\ \A k \in 0 .. Size - 1 : Slot(k)' = Slot(k) /\ Slot(k) \in Entries
  BY <1>1, <1>2, <1>8 DEF Size, Slot
<1>11. \A k \in 0 .. Size - 1 : Fn[k] = callout[Slot(k)].c_func /\ Tm[k] = callout[Slot(k)].c_time
  BY DEF Fn, Tm
<1>12. Fn' = Fn
  <2>1. Fn' = [k \in 0 .. Size' - 1 |-> callout'[Slot(k)'].c_func]
    BY DEF Fn
  <2> QED BY <1>6, <1>10, <2>1 DEF Fn
<1>13. Tm' = [k \in 0 .. Size - 1 |-> callout'[Slot(k)].c_time]
  <2>1. Tm' = [k \in 0 .. Size' - 1 |-> callout'[Slot(k)'].c_time]
    BY DEF Tm
  <2> QED BY <1>10, <2>1
<1>14. \E c \in 0 .. Size :
         /\ \A k \in 0 .. c - 1 : Tm[k] = 0
         /\ c < Size => Tm[c] > 0
         /\ Tm' = [k \in 0 .. Size - 1 |-> IF k = c THEN Tm[k] - 1 ELSE Tm[k]]
  <2>1. CASE i = End
    <3>1. \A k \in 0 .. Size - 1 : Tm[k] = 0
      BY <1>1, <1>3, <1>11, <2>1
    <3>2. \A k \in 0 .. Size - 1 : callout'[Slot(k)].c_time = Tm[k] /\ k # Size
      BY <1>1, <1>2, <1>6, <1>10, <1>11, <2>1
    <3>3. Tm' = [k \in 0 .. Size - 1 |-> IF k = Size THEN Tm[k] - 1 ELSE Tm[k]]
      BY <1>13, <3>2
    <3> QED BY <1>1, <3>1, <3>3
  <2>2. CASE i # End
    <3>1. i \in 0 .. End - 1 /\ callout[i].c_time > 0
      BY <1>2, <1>3, <2>2
    <3>2. PICK c \in 0 .. Size - 1 : Slot(c) = i /\ \A k \in 0 .. c - 1 : Slot(k) < i
      BY <1>3, <3>1, FirstListed
    <3>3. c \in 0 .. Size /\ c < Size /\ Tm[c] > 0
      BY <1>1, <1>11, <3>1, <3>2
    <3>4. ASSUME NEW k \in 0 .. c - 1 PROVE Tm[k] = 0
      <4>1. k \in 0 .. Size - 1
        BY <1>1, <3>2
      <4>2. Slot(k) \in 0 .. i - 1
        BY <1>1, <1>2, <3>2, <4>1
      <4> QED BY <1>3, <1>11, <4>1, <4>2
    <3>5. \A k \in 0 .. Size - 1 : callout'[Slot(k)].c_time = IF k = c THEN Tm[k] - 1 ELSE Tm[k]
      <4>1. ASSUME NEW k \in 0 .. Size - 1
            PROVE  callout'[Slot(k)].c_time = IF k = c THEN Tm[k] - 1 ELSE Tm[k]
        <5>1. Slot(k) \in Entries /\ (Slot(k) = i <=> k = c)
          BY <1>1, <1>10, <3>2
        <5>2. i < End
          BY <1>2, <3>1
        <5>3. callout'[Slot(k)].c_time = IF Slot(k) = i THEN callout[Slot(k)].c_time - 1
                                         ELSE callout[Slot(k)].c_time
          BY <1>6, <5>1, <5>2
        <5> QED BY <1>11, <5>1, <5>3
      <4> QED BY <4>1
    <3>6. Tm' = [k \in 0 .. Size - 1 |-> IF k = c THEN Tm[k] - 1 ELSE Tm[k]]
      BY <1>13, <3>5
    <3> QED BY <3>3, <3>4, <3>6
  <2> QED BY <2>1, <2>2
<1>15. left' = Ticked(left)
  BY DEF Count, Ticked
<1>16. Listed(Size, Fn, Tm', Ticked(left))
  BY <1>14, ListCount
<1>17. Listed(Size', Fn', Tm', left')
  BY <1>10, <1>12, <1>15, <1>16
<1>18. \A j \in Entries : /\ callout'[j].c_func = callout[j].c_func
                          /\ callout[j].c_time = 0 => callout'[j].c_time = 0
  <2>1. ASSUME NEW j \in Entries, callout[j].c_time = 0 PROVE callout'[j].c_time = 0
    <3>1. ~(j = i /\ i < End)
      BY <1>3, <2>1
    <3> QED BY <1>6, <2>1, <3>1
  <2> QED BY <1>6, <2>1
<1> QED BY <1>7, <1>8, <1>9, <1>17, <1>18

-----------------------------------------------------------------------------
(* timeout.                                                                *)

\* While timeout() runs the sums of the times are the ticks that are left.
LEMMA SumLeft ==
  ASSUME TypeOK, InTable, ~Halted, Pointers, Passed, Listed(Size, Fn, Tm, left), MayCall
  PROVE  /\ Mv = 0 /\ Size = End - Lo
         /\ \A i \in 0 .. End - 1 :
              Sum[i] = IF i < Lo THEN 0 ELSE left[callout[i].c_func]
<1>1. /\ Lo \in 0 .. End /\ Mv = 0 /\ Size \in Nat
      /\ Size = End - Lo /\ End \in Nat
      /\ \A k \in 0 .. Size - 1 : Slot(k) = Lo + k
  <2>1. Mv = 0
    BY DEF Mv, Moving, MayCall
  <2>2. /\ Lo \in 0 .. End /\ Mv \in 0 .. Lo /\ Size \in Nat
        /\ Size = Mv + (End - Lo) /\ End \in Nat
        /\ \A k \in 0 .. Size - 1 : IF k < Mv THEN Slot(k) = k ELSE Slot(k) = Lo + (k - Mv)
    BY Shape, EndFacts, CalloutAssumption
  <2> QED BY <2>1, <2>2
<1>2. \A i \in 0 .. Lo - 1 : callout[i].c_time = 0
  <2>1. p1 \in Nat
    BY CalloutAssumption DEF TypeOK, Entries
  <2>2. CASE mode = "base"
    BY <2>2 DEF Lo, Moving
  <2>3. CASE mode = "handler"
    BY <2>1, <2>3 DEF Lo, Passed
  <2> QED BY <2>2, <2>3 DEF MayCall
<1>3. \A k \in 0 .. Size - 1 :
        /\ left[Fn[k]] \in Nat /\ left[Fn[k]] = Tm[k] + (IF k = 0 THEN 0 ELSE left[Fn[k - 1]])
        /\ Fn[k] = callout[Lo + k].c_func /\ Tm[k] = callout[Lo + k].c_time
  BY <1>1 DEF Listed, Fn, Tm
<1>4. PICK g : g = [j \in 0 .. NCALL |-> callout[j].c_time]
  OBVIOUS
<1>5. NCALL \in Nat /\ g \in [0 .. NCALL -> Nat] /\ End < NCALL
  BY <1>4, CalloutAssumption DEF TypeOK, Entries, InTable
<1>6. PICK s : s = Sum
  OBVIOUS
<1>7. Summed(g, NCALL, s)
  <2>1. Sum \in [Entries -> Nat] /\ \A i \in Entries : Sum[i] = callout[i].c_time + (IF i = 0 THEN 0 ELSE Sum[i - 1])
    BY SumFacts
  <2> QED BY <1>4, <1>6, <2>1 DEF Summed, Entries
<1>8. PICK w : w = [i \in 0 .. NCALL |-> IF i < Lo THEN 0 ELSE left[callout[i].c_func]]
  OBVIOUS
<1>9. CASE End = 0
  BY <1>1, <1>9
<1>10. CASE End # 0
  <2>1. End - 1 \in 0 .. NCALL
    BY <1>1, <1>5, <1>10
  <2>2. ASSUME NEW j \in 0 .. End - 1 PROVE w[j] = g[j] + (IF j = 0 THEN 0 ELSE w[j - 1])
    <3>1. j \in 0 .. NCALL /\ j \in Nat /\ (j # 0 => j - 1 \in 0 .. NCALL)
      BY <1>1, <1>5
    <3>2. CASE j < Lo
      <4>1. j \in 0 .. Lo - 1 /\ (j # 0 => j - 1 < Lo)
        BY <1>1, <3>1, <3>2
      <4>2. w[j] = 0 /\ g[j] = 0 /\ (j # 0 => w[j - 1] = 0)
        BY <1>2, <1>4, <1>8, <3>1, <3>2, <4>1
      <4> QED BY <4>2
    <3>3. CASE j >= Lo
      <4>1. PICK k \in 0 .. Size - 1 : j = Lo + k
        <5>1. j - Lo \in 0 .. Size - 1 /\ j = Lo + (j - Lo)
          BY <1>1, <3>1, <3>3
        <5> QED BY <5>1
      <4>2. w[j] = left[Fn[k]] /\ g[j] = Tm[k]
        BY <1>1, <1>3, <1>4, <1>8, <3>1, <3>3, <4>1
      <4>3. left[Fn[k]] = Tm[k] + (IF k = 0 THEN 0 ELSE left[Fn[k - 1]])
        BY <1>3
      <4>4. CASE k = 0
        <5>1. j = Lo /\ (j # 0 => w[j - 1] = 0)
          BY <1>1, <1>8, <3>1, <4>1, <4>4
        <5>2. Tm[k] \in Nat
          BY DEF Listed
        <5> QED BY <4>2, <4>3, <4>4, <5>1, <5>2
      <4>5. CASE k # 0
        <5>1. j # 0 /\ ~(j - 1 < Lo) /\ k - 1 \in 0 .. Size - 1 /\ j - 1 = Lo + (k - 1)
          BY <1>1, <3>1, <4>1, <4>5
        <5>2. w[j - 1] = left[Fn[k - 1]]
          BY <1>3, <1>8, <3>1, <5>1
        <5> QED BY <4>2, <4>3, <4>5, <5>1, <5>2
      <4> QED BY <4>4, <4>5
    <3> QED BY <1>1, <3>1, <3>2, <3>3
  <2>3. AddsUp(g, End - 1, w)
    BY <2>2 DEF AddsUp
  <2>4. \A j \in 0 .. End - 1 : s[j] = w[j]
    <3>1. PICK n : n = End - 1
      OBVIOUS
    <3>2. NCALL \in Nat /\ n \in 0 .. NCALL /\ AddsUp(g, n, w)
      BY <1>5, <2>1, <2>3, <3>1
    <3>3. \A j \in 0 .. n : s[j] = w[j]
      BY <1>5, <1>7, <3>2, SumsUnique
    <3> QED BY <3>1, <3>3
  <2>5. \A j \in 0 .. End - 1 : j \in 0 .. NCALL
    BY <1>1, <1>5
  <2> QED BY <1>1, <1>6, <1>8, <2>4, <2>5
<1> QED BY <1>1, <1>9, <1>10

\* Where the loop stops.
LEMMA PlaceFacts ==
  ASSUME TypeOK, InTable, NEW t \in Nat
  PROVE  /\ Place(t) \in 0 .. End
         /\ Place(t) < End => Sum[Place(t)] > t
         /\ \A i \in 0 .. Place(t) - 1 : Sum[i] <= t
<1> DEFINE S == {End} \cup {i \in 0 .. End - 1 : Sum[i] > t}
<1>1. End \in Nat /\ End < NCALL /\ NCALL \in Nat
  BY EndFacts, CalloutAssumption
<1>s. \A i \in 0 .. End - 1 : Sum[i] \in Nat
  <2>1. \A i \in 0 .. End - 1 : i \in Entries
    BY <1>1 DEF Entries
  <2> QED BY <2>1, SumFacts
<1>2. S \subseteq Nat /\ S # {}
  BY <1>1
<1>3. Least(S) \in S /\ \A i \in S : Least(S) <= i
  BY <1>2, LeastMember
<1>4. PICK p : p = Least(S)
  OBVIOUS
<1>5. p \in 0 .. End /\ (p < End => Sum[p] > t)
  BY <1>1, <1>3, <1>4
<1>6. ASSUME NEW i \in 0 .. p - 1 PROVE Sum[i] <= t
  <2>1. i \in 0 .. End - 1 /\ ~(p <= i)
    BY <1>1, <1>5
  <2>2. i \notin S
    BY <1>3, <1>4, <2>1
  <2>3. ~(Sum[i] > t) /\ Sum[i] \in Nat
    BY <1>s, <2>1, <2>2
  <2> QED BY <2>3
<1>7. Place(t) = p
  BY <1>4 DEF Place
<1> QED BY <1>5, <1>6, <1>7

\* The table with the new entry, entry by entry.
LEMMA AddEntries ==
  ASSUME TypeOK, InTable, NEW f \in Funcs, NEW t \in Nat, callout' = Add(f, t)
  PROVE  /\ \A i \in 0 .. Place(t) - 1 : callout'[i] = callout[i]
         /\ callout'[Place(t)] = [c_time |-> Rest(t), c_func |-> f]
         /\ callout'[Place(t) + 1].c_func = callout[Place(t)].c_func
         /\ callout'[Place(t) + 1].c_time = IF Place(t) = End THEN callout[Place(t)].c_time
                                            ELSE callout[Place(t)].c_time - Rest(t)
         /\ callout'[Place(t) + 1] =
              [callout[Place(t)] EXCEPT !.c_time = IF Place(t) = End THEN @ ELSE @ - Rest(t)]
         /\ \A i \in Place(t) + 2 .. End + 1 : callout'[i] = callout[i - 1]
         /\ \A i \in End + 2 .. NCALL : callout'[i] = callout[i]
         /\ callout' = [i \in Entries |-> callout'[i]]
<1>1. PICK p : p = Place(t)
  OBVIOUS
<1>2. p \in 0 .. End /\ End \in Nat /\ NCALL \in Nat /\ End < NCALL
  BY <1>1, PlaceFacts, EndFacts, CalloutAssumption
<1>3. PICK r : r = Rest(t)
  OBVIOUS
<1>4. callout' = [i \in Entries |->
     CASE i = p -> [c_time |-> r, c_func |-> f]
       [] i = p + 1 -> [callout[i - 1] EXCEPT !.c_time = IF p = End THEN @ ELSE @ - r]
       [] i > p + 1 /\ i <= End + 1 -> callout[i - 1]
       [] OTHER -> callout[i]]
  BY <1>1, <1>3 DEF Add
<1>5. \A i \in 0 .. p - 1 : callout'[i] = callout[i]
  <2>1. \A i \in 0 .. p - 1 : i \in Entries /\ i # p /\ i # p + 1 /\ ~(i > p + 1)
    BY <1>2 DEF Entries
  <2> QED BY <1>4, <2>1
<1>6. callout'[p] = [c_time |-> r, c_func |-> f]
  <2>1. p \in Entries /\ p # p + 1 /\ ~(p > p + 1)
    BY <1>2 DEF Entries
  <2> QED BY <1>4, <2>1
<1>7. callout'[p + 1] = [callout[p] EXCEPT !.c_time = IF p = End THEN @ ELSE @ - r]
  <2>1. p + 1 \in Entries /\ p + 1 # p /\ ~(p + 1 > p + 1) /\ (p + 1) - 1 = p
    BY <1>2 DEF Entries
  <2> QED BY <1>4, <2>1
<1>8. \A i \in p + 2 .. End + 1 : callout'[i] = callout[i - 1]
  <2>1. \A i \in p + 2 .. End + 1 : i \in Entries /\ i # p /\ i # p + 1 /\ i > p + 1 /\ i <= End + 1
    BY <1>2 DEF Entries
  <2> QED BY <1>4, <2>1
<1>9. \A i \in End + 2 .. NCALL : callout'[i] = callout[i]
  <2>1. \A i \in End + 2 .. NCALL : i \in Entries /\ i # p /\ i # p + 1 /\ ~(i <= End + 1)
    BY <1>2 DEF Entries
  <2> QED BY <1>4, <2>1
<1>10. callout' = [i \in Entries |-> callout'[i]]
  BY <1>4
<1>11. callout[p] \in [c_time : Nat, c_func : Funcs \cup {NULL}]
  <2>1. p \in Entries
    BY <1>2 DEF Entries
  <2> QED BY <2>1 DEF TypeOK
<1>12. /\ callout'[p + 1].c_func = callout[p].c_func
       /\ callout'[p + 1].c_time = IF p = End THEN callout[p].c_time ELSE callout[p].c_time - r
  BY <1>7, <1>11
<1> QED BY <1>1, <1>3, <1>5, <1>6, <1>7, <1>8, <1>9, <1>10, <1>12

\* The table after a new entry at its time, the b-th of the list.
LEMMA AddedAt ==
  ASSUME TypeOK, InTable, ~Halted, Pointers, Passed, Listed(Size, Fn, Tm, left),
         NEW f \in Funcs, NEW t \in Times, MayCall, left[f] = Off, callout' = Add(f, t)
  PROVE  /\ \E b \in 0 .. Size : \E r \in Nat :
              /\ b > 0 => left[Fn[b - 1]] <= t
              /\ b < Size => left[Fn[b]] > t
              /\ r = t - (IF b = 0 THEN 0 ELSE left[Fn[b - 1]])
              /\ \A k \in 0 .. Size :
                   /\ callout'[Lo + k].c_func = IF k < b THEN Fn[k] ELSE IF k = b THEN f ELSE Fn[k - 1]
                   /\ callout'[Lo + k].c_time = IF k < b THEN Tm[k] ELSE IF k = b THEN r
                                                ELSE IF k = b + 1 THEN Tm[b] - r ELSE Tm[k - 1]
         /\ callout' \in [Entries -> [c_time : Nat, c_func : Funcs \cup {NULL}]]
         /\ \A i \in 0 .. Lo - 1 : callout'[i] = callout[i]
         /\ \A i \in End + 2 .. NCALL : callout'[i] = callout[i]
         /\ End' = End + 1
<1>0. t \in Nat /\ t > 0 /\ NCALL \in Nat
  BY CalloutAssumption
<1>2. /\ Mv = 0 /\ Size = End - Lo
      /\ \A i \in 0 .. End - 1 : Sum[i] = IF i < Lo THEN 0 ELSE left[callout[i].c_func]
  BY SumLeft
<1>3. /\ Lo \in 0 .. End /\ Size \in Nat
      /\ \A k \in 0 .. Size - 1 : IF k < Mv THEN Slot(k) = k ELSE Slot(k) = Lo + (k - Mv)
  BY Shape
<1>4. /\ End \in 0 .. NCALL - 1 /\ callout[End].c_func = NULL
      /\ \A i \in 0 .. End - 1 : /\ i \in Entries /\ callout[i].c_func \in Funcs
                                 /\ callout[i].c_time \in Nat
  BY EndFacts
<1>5. PICK p : p = Place(t)
  OBVIOUS
<1>6. /\ p \in 0 .. End
      /\ p < End => Sum[p] > t
      /\ \A i \in 0 .. p - 1 : Sum[i] <= t
  BY <1>0, <1>5, PlaceFacts
<1>7. PICK r : r = Rest(t)
  OBVIOUS
<1>8. /\ \A i \in 0 .. p - 1 : callout'[i] = callout[i]
      /\ callout'[p] = [c_time |-> r, c_func |-> f]
      /\ callout'[p + 1].c_func = callout[p].c_func
      /\ callout'[p + 1].c_time = IF p = End THEN callout[p].c_time ELSE callout[p].c_time - r
      /\ callout'[p + 1] = [callout[p] EXCEPT !.c_time = IF p = End THEN @ ELSE @ - r]
      /\ \A i \in p + 2 .. End + 1 : callout'[i] = callout[i - 1]
      /\ \A i \in End + 2 .. NCALL : callout'[i] = callout[i]
      /\ callout' = [i \in Entries |-> callout'[i]]
  BY <1>0, <1>5, <1>7, AddEntries
<1>9. p >= Lo
  <2> SUFFICES ASSUME p < Lo PROVE FALSE
    BY <1>3, <1>4, <1>6
  <2>1. p \in 0 .. End - 1 /\ p < End
    BY <1>3, <1>4, <1>6
  <2>2. Sum[p] = 0 /\ Sum[p] > t
    BY <1>2, <1>6, <2>1
  <2> QED BY <1>0, <2>2
<1>10. PICK b \in 0 .. Size : p = Lo + b
  <2>1. p - Lo \in 0 .. Size /\ p = Lo + (p - Lo)
    BY <1>2, <1>3, <1>4, <1>6, <1>9
  <2> QED BY <2>1
<1>11. \A k \in 0 .. Size - 1 : /\ Slot(k) = Lo + k /\ Lo + k \in 0 .. End - 1 /\ ~(Lo + k < Lo)
                                /\ Fn[k] = callout[Lo + k].c_func /\ Tm[k] = callout[Lo + k].c_time
                                /\ Sum[Lo + k] = left[Fn[k]]
  <2>1. \A k \in 0 .. Size - 1 : Slot(k) = Lo + k /\ Lo + k \in 0 .. End - 1 /\ ~(Lo + k < Lo)
    BY <1>2, <1>3, <1>4
  <2>2. \A k \in 0 .. Size - 1 : Fn[k] = callout[Lo + k].c_func /\ Tm[k] = callout[Lo + k].c_time
    BY <2>1 DEF Fn, Tm
  <2> QED BY <1>2, <2>1, <2>2
<1>12. \A k \in 0 .. Size - 1 : left[Fn[k]] \in Nat
  BY DEF Listed
<1>13. b > 0 => b - 1 \in 0 .. Size - 1 /\ p # 0 /\ p - 1 = Lo + (b - 1) /\ p - 1 \in 0 .. p - 1
  BY <1>3, <1>4, <1>6, <1>10
<1>14. b > 0 => left[Fn[b - 1]] <= t
  BY <1>6, <1>11, <1>13
<1>15. b < Size => b \in 0 .. Size - 1 /\ p < End /\ left[Fn[b]] > t
  <2> HAVE b < Size
  <2>1. b \in 0 .. Size - 1 /\ p < End
    BY <1>2, <1>3, <1>4, <1>10
  <2> QED BY <1>6, <1>10, <1>11, <2>1
<1>16. r = t - (IF b = 0 THEN 0 ELSE left[Fn[b - 1]])
  <2>1. r = IF p = 0 THEN t ELSE t - Sum[p - 1]
    BY <1>5, <1>7 DEF Rest
  <2>2. CASE b = 0
    <3>1. p = Lo /\ (p # 0 => p - 1 \in 0 .. End - 1 /\ p - 1 < Lo)
      BY <1>3, <1>4, <1>6, <1>10, <2>2
    <3>2. p # 0 => Sum[p - 1] = 0
      BY <1>2, <3>1
    <3>3. r = t
      BY <1>0, <2>1, <3>2
    <3> QED BY <1>0, <2>2, <3>3
  <2>3. CASE b # 0
    <3>1. b > 0
      BY <1>3, <2>3
    <3>2. Sum[p - 1] = left[Fn[b - 1]] /\ p # 0
      BY <1>11, <1>13, <3>1
    <3> QED BY <2>1, <2>3, <3>2
  <2> QED BY <2>2, <2>3
<1>17. End' = End + 1
  <2>1. callout'[End + 1].c_func = NULL
    <3>1. CASE p = End
      BY <1>4, <1>8, <3>1
    <3>2. CASE p # End
      <4>1. End + 1 \in p + 2 .. End + 1 /\ (End + 1) - 1 = End
        BY <1>4, <1>6, <3>2
      <4> QED BY <1>4, <1>8, <4>1
    <3> QED BY <3>1, <3>2
  <2>2. ASSUME NEW i \in 0 .. (End + 1) - 1 PROVE callout'[i].c_func # NULL
    <3>1. CASE i < p
      <4>1. i \in 0 .. p - 1 /\ i \in 0 .. End - 1
        BY <1>4, <1>6, <3>1
      <4> QED BY <1>4, <1>8, <4>1, CalloutAssumption
    <3>2. CASE i = p
      BY <1>8, <3>2, CalloutAssumption
    <3>3. CASE i = p + 1
      <4>1. p \in 0 .. End - 1
        BY <1>4, <1>6, <3>3
      <4> QED BY <1>4, <1>8, <3>3, <4>1, CalloutAssumption
    <3>4. CASE i > p + 1
      <4>1. i \in p + 2 .. End + 1 /\ i - 1 \in 0 .. End - 1
        BY <1>4, <1>6, <3>4
      <4> QED BY <1>4, <1>8, <4>1, CalloutAssumption
    <3> QED BY <1>4, <1>6, <3>1, <3>2, <3>3, <3>4
  <2>3. End + 1 \in Entries
    BY <1>0, <1>4 DEF Entries
  <2>4. EndOf(callout') = End + 1
    BY <2>1, <2>2, <2>3, EndIs
  <2> QED BY <2>4 DEF End, EndOf
<1>22. ASSUME NEW k \in 0 .. Size
       PROVE  /\ callout'[Lo + k].c_func = IF k < b THEN Fn[k] ELSE IF k = b THEN f ELSE Fn[k - 1]
              /\ callout'[Lo + k].c_time = IF k < b THEN Tm[k] ELSE IF k = b THEN r
                                           ELSE IF k = b + 1 THEN Tm[b] - r ELSE Tm[k - 1]
  <2>1. CASE k < b
    <3>1. Lo + k \in 0 .. p - 1 /\ k \in 0 .. Size - 1
      BY <1>3, <1>4, <1>10, <2>1
    <3> QED BY <1>8, <1>11, <2>1, <3>1
  <2>2. CASE k = b
    BY <1>8, <1>10, <2>2
  <2>3. CASE k = b + 1
    <3>1. Lo + k = p + 1 /\ p # End /\ b \in 0 .. Size - 1 /\ ~(k < b) /\ k # b /\ k - 1 = b
      BY <1>2, <1>3, <1>4, <1>10, <2>3
    <3> QED BY <1>8, <1>10, <1>11, <2>3, <3>1, ZenonT(40)
  <2>4. CASE k > b + 1
    <3>1. /\ Lo + k \in p + 2 .. End + 1 /\ k - 1 \in 0 .. Size - 1 /\ (Lo + k) - 1 = Lo + (k - 1)
          /\ ~(k < b) /\ k # b /\ k # b + 1
      BY <1>2, <1>3, <1>4, <1>10, <2>4
    <3> QED BY <1>8, <1>11, <3>1
  <2> QED BY <1>3, <2>1, <2>2, <2>3, <2>4
<1>r. r \in Nat
  <2>1. CASE b = 0
    BY <1>0, <1>16, <2>1
  <2>2. CASE b # 0
    <3>1. b > 0 /\ left[Fn[b - 1]] \in Nat
      BY <1>3, <1>12, <1>13, <2>2
    <3> QED BY <1>0, <1>14, <1>16, <2>2, <3>1
  <2> QED BY <2>1, <2>2
<1>27. ASSUME NEW i \in Entries
       PROVE  callout'[i] \in [c_time : Nat, c_func : Funcs \cup {NULL}]
  <2>t. \A j \in Entries : callout[j] \in [c_time : Nat, c_func : Funcs \cup {NULL}]
    BY DEF TypeOK
  <2>1. CASE i < p
    <3>1. i \in 0 .. p - 1
      BY <1>0, <1>4, <1>6, <2>1 DEF Entries
    <3> QED BY <1>8, <2>t, <3>1
  <2>2. CASE i = p
    BY <1>8, <1>r, <2>2
  <2>3. CASE i = p + 1
    <3>0. callout[p] \in [c_time : Nat, c_func : Funcs \cup {NULL}]
      BY <1>0, <1>4, <1>6, <2>t DEF Entries
    <3>1. CASE p = End
      <4>1. callout'[p + 1] = [callout[p] EXCEPT !.c_time = callout[p].c_time]
        BY <1>8, <3>1
      <4> QED BY <2>3, <3>0, <4>1
    <3>2. CASE p # End
      <4>1. b < Size
        BY <1>2, <1>3, <1>4, <1>6, <1>10, <3>2
      <4>2. /\ b \in 0 .. Size - 1 /\ left[Fn[b]] > t /\ Tm[b] = callout[p].c_time
            /\ left[Fn[b]] = Tm[b] + (IF b = 0 THEN 0 ELSE left[Fn[b - 1]]) /\ Tm[b] \in Nat
        BY <1>10, <1>11, <1>15, <4>1 DEF Listed
      <4>3. callout'[p + 1] = [callout[p] EXCEPT !.c_time = callout[p].c_time - r]
        BY <1>8, <3>2
      <4>4. callout[p].c_time - r \in Nat
        <5>1. CASE b = 0
          BY <1>0, <1>16, <4>2, <5>1
        <5>2. CASE b # 0
          <6>1. left[Fn[b - 1]] \in Nat
            BY <1>12, <1>13, <5>2
          <6> QED BY <1>0, <1>16, <4>2, <5>2, <6>1
        <5> QED BY <5>1, <5>2
      <4> QED BY <2>3, <3>0, <4>3, <4>4
    <3> QED BY <3>1, <3>2
  <2>4. CASE i > p + 1 /\ i <= End + 1
    <3>1. i \in p + 2 .. End + 1 /\ i - 1 \in Entries
      BY <1>0, <1>4, <1>6, <2>4 DEF Entries
    <3> QED BY <1>8, <2>t, <3>1
  <2>5. CASE i > End + 1
    <3>1. i \in End + 2 .. NCALL
      BY <1>0, <1>4, <2>5 DEF Entries
    <3> QED BY <1>8, <2>t, <3>1
  <2> QED BY <1>0, <1>4, <1>6, <2>1, <2>2, <2>3, <2>4, <2>5 DEF Entries
<1>28. callout' \in [Entries -> [c_time : Nat, c_func : Funcs \cup {NULL}]]
  BY <1>8, <1>27
<1>29. \A i \in 0 .. Lo - 1 : callout'[i] = callout[i]
  <2>1. \A i \in 0 .. Lo - 1 : i \in 0 .. p - 1
    BY <1>3, <1>4, <1>6, <1>9
  <2> QED BY <1>8, <2>1
<1>30. /\ b > 0 => left[Fn[b - 1]] <= t
       /\ b < Size => left[Fn[b]] > t
       /\ \A i \in End + 2 .. NCALL : callout'[i] = callout[i]
  BY <1>8, <1>14, <1>15
<1> QED BY <1>r, <1>16, <1>17, <1>22, <1>28, <1>29, <1>30

\* A new entry goes into the list, at its time.
LEMMA TimeoutStep ==
  ASSUME TypeOK, InTable, ~Halted, Pointers, Passed, Listed(Size, Fn, Tm, left),
         NEW f \in Funcs, NEW t \in Times, Timeout(f, t)
  PROVE  /\ Listed(Size', Fn', Tm', left')
         /\ callout' \in [Entries -> [c_time : Nat, c_func : Funcs \cup {NULL}]]
         /\ \A i \in 0 .. Lo - 1 : callout'[i] = callout[i]
         /\ InTable' /\ End' = End + 1
<1>0. t \in Nat /\ t > 0 /\ NCALL \in Nat
  BY CalloutAssumption
<1>1. /\ MayCall /\ left[f] = Off /\ End < NCALL - 1 /\ callout' = Add(f, t)
      /\ left' = [left EXCEPT ![f] = t] /\ mode' = mode /\ p1' = p1 /\ p2' = p2
  BY DEF Timeout
<1>2. PICK b \in 0 .. Size, r \in Nat :
        /\ b > 0 => left[Fn[b - 1]] <= t
        /\ b < Size => left[Fn[b]] > t
        /\ r = t - (IF b = 0 THEN 0 ELSE left[Fn[b - 1]])
        /\ \A k \in 0 .. Size :
             /\ callout'[Lo + k].c_func = IF k < b THEN Fn[k] ELSE IF k = b THEN f ELSE Fn[k - 1]
             /\ callout'[Lo + k].c_time = IF k < b THEN Tm[k] ELSE IF k = b THEN r
                                          ELSE IF k = b + 1 THEN Tm[b] - r ELSE Tm[k - 1]
  BY <1>1, AddedAt
<1>3. /\ callout' \in [Entries -> [c_time : Nat, c_func : Funcs \cup {NULL}]]
      /\ \A i \in 0 .. Lo - 1 : callout'[i] = callout[i]
      /\ \A i \in End + 2 .. NCALL : callout'[i] = callout[i]
      /\ End' = End + 1
  BY <1>1, AddedAt
<1>4. Lo \in 0 .. End /\ Size \in Nat /\ Mv = 0 /\ Size = End - Lo /\ End \in 0 .. NCALL - 1
  BY <1>1, Shape, SumLeft, EndFacts
<1>18. Lo' = Lo /\ Mv' = 0
  BY <1>1, <1>4 DEF Lo, Mv, Moving
<1>19. Size' = Size + 1
  BY <1>3, <1>4, <1>18 DEF Size
<1>20. \A k \in 0 .. Size : Slot(k)' = Lo + k
  BY <1>4, <1>18 DEF Slot
<1>21. /\ Fn' = [k \in 0 .. Size |-> callout'[Lo + k].c_func]
       /\ Tm' = [k \in 0 .. Size |-> callout'[Lo + k].c_time]
  <2>1. Size' - 1 = Size
    BY <1>4, <1>19
  <2>2. Fn' = [k \in 0 .. Size' - 1 |-> callout'[Slot(k)'].c_func]
    BY DEF Fn
  <2>3. Tm' = [k \in 0 .. Size' - 1 |-> callout'[Slot(k)'].c_time]
    BY DEF Tm
  <2> QED BY <1>20, <2>1, <2>2, <2>3
<1>23. Fn' = [k \in 0 .. Size |-> IF k < b THEN Fn[k] ELSE IF k = b THEN f ELSE Fn[k - 1]]
  BY <1>2, <1>21
<1>24. Tm' = [k \in 0 .. Size |-> IF k < b THEN Tm[k] ELSE IF k = b THEN r
                                  ELSE IF k = b + 1 THEN Tm[b] - r ELSE Tm[k - 1]]
  BY <1>2, <1>21
<1>25. Listed(Size + 1, Fn', Tm', [left EXCEPT ![f] = t])
  <2>1. PICK m, F, T, L : m = Size /\ F = Fn /\ T = Tm /\ L = left
    OBVIOUS
  <2>2. PICK G, U : G = Fn' /\ U = Tm'
    OBVIOUS
  <2>3. Listed(m, F, T, L) /\ b \in 0 .. m /\ L[f] = Off
    BY <1>1, <2>1
  <2>4. (b > 0 => L[F[b - 1]] <= t) /\ (b < m => L[F[b]] > t)
    BY <1>2, <2>1
  <2>5. r = t - (IF b = 0 THEN 0 ELSE L[F[b - 1]])
    BY <1>2, <2>1
  <2>6. G = [k \in 0 .. m |-> IF k < b THEN F[k] ELSE IF k = b THEN f ELSE F[k - 1]]
    BY <1>23, <2>1, <2>2
  <2>7. U = [k \in 0 .. m |-> IF k < b THEN T[k] ELSE IF k = b THEN r
                              ELSE IF k = b + 1 THEN T[b] - r ELSE T[k - 1]]
    BY <1>24, <2>1, <2>2
  <2>8. Listed(m + 1, G, U, [L EXCEPT ![f] = t])
    BY <1>0, <2>3, <2>4, <2>5, <2>6, <2>7, ListInsert
  <2> QED BY <2>1, <2>2, <2>8
<1>26. Listed(Size', Fn', Tm', left')
  BY <1>1, <1>19, <1>25
<1>27. InTable'
  <2>1. NCALL \in End + 2 .. NCALL
    BY <1>0, <1>1, <1>4
  <2>2. callout'[NCALL] = [c_time |-> 0, c_func |-> NULL]
    BY <1>3, <2>1 DEF InTable
  <2>3. End' < NCALL
    BY <1>0, <1>1, <1>3, <1>4
  <2> QED BY <2>2, <2>3 DEF InTable
<1> QED BY <1>3, <1>26, <1>27

-----------------------------------------------------------------------------
(* Invariance, action by action.                                           *)

\* A call of timeout().
LEMMA KeptTimeout ==
  ASSUME IInv, NEW f \in Funcs, NEW t \in Times, Timeout(f, t)
  PROVE  IInv'
<1>0. TypeOK /\ InTable /\ Exact /\ ~Halted
  BY DEF IInv, Contained, Timeout, MayCall, Halted
<1>1. Pointers /\ Passed /\ Ahead /\ Listed(Size, Fn, Tm, left)
  BY <1>0 DEF Exact
<1>2. MayCall /\ mode' = mode /\ p1' = p1 /\ p2' = p2 /\ nested' = nested
  BY DEF Timeout
<1>3. /\ Listed(Size', Fn', Tm', left')
      /\ callout' \in [Entries -> [c_time : Nat, c_func : Funcs \cup {NULL}]]
      /\ \A i \in 0 .. Lo - 1 : callout'[i] = callout[i]
      /\ InTable' /\ End' = End + 1
  BY <1>0, <1>1, TimeoutStep
<1>4. TypeOK'
  BY <1>0, <1>2, <1>3 DEF TypeOK, Listed
<1>5. End \in Nat /\ p1 \in Nat
  BY <1>0, EndFacts, CalloutAssumption DEF TypeOK, Entries
<1>6. Pointers'
  BY <1>1, <1>2, <1>3, <1>5 DEF Pointers, MayCall, Moving
<1>7. Passed'
  <2>1. CASE mode = "base"
    BY <1>2, <2>1 DEF Passed, Moving
  <2>2. CASE mode = "handler"
    <3>1. \A i \in 0 .. p1 : callout'[i].c_time = 0
      <4>1. Lo - 1 = p1
        BY <1>5, <2>2 DEF Lo, Moving
      <4>2. \A i \in 0 .. p1 : callout[i].c_time = 0
        BY <1>1, <1>5, <2>2 DEF Passed
      <4> QED BY <1>3, <4>1, <4>2
    <3>2. (\A i \in 0 .. p1 - 1 : callout'[i].c_time = 0) /\ callout'[p1].c_time = 0
      BY <1>5, <3>1
    <3> QED BY <1>2, <3>2 DEF Passed
  <2> QED BY <1>2, <2>1, <2>2 DEF MayCall
<1>8. Ahead'
  BY <1>2 DEF Ahead, Moving, MayCall
<1> QED BY <1>0, <1>2, <1>3, <1>4, <1>6, <1>7, <1>8 DEF IInv, Exact, Contained, Halted

\* The call that stops the system.
LEMMA KeptPanic ==
  ASSUME IInv, NEW f \in Funcs, NEW t \in Times, TimeoutPanic(f, t)
  PROVE  IInv'
<1>1. callout' = callout /\ p1' = p1 /\ p2' = p2 /\ nested' = nested /\ left' = left
  BY DEF TimeoutPanic
<1>2. mode' = "panic" /\ mode # "overrun"
  BY DEF TimeoutPanic, MayCall
<1>3. TypeOK'
  BY <1>1, <1>2 DEF IInv, TypeOK
<1>4. Contained'
  BY <1>1, <1>2 DEF IInv, Contained, InTable, End
<1>5. Exact'
  BY <1>2 DEF Exact, Halted
<1> QED BY <1>3, <1>4, <1>5 DEF IInv

\* The call that goes behind the table.
LEMMA KeptOverrun ==
  ASSUME IInv, NEW f \in Funcs, NEW t \in Times, TimeoutOverrun(f, t)
  PROVE  IInv'
<1>0. TypeOK /\ InTable /\ Exact /\ ~Halted
  BY DEF IInv, Contained, TimeoutOverrun, MayCall, Halted
<1>1. Pointers /\ Passed /\ Ahead /\ Listed(Size, Fn, Tm, left)
  BY <1>0 DEF Exact
<1>2. /\ MayCall /\ left[f] = Off /\ callout' = Add(f, t) /\ left' = [left EXCEPT ![f] = t]
      /\ mode' = "overrun" /\ p1' = p1 /\ p2' = p2 /\ nested' = nested /\ End = NCALL - 1
  BY DEF TimeoutOverrun
<1>3. callout' \in [Entries -> [c_time : Nat, c_func : Funcs \cup {NULL}]] /\ End' = End + 1
  BY <1>0, <1>1, <1>2, AddedAt
<1>4. t \in Nat /\ NCALL \in Nat
  BY CalloutAssumption
<1>5. left' \in [Funcs -> Nat \cup {Off}]
  BY <1>0, <1>2, <1>4 DEF TypeOK
<1>6. TypeOK'
  BY <1>0, <1>2, <1>3, <1>5 DEF TypeOK
<1>7. Contained'
  BY <1>2, <1>3, <1>4 DEF Contained
<1>8. Exact'
  BY <1>2 DEF Exact, Halted
<1> QED BY <1>6, <1>7, <1>8 DEF IInv

\* A clock interrupt that finds the processor at priority 0.
LEMMA KeptClock ==
  ASSUME IInv, Clock
  PROVE  IInv'
<1>0. TypeOK /\ InTable /\ Exact /\ ~Halted /\ mode = "base" /\ ~Moving
  BY DEF IInv, Contained, Clock, Halted, Moving
<1>1. Pointers /\ Passed /\ Ahead /\ Listed(Size, Fn, Tm, left)
  BY <1>0 DEF Exact
<1>2. mode' \in {"call", "base"} /\ p1' = 0 /\ p2' = p2 /\ nested' = nested /\ Count
  BY DEF Clock
<1>3. Lo' = Lo /\ Mv' = Mv
  BY <1>0, <1>2 DEF Lo, Mv, Moving
<1>4. /\ Listed(Size', Fn', Tm', left')
      /\ callout' \in [Entries -> [c_time : Nat, c_func : Funcs \cup {NULL}]]
      /\ InTable' /\ End' = End
  BY <1>0, <1>1, <1>2, <1>3, CountStep
<1>5. End \in Nat /\ p2 = 0 /\ 0 \in Entries
  BY <1>0, <1>1, EndFacts, CalloutAssumption DEF Pointers, Entries
<1>6. TypeOK'
  BY <1>0, <1>2, <1>4, <1>5 DEF TypeOK, Listed
<1>7. Pointers'
  BY <1>2, <1>4, <1>5 DEF Pointers, Moving
<1>8. Passed'
  BY <1>2 DEF Passed, Moving
<1>9. Ahead'
  BY <1>2 DEF Ahead, Moving
<1> QED BY <1>2, <1>4, <1>6, <1>7, <1>8, <1>9 DEF IInv, Exact, Contained

\* One that does not, in clock() itself too.
LEMMA KeptClockHigh ==
  ASSUME IInv, ClockHigh
  PROVE  IInv'
<1>0. TypeOK /\ InTable /\ Exact /\ ~Halted /\ (Moving => ~nested)
  BY DEF IInv, Contained, ClockHigh, Halted
<1>1. Pointers /\ Passed /\ Ahead /\ Listed(Size, Fn, Tm, left)
  BY <1>0 DEF Exact
<1>2. mode' = mode /\ p1' = p1 /\ p2' = p2 /\ nested' = Moving /\ Count
  BY DEF ClockHigh
<1>3. Lo' = Lo /\ Mv' = Mv
  BY <1>2 DEF Lo, Mv, Moving
<1>4. /\ Listed(Size', Fn', Tm', left')
      /\ callout' \in [Entries -> [c_time : Nat, c_func : Funcs \cup {NULL}]]
      /\ \A i \in Entries : /\ callout'[i].c_func = callout[i].c_func
                            /\ callout[i].c_time = 0 => callout'[i].c_time = 0
      /\ InTable' /\ End' = End
  BY <1>0, <1>1, <1>2, <1>3, CountStep
<1>5. p1 \in Entries /\ p2 \in Entries /\ \A i \in 0 .. p1 - 1 : i \in Entries
  BY <1>0, CalloutAssumption DEF TypeOK, Entries
<1>6. TypeOK'
  <2>1. nested' \in BOOLEAN
    BY <1>2 DEF Moving
  <2> QED BY <1>0, <1>2, <1>4, <2>1 DEF TypeOK, Listed
<1>7. Pointers'
  BY <1>1, <1>2, <1>4, <1>5 DEF Pointers, Moving
<1>8. Passed'
  BY <1>1, <1>2, <1>4, <1>5 DEF Passed, Moving
<1>9. Ahead'
  BY <1>2 DEF Ahead, Moving
<1> QED BY <1>0, <1>2, <1>4, <1>6, <1>7, <1>8, <1>9 DEF IInv, Exact, Contained, Halted

\* A function that is due is called.
LEMMA KeptCall ==
  ASSUME IInv, Call
  PROVE  IInv' /\ callout[p1].c_func \in Funcs /\ left[callout[p1].c_func] = 0
<1>0. TypeOK /\ InTable /\ Exact /\ ~Halted /\ mode = "call"
  BY DEF IInv, Contained, Call, Halted
<1>1. Pointers /\ Passed /\ Listed(Size, Fn, Tm, left)
  BY <1>0 DEF Exact
<1>2. /\ mode' = "handler" /\ callout' = callout /\ p1' = p1 /\ p2' = p2 /\ nested' = nested
      /\ left' = [left EXCEPT ![callout[p1].c_func] = Off]
      /\ callout[p1].c_func # NULL /\ callout[p1].c_time <= 0
  BY DEF Call, Due
<1>3. /\ End \in Nat /\ callout[End].c_func = NULL
      /\ \A i \in 0 .. End - 1 : callout[i].c_func \in Funcs /\ callout[i].c_time \in Nat
  BY <1>0, EndFacts, CalloutAssumption
<1>4. p1 \in Nat /\ p1 < End
  <2>1. p1 \in Nat /\ p1 <= End
    BY <1>0, <1>1, CalloutAssumption DEF TypeOK, Entries, Pointers
  <2>2. p1 # End
    BY <1>2, <1>3
  <2> QED BY <1>3, <2>1, <2>2
<1>5. callout[p1].c_func \in Funcs /\ callout[p1].c_time = 0
  BY <1>2, <1>3, <1>4
<1>6. Lo = p1 /\ Mv = 0 /\ Lo' = p1 + 1 /\ Mv' = 0 /\ End' = End
  BY <1>0, <1>2 DEF Lo, Mv, Moving, End
<1>7. Size = End - p1 /\ Size' = End - (p1 + 1) /\ Size > 0 /\ Size' = Size - 1 /\ Size \in Nat
  BY <1>3, <1>4, <1>6 DEF Size
<1>8. \A k \in 0 .. Size - 1 : Slot(k) = p1 + k
  BY <1>4, <1>6, <1>7 DEF Slot
<1>9. \A k \in 0 .. Size - 2 : Slot(k)' = p1 + (k + 1) /\ k + 1 \in 0 .. Size - 1
  BY <1>4, <1>6, <1>7 DEF Slot
<1>10. Fn[0] = callout[p1].c_func /\ Tm[0] = 0
  <2>1. 0 \in 0 .. Size - 1 /\ Slot(0) = p1
    BY <1>4, <1>7, <1>8
  <2> QED BY <1>5, <2>1 DEF Fn, Tm
<1>11. Size' - 1 = Size - 2
  BY <1>7
<1>12. Fn' = [k \in 0 .. Size - 2 |-> Fn[k + 1]]
  <2>1. Fn' = [k \in 0 .. Size' - 1 |-> callout'[Slot(k)'].c_func]
    BY DEF Fn
  <2>2. \A k \in 0 .. Size - 2 : callout'[Slot(k)'].c_func = Fn[k + 1]
    BY <1>2, <1>8, <1>9 DEF Fn
  <2> QED BY <1>11, <2>1, <2>2
<1>13. Tm' = [k \in 0 .. Size - 2 |-> Tm[k + 1]]
  <2>1. Tm' = [k \in 0 .. Size' - 1 |-> callout'[Slot(k)'].c_time]
    BY DEF Tm
  <2>2. \A k \in 0 .. Size - 2 : callout'[Slot(k)'].c_time = Tm[k + 1]
    BY <1>2, <1>8, <1>9 DEF Tm
  <2> QED BY <1>11, <2>1, <2>2
<1>14. Listed(Size - 1, Fn', Tm', [left EXCEPT ![Fn[0]] = Off]) /\ left[Fn[0]] = 0
  BY <1>1, <1>7, <1>10, <1>12, <1>13, ListDrop
<1>15. Listed(Size', Fn', Tm', left')
  BY <1>2, <1>7, <1>10, <1>14
<1>16. TypeOK'
  BY <1>0, <1>2, <1>15 DEF TypeOK, Listed
<1>17. InTable'
  BY <1>0, <1>2, <1>6 DEF InTable
<1>18. Pointers'
  BY <1>0, <1>1, <1>2, <1>4, <1>6 DEF Pointers, Moving
<1>19. Passed'
  BY <1>0, <1>1, <1>2, <1>5 DEF Passed
<1>20. Ahead'
  BY <1>2 DEF Ahead, Moving
<1> QED BY <1>2, <1>5, <1>10, <1>14, <1>15, <1>16, <1>17, <1>18, <1>19, <1>20 DEF IInv, Exact, Contained

\* It returns.
LEMMA KeptReturn ==
  ASSUME IInv, Return
  PROVE  IInv'
<1>0. TypeOK /\ InTable /\ Exact /\ ~Halted /\ mode = "handler"
  BY DEF IInv, Contained, Return, Halted
<1>1. Pointers /\ Passed /\ Listed(Size, Fn, Tm, left)
  BY <1>0 DEF Exact
<1>2. mode' = "call" /\ p1' = p1 + 1 /\ callout' = callout /\ p2' = p2 /\ nested' = nested /\ left' = left
  BY DEF Return
<1>3. End \in Nat /\ p1 \in Nat /\ p2 = 0 /\ p1 < End /\ End < NCALL
  BY <1>0, <1>1, EndFacts, CalloutAssumption DEF TypeOK, Entries, Pointers
<1>4. Lo' = Lo /\ Mv' = Mv
  BY <1>0, <1>2 DEF Lo, Mv, Moving
<1>5. End' = End /\ Listed(Size', Fn', Tm', left')
  BY <1>1, <1>2, <1>4, SameTable
<1>6. TypeOK'
  BY <1>0, <1>2, <1>3, CalloutAssumption DEF TypeOK, Entries
<1>7. InTable'
  BY <1>0, <1>2, <1>5 DEF InTable
<1>8. Pointers'
  BY <1>2, <1>3, <1>5 DEF Pointers, Moving
<1>9. Passed'
  <2>1. \A i \in 0 .. (p1 + 1) - 1 : callout[i].c_time = 0
    BY <1>0, <1>1, <1>3 DEF Passed
  <2> QED BY <1>2, <2>1 DEF Passed
<1>10. Ahead'
  BY <1>2 DEF Ahead, Moving
<1> QED BY <1>2, <1>5, <1>6, <1>7, <1>8, <1>9, <1>10 DEF IInv, Exact, Contained

\* Nothing more is due.
LEMMA KeptCallsDone ==
  ASSUME IInv, CallsDone
  PROVE  IInv'
<1>0. TypeOK /\ InTable /\ Exact /\ ~Halted /\ mode = "call"
  BY DEF IInv, Contained, CallsDone, Halted
<1>1. Pointers /\ Passed /\ Listed(Size, Fn, Tm, left)
  BY <1>0 DEF Exact
<1>2. /\ mode' = "move" /\ p2' = 0 /\ nested' = FALSE /\ callout' = callout /\ p1' = p1 /\ left' = left
      /\ callout[p1].c_func = NULL \/ ~(callout[p1].c_time <= 0)
  BY DEF CallsDone, Due
<1>3. End \in Nat /\ p1 \in Nat /\ p1 <= End /\ 0 \in Entries
  BY <1>0, <1>1, EndFacts, CalloutAssumption DEF TypeOK, Entries, Pointers
<1>4. Lo' = Lo /\ Mv' = Mv
  BY <1>0, <1>2 DEF Lo, Mv, Moving
<1>5. End' = End /\ Listed(Size', Fn', Tm', left')
  BY <1>1, <1>2, <1>4, SameTable
<1>6. TypeOK'
  <2>1. 0 <= p1 /\ FALSE \in BOOLEAN
    BY <1>3
  <2> QED BY <1>0, <1>2, <1>3, <2>1 DEF TypeOK
<1>7. InTable'
  BY <1>0, <1>2, <1>5 DEF InTable
<1>8. Pointers'
  BY <1>2, <1>3, <1>5 DEF Pointers, Moving
<1>9. Passed'
  BY <1>0, <1>1, <1>2 DEF Passed
<1>10. Ahead'
  <2>1. p1 < End => callout[p1].c_time > 0
    <3> HAVE p1 < End
    <3>1. p1 \in 0 .. End - 1
      BY <1>3
    <3>2. callout[p1].c_func # NULL /\ callout[p1].c_time \in Nat
      BY <1>0, <3>1, EndFacts, CalloutAssumption
    <3> QED BY <1>2, <3>2
  <2> QED BY <1>2, <1>5, <2>1 DEF Ahead
<1> QED BY <1>2, <1>5, <1>6, <1>7, <1>8, <1>9, <1>10 DEF IInv, Exact, Contained

\* The function of an entry is moved down; the end ends the move.
LEMMA KeptMoveFunc ==
  ASSUME IInv, MoveFunc
  PROVE  IInv'
<1>0. TypeOK /\ InTable /\ Exact /\ ~Halted /\ mode = "move" /\ Moving
  BY DEF IInv, Contained, MoveFunc, Halted, Moving
<1>1. Pointers /\ Passed /\ Ahead /\ Listed(Size, Fn, Tm, left)
  BY <1>0 DEF Exact
<1>2. callout' = [callout EXCEPT ![p2].c_func = callout[p1].c_func] /\ left' = left
  BY DEF MoveFunc
<1>3. /\ p1 \in Nat /\ p2 \in Nat /\ p2 <= p1 /\ p1 <= End /\ End \in 0 .. NCALL - 1
      /\ callout[End].c_func = NULL
      /\ \A i \in 0 .. End - 1 : /\ i \in Entries /\ callout[i].c_func \in Funcs
                                 /\ callout[i].c_time \in Nat
  BY <1>0, <1>1, EndFacts, CalloutAssumption DEF TypeOK, Entries, Pointers
<1>4. Lo = p1 /\ Mv = p2
  BY <1>0 DEF Lo, Mv, Moving
<1>5. p1 \in Entries /\ p2 \in Entries /\ End \in Entries /\ NCALL \in Entries /\ p2 # NCALL
  BY <1>3, CalloutAssumption DEF Entries
<1>6. callout' \in [Entries -> [c_time : Nat, c_func : Funcs \cup {NULL}]]
  BY <1>0, <1>2, <1>5 DEF TypeOK
<1>7. \A i \in Entries : /\ callout'[i].c_time = callout[i].c_time
                         /\ callout'[i].c_func = IF i = p2 THEN callout[p1].c_func ELSE callout[i].c_func
                         /\ i # p2 => callout'[i] = callout[i]
  BY <1>0, <1>2, <1>5 DEF TypeOK
<1>8. callout'[NCALL] = [c_time |-> 0, c_func |-> NULL]
  BY <1>0, <1>5, <1>7 DEF InTable
<1>9. /\ Size \in Nat /\ Size = p2 + (End - p1)
      /\ \A k \in 0 .. Size - 1 : Slot(k) \in 0 .. End - 1
      /\ \A k \in 0 .. Size - 1 : IF k < p2 THEN Slot(k) = k ELSE Slot(k) = p1 + (k - p2)
  BY <1>0, <1>1, <1>4, Shape
<1>10. CASE callout[p1].c_func = NULL
  <2>1. mode' = "base" /\ p1' = 0 /\ p2' = 0 /\ nested' = FALSE
    BY <1>10 DEF MoveFunc
  <2>2. p1 = End
    BY <1>3, <1>10, CalloutAssumption
  <2>3. End' = p2
    <3>1. callout'[p2].c_func = NULL
      BY <1>5, <1>7, <1>10
    <3>2. \A i \in 0 .. p2 - 1 : i \in 0 .. End - 1 /\ i # p2
      BY <1>3
    <3>3. \A i \in 0 .. p2 - 1 : callout'[i].c_func # NULL
      BY <1>3, <1>7, <3>2, CalloutAssumption
    <3>4. EndOf(callout') = p2
      BY <1>5, <3>1, <3>3, EndIs
    <3> QED BY <3>4 DEF End, EndOf
  <2>4. Lo' = 0 /\ Mv' = 0
    BY <2>1 DEF Lo, Mv, Moving
  <2>5. Size = p2 /\ Size' = Size
    BY <1>3, <1>9, <2>2, <2>3, <2>4 DEF Size
  <2>6. \A k \in 0 .. Size - 1 : Slot(k)' = k /\ Slot(k) = k /\ k \in Entries /\ k # p2
    <3>1. \A k \in 0 .. Size - 1 : k < p2 /\ k \in Nat /\ k \in Entries
      BY <1>3, <1>9, <2>5, CalloutAssumption DEF Entries
    <3> QED BY <1>3, <1>9, <2>4, <3>1 DEF Slot
  <2>7. \A k \in 0 .. Size - 1 : /\ callout'[Slot(k)'].c_func = callout[Slot(k)].c_func
                                 /\ callout'[Slot(k)'].c_time = callout[Slot(k)].c_time
    BY <1>7, <2>6
  <2>8. Listed(Size', Fn', Tm', left')
    BY <1>1, <1>2, <2>5, <2>7, SameSlots
  <2>9. TypeOK'
    <3>1. 0 \in Entries /\ 0 <= 0 /\ FALSE \in BOOLEAN
      BY CalloutAssumption DEF Entries
    <3> QED BY <1>0, <1>2, <1>6, <2>1, <3>1 DEF TypeOK
  <2>10. InTable'
    BY <1>3, <1>8, <2>3, CalloutAssumption DEF InTable
  <2>11. Pointers' /\ Passed' /\ Ahead'
    BY <2>1 DEF Pointers, Passed, Ahead, Moving
  <2> QED BY <2>1, <2>8, <2>9, <2>10, <2>11 DEF IInv, Exact, Contained
<1>11. CASE callout[p1].c_func # NULL
  <2>1. mode' = "time" /\ p1' = p1 /\ p2' = p2 /\ nested' = nested
    BY <1>11 DEF MoveFunc
  <2>2. p1 < End
    BY <1>3, <1>11
  <2>3. End' = End
    <3>1. End # p2 /\ callout'[End].c_func = NULL
      BY <1>3, <1>5, <1>7, <2>2
    <3>3. \A i \in 0 .. End - 1 : callout'[i].c_func # NULL
      BY <1>3, <1>7, <1>11, CalloutAssumption
    <3>4. EndOf(callout') = End
      BY <1>5, <3>1, <3>3, EndIs
    <3> QED BY <3>4 DEF End, EndOf
  <2>4. Lo' = Lo /\ Mv' = Mv
    BY <1>4, <2>1 DEF Lo, Mv, Moving
  <2>5. Size' = Size /\ \A k \in 0 .. Size - 1 : Slot(k)' = Slot(k)
    BY <2>3, <2>4 DEF Size, Slot
  <2>6. ASSUME NEW k \in 0 .. Size - 1
        PROVE  /\ callout'[Slot(k)'].c_func = callout[Slot(k)].c_func
               /\ callout'[Slot(k)'].c_time = callout[Slot(k)].c_time
    <3>1. Slot(k) \in Entries
      BY <1>3, <1>9
    <3>2. Slot(k) = p2 => p1 = p2
      BY <1>3, <1>9
    <3> QED BY <1>7, <2>5, <3>1, <3>2
  <2>7. Listed(Size', Fn', Tm', left')
    BY <1>1, <1>2, <2>5, <2>6, SameSlots
  <2>8. TypeOK'
    BY <1>0, <1>2, <1>6, <2>1 DEF TypeOK
  <2>9. InTable'
    BY <1>0, <1>8, <2>3 DEF InTable
  <2>10. Pointers'
    <3>1. callout'[p2].c_func = callout'[p1].c_func
      BY <1>5, <1>7
    <3> QED BY <1>3, <2>1, <2>2, <2>3, <3>1 DEF Pointers, Moving
  <2>11. Passed'
    <3>1. \A i \in 0 .. p1 - 1 : i \in Entries
      BY <1>3, CalloutAssumption DEF Entries
    <3> QED BY <1>0, <1>1, <1>7, <2>1, <3>1 DEF Passed, Moving
  <2>12. Ahead'
    <3>1. callout'[p1].c_time = callout[p1].c_time /\ callout'[0].c_time = callout[0].c_time
      BY <1>5, <1>7, CalloutAssumption DEF Entries
    <3> QED BY <1>0, <1>1, <2>1, <2>3, <3>1 DEF Ahead
  <2> QED BY <2>1, <2>7, <2>8, <2>9, <2>10, <2>11, <2>12 DEF IInv, Exact, Contained
<1> QED BY <1>10, <1>11

\* Its time follows.
LEMMA KeptMoveTime ==
  ASSUME IInv, MoveTime
  PROVE  IInv'
<1>0. TypeOK /\ InTable /\ Exact /\ ~Halted /\ mode = "time" /\ Moving
  BY DEF IInv, Contained, MoveTime, Halted, Moving
<1>1. Pointers /\ Passed /\ Ahead /\ Listed(Size, Fn, Tm, left)
  BY <1>0 DEF Exact
<1>2. /\ callout' = [callout EXCEPT ![p2].c_time = callout[p1].c_time] /\ left' = left
      /\ mode' = "move" /\ p1' = p1 + 1 /\ p2' = p2 + 1 /\ nested' = nested
  BY DEF MoveTime
<1>3. /\ p1 \in Nat /\ p2 \in Nat /\ p2 <= p1 /\ p1 < End /\ End \in 0 .. NCALL - 1
      /\ callout[End].c_func = NULL
      /\ \A i \in 0 .. End - 1 : /\ i \in Entries /\ callout[i].c_func \in Funcs
                                 /\ callout[i].c_time \in Nat
      /\ callout[p2].c_func = callout[p1].c_func
  BY <1>0, <1>1, EndFacts, CalloutAssumption DEF TypeOK, Entries, Pointers
<1>4. Lo = p1 /\ Mv = p2 /\ Lo' = p1 + 1 /\ Mv' = p2 + 1
  BY <1>0, <1>2 DEF Lo, Mv, Moving
<1>5. p1 \in Entries /\ p2 \in Entries /\ End \in Entries /\ NCALL \in Entries /\ p2 # NCALL
  BY <1>3, CalloutAssumption DEF Entries
<1>6. callout' \in [Entries -> [c_time : Nat, c_func : Funcs \cup {NULL}]]
  BY <1>0, <1>2, <1>5 DEF TypeOK
<1>7. \A i \in Entries : /\ callout'[i].c_func = callout[i].c_func
                         /\ callout'[i].c_time = IF i = p2 THEN callout[p1].c_time ELSE callout[i].c_time
                         /\ i # p2 => callout'[i] = callout[i]
  BY <1>0, <1>2, <1>5 DEF TypeOK
<1>8. callout'[NCALL] = [c_time |-> 0, c_func |-> NULL]
  BY <1>0, <1>5, <1>7 DEF InTable
<1>9. /\ Size \in Nat /\ Size = p2 + (End - p1)
      /\ \A k \in 0 .. Size - 1 : Slot(k) \in 0 .. End - 1
      /\ \A k \in 0 .. Size - 1 : IF k < p2 THEN Slot(k) = k ELSE Slot(k) = p1 + (k - p2)
  BY <1>0, <1>1, <1>4, Shape
<1>10. End' = End
  <2>1. callout'[End].c_func = NULL /\ \A i \in 0 .. End - 1 : callout'[i].c_func # NULL
    BY <1>3, <1>5, <1>7, CalloutAssumption
  <2>2. EndOf(callout') = End
    BY <1>5, <2>1, EndIs
  <2> QED BY <2>2 DEF End, EndOf
<1>11. Size' = Size
  BY <1>3, <1>4, <1>9, <1>10 DEF Size
<1>12. ASSUME NEW k \in 0 .. Size - 1
       PROVE  /\ callout'[Slot(k)'].c_func = callout[Slot(k)].c_func
              /\ callout'[Slot(k)'].c_time = callout[Slot(k)].c_time
  <2>1. Slot(k) \in Entries
    BY <1>3, <1>9
  <2>2. Slot(k)' = IF k < p2 + 1 THEN k ELSE (p1 + 1) + (k - (p2 + 1))
    BY <1>4 DEF Slot
  <2>3. CASE k = p2
    <3>1. Slot(k)' = p2 /\ Slot(k) = p1
      BY <1>3, <1>9, <2>2, <2>3
    <3> QED BY <1>3, <1>5, <1>7, <3>1
  <2>4. CASE k # p2
    <3>1. Slot(k)' = Slot(k) /\ Slot(k) # p2
      BY <1>3, <1>9, <2>2, <2>4
    <3> QED BY <1>7, <2>1, <3>1
  <2> QED BY <2>3, <2>4
<1>13. Listed(Size', Fn', Tm', left')
  BY <1>1, <1>2, <1>11, <1>12, SameSlots
<1>14. TypeOK'
  <2>1. p1 + 1 \in Entries /\ p2 + 1 \in Entries /\ p2 + 1 <= p1 + 1
    BY <1>3, CalloutAssumption DEF Entries
  <2> QED BY <1>0, <1>2, <1>6, <2>1 DEF TypeOK
<1>15. InTable'
  BY <1>0, <1>8, <1>10 DEF InTable
<1>16. Pointers'
  <2>1. p2 + 1 <= p1 + 1 /\ p1 + 1 <= End
    BY <1>3
  <2> QED BY <1>2, <1>10, <2>1 DEF Pointers, Moving
<1>17. p2 + 1 # 0 /\ p2 + 1 > 0
  BY <1>3
<1>18. Passed'
  BY <1>2, <1>17 DEF Passed
<1>19. Ahead'
  <2>1. ~nested => callout'[0].c_time > 0
    <3> HAVE ~nested
    <3>1. CASE p2 = 0
      <4>1. callout[p1].c_time > 0 /\ callout'[0].c_time = callout[p1].c_time
        BY <1>0, <1>1, <1>3, <1>5, <1>7, <3>1 DEF Ahead
      <4> QED BY <4>1
    <3>2. CASE p2 # 0
      <4>1. p2 > 0 /\ 0 \in Entries
        BY <1>3, <3>2, CalloutAssumption DEF Entries
      <4>2. callout[0].c_time > 0 /\ callout'[0] = callout[0]
        BY <1>0, <1>1, <1>7, <3>2, <4>1 DEF Ahead
      <4> QED BY <4>2
    <3> QED BY <3>1, <3>2
  <2> QED BY <1>2, <1>17, <2>1 DEF Ahead
<1> QED BY <1>2, <1>13, <1>14, <1>15, <1>16, <1>18, <1>19 DEF IInv, Exact, Contained

-----------------------------------------------------------------------------
(* The entries that count.                                                 *)

\* A list that starts before the end goes on to the end.
LEMMA ListAtIs ==
  ASSUME TypeOK, InTable, NEW p \in 0 .. End
  PROVE  ListAt(p) = p .. End - 1
<1> DEFINE S == {j \in p .. NCALL : callout[j].c_func = NULL} \cup {NCALL}
<1>1. /\ End \in 0 .. NCALL - 1 /\ callout[End].c_func = NULL /\ NCALL \in Nat
      /\ \A i \in 0 .. End - 1 : callout[i].c_func # NULL
  BY EndFacts, CalloutAssumption
<1>2. S \subseteq Nat /\ End \in S
  BY <1>1
<1>3. Least(S) \in S /\ \A i \in S : Least(S) <= i
  BY <1>2, LeastMember
<1>4. PICK e : e = Least(S)
  OBVIOUS
<1>5. e \in Nat /\ e <= End /\ (e = NCALL \/ (e \in p .. NCALL /\ callout[e].c_func = NULL))
  BY <1>2, <1>3, <1>4
<1>6. ~(e < End)
  <2> SUFFICES ASSUME e < End PROVE FALSE
    OBVIOUS
  <2>1. e \in 0 .. End - 1 /\ e # NCALL
    BY <1>1, <1>5
  <2> QED BY <1>1, <1>5, <2>1
<1>7. e = End
  BY <1>1, <1>5, <1>6
<1> QED BY <1>4, <1>7 DEF ListAt

\* They are the list.
LEMMA CurrentIs ==
  ASSUME TypeOK, InTable, ~Halted, Pointers
  PROVE  /\ Current = (0 .. Mv - 1) \cup (Lo .. End - 1)
         /\ \A k \in 0 .. Size - 1 : Slot(k) \in Current
         /\ \A i \in Current : i \in 0 .. End - 1 /\ \E k \in 0 .. Size - 1 : Slot(k) = i
<1>1. /\ Lo \in 0 .. End /\ Mv \in 0 .. Lo /\ Size \in Nat
      /\ Size = Mv + (End - Lo) /\ End \in Nat
      /\ \A k \in 0 .. Size - 1 : IF k < Mv THEN Slot(k) = k ELSE Slot(k) = Lo + (k - Mv)
  BY Shape, EndFacts, CalloutAssumption
<1>2. ListAt(Lo) = Lo .. End - 1
  BY <1>1, ListAtIs
<1>3. Current = (0 .. Mv - 1) \cup (Lo .. End - 1)
  <2>1. CASE mode = "call"
    <3>1. Lo = p1 /\ 0 .. Mv - 1 = {} /\ Current = ListAt(p1)
      BY <2>1 DEF Lo, Mv, Moving, Current
    <3> QED BY <1>2, <3>1
  <2>2. CASE mode = "handler"
    <3>1. Lo = p1 + 1 /\ 0 .. Mv - 1 = {} /\ Current = ListAt(p1 + 1)
      BY <2>2 DEF Lo, Mv, Moving, Current
    <3> QED BY <1>2, <3>1
  <2>3. CASE Moving
    <3>1. Lo = p1 /\ Mv = p2 /\ Current = (0 .. p2 - 1) \cup ListAt(p1)
      BY <2>3 DEF Lo, Mv, Moving, Current
    <3> QED BY <1>2, <3>1
  <2>4. CASE mode = "base"
    <3>1. Lo = 0 /\ 0 .. Mv - 1 = {} /\ Current = ListAt(0)
      BY <2>4 DEF Lo, Mv, Moving, Current
    <3> QED BY <1>2, <3>1
  <2> QED BY <2>1, <2>2, <2>3, <2>4 DEF TypeOK, Halted, Moving
<1>4. ASSUME NEW k \in 0 .. Size - 1 PROVE Slot(k) \in (0 .. Mv - 1) \cup (Lo .. End - 1)
  BY <1>1
<1>5. ASSUME NEW i \in (0 .. Mv - 1) \cup (Lo .. End - 1)
      PROVE  i \in 0 .. End - 1 /\ \E k \in 0 .. Size - 1 : Slot(k) = i
  <2>1. CASE i \in 0 .. Mv - 1
    <3>1. i \in 0 .. Size - 1 /\ i < Mv /\ i \in 0 .. End - 1
      BY <1>1, <2>1
    <3>2. Slot(i) = i
      BY <1>1, <3>1
    <3> QED BY <3>1, <3>2
  <2>2. CASE i \in Lo .. End - 1
    <3>1. Mv + (i - Lo) \in 0 .. Size - 1 /\ ~(Mv + (i - Lo) < Mv) /\ i \in 0 .. End - 1
      BY <1>1, <2>2
    <3>2. Slot(Mv + (i - Lo)) = Lo + ((Mv + (i - Lo)) - Mv)
      BY <1>1, <3>1
    <3>3. Slot(Mv + (i - Lo)) = i
      BY <1>1, <2>2, <3>2
    <3> QED BY <3>1, <3>3
  <2> QED BY <2>1, <2>2
<1> QED BY <1>3, <1>4, <1>5

\* The times of the entries that count, up to an entry of the list, are the
\* ticks that are left of its function.
LEMMA TimeIs ==
  ASSUME TypeOK, InTable, ~Halted, Pointers, Listed(Size, Fn, Tm, left), NEW q \in Current
  PROVE  TimeOf(q) = left[callout[q].c_func]
<1>1. /\ Lo \in 0 .. End /\ Mv \in 0 .. Lo /\ Size \in Nat
      /\ Size = Mv + (End - Lo) /\ End \in Nat /\ End < NCALL /\ NCALL \in Nat
      /\ \A k \in 0 .. Size - 1 : IF k < Mv THEN Slot(k) = k ELSE Slot(k) = Lo + (k - Mv)
  BY Shape, EndFacts, CalloutAssumption
<1>2. /\ Current = (0 .. Mv - 1) \cup (Lo .. End - 1) /\ q \in 0 .. End - 1
  BY CurrentIs
<1>3. /\ \A k \in 0 .. Size - 1 :
        /\ left[Fn[k]] \in Nat /\ left[Fn[k]] = Tm[k] + (IF k = 0 THEN 0 ELSE left[Fn[k - 1]])
        /\ Fn[k] = callout[Slot(k)].c_func /\ Tm[k] = callout[Slot(k)].c_time
        /\ Tm[k] \in Nat
  BY DEF Listed, Fn, Tm
<1>4. PICK g : g = [j \in 0 .. NCALL |-> IF j \in Current THEN callout[j].c_time ELSE 0]
  OBVIOUS
<1>5. g \in [0 .. NCALL -> Nat]
  <2>1. \A j \in 0 .. NCALL : callout[j].c_time \in Nat
    BY DEF TypeOK, Entries
  <2> QED BY <1>4, <2>1
<1>6. \E s : Summed(g, NCALL, s) /\ TimeOf(q) = s[q]
  <2>1. PICK s : Summed(g, NCALL, s)
    BY <1>1, <1>5, SumsExist
  <2>2. \A u : Summed(g, NCALL, u) <=>
              u = [j \in Entries |-> (IF j \in Current THEN callout[j].c_time ELSE 0)
                                     + (IF j = 0 THEN 0 ELSE u[j - 1])]
    BY <1>4 DEF Summed, Entries
  <2>3. \E u : u = [j \in Entries |-> (IF j \in Current THEN callout[j].c_time ELSE 0)
                                     + (IF j = 0 THEN 0 ELSE u[j - 1])]
    BY <2>1, <2>2
  <2>4. \E u : /\ u = [j \in Entries |-> (IF j \in Current THEN callout[j].c_time ELSE 0)
                                         + (IF j = 0 THEN 0 ELSE u[j - 1])]
               /\ TimeOf(q) = u[q]
    BY <2>3 DEF TimeOf
  <2> QED BY <2>2, <2>4
<1>7. PICK s : Summed(g, NCALL, s) /\ TimeOf(q) = s[q]
  BY <1>6
\* what is left of the last entry that counts
<1>8. PICK w : w = [i \in 0 .. NCALL |->
                      IF i < Mv \/ Lo <= i THEN left[callout[i].c_func]
                      ELSE IF Mv = 0 THEN 0 ELSE left[callout[Mv - 1].c_func]]
  OBVIOUS
<1>9. ASSUME NEW j \in 0 .. End - 1 PROVE w[j] = g[j] + (IF j = 0 THEN 0 ELSE w[j - 1])
  <2>1. j \in 0 .. NCALL /\ j \in Nat /\ (j # 0 => j - 1 \in 0 .. NCALL)
    BY <1>1
  <2>2. CASE j < Mv
    <3>1. j \in 0 .. Size - 1 /\ Slot(j) = j /\ j \in Current
      BY <1>1, <1>2, <2>1, <2>2
    <3>2. w[j] = left[Fn[j]] /\ g[j] = Tm[j]
      BY <1>3, <1>4, <1>8, <2>1, <2>2, <3>1
    <3>3. j # 0 => j - 1 \in 0 .. Size - 1 /\ j - 1 < Mv /\ Slot(j - 1) = j - 1
      BY <1>1, <2>2, <3>1
    <3>4. j # 0 => w[j - 1] = left[Fn[j - 1]]
      BY <1>3, <1>8, <2>1, <3>3
    <3>5. left[Fn[j]] = Tm[j] + (IF j = 0 THEN 0 ELSE left[Fn[j - 1]])
      BY <1>3, <3>1
    <3> QED BY <3>2, <3>4, <3>5
  <2>3. CASE Mv <= j /\ j < Lo
    <3>1. j \notin Current /\ ~(j < Mv) /\ ~(Lo <= j)
      BY <1>1, <1>2, <2>1, <2>3
    <3>2. g[j] = 0 /\ w[j] = IF Mv = 0 THEN 0 ELSE left[callout[Mv - 1].c_func]
      BY <1>4, <1>8, <2>1, <3>1
    <3>3. CASE j = 0
      BY <1>1, <2>3, <3>2, <3>3
    <3>4. CASE j # 0 /\ j = Mv
      <4>1. j - 1 < Mv /\ j - 1 = Mv - 1 /\ Mv # 0
        BY <1>1, <3>4
      <4>2. w[j - 1] = left[callout[Mv - 1].c_func]
        BY <1>8, <2>1, <3>4, <4>1
      <4>3. Mv - 1 \in 0 .. Size - 1 /\ Slot(Mv - 1) = Mv - 1
        BY <1>1, <4>1
      <4>4. left[callout[Mv - 1].c_func] \in Nat
        BY <1>3, <4>3
      <4> QED BY <3>2, <3>4, <4>1, <4>2, <4>4
    <3>5. CASE j # 0 /\ j # Mv
      <4>1. ~(j - 1 < Mv) /\ ~(Lo <= j - 1)
        BY <1>1, <2>1, <2>3, <3>5
      <4>2. w[j - 1] = w[j]
        BY <1>8, <2>1, <3>1, <3>5, <4>1
      <4>3. w[j] \in Nat
        <5>1. Mv # 0 => Mv - 1 \in 0 .. Size - 1 /\ Slot(Mv - 1) = Mv - 1
          BY <1>1
        <5>2. Mv # 0 => left[callout[Mv - 1].c_func] \in Nat
          BY <1>3, <5>1
        <5> QED BY <3>2, <5>2
      <4> QED BY <3>2, <3>5, <4>2, <4>3
    <3> QED BY <3>3, <3>4, <3>5
  <2>4. CASE Lo <= j
    <3>1. PICK k \in 0 .. Size - 1 : j = Lo + (k - Mv) /\ k >= Mv
      <4>1. (j - Lo) + Mv \in 0 .. Size - 1 /\ j = Lo + (((j - Lo) + Mv) - Mv) /\ (j - Lo) + Mv >= Mv
        BY <1>1, <2>1, <2>4
      <4> QED BY <4>1
    <3>2. Slot(k) = j /\ j \in Current
      BY <1>1, <1>2, <2>4, <3>1
    <3>3. w[j] = left[Fn[k]] /\ g[j] = Tm[k]
      BY <1>3, <1>4, <1>8, <2>1, <2>4, <3>2
    <3>4. left[Fn[k]] = Tm[k] + (IF k = 0 THEN 0 ELSE left[Fn[k - 1]]) /\ Tm[k] \in Nat
      BY <1>3
    <3>5. CASE k = 0
      <4>1. Mv = 0 /\ j = Lo
        BY <1>1, <3>1, <3>5
      <4>2. j # 0 => ~(j - 1 < Mv) /\ ~(Lo <= j - 1)
        BY <1>1, <2>1, <4>1
      <4>3. j # 0 => w[j - 1] = 0
        BY <1>8, <2>1, <4>1, <4>2
      <4> QED BY <3>3, <3>4, <3>5, <4>3
    <3>6. CASE k # 0 /\ k = Mv
      <4>1. j = Lo /\ j # 0 /\ Mv # 0
        BY <1>1, <3>1, <3>6
      <4>2. w[j - 1] = left[callout[Mv - 1].c_func]
        <5>1. CASE j - 1 < Mv
          <6>1. j - 1 = Mv - 1
            BY <1>1, <4>1, <5>1
          <6> QED BY <1>8, <2>1, <4>1, <5>1, <6>1
        <5>2. CASE ~(j - 1 < Mv)
          <6>1. ~(Lo <= j - 1)
            BY <1>1, <4>1
          <6> QED BY <1>8, <2>1, <4>1, <5>2, <6>1
        <5> QED BY <5>1, <5>2
      <4>3. Mv - 1 \in 0 .. Size - 1 /\ Slot(Mv - 1) = Mv - 1
        BY <1>1, <4>1
      <4>4. w[j - 1] = left[Fn[k - 1]]
        BY <1>3, <3>6, <4>2, <4>3
      <4> QED BY <3>3, <3>4, <3>6, <4>1, <4>4
    <3>7. CASE k # 0 /\ k # Mv
      <4>1. /\ k - 1 \in 0 .. Size - 1 /\ ~(k - 1 < Mv) /\ Lo + ((k - 1) - Mv) = j - 1
            /\ Lo <= j - 1 /\ j # 0
        BY <1>1, <3>1, <3>7
      <4>2. Slot(k - 1) = j - 1
        BY <1>1, <4>1
      <4>3. w[j - 1] = left[Fn[k - 1]]
        BY <1>3, <1>8, <2>1, <4>1, <4>2
      <4> QED BY <3>3, <3>4, <3>7, <4>1, <4>3
    <3> QED BY <3>5, <3>6, <3>7
  <2> QED BY <1>1, <2>1, <2>2, <2>3, <2>4
<1>10. AddsUp(g, End - 1, w) /\ End - 1 \in 0 .. NCALL
  BY <1>1, <1>2, <1>9 DEF AddsUp
<1>11. s[q] = w[q]
  <2>1. PICK n : n = End - 1
    OBVIOUS
  <2>2. NCALL \in Nat /\ n \in 0 .. NCALL /\ AddsUp(g, n, w) /\ Summed(g, NCALL, s)
    BY <1>1, <1>7, <1>10, <2>1
  <2>3. \A j \in 0 .. n : s[j] = w[j]
    BY <1>5, <2>2, SumsUnique
  <2> QED BY <1>2, <2>1, <2>3
<1>12. w[q] = left[callout[q].c_func]
  <2>1. q \in 0 .. NCALL /\ (q < Mv \/ Lo <= q)
    BY <1>1, <1>2
  <2> QED BY <1>8, <2>1
<1> QED BY <1>7, <1>11, <1>12

\* The invariant says what the table promises.
LEMMA Promised ==
  ASSUME IInv
  PROVE  TableExact
<1>0. TypeOK /\ Contained /\ (~Halted => InTable)
  BY DEF IInv, Contained, Halted
<1>1. ASSUME ~Halted
      PROVE  /\ \A i, j \in Current : callout[i].c_func = callout[j].c_func => i = j
             /\ {callout[i].c_func : i \in Current} = {f \in Funcs : left[f] # Off}
             /\ \A i \in Current : TimeOf(i) = left[callout[i].c_func]
  <2>1. Pointers /\ Listed(Size, Fn, Tm, left)
    BY <1>1 DEF IInv, Exact
  <2>2. /\ \A k \in 0 .. Size - 1 : Slot(k) \in Current
        /\ \A i \in Current : i \in 0 .. End - 1 /\ \E k \in 0 .. Size - 1 : Slot(k) = i
    BY <1>0, <1>1, <2>1, CurrentIs
  <2>3. \A k \in 0 .. Size - 1 : Fn[k] = callout[Slot(k)].c_func
    BY DEF Fn
  <2>4. /\ \A k \in 0 .. Size - 1 : left[Fn[k]] \in Nat /\ Fn[k] \in Funcs
        /\ \A j, k \in 0 .. Size - 1 : Fn[j] = Fn[k] => j = k
        /\ \A f \in Funcs : left[f] # Off => \E k \in 0 .. Size - 1 : Fn[k] = f
    BY <2>1 DEF Listed
  <2>5. \A i, j \in Current : callout[i].c_func = callout[j].c_func => i = j
    BY <2>2, <2>3, <2>4
  <2>6. ASSUME NEW i \in Current PROVE callout[i].c_func \in Funcs /\ left[callout[i].c_func] # Off
    <3>1. PICK k \in 0 .. Size - 1 : Slot(k) = i
      BY <2>2
    <3>2. Off \notin Nat
      BY DEF Off
    <3> QED BY <2>3, <2>4, <3>1, <3>2
  <2>7. ASSUME NEW f \in Funcs, left[f] # Off PROVE \E i \in Current : callout[i].c_func = f
    <3>1. PICK k \in 0 .. Size - 1 : Fn[k] = f
      BY <2>4, <2>7
    <3> QED BY <2>2, <2>3, <3>1
  <2>8. {callout[i].c_func : i \in Current} = {f \in Funcs : left[f] # Off}
    BY <2>6, <2>7
  <2>9. \A i \in Current : TimeOf(i) = left[callout[i].c_func]
    BY <1>0, <1>1, <2>1, TimeIs
  <2> QED BY <2>5, <2>8, <2>9
<1>2. DeltaExact
  BY <1>1 DEF DeltaExact
<1> QED BY <1>0, <1>2 DEF TableExact

-----------------------------------------------------------------------------
(* The theorems.                                                           *)

\* The list starts out empty.
LEMMA InitIInv ==
  ASSUME Init
  PROVE  IInv
<1>1. /\ callout = [i \in Entries |-> [c_time |-> 0, c_func |-> NULL]]
      /\ mode = "base" /\ p1 = 0 /\ p2 = 0 /\ nested = FALSE
      /\ left = [f \in Funcs |-> Off]
  BY DEF Init
<1>2. 0 \in Entries /\ NCALL \in Entries /\ 0 < NCALL
  BY CalloutAssumption DEF Entries
<1>3. left \in [Funcs -> Nat \cup {Off}]
  BY <1>1
<1>4. TypeOK
  <2>1. callout \in [Entries -> [c_time : Nat, c_func : Funcs \cup {NULL}]]
    BY <1>1
  <2>2. 0 <= 0 /\ FALSE \in BOOLEAN
    OBVIOUS
  <2> QED BY <1>1, <1>2, <1>3, <2>1, <2>2 DEF TypeOK
<1>5. End = 0
  <2>1. callout[0].c_func = NULL /\ \A i \in 0 .. 0 - 1 : callout[i].c_func # NULL
    BY <1>1, <1>2
  <2>2. EndOf(callout) = 0
    BY <1>2, <2>1, EndIs
  <2> QED BY <2>2 DEF End, EndOf
<1>6. Contained
  BY <1>1, <1>2, <1>5 DEF InTable, Contained
<1>7. Size = 0
  BY <1>1, <1>5 DEF Size, Mv, Lo, Moving
<1>8. 0 .. Size - 1 = {}
  BY <1>7
<1>9. Fn \in [0 .. Size - 1 -> Funcs] /\ Tm \in [0 .. Size - 1 -> Nat]
  BY <1>8 DEF Fn, Tm
<1>10. \A f \in Funcs : left[f] = Off
  BY <1>1
<1>11. Listed(Size, Fn, Tm, left)
  BY <1>3, <1>7, <1>8, <1>9, <1>10 DEF Listed
<1>12. Pointers /\ Passed /\ Ahead
  BY <1>1 DEF Pointers, Passed, Ahead, Moving
<1> QED BY <1>4, <1>6, <1>11, <1>12 DEF IInv, Exact

\* Every step keeps the invariant.
LEMMA NextIInv ==
  ASSUME IInv, [Next]_vars
  PROVE  IInv'
<1>1. CASE UNCHANGED vars
  <2>1. /\ callout' = callout /\ mode' = mode /\ p1' = p1 /\ p2' = p2 /\ nested' = nested
        /\ left' = left
    BY <1>1 DEF vars
  <2>2. Lo' = Lo /\ Mv' = Mv
    BY <2>1 DEF Lo, Mv, Moving
  <2>3. End' = End /\ (Listed(Size, Fn, Tm, left) => Listed(Size', Fn', Tm', left'))
    BY <2>1, <2>2, SameTable
  <2>4. TypeOK'
    BY <2>1 DEF IInv, TypeOK
  <2>5. Contained'
    BY <2>1, <2>3 DEF IInv, InTable, Contained
  <2>6. (Pointers => Pointers') /\ (Passed => Passed') /\ (Ahead => Ahead')
    BY <2>1, <2>3 DEF Pointers, Passed, Ahead, Moving
  <2>7. Exact'
    BY <2>1, <2>3, <2>6 DEF IInv, Exact, Halted
  <2> QED BY <2>4, <2>5, <2>7 DEF IInv
<1>2. CASE \E f \in Funcs, t \in Times : Timeout(f, t) \/ TimeoutOverrun(f, t) \/ TimeoutPanic(f, t)
  BY <1>2, KeptTimeout, KeptOverrun, KeptPanic
<1>3. CASE Clock
  BY <1>3, KeptClock
<1>4. CASE ClockHigh
  BY <1>4, KeptClockHigh
<1>5. CASE Call
  BY <1>5, KeptCall
<1>6. CASE Return
  BY <1>6, KeptReturn
<1>7. CASE CallsDone
  BY <1>7, KeptCallsDone
<1>8. CASE MoveFunc
  BY <1>8, KeptMoveFunc
<1>9. CASE MoveTime
  BY <1>9, KeptMoveTime
<1> QED BY <1>1, <1>2, <1>3, <1>4, <1>5, <1>6, <1>7, <1>8, <1>9 DEF Next

\* The inductive invariant of timeout() and the callout part of clock().
THEOREM Invariance == Spec => []IInv
<1>1. Init => IInv
  BY InitIInv
<1>2. IInv /\ [Next]_vars => IInv'
  BY NextIInv
<1> QED BY <1>1, <1>2, PTL DEF Spec

\* At every instant, also while clock() closes the gap and another clock() counts
\* in the half moved table, the table holds each function that is asked for once,
\* its times add up to the ticks that are left, and it ends inside the array unless
\* timeout() has put an entry in front of others into a full one.
THEOREM TableCorrect == Spec => []TableExact
<1>1. IInv => TableExact
  BY Promised
<1> QED BY <1>1, Invariance, PTL

\* Only a call ends what is asked for, and it is due then.
LEMMA StepEarly ==
  ASSUME IInv, [Next]_vars, NEW f \in Funcs, left[f] # Off, left'[f] = Off
  PROVE  left[f] = 0
<1>t. left \in [Funcs -> Nat \cup {Off}] /\ Off = -1
  BY DEF IInv, TypeOK, Off
<1>1. CASE left' = left
  BY <1>1
<1>2. CASE \E g \in Funcs, t \in Times : Timeout(g, t) \/ TimeoutOverrun(g, t)
  <2>1. PICK g \in Funcs, t \in Times : left' = [left EXCEPT ![g] = t]
    BY <1>2 DEF Timeout, TimeoutOverrun
  <2>2. t \in Nat
    BY CalloutAssumption
  <2> QED BY <1>t, <2>1, <2>2
<1>3. CASE Count
  <2>1. left'[f] = IF left[f] > 0 THEN left[f] - 1 ELSE left[f]
    BY <1>3 DEF Count
  <2>2. left[f] \in Nat
    BY <1>t
  <2> QED BY <1>t, <2>1, <2>2
<1>4. CASE Call
  <2>1. callout[p1].c_func \in Funcs /\ left[callout[p1].c_func] = 0
    BY <1>4, KeptCall
  <2>2. left' = [left EXCEPT ![callout[p1].c_func] = Off]
    BY <1>4 DEF Call
  <2> QED BY <1>t, <2>1, <2>2
<1> QED BY <1>1, <1>2, <1>3, <1>4
    DEF Next, vars, TimeoutPanic, Clock, ClockHigh, Return, CallsDone, MoveFunc, MoveTime

\* No function is called before its time has passed.
THEOREM EarlyCorrect == Spec => NeverEarly
<1>1. IInv /\ [Next]_vars => [\A f \in Funcs : left[f] # Off /\ left'[f] = Off => left[f] = 0]_vars
  BY StepEarly
<1> QED BY <1>1, Invariance, PTL DEF Spec, NeverEarly
====
