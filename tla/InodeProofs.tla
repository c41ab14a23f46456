---------------------------- MODULE InodeProofs ----------------------------
(***************************************************************************)
(* Proofs about the inode table, for any number of processes, slots,       *)
(* inodes and names.                                                       *)
(***************************************************************************)
EXTENDS Inode, FiniteSetTheorems, SequenceTheorems, WellFoundedInduction, TLAPS

(***************************************************************************)
(* The inductive invariant of the table, whatever bread() returns.         *)
(***************************************************************************)

\* Where a process has the slot it refers to locked.
LockPlaces ==
  {"bread", "got", "iput", "itrunc", "iupdat", "wdir", "unlink", "rdwr", "update"}

\* Where a process is, what its locals hold there, and what it may sleep for.
ControlAt(p) ==
  /\ pc[p] \in LockPlaces => ref[p] \in Slots
  /\ pc[p] \in {"iget", "getfs", "ialloc", "scan"} => ref[p] = 0
  /\ pc[p] = "iget" => ino[p] \in Inos
  /\ pc[p] = "scan" => adr[p] \in Adrs
  /\ wchan[p] \in Slots => pc[p] \in {"iget", "user"}
  /\ wchan[p] = SIlock => pc[p] = "getfs"

Control == \A p \in Procs : ControlAt(p)

\* The lock of the list is held for a scan.
ScanHeld == s_ilock # 0 => \E q \in Procs : pc[q] = "scan"

\* iput() still has the last reference when it has slept.
LastReference == \A p \in Procs : pc[p] \in {"itrunc", "iupdat"} => i_count[ref[p]] = 1

TableInv == TypeOK /\ Control /\ SlotsExact /\ LockExact /\ ScanHeld /\ LastReference

(***************************************************************************)
(* The inductive invariant of the files, when every inode can be read.     *)
(***************************************************************************)

\* The number of the file a process works on.
Number(p) == IF pc[p] = "iget" THEN ino[p] ELSE i_number[ref[p]]

\* Which directories a process has locked, and what their entries hold.
DirectoryAt(p) ==
  /\ op[p] # "error"
  /\ pc[p] \in {"user", "rdwr"} => op[p] = "user"
  /\ op[p] = "unlink" => /\ pc[p] \in {"iget", "bread", "got", "unlink"}
                         /\ \E n \in Names : dlock[n] = p /\ entry[n] = Number(p)
  /\ op[p] = "creat" => /\ pc[p] \in {"getfs", "ialloc", "scan", "iget", "bread", "got", "wdir"}
                        /\ \E n \in Names : dlock[n] = p
  /\ op[p] = "retry" => pc[p] \in {"iput", "itrunc", "iupdat"} /\ \E n \in Names : dlock[n] = p
  /\ pc[p] \in {"getfs", "ialloc", "scan", "wdir"} => op[p] = "creat"
  /\ pc[p] = "unlink" => op[p] = "unlink"
  /\ \A n \in Names : dlock[n] = p =>
       /\ op[p] \in {"unlink", "creat", "retry", "user"} /\ pc[p] \notin {"user", "rdwr"}
       /\ op[p] # "unlink" => entry[n] = 0

Directories ==
  /\ \A p \in Procs : DirectoryAt(p)
  /\ \A n, m \in Names : dlock[n] = dlock[m] /\ dlock[n] # NULL => n = m

\* The process that is reading the inode of a slot.
Reading(s) == \E p \in Procs : ref[p] = s /\ pc[p] = "bread"

\* A slot that has nothing to be written agrees with the device.
Clean ==
  \A s \in Slots :
    i_number[s] # 0 /\ ~Reading(s) /\ "IUPD" \notin i_flag[s] =>
      dinode[i_number[s]] = [mode |-> i_mode[s], nlink |-> i_nlink[s]]

\* What iput() may rely on while it sleeps.
Truncated ==
  \A p \in Procs :
    /\ pc[p] = "itrunc" => i_nlink[ref[p]] = 0
    /\ pc[p] = "iupdat" => i_nlink[ref[p]] > 0 \/ ~i_mode[ref[p]]

Named(i) == \E n \in Names : entry[n] = i

\* The link count of an inode says whether it has a name or is about to.
Linked ==
  \A i \in Inos :
    /\ NlinkOf(i) = IF Named(i) \/ i \in Newborn THEN 1 ELSE 0
    /\ NlinkOf(i) = 1 => ModeOf(i)

NamedOnce ==
  /\ \A n, m \in Names : entry[n] = entry[m] /\ entry[n] # 0 => n = m
  /\ \A n \in Names : entry[n] \notin Newborn

FileInv == Directories /\ Clean /\ Truncated /\ Linked /\ NamedOnce /\ Reclaimed
-----------------------------------------------------------------------------
(* Arithmetic and the scan of a block of inodes.                           *)

\* A set of numbers that is not empty has a least member.
LEMMA Least ==
  ASSUME NEW T, T \subseteq Nat, T # {}
  PROVE  \E n \in T : \A m \in T : n <= m
<1> DEFINE R == {xy \in Nat \X Nat : xy[1] < xy[2]}
<1>1. IsWellFoundedOn(R, Nat)
  BY NatLessThanWellFounded DEF OpToRel
<1> HIDE DEF R
<1>2. PICK x \in T : \A y \in T : <<y, x>> \notin R
  BY <1>1, WFMin
<1>3. ASSUME NEW y \in T PROVE x <= y
  <2>1. ~(y < x)
    BY <1>2 DEF R
  <2> QED BY <2>1
<1> QED BY <1>3

\* There is a block of inodes.
LEMMA FirstBlock == 1 \in Adrs
<1>1. Inodes \in Nat /\ INOPB \in Nat /\ Inodes >= 1 /\ INOPB >= 1
  BY InodeAssumption
<1> DEFINE x == Inodes + INOPB - 1
           d == x \div INOPB
<1>2. x \in Nat /\ x >= INOPB
  BY <1>1
<1>3. d \in Int /\ x = INOPB * d + (x % INOPB) /\ x % INOPB \in 0 .. INOPB - 1
  BY <1>1, <1>2
<1>4. d >= 1
  <2>1. SUFFICES ASSUME d <= 0 PROVE FALSE
    BY <1>3
  <2>2. INOPB * d <= 0
    BY <1>1, <1>3, <2>1
  <2> QED BY <1>1, <1>2, <1>3, <2>2
<1> QED BY <1>3, <1>4 DEF Adrs
\* The scan's loop up to number i.
Turn(f, i, c, r) == IF i <= c THEN r ELSE Looked(f[i - 1], i)

IsScan(f, n, c, r) == f = [i \in 0 .. n |-> Turn(f, i, c, r)]

\* The loop is well defined.
LEMMA ScanDefined ==
  ASSUME NEW n \in Nat, NEW c \in Nat, NEW r
  PROVE  \E f : IsScan(f, n, c, r)
<1> DEFINE Has(m) == \E f : IsScan(f, m, c, r)
           T == {m \in Nat : ~Has(m)}
<1>1. Has(0)
  <2> DEFINE f == [i \in 0 .. 0 |-> r]
  <2>1. \A i \in 0 .. 0 : Turn(f, i, c, r) = r
    BY DEF Turn
  <2>2. IsScan(f, 0, c, r)
    BY <2>1 DEF IsScan
  <2> HIDE DEF f
  <2> QED BY <2>2
<1>2. ASSUME NEW m \in Nat, m > 0, Has(m - 1) PROVE Has(m)
  <2>1. PICK f : IsScan(f, m - 1, c, r)
    BY <1>2
  <2> DEFINE g == [i \in 0 .. m |-> IF i = m THEN Turn(f, m, c, r) ELSE f[i]]
  <2>2. ASSUME NEW i \in 0 .. m PROVE Turn(g, i, c, r) = Turn(f, i, c, r)
    <3>1. CASE i <= c
      BY <3>1 DEF Turn
    <3>2. CASE i > c
      <4>1. i - 1 \in 0 .. m /\ i - 1 # m
        BY <1>2, <3>2
      <4>2. g[i - 1] = f[i - 1]
        BY <4>1
      <4> HIDE DEF g
      <4> QED BY <4>2 DEF Turn
    <3> QED BY <3>1, <3>2
  <2>3. ASSUME NEW i \in 0 .. m PROVE g[i] = Turn(f, i, c, r)
    <3>1. CASE i = m
      BY <3>1
    <3>2. CASE i # m
      <4>1. i \in 0 .. m - 1
        BY <1>2, <3>2
      <4>2. f[i] = Turn(f, i, c, r)
        BY <2>1, <4>1 DEF IsScan
      <4> QED BY <3>2, <4>2
    <3> QED BY <3>1, <3>2
  <2>4. g = [i \in 0 .. m |-> g[i]]
    OBVIOUS
  <2> HIDE DEF g
  <2>5. IsScan(g, m, c, r)
    BY <2>2, <2>3, <2>4 DEF IsScan
  <2> QED BY <2>5
<1>3. T = {}
  <2> SUFFICES ASSUME T # {} PROVE FALSE
    OBVIOUS
  <2>1. PICK m \in T : \A k \in T : m <= k
    <3>1. T \subseteq Nat
      OBVIOUS
    <3> HIDE DEF T
    <3> QED BY <3>1, Least
  <2>2. m \in Nat /\ ~Has(m)
    OBVIOUS
  <2> HIDE DEF Has
  <2>3. m > 0
    BY <1>1, <2>2
  <2>4. m - 1 \in Nat /\ ~(m <= m - 1)
    BY <2>2, <2>3
  <2>5. Has(m - 1)
    BY <2>1, <2>4
  <2> QED BY <1>2, <2>2, <2>3, <2>5
<1> QED BY <1>3

\* What the scan of a block adds to the list are inode numbers.
LEMMA ScannedType ==
  ASSUME TypeOK, NEW a \in Adrs, NEW error \in BOOLEAN
  PROVE  Scanned(a, error) \in Seq(Inos) /\ Len(Scanned(a, error)) \in Nat
<1> DEFINE c == (a - 1) * INOPB
           r == [list |-> s_inode, full |-> FALSE]
           after == CHOOSE f : IsScan(f, Inodes, c, r)
           Results == [list : Seq(Inos), full : BOOLEAN]
           T == {i \in 0 .. Inodes : after[i] \notin Results}
<1>1. /\ Inodes \in Nat /\ INOPB \in Nat /\ INOPB >= 1 /\ NICINOD \in Nat
      /\ a \in Nat /\ a - 1 \in Nat
  BY InodeAssumption DEF Adrs
<1>2. c \in Nat /\ a * INOPB \in Nat
  BY <1>1
<1>3. Scanned(a, error) = IF error THEN s_inode ELSE after[LastIn(a)].list
  BY DEF Scanned, Turn, IsScan
<1>4. IsScan(after, Inodes, c, r)
  <2>1. \E f : IsScan(f, Inodes, c, r)
    <3> HIDE DEF c, r
    <3> QED BY <1>1, <1>2, ScanDefined
  <2> QED BY <2>1
<1>5. s_inode \in Seq(Inos)
  BY DEF TypeOK
<1>6. r \in Results
  BY <1>5
<1>7. ASSUME NEW x \in Results, NEW i \in Inos PROVE Looked(x, i) \in Results
  <2>1. x.list \in Seq(Inos) /\ x.full \in BOOLEAN
    OBVIOUS
  <2>2. Append(x.list, i) \in Seq(Inos) /\ (Len(x.list) + 1 >= NICINOD) \in BOOLEAN
    BY <1>1, <2>1
  <2> QED BY <2>2 DEF Looked
<1> HIDE DEF after, Results, r, c
<1>8. T = {}
  <2> SUFFICES ASSUME T # {} PROVE FALSE
    OBVIOUS
  <2>1. PICK m \in T : \A k \in T : m <= k
    <3>1. T \subseteq Nat
      OBVIOUS
    <3> HIDE DEF T
    <3> QED BY <3>1, Least
  <2>2. after[m] = IF m <= c THEN r ELSE Looked(after[m - 1], m)
    BY <1>4 DEF IsScan, Turn
  <2>3. m > c
    BY <1>2, <1>6, <2>2
  <2>4. m - 1 \in 0 .. Inodes /\ m \in Inos /\ ~(m <= m - 1)
    BY <1>1, <1>2, <2>3 DEF Inos
  <2>5. after[m - 1] \in Results
    BY <2>1, <2>4
  <2> QED BY <1>2, <1>7, <2>2, <2>3, <2>4, <2>5
<1>9. LastIn(a) \in 0 .. Inodes
  BY <1>1, <1>2 DEF LastIn
<1>10. after[LastIn(a)].list \in Seq(Inos)
  BY <1>8, <1>9 DEF Results
<1> QED BY <1>3, <1>5, <1>10

-----------------------------------------------------------------------------
(* The members of the table.                                               *)

\* The search of iget() and ifree()'s callers stop at a member of the set.
LEMMA FirstIn ==
  ASSUME NEW S, S \subseteq Slots, S # {}
  PROVE  First(S) \in S
<1>1. S \subseteq Nat
  BY DEF Slots
<1>2. \E s \in S : \A t \in S : s <= t
  BY <1>1, Least
<1> QED BY <1>2 DEF First

\* ialloc()'s loop stops at a number of the list.
LEMMA TopIn ==
  ASSUME TypeOK, Top > 0
  PROVE  Top \in 1 .. Len(s_inode) /\ s_inode[Top] \in Inos
<1> DEFINE n == Len(s_inode)
           ok == {i \in DOMAIN s_inode : s_inode[i] >= ROOTINO}
           D == {n - i : i \in ok}
<1>1. n \in Nat /\ DOMAIN s_inode = 1 .. n /\ s_inode \in Seq(Inos)
  BY DEF TypeOK
<1>2. ok # {} /\ Top = CHOOSE i \in ok : \A j \in ok : j <= i
  BY DEF Top
<1>3. ok \subseteq 1 .. n
  BY <1>1
<1> HIDE DEF ok, n
<1>4. D \subseteq Nat /\ D # {}
  <2>1. ASSUME NEW i \in ok PROVE n - i \in Nat
    BY <1>1, <1>3
  <2> QED BY <1>2, <2>1
<1>5. PICK x \in D : \A y \in D : x <= y
  <2> HIDE DEF D
  <2> QED BY <1>4, Least
<1>6. PICK i \in ok : x = n - i
  OBVIOUS
<1>7. ASSUME NEW j \in ok PROVE j <= i
  <2>1. n - j \in D
    OBVIOUS
  <2>2. n - i <= n - j
    BY <1>5, <1>6, <2>1
  <2> QED BY <1>1, <1>3, <2>2
<1>8. Top \in ok
  BY <1>2, <1>7
<1> QED BY <1>1, <1>3, <1>8 DEF n

\* p refers to s and has it locked.
Locks(p, s) == ref[p] = s /\ pc[p] \in LockPlaces

LockEach ==
  \A s \in Slots :
    /\ Locked(s) <=> \E p \in Procs : Locks(p, s)
    /\ \A p, q \in Procs : Locks(p, s) /\ Locks(q, s) => p = q

Sleepers == \A p \in Procs : wchan[p] \in Slots => {"ILOCK", "IWANT"} \subseteq i_flag[wchan[p]]

ListSleepers ==
  \A p \in Procs : wchan[p] = SIlock => s_ilock # 0 /\ \E q \in Procs : pc[q] = "scan"

\* LockExact, process by process.
LEMMA LockParts == LockExact <=> LockEach /\ Sleepers /\ ListSleepers
<1>1. ASSUME NEW s \in Slots
      PROVE  Cardinality(Lockers(s)) = (IF Locked(s) THEN 1 ELSE 0) <=>
             /\ Locked(s) <=> \E p \in Procs : Locks(p, s)
             /\ \A p, q \in Procs : Locks(p, s) /\ Locks(q, s) => p = q
  <2>1. Lockers(s) = {p \in Procs : Locks(p, s)}
    BY DEF Lockers, Users, Locks, LockPlaces
  <2>2. IsFiniteSet(Lockers(s))
    BY <2>1, InodeAssumption, FS_Subset
  <2>3. /\ Cardinality(Lockers(s)) = 0 <=> \A p \in Procs : ~Locks(p, s)
        /\ Cardinality(Lockers(s)) = 1 <=> \E x : Lockers(s) = {x}
    BY <2>1, <2>2, FS_EmptySet, FS_Singleton
  <2>4. (\E x : Lockers(s) = {x}) <=>
          /\ \E p \in Procs : Locks(p, s)
          /\ \A p, q \in Procs : Locks(p, s) /\ Locks(q, s) => p = q
    <3>1. ASSUME NEW x, Lockers(s) = {x}
          PROVE  /\ \E p \in Procs : Locks(p, s)
                 /\ \A p, q \in Procs : Locks(p, s) /\ Locks(q, s) => p = q
      <4>1. x \in Procs /\ Locks(x, s)
        BY <2>1, <3>1
      <4>2. ASSUME NEW p \in Procs, Locks(p, s) PROVE p = x
        BY <2>1, <3>1, <4>2
      <4> QED BY <4>1, <4>2
    <3>2. ASSUME NEW p \in Procs, Locks(p, s),
                 \A q, t \in Procs : Locks(q, s) /\ Locks(t, s) => q = t
          PROVE  Lockers(s) = {p}
      BY <2>1, <3>2
    <3> QED BY <3>1, <3>2
  <2> QED BY <2>3, <2>4
<1> QED BY <1>1 DEF LockExact, LockEach, Sleepers, ListSleepers

Unique == \A s, t \in Slots : i_number[s] = i_number[t] /\ i_number[s] # 0 => s = t

Counted == \A s \in Slots : i_count[s] = Cardinality(Users(s))

Numbered == \A s \in Slots : i_count[s] > 0 <=> i_number[s] # 0

\* What the counts say about the references.
References ==
  \A s \in Slots :
    /\ IsFiniteSet(Users(s))
    /\ i_count[s] = 0 <=> \A p \in Procs : ref[p] # s
    /\ i_count[s] = 1 => \A p, q \in Procs : ref[p] = s /\ ref[q] = s => p = q
    /\ i_count[s] # 0 => i_number[s] # 0

\* The count of a slot is 0 when nobody refers to it, and 1 when one does.
LEMMA ReferencesHold == TypeOK /\ SlotsExact => References
<1> SUFFICES ASSUME TypeOK, SlotsExact, NEW s \in Slots
             PROVE  /\ IsFiniteSet(Users(s))
                    /\ i_count[s] = 0 <=> \A p \in Procs : ref[p] # s
                    /\ i_count[s] = 1 => \A p, q \in Procs : ref[p] = s /\ ref[q] = s => p = q
                    /\ i_count[s] # 0 => i_number[s] # 0
  BY DEF References
<1>1. IsFiniteSet(Users(s))
  BY InodeAssumption, FS_Subset DEF Users
<1>2. i_count[s] = Cardinality(Users(s)) /\ i_count[s] \in Nat
  BY DEF SlotsExact, TypeOK
<1>3. Cardinality(Users(s)) = 0 <=> Users(s) = {}
  BY <1>1, FS_EmptySet
<1>4. Cardinality(Users(s)) = 1 <=> \E x : Users(s) = {x}
  BY <1>1, FS_Singleton
<1>5. \A p \in Procs : p \in Users(s) <=> ref[p] = s
  BY DEF Users
<1>6. Users(s) \subseteq Procs
  BY DEF Users
<1>7. i_count[s] # 0 => i_number[s] # 0
  BY <1>2 DEF SlotsExact
<1> QED BY <1>1, <1>2, <1>3, <1>4, <1>5, <1>6, <1>7

-----------------------------------------------------------------------------
(* Types and places.                                                       *)

\* The parts of TypeOK that a step changes in one place.
LEMMA TypeFacts ==
  ASSUME TableInv
  PROVE  /\ getfs(s_inode) \in Seq(Inos) /\ Len(getfs(s_inode)) \in Nat /\ <<>> \in Seq(Inos)
         /\ \A p \in Procs : Undo(p) \in [Names -> Procs \cup {NULL}]
         /\ \A p \in Procs : pc[p] \in LockPlaces =>
              /\ ref[p] \in Slots /\ ref[p] \in 0 .. NINODE
              /\ i_number[ref[p]] \in Inos /\ i_count[ref[p]] \in Nat \ {0}
         /\ \A C : [p \in Procs |-> IF wchan[p] \in C THEN NULL ELSE wchan[p]]
                    \in [Procs -> Slots \cup {SIlock, NULL}]
         /\ NULL \notin Slots /\ NULL # SIlock /\ SIlock \notin Slots /\ 0 \notin Slots
         /\ NINODE \in Nat /\ Inodes \in Nat /\ NICINOD \in Nat
<1> USE DEF TableInv
<1>1. getfs(s_inode) \in Seq(Inos) /\ Len(getfs(s_inode)) \in Nat /\ <<>> \in Seq(Inos)
  BY DEF getfs, TypeOK
<1>2. ASSUME NEW p \in Procs PROVE Undo(p) \in [Names -> Procs \cup {NULL}]
  BY DEF Undo, TypeOK
<1>3. NINODE \in Nat /\ Inodes \in Nat /\ NICINOD \in Nat /\ NULL \notin 0 .. NINODE
  BY InodeAssumption
<1>4. ASSUME NEW p \in Procs, pc[p] \in LockPlaces
      PROVE  /\ ref[p] \in Slots /\ ref[p] \in 0 .. NINODE
             /\ i_number[ref[p]] \in Inos /\ i_count[ref[p]] \in Nat \ {0}
  <2>1. ref[p] \in Slots /\ ref[p] \in 0 .. NINODE
    BY <1>3, <1>4 DEF Control, ControlAt, Slots
  <2>2. i_count[ref[p]] # 0 /\ i_number[ref[p]] # 0
    BY <2>1, ReferencesHold DEF References
  <2>3. i_number[ref[p]] \in 0 .. Inodes /\ i_count[ref[p]] \in Nat
    BY <2>1 DEF TypeOK
  <2> QED BY <1>3, <2>1, <2>2, <2>3 DEF Inos
<1>5. \A C : [p \in Procs |-> IF wchan[p] \in C THEN NULL ELSE wchan[p]]
             \in [Procs -> Slots \cup {SIlock, NULL}]
  BY DEF TypeOK
<1>6. NULL \notin Slots /\ NULL # SIlock /\ SIlock \notin Slots /\ 0 \notin Slots
  BY <1>3 DEF Slots, SIlock
<1> QED BY <1>1, <1>2, <1>3, <1>4, <1>5, <1>6

\* iput() returns to a place.
LEMMA ReturnedType ==
  ASSUME TableInv, NEW p \in Procs, Returned(p)
  PROVE  /\ dlock' \in [Names -> Procs \cup {NULL}]
         /\ pc' \in [Procs -> Places] /\ op' \in [Procs -> Calls]
         /\ ref' \in [Procs -> 0 .. NINODE] /\ cur' \in Procs \cup {NULL}
<1>0. TypeOK
  BY DEF TableInv
<1>1. Undo(p) \in [Names -> Procs \cup {NULL}] /\ 0 \in 0 .. NINODE
  BY TypeFacts
<1>2. dlock' \in [Names -> Procs \cup {NULL}] /\ ref' \in [Procs -> 0 .. NINODE]
  BY <1>0, <1>1 DEF TypeOK, Returned
<1>3. pc' \in [Procs -> Places] /\ cur' \in Procs \cup {NULL}
  BY <1>0 DEF TypeOK, Returned, Goto, Pause, Places
<1>4. op' \in [Procs -> Calls]
  BY <1>0 DEF TypeOK, Returned, Calls
<1> QED BY <1>2, <1>3, <1>4

\* Every step keeps the types.
LEMMA TypeStep ==
  ASSUME TableInv, [Next]_vars
  PROVE  TypeOK'
<1> USE DEF At, Goto, Pause, LockPlaces, Places, Calls
<1>0. TypeOK
  BY DEF TableInv
<1>1. CASE UNCHANGED vars
  BY <1>0, <1>1 DEF vars, TypeOK
<1>2. ASSUME NEW p \in Procs, IgetLocked(p) PROVE TypeOK'
  <2>1. First(InCore(ino[p])) \in Slots
    BY <1>2, FirstIn DEF IgetLocked, InCore
  <2> QED BY <1>0, <1>2, <2>1, TypeFacts DEF TypeOK, IgetLocked, Want, sleep, free
<1>3. ASSUME NEW p \in Procs, IgetHit(p) PROVE TypeOK'
  <2> DEFINE s == First(InCore(ino[p]))
  <2>1. s \in Slots /\ s \in 0 .. NINODE
    BY <1>3, FirstIn DEF IgetHit, InCore, Slots
  <2> HIDE DEF s
  <2>2. i_count' \in [Slots -> Nat] /\ i_flag' \in [Slots -> SUBSET {"ILOCK", "IWANT", "IUPD"}]
    BY <1>0, <1>3, <2>1 DEF TypeOK, IgetHit, s
  <2>3. ref' \in [Procs -> 0 .. NINODE]
    BY <1>0, <1>3, <2>1 DEF TypeOK, IgetHit, s
  <2>4. ino' \in [Procs -> 0 .. Inodes] /\ pc' \in [Procs -> Places]
    BY <1>0, <1>3, TypeFacts DEF TypeOK, IgetHit, Places
  <2> QED BY <1>0, <1>3, <2>2, <2>3, <2>4 DEF TypeOK, IgetHit, free
<1>4. ASSUME NEW p \in Procs, IgetFull(p) PROVE TypeOK'
  BY <1>0, <1>4, TypeFacts DEF TypeOK, IgetFull, itab, free
<1>5. ASSUME NEW p \in Procs, IgetMiss(p) PROVE TypeOK'
  <2> DEFINE s == First(Unused)
  <2>1. s \in Slots /\ s \in 0 .. NINODE
    BY <1>5, FirstIn DEF IgetMiss, Unused, Slots
  <2> HIDE DEF s
  <2>2. /\ i_count' \in [Slots -> Nat] /\ i_flag' \in [Slots -> SUBSET {"ILOCK", "IWANT", "IUPD"}]
        /\ i_number' \in [Slots -> 0 .. Inodes]
    BY <1>0, <1>5, <2>1 DEF TypeOK, IgetMiss, s
  <2>3. ref' \in [Procs -> 0 .. NINODE]
    BY <1>0, <1>5, <2>1 DEF TypeOK, IgetMiss, s
  <2> QED BY <1>0, <1>5, <2>2, <2>3, TypeFacts, SMTT(30) DEF TypeOK, IgetMiss, free
<1>6. ASSUME NEW p \in Procs, IgetRead(p) PROVE TypeOK'
  <2>1. i_mode' \in [Slots -> BOOLEAN] /\ i_nlink' \in [Slots -> Int]
    <3>1. dinode[i_number[ref[p]]] \in [mode : BOOLEAN, nlink : Int]
      BY <1>0, <1>6, TypeFacts DEF TypeOK, IgetRead
    <3> QED BY <1>0, <1>6, <3>1 DEF TypeOK, IgetRead
  <2> QED BY <1>0, <1>6, <2>1 DEF TypeOK, IgetRead, free
<1>7. ASSUME NEW p \in Procs, IputMore(p) PROVE TypeOK'
  <2>1. /\ dlock' \in [Names -> Procs \cup {NULL}]
        /\ pc' \in [Procs -> Places] /\ op' \in [Procs -> Calls]
        /\ ref' \in [Procs -> 0 .. NINODE] /\ cur' \in Procs \cup {NULL}
    BY <1>7, ReturnedType DEF IputMore
  <2>2. wchan' \in [Procs -> Slots \cup {SIlock, NULL}]
    BY <1>7, TypeFacts DEF IputMore, prele, wakeup
  <2>3. i_count' \in [Slots -> Nat] /\ i_flag' \in [Slots -> SUBSET {"ILOCK", "IWANT", "IUPD"}]
    <3>1. i_count[ref[p]] - 1 \in Nat
      BY <1>7, TypeFacts DEF IputMore
    <3>2. i_flag[ref[p]] \ {"ILOCK", "IWANT"} \in SUBSET {"ILOCK", "IWANT", "IUPD"}
      BY <1>0, <1>7, TypeFacts DEF TypeOK, IputMore
    <3> QED BY <1>0, <1>7, <3>1, <3>2 DEF TypeOK, IputMore, prele
  <2> QED BY <1>0, <1>7, <2>1, <2>2, <2>3 DEF TypeOK, IputMore, free
<1>8. ASSUME NEW p \in Procs, IputLast(p) PROVE TypeOK'
  BY <1>0, <1>8, TypeFacts DEF TypeOK, IputLast, free
<1>9. ASSUME NEW p \in Procs, Itrunc(p) PROVE TypeOK'
  BY <1>0, <1>9, TypeFacts, SMTT(30) DEF TypeOK, Itrunc, ifree
<1>10. ASSUME NEW p \in Procs, IputUpdate(p) PROVE TypeOK'
  BY <1>0, <1>10, TypeFacts DEF TypeOK, IputUpdate
<1>11. ASSUME NEW p \in Procs, IputClean(p) PROVE TypeOK'
  <2>1. /\ dlock' \in [Names -> Procs \cup {NULL}]
        /\ pc' \in [Procs -> Places] /\ op' \in [Procs -> Calls]
        /\ ref' \in [Procs -> 0 .. NINODE] /\ cur' \in Procs \cup {NULL}
    BY <1>11, ReturnedType DEF IputClean, Release
  <2>2. wchan' \in [Procs -> Slots \cup {SIlock, NULL}]
    BY <1>11, TypeFacts DEF IputClean, Release, wakeup
  <2>3. /\ i_count' \in [Slots -> Nat] /\ i_flag' \in [Slots -> SUBSET {"ILOCK", "IWANT", "IUPD"}]
        /\ i_number' \in [Slots -> 0 .. Inodes]
    BY <1>0, <1>11, TypeFacts DEF TypeOK, IputClean, Release
  <2> QED BY <1>0, <1>11, <2>1, <2>2, <2>3 DEF TypeOK, IputClean, free
<1>12. ASSUME NEW p \in Procs, IputWritten(p) PROVE TypeOK'
  <2>1. /\ dlock' \in [Names -> Procs \cup {NULL}]
        /\ pc' \in [Procs -> Places] /\ op' \in [Procs -> Calls]
        /\ ref' \in [Procs -> 0 .. NINODE] /\ cur' \in Procs \cup {NULL}
    BY <1>12, ReturnedType DEF IputWritten, Release
  <2>2. wchan' \in [Procs -> Slots \cup {SIlock, NULL}]
    BY <1>12, TypeFacts DEF IputWritten, Release, wakeup
  <2>3. /\ i_count' \in [Slots -> Nat] /\ i_flag' \in [Slots -> SUBSET {"ILOCK", "IWANT", "IUPD"}]
        /\ i_number' \in [Slots -> 0 .. Inodes]
    BY <1>0, <1>12, TypeFacts DEF TypeOK, IputWritten, Release
  <2>4. dinode' \in [Inos -> [mode : BOOLEAN, nlink : Int]]
    BY <1>0, <1>12, TypeFacts DEF TypeOK, IputWritten, Written
  <2> QED BY <1>0, <1>12, <2>1, <2>2, <2>3, <2>4 DEF TypeOK, IputWritten, free
<1>13. ASSUME NEW p \in Procs, IallocWait(p) PROVE TypeOK'
  BY <1>0, <1>13, TypeFacts DEF TypeOK, IallocWait, sleep, itab, free
<1>14. ASSUME NEW p \in Procs, IallocPop(p) PROVE TypeOK'
  <2>1. Top \in 1 .. Len(s_inode) /\ s_inode[Top] \in Inos
    BY <1>0, <1>14, TopIn DEF IallocPop
  <2>2. s_inode' \in Seq(Inos)
    BY <1>0, <1>14, <2>1 DEF TypeOK, IallocPop
  <2>3. ino' \in [Procs -> 0 .. Inodes]
    BY <1>0, <1>14, <2>1, TypeFacts, SMTT(30) DEF TypeOK, IallocPop, Inos
  <2> QED BY <1>0, <1>14, <2>2, <2>3 DEF TypeOK, IallocPop, itab
<1>15. ASSUME NEW p \in Procs, IallocScan(p) PROVE TypeOK'
  <2>1. adr' \in [Procs -> Adrs \cup {0}]
    BY <1>0, <1>15, FirstBlock DEF TypeOK, IallocScan
  <2> QED BY <1>0, <1>15, <2>1, TypeFacts, SMTT(30) DEF TypeOK, IallocScan, itab
<1>16. ASSUME NEW p \in Procs, ScanBlock(p) PROVE TypeOK'
  <2>1. adr[p] \in Adrs
    BY <1>16 DEF ScanBlock, TableInv, Control, ControlAt
  <2>2. PICK error \in BOOLEAN : More(adr[p], error) /\ s_inode' = Scanned(adr[p], error)
    BY <1>16, InodeAssumption DEF ScanBlock
  <2>3. s_inode' \in Seq(Inos)
    BY <1>0, <2>1, <2>2, ScannedType
  <2>4. adr' \in [Procs -> Adrs \cup {0}]
    BY <1>0, <1>16, <2>2 DEF TypeOK, ScanBlock, More
  <2> QED BY <1>0, <1>16, <2>3, <2>4 DEF TypeOK, ScanBlock, itab
<1>17. ASSUME NEW p \in Procs, ScanDone(p) PROVE TypeOK'
  <2>1. adr[p] \in Adrs
    BY <1>17 DEF ScanDone, TableInv, Control, ControlAt
  <2>2. PICK error \in BOOLEAN : s_inode' = Scanned(adr[p], error)
    BY <1>17, InodeAssumption DEF ScanDone
  <2>3. s_inode' \in Seq(Inos)
    BY <1>0, <2>1, <2>2, ScannedType
  <2>4. adr' \in [Procs -> Adrs \cup {0}] /\ wchan' \in [Procs -> Slots \cup {SIlock, NULL}]
    BY <1>0, <1>17, TypeFacts DEF TypeOK, ScanDone, wakeup
  <2>5. /\ dlock' \in [Names -> Procs \cup {NULL}] /\ cur' \in Procs \cup {NULL}
        /\ pc' \in [Procs -> Places] /\ op' \in [Procs -> Calls]
    <3>1. CASE s_inode' # <<>>
      BY <1>0, <1>17, <3>1 DEF TypeOK, ScanDone, Places
    <3>2. CASE s_inode' = <<>>
      <4>1. Undo(p) \in [Names -> Procs \cup {NULL}]
        BY TypeFacts
      <4> QED BY <1>0, <1>17, <3>2, <4>1 DEF TypeOK, ScanDone, Places, Calls
    <3> QED BY <3>1, <3>2
  <2> QED BY <1>0, <1>17, <2>3, <2>4, <2>5 DEF TypeOK, ScanDone, itab
<1>18. ASSUME NEW p \in Procs, NEW n \in Names, Open(p, n) PROVE TypeOK'
  BY <1>0, <1>18, TypeFacts DEF TypeOK, Open, Enter, itab, free
<1>19. ASSUME NEW p \in Procs, NEW n \in Names, Unlink(p, n) PROVE TypeOK'
  BY <1>0, <1>19, TypeFacts DEF TypeOK, Unlink, Enter, itab, free
<1>20. ASSUME NEW p \in Procs, NEW n \in Names, Creat(p, n) PROVE TypeOK'
  BY <1>0, <1>20, TypeFacts DEF TypeOK, Creat, Enter, itab
<1>21. ASSUME NEW p \in Procs, Opened(p) PROVE TypeOK'
  BY <1>0, <1>21, TypeFacts DEF TypeOK, Opened, prele, wakeup, free
<1>22. ASSUME NEW p \in Procs, OpenRefused(p) PROVE TypeOK'
  BY <1>0, <1>22, TypeFacts DEF TypeOK, OpenRefused, itab, free
<1>23. ASSUME NEW p \in Procs, CreatTaken(p) PROVE TypeOK'
  BY <1>0, <1>23, TypeFacts DEF TypeOK, CreatTaken, itab, free
<1>24. ASSUME NEW p \in Procs, Maknode(p) PROVE TypeOK'
  BY <1>0, <1>24, TypeFacts, SMTT(30) DEF TypeOK, Maknode, free
<1>25. ASSUME NEW p \in Procs, Wdir(p) PROVE TypeOK'
  BY <1>0, <1>25, TypeFacts DEF TypeOK, Wdir, prele, wakeup, free
<1>26. ASSUME NEW p \in Procs, UnlinkStart(p) PROVE TypeOK'
  BY <1>0, <1>26, TypeFacts DEF TypeOK, UnlinkStart, itab, free
<1>27. ASSUME NEW p \in Procs, Unlinked(p) PROVE TypeOK'
  <2>1. entry' \in [Names -> 0 .. Inodes]
    BY <1>0, <1>27, TypeFacts DEF TypeOK, Unlinked
  <2>2. i_nlink' \in [Slots -> Int] /\ i_flag' \in [Slots -> SUBSET {"ILOCK", "IWANT", "IUPD"}]
    <3>1. /\ i_nlink[ref[p]] - 1 \in Int
          /\ i_flag[ref[p]] \cup {"IUPD"} \in SUBSET {"ILOCK", "IWANT", "IUPD"}
      BY <1>0, <1>27, TypeFacts DEF TypeOK, Unlinked
    <3> QED BY <1>0, <1>27, <3>1 DEF TypeOK, Unlinked
  <2> QED BY <1>0, <1>27, <2>1, <2>2 DEF TypeOK, Unlinked, free
<1>28. ASSUME NEW p \in Procs, PlockWait(p) PROVE TypeOK'
  <2>1. ref[p] \in Slots
    BY <1>0, <1>28 DEF TypeOK, PlockWait, HasFile, Slots
  <2> QED BY <1>0, <1>28, <2>1, TypeFacts DEF TypeOK, PlockWait, Want, sleep, free
<1>29. ASSUME NEW p \in Procs, Rdwr(p) PROVE TypeOK'
  BY <1>0, <1>29, TypeFacts DEF TypeOK, Rdwr, plock, HasFile, free
<1>30. ASSUME NEW p \in Procs, Close(p) PROVE TypeOK'
  BY <1>0, <1>30, TypeFacts DEF TypeOK, Close, plock, HasFile, free
<1>31. ASSUME NEW p \in Procs, RdwrDone(p) PROVE TypeOK'
  <2>1. wchan' \in [Procs -> Slots \cup {SIlock, NULL}]
    BY <1>31, TypeFacts DEF RdwrDone, wakeup
  <2>2. i_flag' \in [Slots -> SUBSET {"ILOCK", "IWANT", "IUPD"}]
    <3>1. \A marks \in SUBSET {"IUPD"} :
            (i_flag[ref[p]] \cup marks) \ {"ILOCK", "IWANT"} \in SUBSET {"ILOCK", "IWANT", "IUPD"}
      BY <1>0, <1>31, TypeFacts DEF TypeOK, RdwrDone
    <3>2. PICK marks \in SUBSET {"IUPD"} :
            i_flag' = [i_flag EXCEPT ![ref[p]] = (@ \cup marks) \ {"ILOCK", "IWANT"}]
      BY <1>31 DEF RdwrDone
    <3> QED BY <1>0, <3>1, <3>2 DEF TypeOK
  <2> QED BY <1>0, <1>31, <2>1, <2>2 DEF TypeOK, RdwrDone, free
<1>32. ASSUME NEW p \in Procs, NEW s \in Slots, Update(p, s) PROVE TypeOK'
  <2>1. s_inode' \in Seq(Inos)
    BY <1>0, <1>32, TypeFacts DEF TypeOK, Update
  <2>2. s \in 0 .. NINODE
    BY DEF Slots
  <2>3. ref' \in [Procs -> 0 .. NINODE]
    BY <1>0, <1>32, <2>2 DEF TypeOK, Update
  <2>4. i_count' \in [Slots -> Nat] /\ i_flag' \in [Slots -> SUBSET {"ILOCK", "IWANT", "IUPD"}]
    BY <1>0, <1>32 DEF TypeOK, Update
  <2>5. /\ cur' \in Procs \cup {NULL}
        /\ pc' \in [Procs -> Places] /\ op' \in [Procs -> Calls]
    BY <1>0, <1>32 DEF TypeOK, Update
  <2> QED BY <1>0, <1>32, <2>1, <2>3, <2>4, <2>5 DEF TypeOK, Update
<1>33. ASSUME NEW p \in Procs, Updated(p) PROVE TypeOK'
  BY <1>0, <1>33, TypeFacts, SMTT(30) DEF TypeOK, Updated, Written, free
<1> QED
  BY <1>1, <1>2, <1>3, <1>4, <1>5, <1>6, <1>7, <1>8, <1>9, <1>10, <1>11, <1>12, <1>13, <1>14, <1>15, <1>16, <1>17, <1>18, <1>19, <1>20, <1>21, <1>22, <1>23, <1>24, <1>25, <1>26, <1>27, <1>28, <1>29, <1>30, <1>31, <1>32, <1>33
     DEF Next, User, Kernel, Iget, Iput, Ialloc

\* Every step keeps the processes at their places: what p finds there is what it
\* left, and the others are where they were or have been woken.
LEMMA ControlStep ==
  ASSUME TableInv, [Next]_vars
  PROVE  Control'
<1> USE DEF At, Goto, Pause, LockPlaces
<1>0. /\ pc \in [Procs -> Places] /\ ref \in [Procs -> 0 .. NINODE]
      /\ ino \in [Procs -> 0 .. Inodes] /\ adr \in [Procs -> Adrs \cup {0}]
      /\ wchan \in [Procs -> Slots \cup {SIlock, NULL}]
      /\ Control
  BY DEF TableInv, TypeOK
<1>1. NULL \notin Slots /\ NULL # SIlock /\ SIlock \notin Slots /\ 0 \notin Slots
  BY TypeFacts
<1>2. CASE UNCHANGED vars
  BY <1>0, <1>2 DEF vars, Control, ControlAt
<1>3. ASSUME NEW p \in Procs, IgetLocked(p) PROVE Control'
  <2>1. First(InCore(ino[p])) \in Slots
    BY <1>3, FirstIn DEF IgetLocked, InCore
  <2> QED BY <1>0, <1>1, <1>3, <2>1 DEF Control, ControlAt, IgetLocked, Want, sleep, free
<1>4. ASSUME NEW p \in Procs, IgetHit(p) PROVE Control'
  <2>1. First(InCore(ino[p])) \in Slots
    BY <1>4, FirstIn DEF IgetHit, InCore
  <2> QED BY <1>0, <1>1, <1>4, <2>1 DEF Control, ControlAt, IgetHit, free
<1>5. ASSUME NEW p \in Procs, IgetFull(p) PROVE Control'
  BY <1>0, <1>1, <1>5 DEF Control, ControlAt, IgetFull, itab, free
<1>6. ASSUME NEW p \in Procs, IgetMiss(p) PROVE Control'
  <2>1. First(Unused) \in Slots
    BY <1>6, FirstIn DEF IgetMiss, Unused
  <2> QED BY <1>0, <1>1, <1>6, <2>1 DEF Control, ControlAt, IgetMiss, free
<1>7. ASSUME NEW p \in Procs, IgetRead(p) PROVE Control'
  BY <1>0, <1>1, <1>7 DEF Control, ControlAt, IgetRead, free
<1>8. ASSUME NEW p \in Procs, IputMore(p) PROVE Control'
  BY <1>0, <1>1, <1>8 DEF Control, ControlAt, IputMore, prele, wakeup, Returned, free
<1>9. ASSUME NEW p \in Procs, IputLast(p) PROVE Control'
  BY <1>0, <1>1, <1>9 DEF Control, ControlAt, IputLast, free
<1>10. ASSUME NEW p \in Procs, Itrunc(p) PROVE Control'
  BY <1>0, <1>1, <1>10 DEF Control, ControlAt, Itrunc, ifree
<1>11. ASSUME NEW p \in Procs, IputUpdate(p) PROVE Control'
  BY <1>0, <1>1, <1>11 DEF Control, ControlAt, IputUpdate
<1>12. ASSUME NEW p \in Procs, IputClean(p) PROVE Control'
  BY <1>0, <1>1, <1>12 DEF Control, ControlAt, IputClean, Release, wakeup, Returned, free
<1>13. ASSUME NEW p \in Procs, IputWritten(p) PROVE Control'
  BY <1>0, <1>1, <1>13 DEF Control, ControlAt, IputWritten, Release, wakeup, Returned, Written, free
<1>14. ASSUME NEW p \in Procs, IallocWait(p) PROVE Control'
  BY <1>0, <1>1, <1>14 DEF Control, ControlAt, IallocWait, sleep, itab, free
<1>15. ASSUME NEW p \in Procs, IallocPop(p) PROVE Control'
  <2>1. s_inode[Top] \in Inos
    BY <1>15, TopIn DEF IallocPop, TableInv
  <2> QED BY <1>0, <1>1, <1>15, <2>1 DEF Control, ControlAt, IallocPop, InLoop, itab
<1>16. ASSUME NEW p \in Procs, IallocScan(p) PROVE Control'
  BY <1>0, <1>1, <1>16, FirstBlock DEF Control, ControlAt, IallocScan, InLoop, itab
<1>17. ASSUME NEW p \in Procs, ScanBlock(p) PROVE Control'
  <2>1. adr[p] + 1 \in Adrs
    BY <1>17 DEF ScanBlock, More
  <2> QED BY <1>0, <1>1, <1>17, <2>1 DEF Control, ControlAt, ScanBlock, itab
<1>18. ASSUME NEW p \in Procs, ScanDone(p) PROVE Control'
  BY <1>0, <1>1, <1>18 DEF Control, ControlAt, ScanDone, itab, wakeup
<1>19. ASSUME NEW p \in Procs, NEW n \in Names, Open(p, n) PROVE Control'
  <2>1. entry[n] \in Inos
    BY <1>19, InodeAssumption DEF Open, TableInv, TypeOK, Inos
  <2> QED BY <1>0, <1>1, <1>19, <2>1 DEF Control, ControlAt, Open, Enter, itab, free
<1>20. ASSUME NEW p \in Procs, NEW n \in Names, Unlink(p, n) PROVE Control'
  <2>1. entry[n] \in Inos
    BY <1>20, InodeAssumption DEF Unlink, TableInv, TypeOK, Inos
  <2> QED BY <1>0, <1>1, <1>20, <2>1 DEF Control, ControlAt, Unlink, Enter, itab, free
<1>21. ASSUME NEW p \in Procs, NEW n \in Names, Creat(p, n) PROVE Control'
  BY <1>0, <1>1, <1>21 DEF Control, ControlAt, Creat, Enter, itab
<1>22. ASSUME NEW p \in Procs, Opened(p) PROVE Control'
  BY <1>0, <1>1, <1>22 DEF Control, ControlAt, Opened, prele, wakeup, free
<1>23. ASSUME NEW p \in Procs, OpenRefused(p) PROVE Control'
  BY <1>0, <1>1, <1>23 DEF Control, ControlAt, OpenRefused, itab, free
<1>24. ASSUME NEW p \in Procs, CreatTaken(p) PROVE Control'
  BY <1>0, <1>1, <1>24 DEF Control, ControlAt, CreatTaken, itab, free
<1>25. ASSUME NEW p \in Procs, Maknode(p) PROVE Control'
  BY <1>0, <1>1, <1>25 DEF Control, ControlAt, Maknode, free
<1>26. ASSUME NEW p \in Procs, Wdir(p) PROVE Control'
  BY <1>0, <1>1, <1>26 DEF Control, ControlAt, Wdir, prele, wakeup, free
<1>27. ASSUME NEW p \in Procs, UnlinkStart(p) PROVE Control'
  BY <1>0, <1>1, <1>27 DEF Control, ControlAt, UnlinkStart, itab, free
<1>28. ASSUME NEW p \in Procs, Unlinked(p) PROVE Control'
  BY <1>0, <1>1, <1>28 DEF Control, ControlAt, Unlinked, free
<1>29. ASSUME NEW p \in Procs, PlockWait(p) PROVE Control'
  <2>1. ref[p] \in Slots
    BY <1>0, <1>29, InodeAssumption DEF PlockWait, HasFile, Slots
  <2> QED BY <1>0, <1>1, <1>29, <2>1 DEF Control, ControlAt, PlockWait, HasFile, Want, sleep, free
<1>30. ASSUME NEW p \in Procs, Rdwr(p) PROVE Control'
  <2>1. ref[p] \in Slots
    BY <1>0, <1>30, InodeAssumption DEF Rdwr, plock, HasFile, Slots
  <2> QED BY <1>0, <1>1, <1>30, <2>1 DEF Control, ControlAt, Rdwr, plock, HasFile, free
<1>31. ASSUME NEW p \in Procs, Close(p) PROVE Control'
  <2>1. ref[p] \in Slots
    BY <1>0, <1>31, InodeAssumption DEF Close, plock, HasFile, Slots
  <2> QED BY <1>0, <1>1, <1>31, <2>1 DEF Control, ControlAt, Close, plock, HasFile, free
<1>32. ASSUME NEW p \in Procs, RdwrDone(p) PROVE Control'
  BY <1>0, <1>1, <1>32 DEF Control, ControlAt, RdwrDone, wakeup, free
<1>33. ASSUME NEW p \in Procs, NEW s \in Slots, Update(p, s) PROVE Control'
  BY <1>0, <1>1, <1>33 DEF Control, ControlAt, Update
<1>34. ASSUME NEW p \in Procs, Updated(p) PROVE Control'
  BY <1>0, <1>1, <1>34 DEF Control, ControlAt, Updated, Written, free
<1> QED
  BY <1>2, <1>3, <1>4, <1>5, <1>6, <1>7, <1>8, <1>9, <1>10, <1>11, <1>12, <1>13, <1>14, <1>15, <1>16, <1>17, <1>18, <1>19, <1>20, <1>21, <1>22, <1>23, <1>24, <1>25, <1>26, <1>27, <1>28, <1>29, <1>30, <1>31, <1>32, <1>33, <1>34
     DEF Next, User, Kernel, Iget, Iput, Ialloc

\* p takes a reference to s.
Takes(p, s) ==
  /\ ref[p] = 0 /\ ref' = [ref EXCEPT ![p] = s]
  /\ i_count' = [i_count EXCEPT ![s] = @ + 1]
  /\ \/ UNCHANGED i_number /\ i_number[s] # 0
     \/ \E i \in Inos : /\ i_number' = [i_number EXCEPT ![s] = i]
                        /\ \A t \in Slots : i_number[t] # i

\* p gives up its reference to s.
Drops(p, s) ==
  /\ ref[p] = s /\ ref' = [ref EXCEPT ![p] = 0]
  /\ i_count' = [i_count EXCEPT ![s] = @ - 1]
  /\ i_number' = IF i_count[s] = 1 THEN [i_number EXCEPT ![s] = 0] ELSE i_number

\* SlotsExact in its parts.
LEMMA SlotsParts == SlotsExact <=> Unique /\ Counted /\ Numbered
BY DEF SlotsExact, Unique, Counted, Numbered

\* A reference taken is counted.
LEMMA TakesSlots ==
  ASSUME TypeOK, SlotsExact, NEW p \in Procs, NEW s \in Slots, Takes(p, s)
  PROVE  SlotsExact'
<1>0. /\ ref \in [Procs -> 0 .. NINODE] /\ i_count \in [Slots -> Nat]
      /\ i_number \in [Slots -> 0 .. Inodes]
  BY DEF TypeOK
<1>1. Unique /\ Counted /\ Numbered /\ 0 \notin Slots /\ 0 \notin Inos
  BY SlotsParts DEF Slots, Inos
<1>2. Unique'
  BY <1>0, <1>1 DEF Unique, Takes
<1>3. Numbered'
  <2> SUFFICES ASSUME NEW t \in Slots PROVE (i_count'[t] > 0 <=> i_number'[t] # 0)
    BY DEF Numbered
  <2>1. i_count[t] > 0 <=> i_number[t] # 0
    BY <1>1 DEF Numbered
  <2>2. CASE t = s
    <3>1. i_count'[t] > 0
      BY <1>0, <2>2 DEF Takes
    <3>2. i_number'[t] # 0
      BY <1>0, <1>1, <2>2 DEF Takes
    <3> QED BY <3>1, <3>2
  <2>3. CASE t # s
    BY <1>0, <2>1, <2>3 DEF Takes
  <2> QED BY <2>2, <2>3
<1>4. Counted'
  <2> SUFFICES ASSUME NEW t \in Slots PROVE i_count'[t] = Cardinality(Users(t)')
    BY DEF Counted
  <2>1. i_count[t] = Cardinality(Users(t)) /\ IsFiniteSet(Users(t))
    BY <1>1, ReferencesHold DEF Counted, References
  <2>2. CASE t = s
    <3>1. Users(t)' = Users(t) \cup {p} /\ p \notin Users(t)
      BY <1>0, <1>1, <2>2 DEF Users, Takes
    <3>2. Cardinality(Users(t) \cup {p}) = Cardinality(Users(t)) + 1
      BY <2>1, <3>1, FS_AddElement
    <3>3. i_count'[t] = i_count[t] + 1
      BY <1>0, <2>2 DEF Takes
    <3> QED BY <2>1, <3>1, <3>2, <3>3
  <2>3. CASE t # s
    <3>1. Users(t)' = Users(t)
      BY <1>0, <1>1, <2>3 DEF Users, Takes
    <3>2. i_count'[t] = i_count[t]
      BY <1>0, <2>3 DEF Takes
    <3> QED BY <2>1, <3>1, <3>2
  <2> QED BY <2>2, <2>3
<1>5. (SlotsExact <=> Unique /\ Counted /\ Numbered)'
  BY SlotsParts, PTL
<1> QED BY <1>2, <1>3, <1>4, <1>5

\* A reference given up is no longer counted, and the last one clears the slot.
LEMMA DropsSlots ==
  ASSUME TypeOK, SlotsExact, NEW p \in Procs, NEW s \in Slots, Drops(p, s)
  PROVE  SlotsExact'
<1>0. /\ ref \in [Procs -> 0 .. NINODE] /\ i_count \in [Slots -> Nat]
      /\ i_number \in [Slots -> 0 .. Inodes]
  BY DEF TypeOK
<1>1. Unique /\ Counted /\ Numbered /\ 0 \notin Slots
  BY SlotsParts DEF Slots
<1>2. i_count[s] \in Nat /\ i_count[s] # 0 /\ i_number[s] # 0
  BY <1>0, <1>1, ReferencesHold DEF References, Drops
<1>3. Unique'
  BY <1>0, <1>1 DEF Unique, Drops
<1>4. Numbered'
  <2> SUFFICES ASSUME NEW t \in Slots PROVE (i_count'[t] > 0 <=> i_number'[t] # 0)
    BY DEF Numbered
  <2>1. i_count[t] > 0 <=> i_number[t] # 0
    BY <1>1 DEF Numbered
  <2>2. CASE t = s
    <3>1. i_count'[t] = i_count[s] - 1
      BY <1>0, <2>2 DEF Drops
    <3>2. i_number'[t] = IF i_count[s] = 1 THEN 0 ELSE i_number[s]
      BY <1>0, <2>2 DEF Drops
    <3> QED BY <1>2, <3>1, <3>2
  <2>3. CASE t # s
    BY <1>0, <2>1, <2>3 DEF Drops
  <2> QED BY <2>2, <2>3
<1>5. Counted'
  <2> SUFFICES ASSUME NEW t \in Slots PROVE i_count'[t] = Cardinality(Users(t)')
    BY DEF Counted
  <2>1. i_count[t] = Cardinality(Users(t)) /\ IsFiniteSet(Users(t))
    BY <1>1, ReferencesHold DEF Counted, References
  <2>2. CASE t = s
    <3>1. Users(t)' = Users(t) \ {p} /\ p \in Users(t)
      BY <1>0, <1>1, <2>2 DEF Users, Drops
    <3>2. Cardinality(Users(t) \ {p}) = Cardinality(Users(t)) - 1
      BY <2>1, <3>1, FS_RemoveElement
    <3>3. i_count'[t] = i_count[t] - 1
      BY <1>0, <2>2 DEF Drops
    <3> QED BY <2>1, <3>1, <3>2, <3>3
  <2>3. CASE t # s
    <3>1. Users(t)' = Users(t)
      BY <1>0, <1>1, <2>3 DEF Users, Drops
    <3>2. i_count'[t] = i_count[t]
      BY <1>0, <2>3 DEF Drops
    <3> QED BY <2>1, <3>1, <3>2
  <2> QED BY <2>2, <2>3
<1>6. (SlotsExact <=> Unique /\ Counted /\ Numbered)'
  BY SlotsParts, PTL
<1> QED BY <1>3, <1>4, <1>5, <1>6

\* Every step keeps the references counted: it changes none of them, or p takes
\* or drops one.
LEMMA SlotsStep ==
  ASSUME TableInv, [Next]_vars
  PROVE  SlotsExact'
<1>0. TypeOK /\ SlotsExact /\ Control
  BY DEF TableInv
<1>1. ASSUME UNCHANGED <<i_number, i_count, ref>> PROVE SlotsExact'
  BY <1>0, <1>1 DEF SlotsExact, Users
<1>2. CASE UNCHANGED vars
  BY <1>1, <1>2 DEF vars
<1>3. ASSUME NEW p \in Procs, IgetLocked(p) PROVE SlotsExact'
  BY <1>1, <1>3 DEF IgetLocked, Want
<1>4. ASSUME NEW p \in Procs, IgetHit(p) PROVE SlotsExact'
  <2> DEFINE s == First(InCore(ino[p]))
  <2>1. s \in Slots /\ i_number[s] = ino[p]
    BY <1>4, FirstIn DEF IgetHit, InCore
  <2>2. ino[p] # 0 /\ ref[p] = 0
    BY <1>0, <1>4 DEF IgetHit, Control, ControlAt, At, Inos
  <2>3. Takes(p, s)
    BY <1>4, <2>1, <2>2 DEF IgetHit, Takes
  <2> HIDE DEF s
  <2> QED BY <1>0, <2>1, <2>3, TakesSlots
<1>5. ASSUME NEW p \in Procs, IgetFull(p) PROVE SlotsExact'
  BY <1>1, <1>5 DEF IgetFull, itab
<1>6. ASSUME NEW p \in Procs, IgetMiss(p) PROVE SlotsExact'
  <2> DEFINE s == First(Unused)
  <2>1. s \in Slots
    BY <1>6, FirstIn DEF IgetMiss, Unused
  <2>2. ino[p] \in Inos /\ ref[p] = 0
    BY <1>0, <1>6 DEF IgetMiss, Control, ControlAt, At
  <2>3. \A t \in Slots : i_number[t] # ino[p]
    BY <1>6 DEF IgetMiss, InCore
  <2>4. Takes(p, s)
    BY <1>6, <2>1, <2>2, <2>3 DEF IgetMiss, Takes
  <2> HIDE DEF s
  <2> QED BY <1>0, <2>1, <2>4, TakesSlots
<1>7. ASSUME NEW p \in Procs, IgetRead(p) PROVE SlotsExact'
  BY <1>1, <1>7 DEF IgetRead
<1>8. ASSUME NEW p \in Procs, IputMore(p) PROVE SlotsExact'
  <2>1. ref[p] \in Slots /\ i_count[ref[p]] # 1
    BY <1>0, <1>8, TypeFacts DEF IputMore, At, LockPlaces
  <2>2. Drops(p, ref[p])
    BY <1>8, <2>1 DEF IputMore, Returned, Drops
  <2> QED BY <1>0, <2>1, <2>2, DropsSlots
<1>9. ASSUME NEW p \in Procs, IputLast(p) PROVE SlotsExact'
  BY <1>1, <1>9 DEF IputLast
<1>10. ASSUME NEW p \in Procs, Itrunc(p) PROVE SlotsExact'
  BY <1>1, <1>10 DEF Itrunc
<1>11. ASSUME NEW p \in Procs, IputUpdate(p) PROVE SlotsExact'
  BY <1>1, <1>11 DEF IputUpdate
<1>12. ASSUME NEW p \in Procs, IputClean(p) PROVE SlotsExact'
  <2>1. ref[p] \in Slots /\ i_count[ref[p]] = 1
    BY <1>0, <1>12, TypeFacts DEF IputClean, At, LockPlaces
  <2>2. Drops(p, ref[p])
    BY <1>0, <1>12, <2>1 DEF IputClean, Release, Returned, Drops, TypeOK
  <2> QED BY <1>0, <2>1, <2>2, DropsSlots
<1>13. ASSUME NEW p \in Procs, IputWritten(p) PROVE SlotsExact'
  <2>1. ref[p] \in Slots /\ i_count[ref[p]] = 1
    BY <1>0, <1>13, TypeFacts DEF IputWritten, At, LockPlaces, TableInv, LastReference
  <2>2. Drops(p, ref[p])
    BY <1>0, <1>13, <2>1 DEF IputWritten, Release, Returned, Drops, TypeOK
  <2> QED BY <1>0, <2>1, <2>2, DropsSlots
<1>14. ASSUME NEW p \in Procs, IallocWait(p) PROVE SlotsExact'
  BY <1>1, <1>14 DEF IallocWait, itab
<1>15. ASSUME NEW p \in Procs, IallocPop(p) PROVE SlotsExact'
  BY <1>1, <1>15 DEF IallocPop, itab
<1>16. ASSUME NEW p \in Procs, IallocScan(p) PROVE SlotsExact'
  BY <1>1, <1>16 DEF IallocScan, itab
<1>17. ASSUME NEW p \in Procs, ScanBlock(p) PROVE SlotsExact'
  BY <1>1, <1>17 DEF ScanBlock, itab
<1>18. ASSUME NEW p \in Procs, ScanDone(p) PROVE SlotsExact'
  BY <1>1, <1>18 DEF ScanDone, itab
<1>19. ASSUME NEW p \in Procs, NEW n \in Names, Open(p, n) PROVE SlotsExact'
  BY <1>1, <1>19 DEF Open, Enter, itab
<1>20. ASSUME NEW p \in Procs, NEW n \in Names, Unlink(p, n) PROVE SlotsExact'
  BY <1>1, <1>20 DEF Unlink, Enter, itab
<1>21. ASSUME NEW p \in Procs, NEW n \in Names, Creat(p, n) PROVE SlotsExact'
  BY <1>1, <1>21 DEF Creat, Enter, itab
<1>22. ASSUME NEW p \in Procs, Opened(p) PROVE SlotsExact'
  BY <1>1, <1>22 DEF Opened
<1>23. ASSUME NEW p \in Procs, OpenRefused(p) PROVE SlotsExact'
  BY <1>1, <1>23 DEF OpenRefused, itab
<1>24. ASSUME NEW p \in Procs, CreatTaken(p) PROVE SlotsExact'
  BY <1>1, <1>24 DEF CreatTaken, itab
<1>25. ASSUME NEW p \in Procs, Maknode(p) PROVE SlotsExact'
  BY <1>1, <1>25 DEF Maknode
<1>26. ASSUME NEW p \in Procs, Wdir(p) PROVE SlotsExact'
  BY <1>1, <1>26 DEF Wdir
<1>27. ASSUME NEW p \in Procs, UnlinkStart(p) PROVE SlotsExact'
  BY <1>1, <1>27 DEF UnlinkStart, itab
<1>28. ASSUME NEW p \in Procs, Unlinked(p) PROVE SlotsExact'
  BY <1>1, <1>28 DEF Unlinked
<1>29. ASSUME NEW p \in Procs, PlockWait(p) PROVE SlotsExact'
  BY <1>1, <1>29 DEF PlockWait, Want
<1>30. ASSUME NEW p \in Procs, Rdwr(p) PROVE SlotsExact'
  BY <1>1, <1>30 DEF Rdwr, plock
<1>31. ASSUME NEW p \in Procs, Close(p) PROVE SlotsExact'
  BY <1>1, <1>31 DEF Close, plock
<1>32. ASSUME NEW p \in Procs, RdwrDone(p) PROVE SlotsExact'
  BY <1>1, <1>32 DEF RdwrDone
<1>33. ASSUME NEW p \in Procs, NEW s \in Slots, Update(p, s) PROVE SlotsExact'
  <2>1. i_number[s] # 0
    BY <1>0, <1>33, ReferencesHold DEF References, Update
  <2>2. Takes(p, s)
    BY <1>33, <2>1 DEF Update, Takes
  <2> QED BY <1>0, <2>2, TakesSlots
<1>34. ASSUME NEW p \in Procs, Updated(p) PROVE SlotsExact'
  BY <1>1, <1>34 DEF Updated
<1> QED
  BY <1>2, <1>3, <1>4, <1>5, <1>6, <1>7, <1>8, <1>9, <1>10, <1>11, <1>12, <1>13, <1>14, <1>15, <1>16, <1>17, <1>18, <1>19, <1>20, <1>21, <1>22, <1>23, <1>24, <1>25, <1>26, <1>27, <1>28, <1>29, <1>30, <1>31, <1>32, <1>33, <1>34
     DEF Next, User, Kernel, Iget, Iput, Ialloc

\* What a step of p does to the locks: a slot stays as it is, p locks one that
\* was not locked, or p unlocks the one it had locked.
Moves(p) ==
  /\ \A q \in Procs : q # p => pc'[q] = pc[q] /\ ref'[q] = ref[q]
  /\ \A s \in Slots :
       \/ (Locked(s)' <=> Locked(s)) /\ (Locks(p, s)' <=> Locks(p, s))
       \/ ~Locked(s) /\ Locked(s)' /\ Locks(p, s)'
       \/ Locks(p, s) /\ ~Locked(s)' /\ ~Locks(p, s)'

\* Such a step keeps the locks exact.
LEMMA MovesLocks ==
  ASSUME LockEach, NEW p \in Procs, Moves(p)
  PROVE  LockEach'
<1> SUFFICES ASSUME NEW s \in Slots
             PROVE  /\ Locked(s)' <=> \E q \in Procs : Locks(q, s)'
                    /\ \A q, r \in Procs : Locks(q, s)' /\ Locks(r, s)' => q = r
  BY DEF LockEach
<1>1. \A q \in Procs : q # p => (Locks(q, s)' <=> Locks(q, s))
  BY DEF Moves, Locks
<1>2. /\ Locked(s) <=> \E q \in Procs : Locks(q, s)
      /\ \A q, r \in Procs : Locks(q, s) /\ Locks(r, s) => q = r
  BY DEF LockEach
<1>3. \/ (Locked(s)' <=> Locked(s)) /\ (Locks(p, s)' <=> Locks(p, s))
      \/ ~Locked(s) /\ Locked(s)' /\ Locks(p, s)'
      \/ Locks(p, s) /\ ~Locked(s)' /\ ~Locks(p, s)'
  BY DEF Moves
<1> QED BY <1>1, <1>2, <1>3

\* What a step of p does to the sleepers: p goes to sleep on a slot it has marked,
\* or some are woken; a slot that loses its marks has no sleepers left.
Wakes(p) ==
  /\ \A q \in Procs : q # p => wchan'[q] \in {wchan[q], NULL}
  /\ \/ wchan'[p] \notin Slots
     \/ {"ILOCK", "IWANT"} \subseteq i_flag'[wchan'[p]]
  /\ \A s \in Slots :
       \/ \A f \in {"ILOCK", "IWANT"} : f \in i_flag[s] => f \in i_flag'[s]
       \/ "IWANT" \notin i_flag[s]
       \/ \A q \in Procs : wchan'[q] # s

\* Such a step leaves nobody asleep on a slot that nobody will unlock.
LEMMA WakesSleepers ==
  ASSUME Sleepers, NULL \notin Slots, NEW p \in Procs, Wakes(p)
  PROVE  Sleepers'
<1> SUFFICES ASSUME NEW q \in Procs, wchan'[q] \in Slots
             PROVE  {"ILOCK", "IWANT"} \subseteq i_flag'[wchan'[q]]
  BY DEF Sleepers
<1>1. CASE q = p
  BY <1>1 DEF Wakes
<1>2. CASE q # p
  <2>1. wchan'[q] = wchan[q]
    BY <1>2 DEF Wakes
  <2>2. {"ILOCK", "IWANT"} \subseteq i_flag[wchan[q]]
    BY <2>1 DEF Sleepers
  <2> QED BY <2>1, <2>2 DEF Wakes
<1> QED BY <1>1, <1>2

\* What the locks say of the process that has one.
LEMMA HeldLock ==
  ASSUME TableInv, NEW p \in Procs, pc[p] \in LockPlaces
  PROVE  ref[p] \in Slots /\ Locked(ref[p]) /\ Locks(p, ref[p])
<1>1. ref[p] \in Slots
  BY TypeFacts
<1>2. LockEach
  BY LockParts DEF TableInv
<1> QED BY <1>1, <1>2 DEF LockEach, Locks

\* Every step keeps the locks.
LEMMA LockStep ==
  ASSUME TableInv, [Next]_vars
  PROVE  LockEach'
<1> USE DEF At, Goto, Pause, LockPlaces
<1>0. /\ pc \in [Procs -> Places] /\ ref \in [Procs -> 0 .. NINODE]
      /\ i_flag \in [Slots -> SUBSET {"ILOCK", "IWANT", "IUPD"}]
      /\ Control /\ LockEach
  BY LockParts DEF TableInv, TypeOK
<1>1. 0 \notin Slots
  BY TypeFacts
<1>2. CASE UNCHANGED vars
  BY <1>0, <1>2 DEF vars, LockEach, Locks, Locked
<1>3. ASSUME NEW p \in Procs, IgetLocked(p) PROVE LockEach'
  <2>1. First(InCore(ino[p])) \in Slots
    BY <1>3, FirstIn DEF IgetLocked, InCore
  <2>2. Moves(p)
    BY <1>0, <1>1, <1>3, <2>1 DEF Moves, Locks, Locked, IgetLocked, Want
  <2> QED BY <1>0, <2>2, MovesLocks
<1>4. ASSUME NEW p \in Procs, IgetHit(p) PROVE LockEach'
  <2> DEFINE s == First(InCore(ino[p]))
  <2>1. s \in Slots
    BY <1>4, FirstIn DEF IgetHit, InCore
  <2>2. ref[p] = 0 /\ pc[p] = "iget"
    BY <1>0, <1>4 DEF IgetHit, Control, ControlAt
  <2>3. /\ ~Locked(s) /\ i_flag' = [i_flag EXCEPT ![s] = @ \cup {"ILOCK"}]
        /\ ref' = [ref EXCEPT ![p] = s] /\ pc' = [pc EXCEPT ![p] = "got"]
    BY <1>4 DEF IgetHit
  <2> HIDE DEF s
  <2>4. Moves(p)
    BY <1>0, <1>1, <2>1, <2>2, <2>3 DEF Moves, Locks, Locked
  <2> QED BY <1>0, <2>4, MovesLocks
<1>5. ASSUME NEW p \in Procs, IgetFull(p) PROVE LockEach'
  <2>1. Moves(p)
    BY <1>0, <1>1, <1>5 DEF Moves, Locks, Locked, Control, ControlAt, IgetFull, itab
  <2> QED BY <1>0, <2>1, MovesLocks
<1>6. ASSUME NEW p \in Procs, IgetMiss(p) PROVE LockEach'
  <2> DEFINE s == First(Unused)
  <2>1. s \in Slots /\ i_count[s] = 0
    BY <1>6, FirstIn DEF IgetMiss, Unused
  <2>2. ref[p] = 0 /\ pc[p] = "iget"
    BY <1>0, <1>6 DEF IgetMiss, Control, ControlAt
  <2>3. /\ i_flag' = [i_flag EXCEPT ![s] = {"ILOCK"}]
        /\ ref' = [ref EXCEPT ![p] = s] /\ pc' = [pc EXCEPT ![p] = "bread"]
    BY <1>6 DEF IgetMiss
  <2> HIDE DEF s
  <2>4. ~Locked(s)
    BY <1>0, <2>1, ReferencesHold DEF TableInv, References, LockEach, Locks
  <2>5. Moves(p)
    BY <1>0, <1>1, <2>1, <2>2, <2>3, <2>4 DEF Moves, Locks, Locked
  <2> QED BY <1>0, <2>5, MovesLocks
<1>7. ASSUME NEW p \in Procs, IgetRead(p) PROVE LockEach'
  <2>1. ref[p] \in Slots /\ Locked(ref[p]) /\ Locks(p, ref[p])
    BY <1>7, HeldLock DEF IgetRead
  <2>2. Moves(p)
    BY <1>0, <1>1, <1>7, <2>1 DEF Moves, Locks, Locked, IgetRead
  <2> QED BY <1>0, <2>2, MovesLocks
<1>8. ASSUME NEW p \in Procs, IputMore(p) PROVE LockEach'
  <2>1. ref[p] \in Slots /\ Locked(ref[p]) /\ Locks(p, ref[p])
    BY <1>8, HeldLock DEF IputMore
  <2>2. Moves(p)
    BY <1>0, <1>1, <1>8, <2>1 DEF Moves, Locks, Locked, IputMore, prele, Returned
  <2> QED BY <1>0, <2>2, MovesLocks
<1>9. ASSUME NEW p \in Procs, IputLast(p) PROVE LockEach'
  <2>1. ref[p] \in Slots /\ Locked(ref[p]) /\ Locks(p, ref[p])
    BY <1>9, HeldLock DEF IputLast
  <2>2. Moves(p)
    BY <1>0, <1>1, <1>9, <2>1 DEF Moves, Locks, Locked, IputLast
  <2> QED BY <1>0, <2>2, MovesLocks
<1>10. ASSUME NEW p \in Procs, Itrunc(p) PROVE LockEach'
  <2>1. ref[p] \in Slots /\ Locked(ref[p]) /\ Locks(p, ref[p])
    BY <1>10, HeldLock DEF Itrunc
  <2>2. Moves(p)
    BY <1>0, <1>1, <1>10, <2>1 DEF Moves, Locks, Locked, Itrunc
  <2> QED BY <1>0, <2>2, MovesLocks
<1>11. ASSUME NEW p \in Procs, IputUpdate(p) PROVE LockEach'
  <2>1. ref[p] \in Slots /\ Locked(ref[p]) /\ Locks(p, ref[p])
    BY <1>11, HeldLock DEF IputUpdate
  <2>2. Moves(p)
    BY <1>0, <1>1, <1>11, <2>1 DEF Moves, Locks, Locked, IputUpdate
  <2> QED BY <1>0, <2>2, MovesLocks
<1>12. ASSUME NEW p \in Procs, IputClean(p) PROVE LockEach'
  <2>1. ref[p] \in Slots /\ Locked(ref[p]) /\ Locks(p, ref[p])
    BY <1>12, HeldLock DEF IputClean
  <2>2. Moves(p)
    BY <1>0, <1>1, <1>12, <2>1 DEF Moves, Locks, Locked, IputClean, Release, Returned
  <2> QED BY <1>0, <2>2, MovesLocks
<1>13. ASSUME NEW p \in Procs, IputWritten(p) PROVE LockEach'
  <2>1. ref[p] \in Slots /\ Locked(ref[p]) /\ Locks(p, ref[p])
    BY <1>13, HeldLock DEF IputWritten
  <2>2. Moves(p)
    BY <1>0, <1>1, <1>13, <2>1 DEF Moves, Locks, Locked, IputWritten, Release, Returned
  <2> QED BY <1>0, <2>2, MovesLocks
<1>14. ASSUME NEW p \in Procs, IallocWait(p) PROVE LockEach'
  <2>1. Moves(p)
    BY <1>0, <1>1, <1>14 DEF Moves, Locks, Locked, Control, ControlAt, IallocWait, sleep, itab
  <2> QED BY <1>0, <2>1, MovesLocks
<1>15. ASSUME NEW p \in Procs, IallocPop(p) PROVE LockEach'
  <2>1. Moves(p)
    BY <1>0, <1>1, <1>15 DEF Moves, Locks, Locked, Control, ControlAt, IallocPop, InLoop, itab
  <2> QED BY <1>0, <2>1, MovesLocks
<1>16. ASSUME NEW p \in Procs, IallocScan(p) PROVE LockEach'
  <2>1. Moves(p)
    BY <1>0, <1>1, <1>16 DEF Moves, Locks, Locked, Control, ControlAt, IallocScan, InLoop, itab
  <2> QED BY <1>0, <2>1, MovesLocks
<1>17. ASSUME NEW p \in Procs, ScanBlock(p) PROVE LockEach'
  <2>1. Moves(p)
    BY <1>0, <1>1, <1>17 DEF Moves, Locks, Locked, Control, ControlAt, ScanBlock, itab
  <2> QED BY <1>0, <2>1, MovesLocks
<1>18. ASSUME NEW p \in Procs, ScanDone(p) PROVE LockEach'
  <2>1. Moves(p)
    BY <1>0, <1>1, <1>18 DEF Moves, Locks, Locked, Control, ControlAt, ScanDone, itab
  <2> QED BY <1>0, <2>1, MovesLocks
<1>19. ASSUME NEW p \in Procs, NEW n \in Names, Open(p, n) PROVE LockEach'
  <2>1. Moves(p)
    BY <1>0, <1>1, <1>19 DEF Moves, Locks, Locked, Control, ControlAt, Open, Enter, itab
  <2> QED BY <1>0, <2>1, MovesLocks
<1>20. ASSUME NEW p \in Procs, NEW n \in Names, Unlink(p, n) PROVE LockEach'
  <2>1. Moves(p)
    BY <1>0, <1>1, <1>20 DEF Moves, Locks, Locked, Control, ControlAt, Unlink, Enter, itab
  <2> QED BY <1>0, <2>1, MovesLocks
<1>21. ASSUME NEW p \in Procs, NEW n \in Names, Creat(p, n) PROVE LockEach'
  <2>1. Moves(p)
    BY <1>0, <1>1, <1>21 DEF Moves, Locks, Locked, Control, ControlAt, Creat, Enter, itab
  <2> QED BY <1>0, <2>1, MovesLocks
<1>22. ASSUME NEW p \in Procs, Opened(p) PROVE LockEach'
  <2>1. ref[p] \in Slots /\ Locked(ref[p]) /\ Locks(p, ref[p])
    BY <1>22, HeldLock DEF Opened
  <2>2. Moves(p)
    BY <1>0, <1>1, <1>22, <2>1 DEF Moves, Locks, Locked, Opened, prele
  <2> QED BY <1>0, <2>2, MovesLocks
<1>23. ASSUME NEW p \in Procs, OpenRefused(p) PROVE LockEach'
  <2>1. ref[p] \in Slots /\ Locked(ref[p]) /\ Locks(p, ref[p])
    BY <1>23, HeldLock DEF OpenRefused
  <2>2. Moves(p)
    BY <1>0, <1>1, <1>23, <2>1 DEF Moves, Locks, Locked, OpenRefused, itab
  <2> QED BY <1>0, <2>2, MovesLocks
<1>24. ASSUME NEW p \in Procs, CreatTaken(p) PROVE LockEach'
  <2>1. ref[p] \in Slots /\ Locked(ref[p]) /\ Locks(p, ref[p])
    BY <1>24, HeldLock DEF CreatTaken
  <2>2. Moves(p)
    BY <1>0, <1>1, <1>24, <2>1 DEF Moves, Locks, Locked, CreatTaken, itab
  <2> QED BY <1>0, <2>2, MovesLocks
<1>25. ASSUME NEW p \in Procs, Maknode(p) PROVE LockEach'
  <2>1. ref[p] \in Slots /\ Locked(ref[p]) /\ Locks(p, ref[p])
    BY <1>25, HeldLock DEF Maknode
  <2>2. Moves(p)
    BY <1>0, <1>1, <1>25, <2>1 DEF Moves, Locks, Locked, Maknode
  <2> QED BY <1>0, <2>2, MovesLocks
<1>26. ASSUME NEW p \in Procs, Wdir(p) PROVE LockEach'
  <2>1. ref[p] \in Slots /\ Locked(ref[p]) /\ Locks(p, ref[p])
    BY <1>26, HeldLock DEF Wdir
  <2>2. Moves(p)
    BY <1>0, <1>1, <1>26, <2>1 DEF Moves, Locks, Locked, Wdir, prele
  <2> QED BY <1>0, <2>2, MovesLocks
<1>27. ASSUME NEW p \in Procs, UnlinkStart(p) PROVE LockEach'
  <2>1. ref[p] \in Slots /\ Locked(ref[p]) /\ Locks(p, ref[p])
    BY <1>27, HeldLock DEF UnlinkStart
  <2>2. Moves(p)
    BY <1>0, <1>1, <1>27, <2>1 DEF Moves, Locks, Locked, UnlinkStart, itab
  <2> QED BY <1>0, <2>2, MovesLocks
<1>28. ASSUME NEW p \in Procs, Unlinked(p) PROVE LockEach'
  <2>1. ref[p] \in Slots /\ Locked(ref[p]) /\ Locks(p, ref[p])
    BY <1>28, HeldLock DEF Unlinked
  <2>2. Moves(p)
    BY <1>0, <1>1, <1>28, <2>1 DEF Moves, Locks, Locked, Unlinked
  <2> QED BY <1>0, <2>2, MovesLocks
<1>29. ASSUME NEW p \in Procs, PlockWait(p) PROVE LockEach'
  <2>1. ref[p] \in Slots
    BY <1>0, <1>29, InodeAssumption DEF PlockWait, HasFile, Slots
  <2>2. Moves(p)
    BY <1>0, <1>1, <1>29, <2>1 DEF Moves, Locks, Locked, PlockWait, HasFile, Want
  <2> QED BY <1>0, <2>2, MovesLocks
<1>30. ASSUME NEW p \in Procs, Rdwr(p) PROVE LockEach'
  <2>1. ref[p] \in Slots
    BY <1>0, <1>30, InodeAssumption DEF Rdwr, plock, HasFile, Slots
  <2>2. Moves(p)
    BY <1>0, <1>1, <1>30, <2>1 DEF Moves, Locks, Locked, Rdwr, plock, HasFile
  <2> QED BY <1>0, <2>2, MovesLocks
<1>31. ASSUME NEW p \in Procs, Close(p) PROVE LockEach'
  <2>1. ref[p] \in Slots
    BY <1>0, <1>31, InodeAssumption DEF Close, plock, HasFile, Slots
  <2>2. Moves(p)
    BY <1>0, <1>1, <1>31, <2>1 DEF Moves, Locks, Locked, Close, plock, HasFile
  <2> QED BY <1>0, <2>2, MovesLocks
<1>32. ASSUME NEW p \in Procs, RdwrDone(p) PROVE LockEach'
  <2>1. ref[p] \in Slots /\ Locked(ref[p]) /\ Locks(p, ref[p])
    BY <1>32, HeldLock DEF RdwrDone
  <2>2. Moves(p)
    BY <1>0, <1>1, <1>32, <2>1 DEF Moves, Locks, Locked, RdwrDone
  <2> QED BY <1>0, <2>2, MovesLocks
<1>33. ASSUME NEW p \in Procs, NEW s \in Slots, Update(p, s) PROVE LockEach'
  <2>1. Moves(p)
    BY <1>0, <1>1, <1>33 DEF Moves, Locks, Locked, Control, ControlAt, Update
  <2> QED BY <1>0, <2>1, MovesLocks
<1>34. ASSUME NEW p \in Procs, Updated(p) PROVE LockEach'
  <2>1. ref[p] \in Slots /\ Locked(ref[p]) /\ Locks(p, ref[p])
    BY <1>34, HeldLock DEF Updated
  <2>2. Moves(p)
    BY <1>0, <1>1, <1>34, <2>1 DEF Moves, Locks, Locked, Updated
  <2> QED BY <1>0, <2>2, MovesLocks
<1> QED
  BY <1>2, <1>3, <1>4, <1>5, <1>6, <1>7, <1>8, <1>9, <1>10, <1>11, <1>12, <1>13, <1>14, <1>15, <1>16, <1>17, <1>18, <1>19, <1>20, <1>21, <1>22, <1>23, <1>24, <1>25, <1>26, <1>27, <1>28, <1>29, <1>30, <1>31, <1>32, <1>33, <1>34
     DEF Next, User, Kernel, Iget, Iput, Ialloc

\* Every step keeps the sleepers: who unlocks a slot looks at IWANT and wakes them.
LEMMA SleepStep ==
  ASSUME TableInv, [Next]_vars
  PROVE  Sleepers'
<1>0. /\ wchan \in [Procs -> Slots \cup {SIlock, NULL}] /\ ref \in [Procs -> 0 .. NINODE]
      /\ i_flag \in [Slots -> SUBSET {"ILOCK", "IWANT", "IUPD"}]
      /\ Sleepers
  BY LockParts DEF TableInv, TypeOK
<1>1. NULL \notin Slots /\ NULL # SIlock /\ SIlock \notin Slots
  BY TypeFacts
<1>2. CASE UNCHANGED vars
  BY <1>0, <1>2 DEF vars, Sleepers
<1>3. ASSUME NEW p \in Procs, IgetLocked(p) PROVE Sleepers'
  <2>1. First(InCore(ino[p])) \in Slots
    BY <1>3, FirstIn DEF IgetLocked, InCore
  <2>2. Wakes(p)
    BY <1>0, <1>1, <1>3, <2>1 DEF Wakes, Locked, IgetLocked, Want, sleep
  <2> QED BY <1>0, <1>1, <2>2, WakesSleepers
<1>4. ASSUME NEW p \in Procs, IgetHit(p) PROVE Sleepers'
  <2>1. First(InCore(ino[p])) \in Slots
    BY <1>4, FirstIn DEF IgetHit, InCore
  <2>2. Wakes(p)
    BY <1>0, <1>1, <1>4, <2>1 DEF Wakes, IgetHit, At
  <2> QED BY <1>0, <1>1, <2>2, WakesSleepers
<1>5. ASSUME NEW p \in Procs, IgetFull(p) PROVE Sleepers'
  <2>1. Wakes(p)
    BY <1>0, <1>1, <1>5 DEF Wakes, Sleepers, IgetFull, itab, At
  <2> QED BY <1>0, <1>1, <2>1, WakesSleepers
<1>6. ASSUME NEW p \in Procs, IgetMiss(p) PROVE Sleepers'
  <2> DEFINE s == First(Unused)
  <2>1. s \in Slots /\ i_count[s] = 0
    BY <1>6, FirstIn DEF IgetMiss, Unused
  <2>2. /\ i_flag' = [i_flag EXCEPT ![s] = {"ILOCK"}] /\ wchan' = wchan /\ wchan[p] = NULL
    BY <1>6 DEF IgetMiss, At
  <2> HIDE DEF s
  <2>3. "ILOCK" \notin i_flag[s]
    <3>1. LockEach
      BY LockParts DEF TableInv
    <3> QED BY <2>1, <3>1, ReferencesHold DEF TableInv, References, LockEach, Locks, Locked
  <2>4. \A q \in Procs : wchan[q] # s
    BY <1>0, <2>1, <2>3 DEF Sleepers
  <2>5. Wakes(p)
    BY <1>0, <1>1, <2>1, <2>2, <2>4 DEF Wakes
  <2> QED BY <1>0, <1>1, <2>5, WakesSleepers
<1>7. ASSUME NEW p \in Procs, IgetRead(p) PROVE Sleepers'
  <2>1. ref[p] \in Slots
    BY <1>7, HeldLock DEF IgetRead, At, LockPlaces
  <2>2. Wakes(p)
    BY <1>0, <1>1, <1>7, <2>1 DEF Wakes, Sleepers, IgetRead, At
  <2> QED BY <1>0, <1>1, <2>2, WakesSleepers
<1>8. ASSUME NEW p \in Procs, IputMore(p) PROVE Sleepers'
  <2>1. ref[p] \in Slots
    BY <1>8, HeldLock DEF IputMore, At, LockPlaces
  <2>2. Wakes(p)
    BY <1>0, <1>1, <1>8, <2>1 DEF Wakes, Sleepers, IputMore, prele, wakeup, Wanted, At
  <2> QED BY <1>0, <1>1, <2>2, WakesSleepers
<1>9. ASSUME NEW p \in Procs, IputLast(p) PROVE Sleepers'
  <2>1. ref[p] \in Slots
    BY <1>9, HeldLock DEF IputLast, At, LockPlaces
  <2>2. Wakes(p)
    BY <1>0, <1>1, <1>9, <2>1 DEF Wakes, Sleepers, IputLast, At
  <2> QED BY <1>0, <1>1, <2>2, WakesSleepers
<1>10. ASSUME NEW p \in Procs, Itrunc(p) PROVE Sleepers'
  <2>1. ref[p] \in Slots
    BY <1>10, HeldLock DEF Itrunc, At, LockPlaces
  <2>2. Wakes(p)
    BY <1>0, <1>1, <1>10, <2>1 DEF Wakes, Sleepers, Itrunc, At
  <2> QED BY <1>0, <1>1, <2>2, WakesSleepers
<1>11. ASSUME NEW p \in Procs, IputUpdate(p) PROVE Sleepers'
  <2>1. ref[p] \in Slots
    BY <1>11, HeldLock DEF IputUpdate, At, LockPlaces
  <2>2. Wakes(p)
    BY <1>0, <1>1, <1>11, <2>1 DEF Wakes, Sleepers, IputUpdate, At
  <2> QED BY <1>0, <1>1, <2>2, WakesSleepers
<1>12. ASSUME NEW p \in Procs, IputClean(p) PROVE Sleepers'
  <2>1. ref[p] \in Slots
    BY <1>12, HeldLock DEF IputClean, At, LockPlaces
  <2>2. Wakes(p)
    BY <1>0, <1>1, <1>12, <2>1 DEF Wakes, Sleepers, IputClean, Release, wakeup, Wanted, At
  <2> QED BY <1>0, <1>1, <2>2, WakesSleepers
<1>13. ASSUME NEW p \in Procs, IputWritten(p) PROVE Sleepers'
  <2>1. ref[p] \in Slots
    BY <1>13, HeldLock DEF IputWritten, At, LockPlaces
  <2>2. Wakes(p)
    BY <1>0, <1>1, <1>13, <2>1 DEF Wakes, Sleepers, IputWritten, Release, wakeup, Wanted, At
  <2> QED BY <1>0, <1>1, <2>2, WakesSleepers
<1>14. ASSUME NEW p \in Procs, IallocWait(p) PROVE Sleepers'
  <2>1. Wakes(p)
    BY <1>0, <1>1, <1>14 DEF Wakes, Sleepers, IallocWait, sleep, itab, At
  <2> QED BY <1>0, <1>1, <2>1, WakesSleepers
<1>15. ASSUME NEW p \in Procs, IallocPop(p) PROVE Sleepers'
  <2>1. Wakes(p)
    BY <1>0, <1>1, <1>15 DEF Wakes, Sleepers, IallocPop, itab, At
  <2> QED BY <1>0, <1>1, <2>1, WakesSleepers
<1>16. ASSUME NEW p \in Procs, IallocScan(p) PROVE Sleepers'
  <2>1. Wakes(p)
    BY <1>0, <1>1, <1>16 DEF Wakes, Sleepers, IallocScan, itab, At
  <2> QED BY <1>0, <1>1, <2>1, WakesSleepers
<1>17. ASSUME NEW p \in Procs, ScanBlock(p) PROVE Sleepers'
  <2>1. Wakes(p)
    BY <1>0, <1>1, <1>17 DEF Wakes, Sleepers, ScanBlock, itab, At
  <2> QED BY <1>0, <1>1, <2>1, WakesSleepers
<1>18. ASSUME NEW p \in Procs, ScanDone(p) PROVE Sleepers'
  <2>1. Wakes(p)
    BY <1>0, <1>1, <1>18 DEF Wakes, Sleepers, ScanDone, itab, wakeup, Wanted, At
  <2> QED BY <1>0, <1>1, <2>1, WakesSleepers
<1>19. ASSUME NEW p \in Procs, NEW n \in Names, Open(p, n) PROVE Sleepers'
  <2>1. Wakes(p)
    BY <1>0, <1>1, <1>19 DEF Wakes, Sleepers, Open, Enter, itab, At
  <2> QED BY <1>0, <1>1, <2>1, WakesSleepers
<1>20. ASSUME NEW p \in Procs, NEW n \in Names, Unlink(p, n) PROVE Sleepers'
  <2>1. Wakes(p)
    BY <1>0, <1>1, <1>20 DEF Wakes, Sleepers, Unlink, Enter, itab, At
  <2> QED BY <1>0, <1>1, <2>1, WakesSleepers
<1>21. ASSUME NEW p \in Procs, NEW n \in Names, Creat(p, n) PROVE Sleepers'
  <2>1. Wakes(p)
    BY <1>0, <1>1, <1>21 DEF Wakes, Sleepers, Creat, Enter, itab, At
  <2> QED BY <1>0, <1>1, <2>1, WakesSleepers
<1>22. ASSUME NEW p \in Procs, Opened(p) PROVE Sleepers'
  <2>1. ref[p] \in Slots
    BY <1>22, HeldLock DEF Opened, At, LockPlaces
  <2>2. Wakes(p)
    BY <1>0, <1>1, <1>22, <2>1 DEF Wakes, Sleepers, Opened, prele, wakeup, Wanted, At
  <2> QED BY <1>0, <1>1, <2>2, WakesSleepers
<1>23. ASSUME NEW p \in Procs, OpenRefused(p) PROVE Sleepers'
  <2>1. ref[p] \in Slots
    BY <1>23, HeldLock DEF OpenRefused, At, LockPlaces
  <2>2. Wakes(p)
    BY <1>0, <1>1, <1>23, <2>1 DEF Wakes, Sleepers, OpenRefused, itab, At
  <2> QED BY <1>0, <1>1, <2>2, WakesSleepers
<1>24. ASSUME NEW p \in Procs, CreatTaken(p) PROVE Sleepers'
  <2>1. ref[p] \in Slots
    BY <1>24, HeldLock DEF CreatTaken, At, LockPlaces
  <2>2. Wakes(p)
    BY <1>0, <1>1, <1>24, <2>1 DEF Wakes, Sleepers, CreatTaken, itab, At
  <2> QED BY <1>0, <1>1, <2>2, WakesSleepers
<1>25. ASSUME NEW p \in Procs, Maknode(p) PROVE Sleepers'
  <2>1. ref[p] \in Slots
    BY <1>25, HeldLock DEF Maknode, At, LockPlaces
  <2>2. Wakes(p)
    BY <1>0, <1>1, <1>25, <2>1 DEF Wakes, Sleepers, Maknode, At
  <2> QED BY <1>0, <1>1, <2>2, WakesSleepers
<1>26. ASSUME NEW p \in Procs, Wdir(p) PROVE Sleepers'
  <2>1. ref[p] \in Slots
    BY <1>26, HeldLock DEF Wdir, At, LockPlaces
  <2>2. Wakes(p)
    BY <1>0, <1>1, <1>26, <2>1 DEF Wakes, Sleepers, Wdir, prele, wakeup, Wanted, At
  <2> QED BY <1>0, <1>1, <2>2, WakesSleepers
<1>27. ASSUME NEW p \in Procs, UnlinkStart(p) PROVE Sleepers'
  <2>1. ref[p] \in Slots
    BY <1>27, HeldLock DEF UnlinkStart, At, LockPlaces
  <2>2. Wakes(p)
    BY <1>0, <1>1, <1>27, <2>1 DEF Wakes, Sleepers, UnlinkStart, itab, At
  <2> QED BY <1>0, <1>1, <2>2, WakesSleepers
<1>28. ASSUME NEW p \in Procs, Unlinked(p) PROVE Sleepers'
  <2>1. ref[p] \in Slots
    BY <1>28, HeldLock DEF Unlinked, At, LockPlaces
  <2>2. Wakes(p)
    BY <1>0, <1>1, <1>28, <2>1 DEF Wakes, Sleepers, Unlinked, At
  <2> QED BY <1>0, <1>1, <2>2, WakesSleepers
<1>29. ASSUME NEW p \in Procs, PlockWait(p) PROVE Sleepers'
  <2>1. ref[p] \in Slots
    BY <1>0, <1>29, InodeAssumption DEF PlockWait, HasFile, Slots
  <2>2. Wakes(p)
    BY <1>0, <1>1, <1>29, <2>1 DEF Wakes, Locked, PlockWait, HasFile, Want, sleep
  <2> QED BY <1>0, <1>1, <2>2, WakesSleepers
<1>30. ASSUME NEW p \in Procs, Rdwr(p) PROVE Sleepers'
  <2>1. ref[p] \in Slots
    BY <1>0, <1>30, InodeAssumption DEF Rdwr, plock, HasFile, Slots
  <2>2. Wakes(p)
    BY <1>0, <1>1, <1>30, <2>1 DEF Wakes, Rdwr, plock, HasFile, At
  <2> QED BY <1>0, <1>1, <2>2, WakesSleepers
<1>31. ASSUME NEW p \in Procs, Close(p) PROVE Sleepers'
  <2>1. ref[p] \in Slots
    BY <1>0, <1>31, InodeAssumption DEF Close, plock, HasFile, Slots
  <2>2. Wakes(p)
    BY <1>0, <1>1, <1>31, <2>1 DEF Wakes, Close, plock, HasFile, At
  <2> QED BY <1>0, <1>1, <2>2, WakesSleepers
<1>32. ASSUME NEW p \in Procs, RdwrDone(p) PROVE Sleepers'
  <2>1. ref[p] \in Slots
    BY <1>32, HeldLock DEF RdwrDone, At, LockPlaces
  <2>2. Wakes(p)
    BY <1>0, <1>1, <1>32, <2>1 DEF Wakes, Sleepers, RdwrDone, wakeup, Wanted, At
  <2> QED BY <1>0, <1>1, <2>2, WakesSleepers
<1>33. ASSUME NEW p \in Procs, NEW s \in Slots, Update(p, s) PROVE Sleepers'
  <2>1. Wakes(p)
    BY <1>0, <1>1, <1>33 DEF Wakes, Sleepers, Update, At
  <2> QED BY <1>0, <1>1, <2>1, WakesSleepers
<1>34. ASSUME NEW p \in Procs, Updated(p) PROVE Sleepers'
  <2>1. ref[p] \in Slots
    BY <1>34, HeldLock DEF Updated, At, LockPlaces
  <2>2. Wakes(p)
    BY <1>0, <1>1, <1>34, <2>1 DEF Wakes, Sleepers, Updated, At
  <2> QED BY <1>0, <1>1, <2>2, WakesSleepers
<1> QED
  BY <1>2, <1>3, <1>4, <1>5, <1>6, <1>7, <1>8, <1>9, <1>10, <1>11, <1>12, <1>13, <1>14, <1>15, <1>16, <1>17, <1>18, <1>19, <1>20, <1>21, <1>22, <1>23, <1>24, <1>25, <1>26, <1>27, <1>28, <1>29, <1>30, <1>31, <1>32, <1>33, <1>34
     DEF Next, User, Kernel, Iget, Iput, Ialloc

\* A step that leaves the lock of the list of inodes alone: a scan that was under
\* way still is, and nobody starts to sleep for it.
LEMMA ListKept ==
  ASSUME ScanHeld, ListSleepers, NEW p \in Procs, NULL # SIlock,
         UNCHANGED s_ilock, pc[p] # "scan",
         \A q \in Procs : q # p => pc'[q] = pc[q],
         \A q \in Procs : wchan'[q] = SIlock => wchan[q] = SIlock
  PROVE  ScanHeld' /\ ListSleepers'
BY DEF ScanHeld, ListSleepers

\* Every step keeps the lock of the list: a process sleeps for it only during a
\* scan, and the end of a scan wakes them all.
LEMMA ListStep ==
  ASSUME TableInv, [Next]_vars
  PROVE  ScanHeld' /\ ListSleepers'
<1> USE DEF At, Goto, Pause
<1>0. /\ wchan \in [Procs -> Slots \cup {SIlock, NULL}] /\ pc \in [Procs -> Places]
      /\ ref \in [Procs -> 0 .. NINODE]
      /\ ScanHeld /\ ListSleepers /\ s_ilock \in Nat
  BY LockParts DEF TableInv, TypeOK
<1>1. NULL \notin Slots /\ NULL # SIlock /\ SIlock \notin Slots
  BY TypeFacts
<1>2. CASE UNCHANGED vars
  BY <1>0, <1>2 DEF vars, ListSleepers, ScanHeld
<1>3. ASSUME NEW p \in Procs, IgetLocked(p) PROVE ScanHeld' /\ ListSleepers'
  <2>1. First(InCore(ino[p])) \in Slots
    BY <1>3, FirstIn DEF IgetLocked, InCore
  <2> QED BY <1>0, <1>1, <1>3, <2>1, ListKept DEF IgetLocked, Want, sleep, free
<1>4. ASSUME NEW p \in Procs, IgetHit(p) PROVE ScanHeld' /\ ListSleepers'
  BY <1>0, <1>1, <1>4, ListKept DEF IgetHit, free
<1>5. ASSUME NEW p \in Procs, IgetFull(p) PROVE ScanHeld' /\ ListSleepers'
  BY <1>0, <1>1, <1>5, ListKept DEF IgetFull, itab, free
<1>6. ASSUME NEW p \in Procs, IgetMiss(p) PROVE ScanHeld' /\ ListSleepers'
  BY <1>0, <1>1, <1>6, ListKept DEF IgetMiss, free
<1>7. ASSUME NEW p \in Procs, IgetRead(p) PROVE ScanHeld' /\ ListSleepers'
  BY <1>0, <1>1, <1>7, ListKept DEF IgetRead, free
<1>8. ASSUME NEW p \in Procs, IputMore(p) PROVE ScanHeld' /\ ListSleepers'
  BY <1>0, <1>1, <1>8, ListKept DEF IputMore, prele, wakeup, Returned, free
<1>9. ASSUME NEW p \in Procs, IputLast(p) PROVE ScanHeld' /\ ListSleepers'
  BY <1>0, <1>1, <1>9, ListKept DEF IputLast, free
<1>10. ASSUME NEW p \in Procs, Itrunc(p) PROVE ScanHeld' /\ ListSleepers'
  BY <1>0, <1>1, <1>10, ListKept DEF Itrunc
<1>11. ASSUME NEW p \in Procs, IputUpdate(p) PROVE ScanHeld' /\ ListSleepers'
  BY <1>0, <1>1, <1>11, ListKept DEF IputUpdate
<1>12. ASSUME NEW p \in Procs, IputClean(p) PROVE ScanHeld' /\ ListSleepers'
  BY <1>0, <1>1, <1>12, ListKept DEF IputClean, Release, wakeup, Returned, free
<1>13. ASSUME NEW p \in Procs, IputWritten(p) PROVE ScanHeld' /\ ListSleepers'
  BY <1>0, <1>1, <1>13, ListKept DEF IputWritten, Release, wakeup, Returned, free
<1>14. ASSUME NEW p \in Procs, IallocWait(p) PROVE ScanHeld' /\ ListSleepers'
  BY <1>0, <1>1, <1>14 DEF ScanHeld, ListSleepers, IallocWait, sleep, free
<1>15. ASSUME NEW p \in Procs, IallocPop(p) PROVE ScanHeld' /\ ListSleepers'
  BY <1>0, <1>1, <1>15, ListKept DEF IallocPop, InLoop, itab
<1>16. ASSUME NEW p \in Procs, IallocScan(p) PROVE ScanHeld' /\ ListSleepers'
  <2>1. s_ilock' # 0 /\ pc'[p] = "scan"
    BY <1>0, <1>16 DEF IallocScan
  <2> QED BY <2>1 DEF ScanHeld, ListSleepers
<1>17. ASSUME NEW p \in Procs, ScanBlock(p) PROVE ScanHeld' /\ ListSleepers'
  BY <1>0, <1>17 DEF ScanHeld, ListSleepers, ScanBlock
<1>18. ASSUME NEW p \in Procs, ScanDone(p) PROVE ScanHeld' /\ ListSleepers'
  BY <1>0, <1>1, <1>18 DEF ScanHeld, ListSleepers, ScanDone, wakeup
<1>19. ASSUME NEW p \in Procs, NEW n \in Names, Open(p, n) PROVE ScanHeld' /\ ListSleepers'
  BY <1>0, <1>1, <1>19, ListKept DEF Open, Enter, itab, free
<1>20. ASSUME NEW p \in Procs, NEW n \in Names, Unlink(p, n) PROVE ScanHeld' /\ ListSleepers'
  BY <1>0, <1>1, <1>20, ListKept DEF Unlink, Enter, itab, free
<1>21. ASSUME NEW p \in Procs, NEW n \in Names, Creat(p, n) PROVE ScanHeld' /\ ListSleepers'
  BY <1>0, <1>1, <1>21, ListKept DEF Creat, Enter, itab
<1>22. ASSUME NEW p \in Procs, Opened(p) PROVE ScanHeld' /\ ListSleepers'
  BY <1>0, <1>1, <1>22, ListKept DEF Opened, prele, wakeup, free
<1>23. ASSUME NEW p \in Procs, OpenRefused(p) PROVE ScanHeld' /\ ListSleepers'
  BY <1>0, <1>1, <1>23, ListKept DEF OpenRefused, itab, free
<1>24. ASSUME NEW p \in Procs, CreatTaken(p) PROVE ScanHeld' /\ ListSleepers'
  BY <1>0, <1>1, <1>24, ListKept DEF CreatTaken, itab, free
<1>25. ASSUME NEW p \in Procs, Maknode(p) PROVE ScanHeld' /\ ListSleepers'
  BY <1>0, <1>1, <1>25, ListKept DEF Maknode, free
<1>26. ASSUME NEW p \in Procs, Wdir(p) PROVE ScanHeld' /\ ListSleepers'
  BY <1>0, <1>1, <1>26, ListKept DEF Wdir, prele, wakeup, free
<1>27. ASSUME NEW p \in Procs, UnlinkStart(p) PROVE ScanHeld' /\ ListSleepers'
  BY <1>0, <1>1, <1>27, ListKept DEF UnlinkStart, itab, free
<1>28. ASSUME NEW p \in Procs, Unlinked(p) PROVE ScanHeld' /\ ListSleepers'
  BY <1>0, <1>1, <1>28, ListKept DEF Unlinked, free
<1>29. ASSUME NEW p \in Procs, PlockWait(p) PROVE ScanHeld' /\ ListSleepers'
  <2>1. ref[p] \in Slots
    BY <1>0, <1>29, InodeAssumption DEF PlockWait, HasFile, Slots
  <2> QED BY <1>0, <1>1, <1>29, <2>1, ListKept DEF PlockWait, HasFile, Want, sleep, free
<1>30. ASSUME NEW p \in Procs, Rdwr(p) PROVE ScanHeld' /\ ListSleepers'
  BY <1>0, <1>1, <1>30, ListKept DEF Rdwr, plock, HasFile, free
<1>31. ASSUME NEW p \in Procs, Close(p) PROVE ScanHeld' /\ ListSleepers'
  BY <1>0, <1>1, <1>31, ListKept DEF Close, plock, HasFile, free
<1>32. ASSUME NEW p \in Procs, RdwrDone(p) PROVE ScanHeld' /\ ListSleepers'
  BY <1>0, <1>1, <1>32, ListKept DEF RdwrDone, wakeup, free
<1>33. ASSUME NEW p \in Procs, NEW s \in Slots, Update(p, s) PROVE ScanHeld' /\ ListSleepers'
  BY <1>0, <1>1, <1>33, ListKept DEF Update
<1>34. ASSUME NEW p \in Procs, Updated(p) PROVE ScanHeld' /\ ListSleepers'
  BY <1>0, <1>1, <1>34, ListKept DEF Updated, free
<1> QED
  BY <1>2, <1>3, <1>4, <1>5, <1>6, <1>7, <1>8, <1>9, <1>10, <1>11, <1>12, <1>13, <1>14, <1>15, <1>16, <1>17, <1>18, <1>19, <1>20, <1>21, <1>22, <1>23, <1>24, <1>25, <1>26, <1>27, <1>28, <1>29, <1>30, <1>31, <1>32, <1>33, <1>34
     DEF Next, User, Kernel, Iget, Iput, Ialloc

\* A process that has slept in itrunc() or iupdat() still has the last reference:
\* who takes or drops one has the slot locked.
LEMMA LastStep ==
  ASSUME TableInv, [Next]_vars
  PROVE  LastReference'
<1> USE DEF At, Goto, Pause, LockPlaces
<1>0. /\ pc \in [Procs -> Places] /\ ref \in [Procs -> 0 .. NINODE]
      /\ i_count \in [Slots -> Nat]
      /\ Control /\ LockEach /\ LastReference
  BY LockParts DEF TableInv, TypeOK
<1>1. ASSUME UNCHANGED i_count, NEW p \in Procs,
             \A q \in Procs : q # p => pc'[q] = pc[q] /\ ref'[q] = ref[q],
             pc'[p] \in {"itrunc", "iupdat"} => i_count[ref'[p]] = 1
      PROVE  LastReference'
  BY <1>0, <1>1 DEF LastReference
<1>2. CASE UNCHANGED vars
  BY <1>0, <1>2 DEF vars, LastReference
<1>a. ASSUME NEW p \in Procs, NEW s \in Slots, Locked(s) => Locks(p, s),
             \A q \in Procs : q # p => pc'[q] = pc[q] /\ ref'[q] = ref[q],
             \A t \in Slots : t # s => i_count'[t] = i_count[t],
             pc'[p] \notin {"itrunc", "iupdat"}
      PROVE  LastReference'
  <2> SUFFICES ASSUME NEW q \in Procs, pc'[q] \in {"itrunc", "iupdat"}
               PROVE  i_count'[ref'[q]] = 1
    BY DEF LastReference
  <2>1. q # p /\ pc[q] \in {"itrunc", "iupdat"} /\ ref'[q] = ref[q]
    BY <1>a
  <2>2. ref[q] \in Slots /\ Locked(ref[q]) /\ Locks(q, ref[q])
    BY <2>1, HeldLock
  <2>3. ref[q] # s
    BY <1>0, <1>a, <2>1, <2>2 DEF LockEach
  <2> QED BY <1>0, <1>a, <2>1, <2>2, <2>3 DEF LastReference
<1>3. ASSUME NEW p \in Procs, IgetLocked(p) PROVE LastReference'
  BY <1>0, <1>3 DEF IgetLocked, Want, LastReference
<1>4. ASSUME NEW p \in Procs, IgetHit(p) PROVE LastReference'
  <2>1. First(InCore(ino[p])) \in Slots
    BY <1>4, FirstIn DEF IgetHit, InCore
  <2> QED BY <1>0, <1>a, <1>4, <2>1 DEF IgetHit
<1>5. ASSUME NEW p \in Procs, IgetFull(p) PROVE LastReference'
  BY <1>0, <1>1, <1>5 DEF IgetFull, itab
<1>6. ASSUME NEW p \in Procs, IgetMiss(p) PROVE LastReference'
  <2> DEFINE s == First(Unused)
  <2>1. s \in Slots /\ i_count[s] = 0
    BY <1>6, FirstIn DEF IgetMiss, Unused
  <2>2. ~Locked(s)
    BY <1>0, <2>1, ReferencesHold DEF TableInv, References, LockEach, Locks
  <2>3. /\ \A q \in Procs : q # p => pc'[q] = pc[q] /\ ref'[q] = ref[q]
        /\ \A t \in Slots : t # s => i_count'[t] = i_count[t]
        /\ pc'[p] \notin {"itrunc", "iupdat"}
    BY <1>0, <1>6, <2>1 DEF IgetMiss
  <2> HIDE DEF s
  <2> QED BY <1>a, <2>1, <2>2, <2>3
<1>7. ASSUME NEW p \in Procs, IgetRead(p) PROVE LastReference'
  BY <1>0, <1>1, <1>7 DEF IgetRead
<1>8. ASSUME NEW p \in Procs, IputMore(p) PROVE LastReference'
  <2>1. ref[p] \in Slots /\ Locks(p, ref[p])
    BY <1>8, HeldLock DEF IputMore
  <2> QED BY <1>0, <1>a, <1>8, <2>1 DEF IputMore, Returned
<1>9. ASSUME NEW p \in Procs, IputLast(p) PROVE LastReference'
  BY <1>0, <1>1, <1>9 DEF IputLast
<1>10. ASSUME NEW p \in Procs, Itrunc(p) PROVE LastReference'
  BY <1>0, <1>1, <1>10 DEF Itrunc, LastReference
<1>11. ASSUME NEW p \in Procs, IputUpdate(p) PROVE LastReference'
  BY <1>0, <1>1, <1>11 DEF IputUpdate
<1>12. ASSUME NEW p \in Procs, IputClean(p) PROVE LastReference'
  <2>1. ref[p] \in Slots /\ Locks(p, ref[p])
    BY <1>12, HeldLock DEF IputClean
  <2> QED BY <1>0, <1>a, <1>12, <2>1 DEF IputClean, Release, Returned
<1>13. ASSUME NEW p \in Procs, IputWritten(p) PROVE LastReference'
  <2>1. ref[p] \in Slots /\ Locks(p, ref[p])
    BY <1>13, HeldLock DEF IputWritten
  <2> QED BY <1>0, <1>a, <1>13, <2>1 DEF IputWritten, Release, Returned
<1>14. ASSUME NEW p \in Procs, IallocWait(p) PROVE LastReference'
  BY <1>0, <1>14 DEF IallocWait, itab, LastReference
<1>15. ASSUME NEW p \in Procs, IallocPop(p) PROVE LastReference'
  BY <1>0, <1>1, <1>15 DEF IallocPop, InLoop, itab
<1>16. ASSUME NEW p \in Procs, IallocScan(p) PROVE LastReference'
  BY <1>0, <1>1, <1>16 DEF IallocScan, InLoop, itab
<1>17. ASSUME NEW p \in Procs, ScanBlock(p) PROVE LastReference'
  BY <1>0, <1>17 DEF ScanBlock, itab, LastReference
<1>18. ASSUME NEW p \in Procs, ScanDone(p) PROVE LastReference'
  BY <1>0, <1>1, <1>18 DEF ScanDone, itab
<1>19. ASSUME NEW p \in Procs, NEW n \in Names, Open(p, n) PROVE LastReference'
  BY <1>0, <1>1, <1>19 DEF Open, Enter, itab
<1>20. ASSUME NEW p \in Procs, NEW n \in Names, Unlink(p, n) PROVE LastReference'
  BY <1>0, <1>1, <1>20 DEF Unlink, Enter, itab
<1>21. ASSUME NEW p \in Procs, NEW n \in Names, Creat(p, n) PROVE LastReference'
  BY <1>0, <1>1, <1>21 DEF Creat, Enter, itab
<1>22. ASSUME NEW p \in Procs, Opened(p) PROVE LastReference'
  BY <1>0, <1>1, <1>22 DEF Opened
<1>23. ASSUME NEW p \in Procs, OpenRefused(p) PROVE LastReference'
  BY <1>0, <1>1, <1>23 DEF OpenRefused, itab
<1>24. ASSUME NEW p \in Procs, CreatTaken(p) PROVE LastReference'
  BY <1>0, <1>1, <1>24 DEF CreatTaken, itab
<1>25. ASSUME NEW p \in Procs, Maknode(p) PROVE LastReference'
  BY <1>0, <1>1, <1>25 DEF Maknode
<1>26. ASSUME NEW p \in Procs, Wdir(p) PROVE LastReference'
  BY <1>0, <1>1, <1>26 DEF Wdir
<1>27. ASSUME NEW p \in Procs, UnlinkStart(p) PROVE LastReference'
  BY <1>0, <1>1, <1>27 DEF UnlinkStart, itab
<1>28. ASSUME NEW p \in Procs, Unlinked(p) PROVE LastReference'
  BY <1>0, <1>1, <1>28 DEF Unlinked
<1>29. ASSUME NEW p \in Procs, PlockWait(p) PROVE LastReference'
  BY <1>0, <1>29 DEF PlockWait, Want, LastReference
<1>30. ASSUME NEW p \in Procs, Rdwr(p) PROVE LastReference'
  BY <1>0, <1>1, <1>30 DEF Rdwr, plock, HasFile
<1>31. ASSUME NEW p \in Procs, Close(p) PROVE LastReference'
  BY <1>0, <1>1, <1>31 DEF Close, plock, HasFile
<1>32. ASSUME NEW p \in Procs, RdwrDone(p) PROVE LastReference'
  BY <1>0, <1>1, <1>32 DEF RdwrDone
<1>33. ASSUME NEW p \in Procs, NEW s \in Slots, Update(p, s) PROVE LastReference'
  BY <1>0, <1>a, <1>33 DEF Update
<1>34. ASSUME NEW p \in Procs, Updated(p) PROVE LastReference'
  BY <1>0, <1>1, <1>34 DEF Updated
<1> QED
  BY <1>2, <1>3, <1>4, <1>5, <1>6, <1>7, <1>8, <1>9, <1>10, <1>11, <1>12, <1>13, <1>14, <1>15, <1>16, <1>17, <1>18, <1>19, <1>20, <1>21, <1>22, <1>23, <1>24, <1>25, <1>26, <1>27, <1>28, <1>29, <1>30, <1>31, <1>32, <1>33, <1>34
     DEF Next, User, Kernel, Iget, Iput, Ialloc

\* The table is exact when the system starts.
LEMMA TableInit == Init => TableInv
<1> SUFFICES ASSUME Init PROVE TableInv
  OBVIOUS
<1>1. TypeOK
  <2>1. /\ NINODE \in Nat /\ Inodes \in Nat /\ 0 \in 0 .. Inodes /\ 0 \in 0 .. NINODE
        /\ <<>> \in Seq(Inos)
    BY InodeAssumption
  <2>2. dinode \in [Inos -> [mode : BOOLEAN, nlink : Int]]
    <3>1. \A i \in Inos : [mode |-> i < ROOTINO, nlink |-> 0] \in [mode : BOOLEAN, nlink : Int]
      <4>1. \A i \in Inos : (i < ROOTINO) \in BOOLEAN
        BY InodeAssumption DEF Inos
      <4> QED BY <4>1
    <3> QED BY <3>1 DEF Init
  <2> QED BY <2>1, <2>2 DEF Init, TypeOK, Places, Calls
<1>2. NULL \notin Slots /\ NULL # SIlock /\ 0 \notin Slots
  BY InodeAssumption DEF Slots, SIlock
<1>3. Control
  BY <1>2 DEF Init, Control, ControlAt, LockPlaces
<1>4. SlotsExact
  <2>1. \A s \in Slots : Users(s) = {}
    BY <1>2 DEF Init, Users
  <2>2. Cardinality({}) = 0
    BY FS_EmptySet
  <2>3. Counted
    BY <2>1, <2>2 DEF Init, Counted
  <2>4. Unique /\ Numbered
    BY DEF Init, Unique, Numbered
  <2> QED BY <2>3, <2>4, SlotsParts
<1>5. LockExact
  <2>1. LockEach
    BY DEF Init, LockEach, Locks, Locked, LockPlaces
  <2>2. Sleepers /\ ListSleepers
    BY <1>2 DEF Init, Sleepers, ListSleepers
  <2> QED BY <2>1, <2>2, LockParts
<1>6. ScanHeld /\ LastReference
  BY DEF Init, ScanHeld, LastReference
<1> QED BY <1>1, <1>3, <1>4, <1>5, <1>6 DEF TableInv

\* The table is exact in every state.
LEMMA TableStep == TableInv /\ [Next]_vars => TableInv'
<1> SUFFICES ASSUME TableInv, [Next]_vars PROVE TableInv'
  OBVIOUS
<1>1. (LockExact <=> LockEach /\ Sleepers /\ ListSleepers)'
  BY LockParts, PTL
<1>2. LockExact'
  BY <1>1, LockStep, SleepStep, ListStep
<1> QED BY <1>2, TypeStep, ControlStep, SlotsStep, ListStep, LastStep DEF TableInv

-----------------------------------------------------------------------------
(* The theorems about the table.                                           *)

\* The inductive invariant of the table: iget(), iput(), ialloc(), prele() and their
\* callers keep it, whatever bread() returns.
THEOREM TableInvariance == Spec => []TableInv
BY TableInit, TableStep, PTL DEF Spec

\* No slot, list, entry or process leaves its type.
THEOREM TypeCorrect == Spec => []TypeOK
<1>1. TableInv => TypeOK
  BY DEF TableInv
<1> QED BY <1>1, TableInvariance, PTL

\* "There is a unique inode allocated for each active file" (inode.h:3): iget() and
\* iput() keep every inode in one slot, with the count of those who refer to it.
THEOREM SlotsCorrect == Spec => []SlotsExact
<1>1. TableInv => SlotsExact
  BY DEF TableInv
<1> QED BY <1>1, TableInvariance, PTL

\* ILOCK is held by one process at a time, and prele() and the end of ialloc()'s
\* scan leave nobody asleep behind a lock that is free.
THEOREM LockCorrect == Spec => []LockExact
<1>1. TableInv => LockExact
  BY DEF TableInv
<1> QED BY <1>1, TableInvariance, PTL

-----------------------------------------------------------------------------
(* The files, when every inode can be read.                                *)

NoError == \A p \in Procs : op[p] # "error"

\* Where the mode and the links of an inode are to be found: in its slot, once the
\* slot has been read, and else on the device.
Values ==
  /\ \A s \in Slots : i_number[s] # 0 /\ ~Reading(s) =>
       ModeOf(i_number[s]) = i_mode[s] /\ NlinkOf(i_number[s]) = i_nlink[s]
  /\ \A i \in Inos : (\A s \in Slots : i_number[s] = i => Reading(s)) =>
       ModeOf(i) = dinode[i].mode /\ NlinkOf(i) = dinode[i].nlink

\* The mode and the links of an inode are there.
LEMMA ValuesHold == TableInv /\ NoError => Values
<1> SUFFICES ASSUME TableInv, NoError PROVE Values
  OBVIOUS
<1>1. ASSUME NEW s \in Slots, i_number[s] # 0, ~Reading(s)
      PROVE  ModeOf(i_number[s]) = i_mode[s] /\ NlinkOf(i_number[s]) = i_nlink[s]
  <2>1. Loaded(i_number[s]) = {s}
    BY <1>1 DEF Loaded, InCore, Users, Reading, NoError, TableInv, SlotsExact
  <2>2. First({s}) = s
    <3>1. First({s}) \in {s}
      BY FirstIn
    <3> QED BY <3>1
  <2> QED BY <2>1, <2>2 DEF ModeOf, NlinkOf
<1>2. ASSUME NEW i \in Inos, \A s \in Slots : i_number[s] = i => Reading(s)
      PROVE  ModeOf(i) = dinode[i].mode /\ NlinkOf(i) = dinode[i].nlink
  <2>1. Loaded(i) = {}
    BY <1>2 DEF Loaded, InCore, Users, Reading
  <2> QED BY <2>1 DEF ModeOf, NlinkOf
<1> QED BY <1>1, <1>2 DEF Values

\* A process that has its slot locked, and has read it, knows the file.
LEMMA HeldFile ==
  ASSUME TableInv, FileInv, NEW p \in Procs, pc[p] \in LockPlaces \ {"bread"}
  PROVE  /\ ~Reading(ref[p])
         /\ i_number[ref[p]] \in Inos
         /\ ModeOf(i_number[ref[p]]) = i_mode[ref[p]]
         /\ NlinkOf(i_number[ref[p]]) = i_nlink[ref[p]]
<1>1. ref[p] \in Slots /\ Locks(p, ref[p]) /\ i_number[ref[p]] \in Inos
  BY HeldLock, TypeFacts
<1>2. ~Reading(ref[p])
  <2>1. LockEach
    BY LockParts DEF TableInv
  <2> QED BY <1>1, <2>1 DEF Reading, LockEach, Locks, LockPlaces
<1>3. Values
  BY ValuesHold DEF FileInv, Directories, DirectoryAt, NoError
<1> QED BY <1>1, <1>2, <1>3 DEF Values, Inos

\* A step of p leaves alone what the others have locked.
Private(p) ==
  /\ \A q \in Procs : q # p =>
       pc'[q] = pc[q] /\ op'[q] = op[q] /\ ino'[q] = ino[q] /\ ref'[q] = ref[q]
  /\ \A q \in Procs : q # p /\ pc[q] \in LockPlaces =>
       /\ i_number'[ref[q]] = i_number[ref[q]]
       /\ i_mode'[ref[q]] = i_mode[ref[q]]
       /\ i_nlink'[ref[q]] = i_nlink[ref[q]]
  /\ \A n \in Names :
       /\ dlock[n] # p => entry'[n] = entry[n] /\ dlock'[n] \in {dlock[n], p}
       /\ dlock[n] \notin {p, NULL} => dlock'[n] = dlock[n]
       /\ dlock[n] = p => dlock'[n] \in {p, NULL}
       /\ dlock[n] # p /\ dlock'[n] = p =>
            pc[p] = "user" /\ \A m \in Names : m # n => dlock'[m] = dlock[m]

\* Two processes never have the same slot locked.
LEMMA OneLocker ==
  ASSUME TableInv, NEW p \in Procs, NEW q \in Procs, p # q,
         pc[p] \in LockPlaces, pc[q] \in LockPlaces
  PROVE  ref[p] # ref[q] /\ ref[p] \in Slots /\ ref[q] \in Slots
<1>1. Locks(p, ref[p]) /\ Locks(q, ref[q]) /\ ref[p] \in Slots /\ ref[q] \in Slots
  BY HeldLock
<1>2. LockEach
  BY LockParts DEF TableInv
<1> QED BY <1>1, <1>2 DEF LockEach

\* Every step is some process's, and touches nothing another has locked.
LEMMA PrivateStep ==
  ASSUME TableInv, NEW p \in Procs, User(p) \/ Kernel(p)
  PROVE  Private(p)
<1> USE DEF At, Goto, Pause
<1>0. /\ pc \in [Procs -> Places] /\ op \in [Procs -> Calls] /\ ref \in [Procs -> 0 .. NINODE]
      /\ ino \in [Procs -> 0 .. Inodes] /\ dlock \in [Names -> Procs \cup {NULL}]
      /\ i_number \in [Slots -> 0 .. Inodes] /\ i_mode \in [Slots -> BOOLEAN]
      /\ i_nlink \in [Slots -> Int] /\ entry \in [Names -> 0 .. Inodes]
  BY DEF TableInv, TypeOK
<1>1. NULL \notin Procs
  BY InodeAssumption
<1>3. ASSUME IgetLocked(p) PROVE Private(p)
  BY <1>0, <1>1, <1>3 DEF Private, IgetLocked, Want
<1>4. ASSUME IgetHit(p) PROVE Private(p)
  BY <1>0, <1>1, <1>4 DEF Private, IgetHit
<1>5. ASSUME IgetFull(p) PROVE Private(p)
  BY <1>0, <1>1, <1>5 DEF Private, IgetFull, itab, Undo
<1>6. ASSUME IgetMiss(p) PROVE Private(p)
  <2> DEFINE s == First(Unused)
  <2>1. s \in Slots /\ i_count[s] = 0
    BY <1>6, FirstIn DEF IgetMiss, Unused
  <2>2. \A q \in Procs : ref[q] # s
    BY <2>1, ReferencesHold DEF TableInv, References
  <2>3. i_number' = [i_number EXCEPT ![s] = ino[p]]
    BY <1>6 DEF IgetMiss
  <2> HIDE DEF s
  <2>4. \A q \in Procs : i_number'[ref[q]] = i_number[ref[q]]
    BY <1>0, <2>1, <2>2, <2>3
  <2> QED BY <1>0, <1>1, <1>6, <2>4 DEF Private, IgetMiss
<1>7. ASSUME IgetRead(p) PROVE Private(p)
  <2>1. \A q \in Procs : q # p /\ pc[q] \in LockPlaces =>
          ref[p] # ref[q] /\ ref[p] \in Slots /\ ref[q] \in Slots
    BY <1>7, OneLocker DEF IgetRead, LockPlaces
  <2>2. \A q \in Procs : q # p /\ pc[q] \in LockPlaces =>
          /\ i_number'[ref[q]] = i_number[ref[q]]
          /\ i_mode'[ref[q]] = i_mode[ref[q]]
          /\ i_nlink'[ref[q]] = i_nlink[ref[q]]
    BY <1>0, <1>7, <2>1 DEF IgetRead
  <2> QED BY <1>0, <1>1, <1>7, <2>2 DEF Private, IgetRead
<1>8. ASSUME IputMore(p) PROVE Private(p)
  BY <1>0, <1>1, <1>8 DEF Private, IputMore, Returned, Undo
<1>9. ASSUME IputLast(p) PROVE Private(p)
  BY <1>0, <1>1, <1>9 DEF Private, IputLast
<1>10. ASSUME Itrunc(p) PROVE Private(p)
  <2>1. \A q \in Procs : q # p /\ pc[q] \in LockPlaces =>
          ref[p] # ref[q] /\ ref[p] \in Slots /\ ref[q] \in Slots
    BY <1>10, OneLocker DEF Itrunc, LockPlaces
  <2>2. \A q \in Procs : q # p /\ pc[q] \in LockPlaces =>
          /\ i_number'[ref[q]] = i_number[ref[q]]
          /\ i_mode'[ref[q]] = i_mode[ref[q]]
          /\ i_nlink'[ref[q]] = i_nlink[ref[q]]
    BY <1>0, <1>10, <2>1 DEF Itrunc
  <2> QED BY <1>0, <1>1, <1>10, <2>2 DEF Private, Itrunc
<1>11. ASSUME IputUpdate(p) PROVE Private(p)
  BY <1>0, <1>1, <1>11 DEF Private, IputUpdate
<1>12. ASSUME IputClean(p) PROVE Private(p)
  <2>1. \A q \in Procs : q # p /\ pc[q] \in LockPlaces =>
          ref[p] # ref[q] /\ ref[p] \in Slots /\ ref[q] \in Slots
    BY <1>12, OneLocker DEF IputClean, LockPlaces
  <2>2. \A q \in Procs : q # p /\ pc[q] \in LockPlaces =>
          /\ i_number'[ref[q]] = i_number[ref[q]]
          /\ i_mode'[ref[q]] = i_mode[ref[q]]
          /\ i_nlink'[ref[q]] = i_nlink[ref[q]]
    BY <1>0, <1>12, <2>1 DEF IputClean, Release, Returned, Undo
  <2> QED BY <1>0, <1>1, <1>12, <2>2 DEF Private, IputClean, Release, Returned, Undo
<1>13. ASSUME IputWritten(p) PROVE Private(p)
  <2>1. \A q \in Procs : q # p /\ pc[q] \in LockPlaces =>
          ref[p] # ref[q] /\ ref[p] \in Slots /\ ref[q] \in Slots
    BY <1>13, OneLocker DEF IputWritten, LockPlaces
  <2>2. \A q \in Procs : q # p /\ pc[q] \in LockPlaces =>
          /\ i_number'[ref[q]] = i_number[ref[q]]
          /\ i_mode'[ref[q]] = i_mode[ref[q]]
          /\ i_nlink'[ref[q]] = i_nlink[ref[q]]
    BY <1>0, <1>13, <2>1 DEF IputWritten, Release, Returned, Undo
  <2> QED BY <1>0, <1>1, <1>13, <2>2 DEF Private, IputWritten, Release, Returned, Undo
<1>14. ASSUME IallocWait(p) PROVE Private(p)
  BY <1>0, <1>1, <1>14 DEF Private, IallocWait, itab
<1>15. ASSUME IallocPop(p) PROVE Private(p)
  BY <1>0, <1>1, <1>15 DEF Private, IallocPop, InLoop, itab
<1>16. ASSUME IallocScan(p) PROVE Private(p)
  BY <1>0, <1>1, <1>16 DEF Private, IallocScan, InLoop, itab
<1>17. ASSUME ScanBlock(p) PROVE Private(p)
  BY <1>0, <1>1, <1>17 DEF Private, ScanBlock, itab
<1>18. ASSUME ScanDone(p) PROVE Private(p)
  BY <1>0, <1>1, <1>18 DEF Private, ScanDone, itab, Undo
<1>19. ASSUME NEW n \in Names, Open(p, n) PROVE Private(p)
  BY <1>0, <1>1, <1>19 DEF Private, Open, Enter, itab
<1>20. ASSUME NEW n \in Names, Unlink(p, n) PROVE Private(p)
  BY <1>0, <1>1, <1>20 DEF Private, Unlink, Enter, itab
<1>21. ASSUME NEW n \in Names, Creat(p, n) PROVE Private(p)
  BY <1>0, <1>1, <1>21 DEF Private, Creat, Enter, itab
<1>22. ASSUME Opened(p) PROVE Private(p)
  BY <1>0, <1>1, <1>22 DEF Private, Opened
<1>23. ASSUME OpenRefused(p) PROVE Private(p)
  BY <1>0, <1>1, <1>23 DEF Private, OpenRefused, itab
<1>24. ASSUME CreatTaken(p) PROVE Private(p)
  BY <1>0, <1>1, <1>24 DEF Private, CreatTaken, itab
<1>25. ASSUME Maknode(p) PROVE Private(p)
  <2>1. \A q \in Procs : q # p /\ pc[q] \in LockPlaces =>
          ref[p] # ref[q] /\ ref[p] \in Slots /\ ref[q] \in Slots
    BY <1>25, OneLocker DEF Maknode, LockPlaces
  <2>2. \A q \in Procs : q # p /\ pc[q] \in LockPlaces =>
          /\ i_number'[ref[q]] = i_number[ref[q]]
          /\ i_mode'[ref[q]] = i_mode[ref[q]]
          /\ i_nlink'[ref[q]] = i_nlink[ref[q]]
    BY <1>0, <1>25, <2>1 DEF Maknode
  <2> QED BY <1>0, <1>1, <1>25, <2>2 DEF Private, Maknode
<1>26. ASSUME Wdir(p) PROVE Private(p)
  BY <1>0, <1>1, <1>26 DEF Private, Wdir, Undo
<1>27. ASSUME UnlinkStart(p) PROVE Private(p)
  BY <1>0, <1>1, <1>27 DEF Private, UnlinkStart, itab
<1>28. ASSUME Unlinked(p) PROVE Private(p)
  <2>1. \A q \in Procs : q # p /\ pc[q] \in LockPlaces =>
          ref[p] # ref[q] /\ ref[p] \in Slots /\ ref[q] \in Slots
    BY <1>28, OneLocker DEF Unlinked, LockPlaces
  <2>2. \A q \in Procs : q # p /\ pc[q] \in LockPlaces =>
          /\ i_number'[ref[q]] = i_number[ref[q]]
          /\ i_mode'[ref[q]] = i_mode[ref[q]]
          /\ i_nlink'[ref[q]] = i_nlink[ref[q]]
    BY <1>0, <1>28, <2>1 DEF Unlinked
  <2> QED BY <1>0, <1>1, <1>28, <2>2 DEF Private, Unlinked
<1>29. ASSUME PlockWait(p) PROVE Private(p)
  BY <1>0, <1>1, <1>29 DEF Private, PlockWait, HasFile, Want
<1>30. ASSUME Rdwr(p) PROVE Private(p)
  BY <1>0, <1>1, <1>30 DEF Private, Rdwr, plock, HasFile
<1>31. ASSUME Close(p) PROVE Private(p)
  BY <1>0, <1>1, <1>31 DEF Private, Close, plock, HasFile
<1>32. ASSUME RdwrDone(p) PROVE Private(p)
  BY <1>0, <1>1, <1>32 DEF Private, RdwrDone
<1>33. ASSUME NEW s \in Slots, Update(p, s) PROVE Private(p)
  BY <1>0, <1>1, <1>33 DEF Private, Update
<1>34. ASSUME Updated(p) PROVE Private(p)
  BY <1>0, <1>1, <1>34 DEF Private, Updated
<1> QED
  BY <1>3, <1>4, <1>5, <1>6, <1>7, <1>8, <1>9, <1>10, <1>11, <1>12, <1>13, <1>14, <1>15, <1>16, <1>17, <1>18, <1>19, <1>20, <1>21, <1>22, <1>23, <1>24, <1>25, <1>26, <1>27, <1>28, <1>29, <1>30, <1>31, <1>32, <1>33, <1>34
     DEF User, Kernel, Iget, Iput, Ialloc

\* What a process knows of its directories stays true when others run.
LEMMA OthersStep ==
  ASSUME TableInv, FileInv, NEW p \in Procs, Private(p),
         NEW q \in Procs, q # p
  PROVE  /\ DirectoryAt(q)'
         /\ pc'[q] = "itrunc" => i_nlink'[ref'[q]] = 0
         /\ pc'[q] = "iupdat" => i_nlink'[ref'[q]] > 0 \/ ~i_mode'[ref'[q]]
<1>0. NULL \notin Procs /\ dlock \in [Names -> Procs \cup {NULL}]
  BY InodeAssumption DEF TableInv, TypeOK
<1>1. pc'[q] = pc[q] /\ op'[q] = op[q] /\ ino'[q] = ino[q] /\ ref'[q] = ref[q]
  BY DEF Private
<1>2. \A n \in Names : dlock[n] = q => dlock'[n] = q /\ entry'[n] = entry[n]
  BY <1>0 DEF Private
<1>3. \A n \in Names : dlock'[n] = q => dlock[n] = q /\ entry'[n] = entry[n]
  BY <1>0 DEF Private
<1>4. DirectoryAt(q)
  BY DEF FileInv, Directories
<1>5. pc[q] \in LockPlaces => i_number'[ref[q]] = i_number[ref[q]]
  BY DEF Private
<1>6. DirectoryAt(q)'
  <2>1. pc[q] \in {"iget", "bread", "got", "unlink"} => Number(q)' = Number(q)
    BY <1>1, <1>5 DEF Number, LockPlaces
  <2>2. op'[q] = "unlink" => /\ pc'[q] \in {"iget", "bread", "got", "unlink"}
                             /\ \E n \in Names : dlock'[n] = q /\ entry'[n] = Number(q)'
    BY <1>1, <1>2, <1>4, <2>1 DEF DirectoryAt
  <2>3. \A n \in Names : dlock'[n] = q =>
          /\ op'[q] \in {"unlink", "creat", "retry", "user"} /\ pc'[q] \notin {"user", "rdwr"}
          /\ op'[q] # "unlink" => entry'[n] = 0
    BY <1>1, <1>3, <1>4 DEF DirectoryAt
  <2>4. /\ op'[q] # "error"
        /\ pc'[q] \in {"user", "rdwr"} => op'[q] = "user"
        /\ pc'[q] \in {"getfs", "ialloc", "scan", "wdir"} => op'[q] = "creat"
        /\ pc'[q] = "unlink" => op'[q] = "unlink"
    BY <1>1, <1>4 DEF DirectoryAt
  <2>5. /\ op'[q] = "creat" => /\ pc'[q] \in {"getfs", "ialloc", "scan", "iget", "bread", "got", "wdir"}
                               /\ \E n \in Names : dlock'[n] = q
        /\ op'[q] = "retry" => pc'[q] \in {"iput", "itrunc", "iupdat"} /\ \E n \in Names : dlock'[n] = q
    BY <1>1, <1>2, <1>4 DEF DirectoryAt
  <2> QED BY <2>2, <2>3, <2>4, <2>5 DEF DirectoryAt
<1>7. Truncated
  BY DEF FileInv
<1> QED BY <1>1, <1>6, <1>7 DEF Truncated, Private, LockPlaces

\* What p knows of the directories it has locked, after a step of its own, and what
\* iput() has found out before it sleeps.
LEMMA OwnStep ==
  ASSUME TableInv, FileInv, ReadErrors = {FALSE}, NEW p \in Procs, User(p) \/ Kernel(p)
  PROVE  /\ DirectoryAt(p)'
         /\ pc'[p] = "itrunc" => i_nlink'[ref'[p]] = 0
         /\ pc'[p] = "iupdat" => i_nlink'[ref'[p]] > 0 \/ ~i_mode'[ref'[p]]
<1> USE DEF At, Goto, Pause
<1> DEFINE Own == /\ DirectoryAt(p)'
                  /\ pc'[p] = "itrunc" => i_nlink'[ref'[p]] = 0
                  /\ pc'[p] = "iupdat" => i_nlink'[ref'[p]] > 0 \/ ~i_mode'[ref'[p]]
<1>0. /\ pc \in [Procs -> Places] /\ op \in [Procs -> Calls] /\ ref \in [Procs -> 0 .. NINODE]
      /\ ino \in [Procs -> 0 .. Inodes] /\ dlock \in [Names -> Procs \cup {NULL}]
      /\ i_number \in [Slots -> 0 .. Inodes] /\ i_mode \in [Slots -> BOOLEAN]
      /\ i_nlink \in [Slots -> Int] /\ entry \in [Names -> 0 .. Inodes]
  BY DEF TableInv, TypeOK
<1>1. NULL \notin Procs
  BY InodeAssumption
<1>2. DirectoryAt(p)
  BY DEF FileInv, Directories
<1>3. ASSUME IgetLocked(p) PROVE Own
  BY <1>0, <1>1, <1>2, <1>3 DEF DirectoryAt, Number, IgetLocked, Want
<1>4. ASSUME IgetHit(p) PROVE Own
  <2> DEFINE s == First(InCore(ino[p]))
  <2>1. s \in Slots /\ i_number[s] = ino[p]
    BY <1>4, FirstIn DEF IgetHit, InCore
  <2>2. ref' = [ref EXCEPT ![p] = s]
    BY <1>4 DEF IgetHit
  <2> HIDE DEF s
  <2>3. Number(p)' = Number(p)
    BY <1>0, <1>4, <2>1, <2>2 DEF IgetHit, Number
  <2> QED BY <1>0, <1>1, <1>2, <1>4, <2>3 DEF DirectoryAt, IgetHit
<1>5. ASSUME IgetFull(p) PROVE Own
  BY <1>0, <1>1, <1>2, <1>5 DEF DirectoryAt, Number, IgetFull, itab, Undo
<1>6. ASSUME IgetMiss(p) PROVE Own
  <2> DEFINE s == First(Unused)
  <2>1. s \in Slots
    BY <1>6, FirstIn DEF IgetMiss, Unused
  <2>2. ref' = [ref EXCEPT ![p] = s] /\ i_number' = [i_number EXCEPT ![s] = ino[p]]
    BY <1>6 DEF IgetMiss
  <2> HIDE DEF s
  <2>3. Number(p)' = Number(p)
    BY <1>0, <1>6, <2>1, <2>2 DEF IgetMiss, Number
  <2> QED BY <1>0, <1>1, <1>2, <1>6, <2>3 DEF DirectoryAt, IgetMiss
<1>7. ASSUME IgetRead(p) PROVE Own
  BY <1>0, <1>1, <1>2, <1>7 DEF DirectoryAt, Number, IgetRead
<1>8. ASSUME IputMore(p) PROVE Own
  BY <1>0, <1>1, <1>2, <1>8 DEF DirectoryAt, Number, IputMore, Returned, Undo
<1>9. ASSUME IputLast(p) PROVE Own
  <2>1. i_nlink[ref[p]] = 0
    <3>1. i_number[ref[p]] \in Inos /\ NlinkOf(i_number[ref[p]]) = i_nlink[ref[p]]
      BY <1>9, HeldFile DEF IputLast, LockPlaces
    <3>2. NlinkOf(i_number[ref[p]]) \in {0, 1}
      BY <3>1 DEF FileInv, Linked
    <3> QED BY <1>9, <3>1, <3>2 DEF IputLast
  <2> QED BY <1>0, <1>1, <1>2, <1>9, <2>1 DEF DirectoryAt, Number, IputLast
<1>10. ASSUME Itrunc(p) PROVE Own
  <2>1. ref[p] \in Slots
    BY <1>10, HeldLock DEF Itrunc, LockPlaces
  <2>2. ~i_mode'[ref'[p]]
    BY <1>0, <1>10, <2>1 DEF Itrunc
  <2> QED BY <1>0, <1>1, <1>2, <1>10, <2>2 DEF DirectoryAt, Number, Itrunc
<1>11. ASSUME IputUpdate(p) PROVE Own
  BY <1>0, <1>1, <1>2, <1>11 DEF DirectoryAt, Number, IputUpdate
<1>12. ASSUME IputClean(p) PROVE Own
  BY <1>0, <1>1, <1>2, <1>12 DEF DirectoryAt, Number, IputClean, Release, Returned, Undo
<1>13. ASSUME IputWritten(p) PROVE Own
  BY <1>0, <1>1, <1>2, <1>13 DEF DirectoryAt, Number, IputWritten, Release, Returned, Undo
<1>14. ASSUME IallocWait(p) PROVE Own
  BY <1>0, <1>1, <1>2, <1>14 DEF DirectoryAt, Number, IallocWait, itab
<1>15. ASSUME IallocPop(p) PROVE Own
  BY <1>0, <1>1, <1>2, <1>15 DEF DirectoryAt, Number, IallocPop, InLoop, itab
<1>16. ASSUME IallocScan(p) PROVE Own
  BY <1>0, <1>1, <1>2, <1>16 DEF DirectoryAt, Number, IallocScan, InLoop, itab
<1>17. ASSUME ScanBlock(p) PROVE Own
  BY <1>0, <1>1, <1>2, <1>17 DEF DirectoryAt, Number, ScanBlock, itab
<1>18. ASSUME ScanDone(p) PROVE Own
  <2>1. CASE s_inode' # <<>>
    BY <1>0, <1>1, <1>2, <1>18, <2>1 DEF DirectoryAt, Number, ScanDone, itab
  <2>2. CASE s_inode' = <<>>
    BY <1>0, <1>1, <1>2, <1>18, <2>2 DEF DirectoryAt, Number, ScanDone, itab, Undo
  <2> QED BY <2>1, <2>2
<1>19. ASSUME NEW n \in Names, Open(p, n) PROVE Own
  BY <1>0, <1>1, <1>2, <1>19 DEF DirectoryAt, Number, Open, Enter, itab
<1>20. ASSUME NEW n \in Names, Unlink(p, n) PROVE Own
  BY <1>0, <1>1, <1>2, <1>20 DEF DirectoryAt, Number, Unlink, Enter, itab
<1>21. ASSUME NEW n \in Names, Creat(p, n) PROVE Own
  BY <1>0, <1>1, <1>2, <1>21 DEF DirectoryAt, Number, Creat, Enter, itab
<1>22. ASSUME Opened(p) PROVE Own
  BY <1>0, <1>1, <1>2, <1>22 DEF DirectoryAt, Number, Opened
<1>23. ASSUME OpenRefused(p) PROVE Own
  BY <1>0, <1>1, <1>2, <1>23 DEF DirectoryAt, Number, OpenRefused, itab
<1>24. ASSUME CreatTaken(p) PROVE Own
  BY <1>0, <1>1, <1>2, <1>24 DEF DirectoryAt, Number, CreatTaken, itab
<1>25. ASSUME Maknode(p) PROVE Own
  BY <1>0, <1>1, <1>2, <1>25 DEF DirectoryAt, Number, Maknode
<1>26. ASSUME Wdir(p) PROVE Own
  BY <1>0, <1>1, <1>2, <1>26 DEF DirectoryAt, Number, Wdir, Undo
<1>27. ASSUME UnlinkStart(p) PROVE Own
  BY <1>0, <1>1, <1>2, <1>27 DEF DirectoryAt, Number, UnlinkStart, itab
<1>28. ASSUME Unlinked(p) PROVE Own
  BY <1>0, <1>1, <1>2, <1>28 DEF DirectoryAt, Number, Unlinked
<1>29. ASSUME PlockWait(p) PROVE Own
  BY <1>0, <1>1, <1>2, <1>29 DEF DirectoryAt, Number, PlockWait, HasFile, Want
<1>30. ASSUME Rdwr(p) PROVE Own
  BY <1>0, <1>1, <1>2, <1>30 DEF DirectoryAt, Number, Rdwr, plock, HasFile
<1>31. ASSUME Close(p) PROVE Own
  BY <1>0, <1>1, <1>2, <1>31 DEF DirectoryAt, Number, Close, plock, HasFile
<1>32. ASSUME RdwrDone(p) PROVE Own
  BY <1>0, <1>1, <1>2, <1>32 DEF DirectoryAt, Number, RdwrDone
<1>33. ASSUME NEW s \in Slots, Update(p, s) PROVE Own
  BY <1>0, <1>1, <1>2, <1>33 DEF DirectoryAt, Number, Update
<1>34. ASSUME Updated(p) PROVE Own
  BY <1>0, <1>1, <1>2, <1>34 DEF DirectoryAt, Number, Updated
<1> QED
  BY <1>3, <1>4, <1>5, <1>6, <1>7, <1>8, <1>9, <1>10, <1>11, <1>12, <1>13, <1>14, <1>15, <1>16, <1>17, <1>18, <1>19, <1>20, <1>21, <1>22, <1>23, <1>24, <1>25, <1>26, <1>27, <1>28, <1>29, <1>30, <1>31, <1>32, <1>33, <1>34
     DEF User, Kernel, Iget, Iput, Ialloc

\* Every step keeps the directories and what iput() relies on.
LEMMA DirectoriesStep ==
  ASSUME TableInv, FileInv, ReadErrors = {FALSE}, NEW p \in Procs, User(p) \/ Kernel(p)
  PROVE  Directories' /\ Truncated'
<1>1. Private(p)
  BY PrivateStep
<1>2. ASSUME NEW q \in Procs
      PROVE  /\ DirectoryAt(q)'
             /\ pc'[q] = "itrunc" => i_nlink'[ref'[q]] = 0
             /\ pc'[q] = "iupdat" => i_nlink'[ref'[q]] > 0 \/ ~i_mode'[ref'[q]]
  BY <1>1, OwnStep, OthersStep
<1>3. ASSUME NEW n \in Names, NEW m \in Names, dlock'[n] = dlock'[m], dlock'[n] # NULL
      PROVE  n = m
  <2>0. NULL \notin Procs /\ dlock \in [Names -> Procs \cup {NULL}]
    BY InodeAssumption DEF TableInv, TypeOK
  <2>1. Directories
    BY DEF FileInv
  <2>2. CASE dlock[n] = dlock[m] /\ dlock[n] # NULL
    BY <2>1, <2>2 DEF Directories
  <2>3. CASE dlock'[n] = p /\ (dlock[n] # p \/ dlock[m] # p)
    <3>1. pc[p] = "user" => \A k \in Names : dlock[k] # p
      BY <2>1 DEF Directories, DirectoryAt
    <3>2. CASE dlock[n] # p
      BY <1>1, <1>3, <2>3, <3>1, <3>2 DEF Private
    <3>3. CASE dlock[m] # p
      BY <1>1, <1>3, <2>3, <3>1, <3>3 DEF Private
    <3> QED BY <2>3, <3>2, <3>3
  <2> QED BY <1>1, <1>3, <2>0, <2>2, <2>3 DEF Private
<1> QED BY <1>2, <1>3 DEF Directories, Truncated

FileParts == Clean /\ Linked /\ NamedOnce /\ Reclaimed

ValuesKept == \A i \in Inos : ModeOf(i)' = ModeOf(i) /\ NlinkOf(i)' = NlinkOf(i)

\* A slot p is not reading, before or after, is read by whoever read it before.
LEMMA ReadingSame ==
  ASSUME NEW p \in Procs, Private(p), NEW t \in Slots,
         ref[p] # t \/ pc[p] # "bread", ref'[p] # t \/ pc'[p] # "bread"
  PROVE  Reading(t)' <=> Reading(t)
BY DEF Private, Reading

\* The new inodes are the same when p is not at wdir(), before or after.
LEMMA NewbornSame ==
  ASSUME NEW p \in Procs, Private(p), pc[p] # "wdir", pc'[p] # "wdir"
  PROVE  Newborn' = Newborn
<1>1. \A q \in Procs : pc'[q] = "wdir" <=> pc[q] = "wdir"
  BY DEF Private
<1>2. \A q \in Procs : pc[q] = "wdir" => i_number'[ref'[q]] = i_number[ref[q]]
  BY DEF Private, LockPlaces
<1> QED BY <1>1, <1>2 DEF Newborn

\* Files whose names, links and modes stay are kept.
LEMMA LinkedSame ==
  ASSUME Linked, NamedOnce, ValuesKept, UNCHANGED entry, Newborn' = Newborn
  PROVE  Linked' /\ NamedOnce'
<1>1. Linked'
  BY DEF Linked, ValuesKept, Named
<1>2. NamedOnce'
  BY DEF NamedOnce
<1> QED BY <1>1, <1>2

\* Steps that touch neither the fields of an inode nor the device.
LEMMA StillFiles ==
  ASSUME FileParts, Values, Values', NEW p \in Procs, Private(p),
         UNCHANGED <<i_number, i_mode, i_nlink, dinode, entry>>,
         pc[p] \notin {"bread", "wdir"}, pc'[p] \notin {"bread", "wdir"},
         \A s \in Slots : "IUPD" \in i_flag[s] => "IUPD" \in i_flag'[s]
  PROVE  FileParts'
<1>1. \A s \in Slots : Reading(s)' <=> Reading(s)
  BY ReadingSame
<1>2. Newborn' = Newborn
  BY NewbornSame
<1>3. ValuesKept
  <2> SUFFICES ASSUME NEW i \in Inos
               PROVE  ModeOf(i)' = ModeOf(i) /\ NlinkOf(i)' = NlinkOf(i)
    BY DEF ValuesKept
  <2>1. CASE \A s \in Slots : i_number[s] = i => Reading(s)
    BY <1>1, <2>1 DEF Values
  <2>2. ASSUME NEW s \in Slots, i_number[s] = i, ~Reading(s)
        PROVE  ModeOf(i)' = ModeOf(i) /\ NlinkOf(i)' = NlinkOf(i)
    BY <1>1, <2>2 DEF Values, Inos
  <2> QED BY <2>1, <2>2
<1>4. Clean'
  BY <1>1 DEF FileParts, Clean
<1>5. Reclaimed'
  BY DEF FileParts, Reclaimed, InCore
<1> QED BY <1>2, <1>3, <1>4, <1>5, LinkedSame DEF FileParts

\* What p may take for granted when it works on the slot s it has locked.
LEMMA AtSlot ==
  ASSUME TableInv, FileInv, NEW p \in Procs, pc[p] \in LockPlaces
  PROVE  /\ ref[p] \in Slots /\ i_number[ref[p]] \in Inos
         /\ \A t \in Slots : t # ref[p] => i_number[t] # i_number[ref[p]]
         /\ \A q \in Procs : q # p /\ pc[q] \in LockPlaces => ref[q] # ref[p]
         /\ \A q \in Procs : q # p /\ pc[q] \in LockPlaces => i_number[ref[q]] # i_number[ref[p]]
<1>1. ref[p] \in Slots /\ i_number[ref[p]] \in Inos /\ i_number[ref[p]] # 0
  BY TypeFacts DEF Inos
<1>2. \A t \in Slots : t # ref[p] => i_number[t] # i_number[ref[p]]
  BY <1>1 DEF TableInv, SlotsExact
<1>3. \A q \in Procs : q # p /\ pc[q] \in LockPlaces => ref[q] # ref[p] /\ ref[q] \in Slots
  BY OneLocker
<1> QED BY <1>1, <1>2, <1>3

\* iget() takes a slot for an inode that has none: the device still knows the file.
LEMMA MissFiles ==
  ASSUME TableInv, FileInv, Values, Values', NEW p \in Procs, Private(p), IgetMiss(p)
  PROVE  FileParts'
<1>0. /\ pc \in [Procs -> Places] /\ ref \in [Procs -> 0 .. NINODE]
      /\ i_number \in [Slots -> 0 .. Inodes] /\ i_count \in [Slots -> Nat]
      /\ i_flag \in [Slots -> SUBSET {"ILOCK", "IWANT", "IUPD"}]
  BY DEF TableInv, TypeOK
<1>a. First(Unused) \in Slots /\ i_count[First(Unused)] = 0
  BY FirstIn DEF IgetMiss, Unused
<1>b. PICK s \in Slots : s = First(Unused)
  BY <1>a
<1>1. s \in Slots /\ i_count[s] = 0
  BY <1>a, <1>b
<1>2. i_number[s] = 0 /\ ino[p] \in Inos /\ ref[p] = 0 /\ pc[p] = "iget" /\ 0 \notin Slots
  BY <1>0, <1>1, TypeFacts DEF TableInv, SlotsExact, Control, ControlAt, IgetMiss, At
<1>3. /\ i_number' = [i_number EXCEPT ![s] = ino[p]] /\ i_flag' = [i_flag EXCEPT ![s] = {"ILOCK"}]
      /\ ref' = [ref EXCEPT ![p] = s] /\ pc' = [pc EXCEPT ![p] = "bread"]
      /\ UNCHANGED <<i_mode, i_nlink, dinode, entry>>
      /\ \A t \in Slots : i_number[t] # ino[p]
  BY <1>b DEF IgetMiss, Pause, InCore
<1>4. \A t \in Slots : t # s => (Reading(t)' <=> Reading(t))
  BY <1>0, <1>2, <1>3, ReadingSame
<1>5. Reading(s)'
  BY <1>0, <1>3 DEF Reading
<1>6. Newborn' = Newborn
  BY <1>0, <1>2, <1>3, NewbornSame
<1>7. ValuesKept
  <2> SUFFICES ASSUME NEW i \in Inos
               PROVE  ModeOf(i)' = ModeOf(i) /\ NlinkOf(i)' = NlinkOf(i)
    BY DEF ValuesKept
  <2>1. CASE \A t \in Slots : i_number[t] = i => Reading(t)
    <3>1. \A t \in Slots : i_number'[t] = i => Reading(t)'
      BY <1>0, <1>1, <1>3, <1>4, <1>5, <2>1
    <3> QED BY <1>3, <2>1, <3>1 DEF Values
  <2>2. ASSUME NEW t \in Slots, i_number[t] = i, ~Reading(t)
        PROVE  ModeOf(i)' = ModeOf(i) /\ NlinkOf(i)' = NlinkOf(i)
    <3>1. t # s /\ i # 0
      BY <1>2, <2>2 DEF Inos
    <3>2. i_number'[t] = i /\ ~Reading(t)'
      BY <1>0, <1>1, <1>3, <1>4, <2>2, <3>1
    <3> QED BY <1>3, <2>2, <3>1, <3>2 DEF Values
  <2> QED BY <2>1, <2>2
<1>8. Clean'
  BY <1>0, <1>1, <1>3, <1>4, <1>5 DEF FileInv, Clean
<1>9. Reclaimed'
  <2> SUFFICES ASSUME NEW i \in ROOTINO .. Inodes, \A n \in Names : entry'[n] # i, InCore(i)' = {}
               PROVE  ~dinode'[i].mode
    BY DEF Reclaimed
  <2>1. i # 0
    BY InodeAssumption
  <2>2. InCore(i) = {}
    BY <1>0, <1>1, <1>2, <1>3, <2>1 DEF InCore
  <2> QED BY <1>3, <2>2 DEF FileInv, Reclaimed
<1> QED BY <1>3, <1>6, <1>7, <1>8, <1>9, LinkedSame DEF FileParts, FileInv

\* The inode has been read: the slot knows what the device does.
LEMMA ReadFiles ==
  ASSUME TableInv, FileInv, Values, Values', ReadErrors = {FALSE},
         NEW p \in Procs, Private(p), IgetRead(p)
  PROVE  FileParts'
<1> DEFINE s == ref[p]
           j == i_number[s]
<1>0. /\ pc \in [Procs -> Places] /\ i_mode \in [Slots -> BOOLEAN] /\ i_nlink \in [Slots -> Int]
      /\ dinode \in [Inos -> [mode : BOOLEAN, nlink : Int]]
  BY DEF TableInv, TypeOK
<1>1. /\ s \in Slots /\ j \in Inos /\ pc[p] = "bread"
      /\ \A t \in Slots : t # s => i_number[t] # j
      /\ \A q \in Procs : q # p /\ pc[q] \in LockPlaces => ref[q] # s
  BY AtSlot DEF IgetRead, At, LockPlaces
<1>2. /\ i_mode' = [i_mode EXCEPT ![s] = dinode[j].mode]
      /\ i_nlink' = [i_nlink EXCEPT ![s] = dinode[j].nlink]
      /\ pc' = [pc EXCEPT ![p] = "got"]
      /\ UNCHANGED <<i_number, i_flag, dinode, entry, ref>>
  BY DEF IgetRead, Goto
<1> HIDE DEF s, j
<1>3. \A t \in Slots : t # s => (Reading(t)' <=> Reading(t))
  BY <1>2, ReadingSame DEF s
<1>4. Reading(s) /\ ~Reading(s)'
  BY <1>0, <1>1, <1>2 DEF Reading, Private, LockPlaces, s
<1>5. Newborn' = Newborn
  BY <1>0, <1>1, <1>2, NewbornSame
<1>6. i_mode'[s] = dinode[j].mode /\ i_nlink'[s] = dinode[j].nlink /\ i_number[s] = j /\ j # 0
  BY <1>0, <1>1, <1>2 DEF j, Inos
<1>7. ValuesKept
  <2> SUFFICES ASSUME NEW i \in Inos
               PROVE  ModeOf(i)' = ModeOf(i) /\ NlinkOf(i)' = NlinkOf(i)
    BY DEF ValuesKept
  <2>1. CASE i = j
    <3>1. ModeOf(i) = dinode[j].mode /\ NlinkOf(i) = dinode[j].nlink
      BY <1>1, <1>4, <2>1 DEF Values
    <3>2. ModeOf(i)' = i_mode'[s] /\ NlinkOf(i)' = i_nlink'[s]
      BY <1>1, <1>2, <1>4, <1>6, <2>1 DEF Values
    <3> QED BY <1>6, <3>1, <3>2
  <2>2. CASE i # j /\ \A t \in Slots : i_number[t] = i => Reading(t)
    <3>1. \A t \in Slots : i_number'[t] = i => Reading(t)'
      BY <1>2, <1>3, <1>6, <2>2
    <3> QED BY <1>2, <2>2, <3>1 DEF Values
  <2>3. ASSUME NEW t \in Slots, i # j, i_number[t] = i, ~Reading(t)
        PROVE  ModeOf(i)' = ModeOf(i) /\ NlinkOf(i)' = NlinkOf(i)
    <3>1. t # s /\ ~Reading(t)' /\ i # 0
      BY <1>3, <1>6, <2>3 DEF Inos
    <3>2. i_mode'[t] = i_mode[t] /\ i_nlink'[t] = i_nlink[t]
      BY <1>0, <1>2, <3>1
    <3> QED BY <1>2, <2>3, <3>1, <3>2 DEF Values
  <2> QED BY <2>1, <2>2, <2>3
<1>8. Clean'
  <2> SUFFICES ASSUME NEW t \in Slots, i_number'[t] # 0, ~Reading(t)', "IUPD" \notin i_flag'[t]
               PROVE  dinode'[i_number'[t]] = [mode |-> i_mode'[t], nlink |-> i_nlink'[t]]
    BY DEF Clean
  <2>1. CASE t = s
    BY <1>0, <1>1, <1>2, <1>6, <2>1
  <2>2. CASE t # s
    <3>1. i_mode'[t] = i_mode[t] /\ i_nlink'[t] = i_nlink[t] /\ ~Reading(t)
      BY <1>0, <1>2, <1>3, <2>2
    <3> QED BY <1>2, <3>1 DEF FileInv, Clean
  <2> QED BY <2>1, <2>2
<1>9. Reclaimed'
  BY <1>2 DEF FileInv, Reclaimed, InCore
<1> QED BY <1>2, <1>5, <1>7, <1>8, <1>9, LinkedSame DEF FileParts, FileInv

\* The last reference is given up: the device knows what the slot did, and a file
\* that is forgotten has a name or is free.
LEMMA ReleaseFiles ==
  ASSUME TableInv, FileInv, Values, Values', NEW p \in Procs, Private(p),
         pc[p] \in {"iput", "iupdat"}, Release(p), UNCHANGED <<i_mode, i_nlink, entry>>,
         dinode'[i_number[ref[p]]] = [mode |-> i_mode[ref[p]], nlink |-> i_nlink[ref[p]]],
         \A i \in Inos : i # i_number[ref[p]] => dinode'[i] = dinode[i],
         i_nlink[ref[p]] > 0 \/ ~i_mode[ref[p]]
  PROVE  FileParts'
<1>0. /\ pc \in [Procs -> Places] /\ ref \in [Procs -> 0 .. NINODE]
      /\ i_number \in [Slots -> 0 .. Inodes]
      /\ i_flag \in [Slots -> SUBSET {"ILOCK", "IWANT", "IUPD"}]
  BY DEF TableInv, TypeOK
<1>a. /\ ref[p] \in Slots /\ i_number[ref[p]] \in Inos
      /\ \A t \in Slots : t # ref[p] => i_number[t] # i_number[ref[p]]
      /\ \A q \in Procs : q # p /\ pc[q] \in LockPlaces => i_number[ref[q]] # i_number[ref[p]]
  BY AtSlot DEF LockPlaces
<1>b. PICK s \in Slots : s = ref[p]
  BY <1>a
<1>c. PICK j \in Inos : j = i_number[s]
  BY <1>a, <1>b
<1>1. /\ \A t \in Slots : t # s => i_number[t] # j
      /\ \A q \in Procs : q # p /\ pc[q] \in LockPlaces => i_number[ref[q]] # j
      /\ i_number[s] = j /\ j # 0
  BY <1>a, <1>b, <1>c DEF Inos
<1>2. /\ i_number' = [i_number EXCEPT ![s] = 0] /\ i_flag' = [i_flag EXCEPT ![s] = {}]
      /\ pc'[p] \in {"ialloc", "user"}
      /\ dinode'[j] = [mode |-> i_mode[s], nlink |-> i_nlink[s]]
      /\ \A i \in Inos : i # j => dinode'[i] = dinode[i]
  BY <1>0, <1>b, <1>c DEF Release, Returned, Goto, Pause
<1>3. \A t \in Slots : Reading(t)' <=> Reading(t)
  BY <1>2, ReadingSame
<1>4. ~Reading(s) /\ ModeOf(j) = i_mode[s] /\ NlinkOf(j) = i_nlink[s]
  BY <1>b, <1>c, HeldFile DEF LockPlaces
<1>5. Newborn' = Newborn
  BY <1>2, NewbornSame
<1>6. \A t \in Slots : t # s => i_number'[t] = i_number[t] /\ i_flag'[t] = i_flag[t]
  BY <1>0, <1>2
<1>7. i_number'[s] = 0
  BY <1>0, <1>2
<1>8. ValuesKept
  <2> SUFFICES ASSUME NEW i \in Inos
               PROVE  ModeOf(i)' = ModeOf(i) /\ NlinkOf(i)' = NlinkOf(i)
    BY DEF ValuesKept
  <2>0. i # 0
    BY DEF Inos
  <2>1. CASE i = j
    <3>1. \A t \in Slots : i_number'[t] # i
      BY <1>1, <1>6, <1>7, <2>0, <2>1
    <3>2. ModeOf(i)' = dinode'[i].mode /\ NlinkOf(i)' = dinode'[i].nlink
      BY <3>1 DEF Values
    <3> QED BY <1>2, <1>4, <2>1, <3>2
  <2>2. CASE i # j /\ \A t \in Slots : i_number[t] = i => Reading(t)
    <3>1. \A t \in Slots : i_number'[t] = i => Reading(t)'
      BY <1>3, <1>6, <1>7, <2>0, <2>2
    <3> QED BY <1>2, <2>2, <3>1 DEF Values
  <2>3. ASSUME NEW t \in Slots, i # j, i_number[t] = i, ~Reading(t)
        PROVE  ModeOf(i)' = ModeOf(i) /\ NlinkOf(i)' = NlinkOf(i)
    <3>1. t # s /\ ~Reading(t)' /\ i_number'[t] = i
      BY <1>1, <1>3, <1>6, <2>3
    <3> QED BY <2>0, <2>3, <3>1 DEF Values
  <2> QED BY <2>1, <2>2, <2>3
<1>9. Clean'
  <2> SUFFICES ASSUME NEW t \in Slots, i_number'[t] # 0, ~Reading(t)', "IUPD" \notin i_flag'[t]
               PROVE  dinode'[i_number'[t]] = [mode |-> i_mode'[t], nlink |-> i_nlink'[t]]
    BY DEF Clean
  <2>1. t # s
    BY <1>7
  <2>2. i_number[t] \in Inos /\ i_number[t] # j /\ i_number[t] # 0
    BY <1>0, <1>1, <1>6, <2>1, InodeAssumption DEF Inos
  <2>3. dinode[i_number[t]] = [mode |-> i_mode[t], nlink |-> i_nlink[t]]
    BY <1>3, <1>6, <2>1, <2>2 DEF FileInv, Clean
  <2> QED BY <1>2, <1>6, <2>1, <2>2, <2>3
<1>10. Reclaimed'
  <2> SUFFICES ASSUME NEW i \in ROOTINO .. Inodes, \A n \in Names : entry'[n] # i, InCore(i)' = {}
               PROVE  ~dinode'[i].mode
    BY DEF Reclaimed
  <2>1. i \in Inos
    BY InodeAssumption DEF Inos
  <2>2. CASE i = j
    <3>1. ~Named(j)
      BY <2>2 DEF Named
    <3>2. j \notin Newborn
      BY <1>1, <1>b DEF Newborn, LockPlaces
    <3>3. NlinkOf(j) = 0
      BY <2>1, <3>1, <3>2 DEF FileInv, Linked
    <3>4. ~i_mode[s]
      BY <1>4, <1>b, <3>3
    <3> QED BY <1>2, <2>2, <3>4
  <2>3. CASE i # j
    <3>1. InCore(i) = {}
      BY <1>1, <1>6, <2>3 DEF InCore
    <3> QED BY <1>2, <2>1, <2>3, <3>1 DEF FileInv, Reclaimed
  <2> QED BY <2>2, <2>3
<1> QED BY <1>5, <1>8, <1>9, <1>10, LinkedSame DEF FileParts, FileInv

\* iupdat() for update(): the device knows what the slot does.
LEMMA UpdatedFiles ==
  ASSUME TableInv, FileInv, Values, Values', ReadErrors = {FALSE},
         NEW p \in Procs, Private(p), Updated(p)
  PROVE  FileParts'
<1> DEFINE s == ref[p]
           j == i_number[s]
<1>0. /\ pc \in [Procs -> Places] /\ i_mode \in [Slots -> BOOLEAN] /\ i_nlink \in [Slots -> Int]
      /\ dinode \in [Inos -> [mode : BOOLEAN, nlink : Int]]
      /\ i_flag \in [Slots -> SUBSET {"ILOCK", "IWANT", "IUPD"}]
      /\ i_number \in [Slots -> 0 .. Inodes]
  BY DEF TableInv, TypeOK
<1>1. /\ s \in Slots /\ j \in Inos /\ pc[p] = "update" /\ i_number[s] = j /\ j # 0
      /\ \A t \in Slots : t # s => i_number[t] # j
  BY AtSlot DEF Updated, At, LockPlaces, Inos
<1>2. /\ dinode' = [dinode EXCEPT ![j] = [mode |-> i_mode[s], nlink |-> i_nlink[s]]]
      /\ i_flag' = [i_flag EXCEPT ![s] = @ \ {"IUPD"}]
      /\ pc' = [pc EXCEPT ![p] = "iput"]
      /\ UNCHANGED <<i_number, i_mode, i_nlink, entry, ref>>
  BY DEF Updated, Written, Goto
<1> HIDE DEF s, j
<1>3. \A t \in Slots : Reading(t)' <=> Reading(t)
  BY <1>0, <1>1, <1>2, ReadingSame
<1>4. ~Reading(s)
  BY <1>1, HeldFile DEF LockPlaces, s
<1>5. Newborn' = Newborn
  BY <1>0, <1>1, <1>2, NewbornSame
<1>6. /\ dinode'[j] = [mode |-> i_mode[s], nlink |-> i_nlink[s]]
      /\ \A i \in Inos : i # j => dinode'[i] = dinode[i]
  BY <1>0, <1>1, <1>2
<1>7. ValuesKept
  <2> SUFFICES ASSUME NEW i \in Inos
               PROVE  ModeOf(i)' = ModeOf(i) /\ NlinkOf(i)' = NlinkOf(i)
    BY DEF ValuesKept
  <2>0. i # 0
    BY DEF Inos
  <2>1. CASE \A t \in Slots : i_number[t] = i => Reading(t)
    <3>1. i # j
      BY <1>1, <1>4, <2>1
    <3> QED BY <1>2, <1>3, <1>6, <2>1, <3>1 DEF Values
  <2>2. ASSUME NEW t \in Slots, i_number[t] = i, ~Reading(t)
        PROVE  ModeOf(i)' = ModeOf(i) /\ NlinkOf(i)' = NlinkOf(i)
    BY <1>2, <1>3, <2>0, <2>2 DEF Values
  <2> QED BY <2>1, <2>2
<1>8. Clean'
  <2> SUFFICES ASSUME NEW t \in Slots, i_number'[t] # 0, ~Reading(t)', "IUPD" \notin i_flag'[t]
               PROVE  dinode'[i_number'[t]] = [mode |-> i_mode'[t], nlink |-> i_nlink'[t]]
    BY DEF Clean
  <2>1. CASE t = s
    BY <1>1, <1>2, <1>6, <2>1
  <2>2. CASE t # s
    <3>1. i_number[t] \in Inos /\ i_number[t] # j
      BY <1>0, <1>1, <1>2, <2>2, InodeAssumption DEF Inos
    <3>2. "IUPD" \notin i_flag[t] /\ ~Reading(t)
      BY <1>0, <1>2, <1>3, <2>2
    <3> QED BY <1>2, <1>6, <3>1, <3>2 DEF FileInv, Clean
  <2> QED BY <2>1, <2>2
<1>9. Reclaimed'
  <2> SUFFICES ASSUME NEW i \in ROOTINO .. Inodes, \A n \in Names : entry'[n] # i, InCore(i)' = {}
               PROVE  ~dinode'[i].mode
    BY DEF Reclaimed
  <2>1. i \in Inos /\ i # j
    BY <1>1, <1>2, InodeAssumption DEF Inos, InCore
  <2> QED BY <1>2, <1>6, <2>1 DEF FileInv, Reclaimed, InCore
<1> QED BY <1>2, <1>5, <1>7, <1>8, <1>9, LinkedSame DEF FileParts, FileInv

\* The fields of the slot p has locked are changed and marked to be written.
LEMMA MarkedFiles ==
  ASSUME TableInv, FileInv, Values, Values', NEW p \in Procs, Private(p),
         pc[p] \in LockPlaces \ {"bread"}, pc'[p] # "bread", NEW s \in Slots, s = ref[p],
         "IUPD" \in i_flag'[s], UNCHANGED <<i_number, dinode>>,
         \A t \in Slots : t # s => /\ i_mode'[t] = i_mode[t] /\ i_nlink'[t] = i_nlink[t]
                                   /\ "IUPD" \in i_flag[t] => "IUPD" \in i_flag'[t]
  PROVE  /\ Clean'
         /\ ModeOf(i_number[s])' = i_mode'[s] /\ NlinkOf(i_number[s])' = i_nlink'[s]
         /\ \A i \in Inos : i # i_number[s] => ModeOf(i)' = ModeOf(i) /\ NlinkOf(i)' = NlinkOf(i)
<1>1. \A t \in Slots : Reading(t)' <=> Reading(t)
  BY ReadingSame
<1>2. ~Reading(s) /\ i_number[s] \in Inos /\ i_number[s] # 0
  BY HeldFile DEF Inos
<1>3. Clean'
  BY <1>1 DEF FileInv, Clean
<1>4. ModeOf(i_number[s])' = i_mode'[s] /\ NlinkOf(i_number[s])' = i_nlink'[s]
  BY <1>1, <1>2 DEF Values
<1>5. ASSUME NEW i \in Inos, i # i_number[s]
      PROVE  ModeOf(i)' = ModeOf(i) /\ NlinkOf(i)' = NlinkOf(i)
  <2>0. i # 0
    BY DEF Inos
  <2>1. CASE \A t \in Slots : i_number[t] = i => Reading(t)
    BY <1>1, <2>1 DEF Values
  <2>2. ASSUME NEW t \in Slots, i_number[t] = i, ~Reading(t)
        PROVE  ModeOf(i)' = ModeOf(i) /\ NlinkOf(i)' = NlinkOf(i)
    BY <1>1, <1>5, <2>0, <2>2 DEF Values
  <2> QED BY <2>1, <2>2
<1> QED BY <1>3, <1>4, <1>5

\* itrunc() has freed the blocks of a file without a name.
LEMMA TruncatedFiles ==
  ASSUME TableInv, FileInv, Values, Values', NEW p \in Procs, Private(p), Itrunc(p)
  PROVE  FileParts'
<1>0. /\ pc \in [Procs -> Places] /\ i_mode \in [Slots -> BOOLEAN]
      /\ i_flag \in [Slots -> SUBSET {"ILOCK", "IWANT", "IUPD"}]
  BY DEF TableInv, TypeOK
<1>a. ref[p] \in Slots /\ i_number[ref[p]] \in Inos /\ pc[p] = "itrunc"
  BY AtSlot DEF Itrunc, At, LockPlaces
<1>b. PICK s \in Slots : s = ref[p]
  BY <1>a
<1>1. /\ i_mode' = [i_mode EXCEPT ![s] = FALSE]
      /\ i_flag' = [i_flag EXCEPT ![s] = @ \cup {"IUPD"}]
      /\ pc'[p] = "iupdat" /\ UNCHANGED <<i_number, i_nlink, dinode, entry>>
  BY <1>0, <1>b DEF Itrunc, Pause
<1>2. /\ Clean'
      /\ ModeOf(i_number[s])' = i_mode'[s] /\ NlinkOf(i_number[s])' = i_nlink'[s]
      /\ \A i \in Inos : i # i_number[s] => ModeOf(i)' = ModeOf(i) /\ NlinkOf(i)' = NlinkOf(i)
  BY <1>0, <1>1, <1>a, <1>b, MarkedFiles, ZenonT(40) DEF LockPlaces
<1>c. PICK j \in Inos : j = i_number[s] /\ j = i_number'[s]
  BY <1>1, <1>a, <1>b
<1>3. NlinkOf(j) = 0 /\ NlinkOf(j)' = 0
  BY <1>1, <1>2, <1>a, <1>b, <1>c, HeldFile DEF FileInv, Truncated, LockPlaces
<1>4. Newborn' = Newborn
  BY <1>1, <1>a, NewbornSame
<1>5. Linked'
  <2> SUFFICES ASSUME NEW i \in Inos
               PROVE  /\ NlinkOf(i)' = IF Named(i)' \/ i \in Newborn' THEN 1 ELSE 0
                      /\ NlinkOf(i)' = 1 => ModeOf(i)'
    BY DEF Linked
  <2>1. /\ NlinkOf(i) = IF Named(i) \/ i \in Newborn THEN 1 ELSE 0
        /\ NlinkOf(i) = 1 => ModeOf(i)
    BY DEF FileInv, Linked
  <2>2. Named(i)' <=> Named(i)
    BY <1>1 DEF Named
  <2>3. CASE i = j
    BY <1>3, <1>4, <2>1, <2>2, <2>3
  <2>4. CASE i # j
    BY <1>2, <1>4, <1>c, <2>1, <2>2, <2>4
  <2> QED BY <2>3, <2>4
<1>6. NamedOnce' /\ Reclaimed'
  BY <1>1, <1>4 DEF FileInv, NamedOnce, Reclaimed, InCore
<1> QED BY <1>2, <1>5, <1>6 DEF FileParts

\* maknode() makes a file of an inode that nobody names.
LEMMA MaknodeFiles ==
  ASSUME TableInv, FileInv, Values, Values', NEW p \in Procs, Private(p), Maknode(p)
  PROVE  FileParts'
<1>0. /\ pc \in [Procs -> Places] /\ i_mode \in [Slots -> BOOLEAN] /\ i_nlink \in [Slots -> Int]
      /\ i_flag \in [Slots -> SUBSET {"ILOCK", "IWANT", "IUPD"}]
  BY DEF TableInv, TypeOK
<1>a. ref[p] \in Slots /\ i_number[ref[p]] \in Inos /\ pc[p] = "got"
  BY AtSlot DEF Maknode, At, LockPlaces
<1>b. PICK s \in Slots : s = ref[p]
  BY <1>a
<1>c. PICK j \in Inos : j = i_number[s]
  BY <1>a, <1>b
<1>1. /\ i_mode' = [i_mode EXCEPT ![s] = TRUE] /\ i_nlink' = [i_nlink EXCEPT ![s] = 1]
      /\ i_flag' = [i_flag EXCEPT ![s] = @ \cup {"IUPD"}]
      /\ pc'[p] = "wdir" /\ UNCHANGED <<i_number, dinode, entry, ref>> /\ ~i_mode[s]
  BY <1>0, <1>b DEF Maknode, Pause, Taken
<1>2. /\ Clean'
      /\ ModeOf(i_number[s])' = i_mode'[s] /\ NlinkOf(i_number[s])' = i_nlink'[s]
      /\ \A i \in Inos : i # i_number[s] => ModeOf(i)' = ModeOf(i) /\ NlinkOf(i)' = NlinkOf(i)
  BY <1>0, <1>1, <1>a, <1>b, MarkedFiles DEF LockPlaces
<1>3. ModeOf(j)' /\ NlinkOf(j)' = 1
  <2>1. i_number'[s] = j /\ i_mode'[s] /\ i_nlink'[s] = 1
    BY <1>0, <1>1, <1>c
  <2> QED BY <1>2, <1>c, <2>1
<1>4. ~Named(j) /\ j \notin Newborn
  <2>1. ~ModeOf(j)
    BY <1>1, <1>a, <1>b, <1>c, HeldFile DEF LockPlaces
  <2> QED BY <2>1 DEF FileInv, Linked
<1>5. Newborn' = Newborn \cup {j}
  <2>1. \A q \in Procs : pc'[q] = "wdir" <=> pc[q] = "wdir" \/ q = p
    BY <1>1 DEF Private
  <2>2. \A q \in Procs : i_number'[ref'[q]] = i_number[ref[q]]
    BY <1>1
  <2>3. i_number[ref[p]] = j /\ pc[p] # "wdir"
    BY <1>a, <1>b, <1>c
  <2> QED BY <2>1, <2>2, <2>3 DEF Newborn
<1>6. Linked'
  <2> SUFFICES ASSUME NEW i \in Inos
               PROVE  /\ NlinkOf(i)' = IF Named(i)' \/ i \in Newborn' THEN 1 ELSE 0
                      /\ NlinkOf(i)' = 1 => ModeOf(i)'
    BY DEF Linked
  <2>1. /\ NlinkOf(i) = IF Named(i) \/ i \in Newborn THEN 1 ELSE 0
        /\ NlinkOf(i) = 1 => ModeOf(i)
    BY DEF FileInv, Linked
  <2>2. Named(i)' <=> Named(i)
    BY <1>1 DEF Named
  <2>3. CASE i = j
    BY <1>3, <1>5, <2>3
  <2>4. CASE i # j
    BY <1>2, <1>5, <1>c, <2>1, <2>2, <2>4
  <2> QED BY <2>3, <2>4
<1>7. NamedOnce'
  BY <1>1, <1>4, <1>5 DEF FileInv, NamedOnce, Named
<1>8. Reclaimed'
  BY <1>1 DEF FileInv, Reclaimed, InCore
<1> QED BY <1>2, <1>6, <1>7, <1>8 DEF FileParts

\* unlink() takes away the one name of the file it has locked.
LEMMA UnlinkedFiles ==
  ASSUME TableInv, FileInv, Values, Values', NEW p \in Procs, Private(p), Unlinked(p)
  PROVE  FileParts'
<1>0. /\ pc \in [Procs -> Places] /\ i_nlink \in [Slots -> Int] /\ entry \in [Names -> 0 .. Inodes]
      /\ i_flag \in [Slots -> SUBSET {"ILOCK", "IWANT", "IUPD"}]
  BY DEF TableInv, TypeOK
<1>a. ref[p] \in Slots /\ i_number[ref[p]] \in Inos /\ pc[p] = "unlink"
  BY AtSlot DEF Unlinked, At, LockPlaces
<1>b. PICK s \in Slots : s = ref[p]
  BY <1>a
<1>c. PICK j \in Inos : j = i_number[s]
  BY <1>a, <1>b
<1>d. DirectoryAt(p) /\ \A n, m \in Names : dlock[n] = p /\ dlock[m] = p => n = m
  BY InodeAssumption DEF FileInv, Directories
<1>e. PICK k \in Names : dlock[k] = p /\ entry[k] = j
  BY <1>a, <1>b, <1>c, <1>d DEF DirectoryAt, Number
<1>1. /\ i_nlink' = [i_nlink EXCEPT ![s] = @ - 1]
      /\ i_flag' = [i_flag EXCEPT ![s] = @ \cup {"IUPD"}]
      /\ pc'[p] = "iput" /\ UNCHANGED <<i_number, i_mode, dinode, ref>>
  BY <1>0, <1>b DEF Unlinked, Goto
<1>2. entry'[k] = 0 /\ \A n \in Names : n # k => entry'[n] = entry[n]
  BY <1>d, <1>e DEF Unlinked
<1>3. /\ Clean'
      /\ ModeOf(i_number[s])' = i_mode'[s] /\ NlinkOf(i_number[s])' = i_nlink'[s]
      /\ \A i \in Inos : i # i_number[s] => ModeOf(i)' = ModeOf(i) /\ NlinkOf(i)' = NlinkOf(i)
  BY <1>0, <1>1, <1>a, <1>b, MarkedFiles DEF LockPlaces
<1>4. j # 0 /\ i_number'[s] = j
  BY <1>1, <1>c DEF Inos
<1>5. NlinkOf(j)' = 0
  <2>1. NlinkOf(j) = i_nlink[s]
    BY <1>a, <1>b, <1>c, HeldFile DEF LockPlaces
  <2>2. NlinkOf(j) = 1
    BY <1>e DEF FileInv, Linked, Named
  <2>3. i_nlink'[s] = 0
    BY <1>0, <1>1, <2>1, <2>2
  <2> QED BY <1>3, <1>4, <1>c, <2>3
<1>6. Newborn' = Newborn
  BY <1>1, <1>a, NewbornSame
<1>7. /\ \A n \in Names : entry'[n] # j
      /\ \A i \in Inos : i # j => (Named(i)' <=> Named(i))
      /\ j \notin Newborn
  <2>1. \A n \in Names : n # k => entry[n] # j
    BY <1>4, <1>e DEF FileInv, NamedOnce
  <2>2. j \notin Newborn
    BY <1>e DEF FileInv, NamedOnce
  <2>3. ASSUME NEW i \in Inos, i # j PROVE Named(i)' <=> Named(i)
    <3>1. i # 0
      BY DEF Inos
    <3> QED BY <1>2, <1>e, <2>3, <3>1 DEF Named
  <2> QED BY <1>2, <1>4, <2>1, <2>2, <2>3
<1>8. Linked'
  <2> SUFFICES ASSUME NEW i \in Inos
               PROVE  /\ NlinkOf(i)' = IF Named(i)' \/ i \in Newborn' THEN 1 ELSE 0
                      /\ NlinkOf(i)' = 1 => ModeOf(i)'
    BY DEF Linked
  <2>1. /\ NlinkOf(i) = IF Named(i) \/ i \in Newborn THEN 1 ELSE 0
        /\ NlinkOf(i) = 1 => ModeOf(i)
    BY DEF FileInv, Linked
  <2>2. CASE i = j
    BY <1>5, <1>6, <1>7, <2>2 DEF Named
  <2>3. CASE i # j
    BY <1>3, <1>6, <1>7, <1>c, <2>1, <2>3
  <2> QED BY <2>2, <2>3
<1>9. 0 \notin Newborn
  <2>1. \A q \in Procs : pc[q] = "wdir" => i_number[ref[q]] \in Inos
    BY TypeFacts DEF LockPlaces
  <2> QED BY <2>1 DEF Newborn, Inos
<1>10. NamedOnce'
  BY <1>2, <1>6, <1>9 DEF FileInv, NamedOnce
<1>11. Reclaimed'
  <2> SUFFICES ASSUME NEW i \in ROOTINO .. Inodes, \A n \in Names : entry'[n] # i, InCore(i)' = {}
               PROVE  ~dinode'[i].mode
    BY DEF Reclaimed
  <2>1. InCore(i) = {} /\ i # j
    BY <1>1, <1>4 DEF InCore
  <2>2. \A n \in Names : entry[n] # i
    BY <1>2, <1>e, <2>1
  <2> QED BY <1>1, <2>1, <2>2 DEF FileInv, Reclaimed
<1> QED BY <1>3, <1>8, <1>10, <1>11 DEF FileParts

\* wdir() enters the new file in the directory it is made in.
LEMMA WdirFiles ==
  ASSUME TableInv, FileInv, Values, Values', NEW p \in Procs, Private(p), Wdir(p)
  PROVE  FileParts'
<1>0. /\ pc \in [Procs -> Places] /\ entry \in [Names -> 0 .. Inodes]
      /\ i_flag \in [Slots -> SUBSET {"ILOCK", "IWANT", "IUPD"}]
  BY DEF TableInv, TypeOK
<1>a. /\ ref[p] \in Slots /\ i_number[ref[p]] \in Inos /\ pc[p] = "wdir"
      /\ \A q \in Procs : q # p /\ pc[q] \in LockPlaces => i_number[ref[q]] # i_number[ref[p]]
  BY AtSlot DEF Wdir, At, LockPlaces
<1>b. PICK j \in Inos : j = i_number[ref[p]]
  BY <1>a
<1>d. DirectoryAt(p) /\ \A n, m \in Names : dlock[n] = p /\ dlock[m] = p => n = m
  BY InodeAssumption DEF FileInv, Directories
<1>e. PICK k \in Names : dlock[k] = p /\ entry[k] = 0
  BY <1>a, <1>d DEF DirectoryAt
<1>1. /\ i_flag' = [i_flag EXCEPT ![ref[p]] = @ \ {"ILOCK", "IWANT"}]
      /\ pc'[p] = "user" /\ UNCHANGED <<i_number, i_mode, i_nlink, dinode, ref>>
  BY <1>0 DEF Wdir, Pause, prele
<1>2. entry'[k] = j /\ \A n \in Names : n # k => entry'[n] = entry[n]
  BY <1>b, <1>d, <1>e DEF Wdir
<1>3. \A t \in Slots : Reading(t)' <=> Reading(t)
  BY <1>1, <1>a, ReadingSame
<1>4. ValuesKept
  <2> SUFFICES ASSUME NEW i \in Inos
               PROVE  ModeOf(i)' = ModeOf(i) /\ NlinkOf(i)' = NlinkOf(i)
    BY DEF ValuesKept
  <2>0. i # 0
    BY DEF Inos
  <2>1. CASE \A t \in Slots : i_number[t] = i => Reading(t)
    BY <1>1, <1>3, <2>1 DEF Values
  <2>2. ASSUME NEW t \in Slots, i_number[t] = i, ~Reading(t)
        PROVE  ModeOf(i)' = ModeOf(i) /\ NlinkOf(i)' = NlinkOf(i)
    BY <1>1, <1>3, <2>0, <2>2 DEF Values
  <2> QED BY <2>1, <2>2
<1>5. Clean'
  <2>1. \A t \in Slots : "IUPD" \in i_flag[t] => "IUPD" \in i_flag'[t]
    BY <1>0, <1>1, <1>a
  <2> QED BY <1>1, <1>3, <2>1 DEF FileInv, Clean
<1>6. j \in Newborn /\ Newborn' = Newborn \ {j} /\ 0 \notin Newborn
  <2>1. \A q \in Procs : pc'[q] = "wdir" <=> pc[q] = "wdir" /\ q # p
    BY <1>1 DEF Private
  <2>2. \A q \in Procs : i_number'[ref'[q]] = i_number[ref[q]]
    BY <1>1
  <2>3. i_number[ref[p]] = j /\ pc[p] = "wdir"
    BY <1>a, <1>b
  <2>4. \A q \in Procs : q # p /\ pc[q] = "wdir" => i_number[ref[q]] # j
    BY <1>a, <1>b DEF LockPlaces
  <2>5. \A q \in Procs : pc[q] = "wdir" => i_number[ref[q]] \in Inos
    BY TypeFacts DEF LockPlaces
  <2> QED BY <2>1, <2>2, <2>3, <2>4, <2>5 DEF Newborn, Inos
<1>7. \A n \in Names : entry[n] # j
  BY <1>6 DEF FileInv, NamedOnce
<1>8. ASSUME NEW i \in Inos
      PROVE  (Named(i)' \/ i \in Newborn') <=> (Named(i) \/ i \in Newborn)
  <2>1. i # 0
    BY DEF Inos
  <2> QED BY <1>2, <1>6, <1>7, <1>e, <2>1 DEF Named
<1>9. Linked'
  BY <1>4, <1>8 DEF FileInv, Linked, ValuesKept
<1>10. NamedOnce'
  BY <1>2, <1>6, <1>7 DEF FileInv, NamedOnce
<1>11. Reclaimed'
  <2> SUFFICES ASSUME NEW i \in ROOTINO .. Inodes, \A n \in Names : entry'[n] # i, InCore(i)' = {}
               PROVE  ~dinode'[i].mode
    BY DEF Reclaimed
  <2>1. i # 0 /\ InCore(i) = {}
    BY <1>1, InodeAssumption DEF InCore
  <2>2. \A n \in Names : entry[n] # i
    BY <1>2, <1>e, <2>1
  <2> QED BY <1>1, <2>1, <2>2 DEF FileInv, Reclaimed
<1> QED BY <1>5, <1>9, <1>10, <1>11 DEF FileParts

\* Every step keeps the files.
LEMMA FilesStep ==
  ASSUME TableInv, FileInv, Values, Values', ReadErrors = {FALSE},
         NEW p \in Procs, User(p) \/ Kernel(p)
  PROVE  FileParts'
<1> USE DEF At, Goto, Pause
<1>0. /\ pc \in [Procs -> Places] /\ ref \in [Procs -> 0 .. NINODE]
      /\ i_flag \in [Slots -> SUBSET {"ILOCK", "IWANT", "IUPD"}]
  BY DEF TableInv, TypeOK
<1>1. Private(p)
  BY PrivateStep
<1>2. FileParts
  BY DEF FileInv, FileParts
<1>3. ASSUME IgetLocked(p) PROVE FileParts'
  <2>1. First(InCore(ino[p])) \in Slots
    BY <1>3, FirstIn DEF IgetLocked, InCore
  <2> QED BY <1>0, <1>1, <1>2, <1>3, <2>1, StillFiles DEF IgetLocked, Want
<1>4. ASSUME IgetHit(p) PROVE FileParts'
  BY <1>0, <1>1, <1>2, <1>4, StillFiles DEF IgetHit
<1>5. ASSUME IgetFull(p) PROVE FileParts'
  BY <1>0, <1>1, <1>2, <1>5, StillFiles DEF IgetFull, itab
<1>6. ASSUME IgetMiss(p) PROVE FileParts'
  BY <1>1, <1>6, MissFiles
<1>7. ASSUME IgetRead(p) PROVE FileParts'
  BY <1>1, <1>7, ReadFiles
<1>8. ASSUME IputMore(p) PROVE FileParts'
  BY <1>0, <1>1, <1>2, <1>8, StillFiles DEF IputMore, prele, Returned
<1>9. ASSUME IputLast(p) PROVE FileParts'
  BY <1>0, <1>1, <1>2, <1>9, StillFiles DEF IputLast
<1>10. ASSUME Itrunc(p) PROVE FileParts'
  BY <1>1, <1>10, TruncatedFiles
<1>11. ASSUME IputUpdate(p) PROVE FileParts'
  BY <1>0, <1>1, <1>2, <1>11, StillFiles DEF IputUpdate
<1>12. ASSUME IputClean(p) PROVE FileParts'
  <2>1. /\ ref[p] \in Slots /\ i_number[ref[p]] \in Inos /\ i_number[ref[p]] # 0
        /\ ~Reading(ref[p])
    BY <1>12, AtSlot, HeldFile DEF IputClean, LockPlaces, Inos
  <2>2. dinode[i_number[ref[p]]] = [mode |-> i_mode[ref[p]], nlink |-> i_nlink[ref[p]]]
    BY <1>12, <2>1 DEF IputClean, FileInv, Clean
  <2>3. /\ dinode' = dinode /\ Release(p) /\ UNCHANGED <<i_mode, i_nlink, entry>>
        /\ i_nlink[ref[p]] > 0 /\ pc[p] = "iput"
    BY <1>12 DEF IputClean
  <2> QED BY <1>1, <2>2, <2>3, ReleaseFiles
<1>13. ASSUME IputWritten(p) PROVE FileParts'
  <2>0. dinode \in [Inos -> [mode : BOOLEAN, nlink : Int]]
    BY DEF TableInv, TypeOK
  <2>1. ref[p] \in Slots /\ i_number[ref[p]] \in Inos
    BY <1>13, AtSlot DEF IputWritten, LockPlaces
  <2>2. dinode' = [dinode EXCEPT ![i_number[ref[p]]] =
                     [mode |-> i_mode[ref[p]], nlink |-> i_nlink[ref[p]]]]
    BY <1>13 DEF IputWritten, Written
  <2>3. /\ dinode'[i_number[ref[p]]] = [mode |-> i_mode[ref[p]], nlink |-> i_nlink[ref[p]]]
        /\ \A i \in Inos : i # i_number[ref[p]] => dinode'[i] = dinode[i]
    BY <2>0, <2>1, <2>2
  <2>4. Release(p) /\ UNCHANGED <<i_mode, i_nlink, entry>> /\ pc[p] = "iupdat"
    BY <1>13 DEF IputWritten
  <2>5. i_nlink[ref[p]] > 0 \/ ~i_mode[ref[p]]
    BY <2>4 DEF FileInv, Truncated
  <2> QED BY <1>1, <2>3, <2>4, <2>5, ReleaseFiles
<1>14. ASSUME IallocWait(p) PROVE FileParts'
  BY <1>0, <1>1, <1>2, <1>14, StillFiles DEF IallocWait, itab
<1>15. ASSUME IallocPop(p) PROVE FileParts'
  BY <1>0, <1>1, <1>2, <1>15, StillFiles DEF IallocPop, InLoop, itab
<1>16. ASSUME IallocScan(p) PROVE FileParts'
  BY <1>0, <1>1, <1>2, <1>16, StillFiles DEF IallocScan, InLoop, itab
<1>17. ASSUME ScanBlock(p) PROVE FileParts'
  BY <1>0, <1>1, <1>2, <1>17, StillFiles DEF ScanBlock, itab
<1>18. ASSUME ScanDone(p) PROVE FileParts'
  BY <1>0, <1>1, <1>2, <1>18, StillFiles DEF ScanDone, itab
<1>19. ASSUME NEW n \in Names, Open(p, n) PROVE FileParts'
  BY <1>0, <1>1, <1>2, <1>19, StillFiles DEF Open, Enter, itab
<1>20. ASSUME NEW n \in Names, Unlink(p, n) PROVE FileParts'
  BY <1>0, <1>1, <1>2, <1>20, StillFiles DEF Unlink, Enter, itab
<1>21. ASSUME NEW n \in Names, Creat(p, n) PROVE FileParts'
  BY <1>0, <1>1, <1>2, <1>21, StillFiles DEF Creat, Enter, itab
<1>22. ASSUME Opened(p) PROVE FileParts'
  BY <1>0, <1>1, <1>2, <1>22, StillFiles DEF Opened, prele
<1>23. ASSUME OpenRefused(p) PROVE FileParts'
  BY <1>0, <1>1, <1>2, <1>23, StillFiles DEF OpenRefused, itab
<1>24. ASSUME CreatTaken(p) PROVE FileParts'
  BY <1>0, <1>1, <1>2, <1>24, StillFiles DEF CreatTaken, itab
<1>25. ASSUME Maknode(p) PROVE FileParts'
  BY <1>1, <1>25, MaknodeFiles
<1>26. ASSUME Wdir(p) PROVE FileParts'
  BY <1>1, <1>26, WdirFiles
<1>27. ASSUME UnlinkStart(p) PROVE FileParts'
  BY <1>0, <1>1, <1>2, <1>27, StillFiles DEF UnlinkStart, itab
<1>28. ASSUME Unlinked(p) PROVE FileParts'
  BY <1>1, <1>28, UnlinkedFiles
<1>29. ASSUME PlockWait(p) PROVE FileParts'
  BY <1>0, <1>1, <1>2, <1>29, StillFiles DEF PlockWait, HasFile, Want
<1>30. ASSUME Rdwr(p) PROVE FileParts'
  BY <1>0, <1>1, <1>2, <1>30, StillFiles DEF Rdwr, plock, HasFile
<1>31. ASSUME Close(p) PROVE FileParts'
  BY <1>0, <1>1, <1>2, <1>31, StillFiles DEF Close, plock, HasFile
<1>32. ASSUME RdwrDone(p) PROVE FileParts'
  BY <1>0, <1>1, <1>2, <1>32, StillFiles DEF RdwrDone
<1>33. ASSUME NEW s \in Slots, Update(p, s) PROVE FileParts'
  BY <1>0, <1>1, <1>2, <1>33, StillFiles DEF Update
<1>34. ASSUME Updated(p) PROVE FileParts'
  BY <1>1, <1>34, UpdatedFiles
<1> QED
  BY <1>3, <1>4, <1>5, <1>6, <1>7, <1>8, <1>9, <1>10, <1>11, <1>12, <1>13, <1>14, <1>15, <1>16, <1>17, <1>18, <1>19, <1>20, <1>21, <1>22, <1>23, <1>24, <1>25, <1>26, <1>27, <1>28, <1>29, <1>30, <1>31, <1>32, <1>33, <1>34
     DEF User, Kernel, Iget, Iput, Ialloc

\* The files are kept when the system starts.
LEMMA FilesInit == Init => FileInv
<1> SUFFICES ASSUME Init PROVE FileInv
  OBVIOUS
<1>0. TableInv /\ NoError
  BY TableInit DEF Init, NoError
<1>1. Directories
  BY InodeAssumption DEF Init, Directories, DirectoryAt
<1>2. Clean /\ Truncated
  BY DEF Init, Clean, Truncated
<1>3. Newborn = {}
  BY DEF Init, Newborn
<1>4. \A i \in Inos : NlinkOf(i) = 0 /\ ~Named(i)
  <2> SUFFICES ASSUME NEW i \in Inos PROVE NlinkOf(i) = 0 /\ ~Named(i)
    OBVIOUS
  <2>1. i # 0
    BY DEF Inos
  <2>2. NlinkOf(i) = dinode[i].nlink
    BY <1>0, <2>1, ValuesHold DEF Values, Init
  <2> QED BY <2>1, <2>2 DEF Init, Named
<1>5. Linked /\ NamedOnce
  BY <1>3, <1>4 DEF Linked, NamedOnce, Init
<1>6. Reclaimed
  <2> SUFFICES ASSUME NEW i \in ROOTINO .. Inodes PROVE ~dinode[i].mode
    BY DEF Reclaimed
  <2>1. i \in Inos /\ ~(i < ROOTINO)
    BY InodeAssumption DEF Inos
  <2> QED BY <2>1 DEF Init
<1> QED BY <1>1, <1>2, <1>5, <1>6 DEF FileInv

\* Every step keeps the files, when every inode can be read.
LEMMA FileInvStep ==
  ASSUME ReadErrors = {FALSE}
  PROVE  TableInv /\ FileInv /\ [Next]_vars => FileInv'
<1> SUFFICES ASSUME TableInv, FileInv, [Next]_vars PROVE FileInv'
  OBVIOUS
<1>1. CASE UNCHANGED vars
  <2> USE <1>1 DEF vars
  <2>1. Directories' /\ Truncated'
    BY DEF FileInv, Directories, DirectoryAt, Number, Truncated
  <2>2. /\ \A i \in Inos : ModeOf(i)' = ModeOf(i) /\ NlinkOf(i)' = NlinkOf(i)
        /\ Newborn' = Newborn
    BY DEF Newborn, NlinkOf, ModeOf, Loaded, InCore, Users
  <2>3. Clean' /\ NamedOnce'
    BY <2>2 DEF FileInv, Clean, NamedOnce, Reading
  <2>4. Linked'
    BY <2>2 DEF FileInv, Linked, Named
  <2>5. Reclaimed'
    BY DEF FileInv, Reclaimed, InCore
  <2> QED BY <2>1, <2>3, <2>4, <2>5 DEF FileInv
<1>2. ASSUME NEW p \in Procs, User(p) \/ Kernel(p) PROVE FileInv'
  <2>1. Directories' /\ Truncated'
    BY <1>2, DirectoriesStep
  <2>2. TableInv'
    BY TableStep
  <2>3. NoError /\ NoError'
    BY <2>1 DEF FileInv, Directories, DirectoryAt, NoError
  <2>4. Values
    BY <2>3, ValuesHold
  <2>5. (TableInv /\ NoError => Values)'
    BY ValuesHold, PTL
  <2>6. FileParts'
    BY <1>2, <2>2, <2>3, <2>4, <2>5, FilesStep
  <2> QED BY <2>1, <2>6 DEF FileInv, FileParts
<1> QED BY <1>1, <1>2 DEF Next

-----------------------------------------------------------------------------
(* The theorems about the files.                                           *)

\* The inductive invariant of the files, when bread() never fails.
THEOREM FileInvariance ==
  ASSUME ReadErrors = {FALSE}
  PROVE  Spec => [](TableInv /\ FileInv)
<1>1. TableInv /\ FileInv /\ [Next]_vars => TableInv' /\ FileInv'
  BY TableStep, FileInvStep
<1> QED BY <1>1, TableInit, FilesInit, PTL DEF Spec

\* Neither iput() nor ialloc() frees a file that has a name or gives its inode to a
\* second one: creat(), unlink(), open() and close() may run in any order, and
\* s_inode may hold numbers that are no longer free.
THEOREM FileKeptCorrect ==
  ASSUME ReadErrors = {FALSE}
  PROVE  Spec => []FileKept
<1>1. TableInv /\ FileInv => FileKept
  <2> SUFFICES ASSUME TableInv, FileInv PROVE FileKept
    OBVIOUS
  <2>1. ASSUME NEW n \in Names, entry[n] # 0 PROVE ModeOf(entry[n]) /\ NlinkOf(entry[n]) = 1
    <3>1. entry[n] \in Inos
      BY <2>1, InodeAssumption DEF TableInv, TypeOK, Inos
    <3> QED BY <3>1 DEF FileInv, Linked, Named
  <2> QED BY <2>1 DEF FileInv, NamedOnce, FileKept
<1> QED BY <1>1, FileInvariance, PTL

\* iput() leaves no inode allocated that nobody names or refers to.
THEOREM ReclaimedCorrect ==
  ASSUME ReadErrors = {FALSE}
  PROVE  Spec => []Reclaimed
<1>1. FileInv => Reclaimed
  BY DEF FileInv
<1> QED BY <1>1, FileInvariance, PTL
=============================================================================
