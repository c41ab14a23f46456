---------------------------- MODULE AllocProofs ----------------------------
(***************************************************************************)
(* Proofs about the free block list of a file system, for any number of    *)
(* processes and blocks, any size of a group, with bad block numbers in    *)
(* the groups and with link blocks that cannot be read.                    *)
(***************************************************************************)
EXTENDS Alloc, SequenceTheorems, WellFoundedInduction, TLAPS

(***************************************************************************)
(* The inductive invariant.                                                *)
(***************************************************************************)

\* What a process has in its hands at each place, and where it may sleep.
ControlAt(p) ==
  /\ pc[p] \in {"user", "alloc", "update", "supwrite"} => hold[p] = NULL
  /\ pc[p] \in {"bread", "getblk", "spill", "bwrite"} => hold[p] \in Blocks
  /\ pc[p] = "free" => hold[p] # NULL
  /\ p \in asleep => pc[p] \in {"alloc", "free"}

Control == \A p \in Procs : ControlAt(p)

\* The super block's group is empty while its link is in the hands of a
\* process, and full when a process is about to spill it.
Exchange ==
  \A p \in Procs :
    /\ pc[p] \in {"bread", "bwrite"} => s_free = <<>>
    /\ pc[p] = "spill" => s_free # <<>>

\* The number 0 that ends the chain is the first of its group.
NullFirst ==
  /\ \A i \in DOMAIN s_free : s_free[i] = NULL => i = 1
  /\ \A k \in DOMAIN links : \A i \in DOMAIN group[links[k]] :
       group[links[k]][i] = NULL => i = 1

\* While s_fmod is off the disk's super block has the group, unless a process
\* that will set s_fmod has changed it, or it ran out: then the blocks that the
\* disk's super block still has are lost or in the hands of the process that
\* reads the link.
SuperKept ==
  ~s_fmod =>
    \/ \E q \in Procs : pc[q] \in {"getblk", "spill", "bwrite"}
    \/ super = s_free
    \/ /\ s_free = <<>>
       /\ \A i \in DOMAIN super : super[i] \in Blocks =>
            super[i] \in lost \/ \E q \in Procs : pc[q] = "bread" /\ hold[q] = super[i]

IInv ==
  /\ TypeOK
  /\ Control
  /\ LockExact
  /\ Exchange
  /\ NullFirst
  /\ Conserved
  /\ SuperKept
-----------------------------------------------------------------------------
(* Where the loop that skips bad blocks stops.                             *)

\* A set of positions in a group has a last one.
LEMMA Greatest ==
  ASSUME NEW n \in Nat, NEW T, T \subseteq 1 .. n, T # {}
  PROVE  \E i \in T : \A j \in T : j <= i
<1> DEFINE R == {xy \in Nat \X Nat : xy[1] < xy[2]}
           D == {n - i : i \in T}
<1>1. IsWellFoundedOn(R, Nat)
  BY NatLessThanWellFounded DEF OpToRel
<1>2. D \subseteq Nat /\ D # {}
  <2>1. ASSUME NEW i \in T PROVE n - i \in Nat
    OBVIOUS
  <2> QED BY <2>1
<1> HIDE DEF R, D
<1>3. PICK x \in D : \A y \in D : <<y, x>> \notin R
  BY <1>1, <1>2, WFMin
<1>4. PICK i \in T : x = n - i
  BY DEF D
<1>5. ASSUME NEW j \in T PROVE j <= i
  <2>1. n - j \in D
    BY DEF D
  <2>2. ~(n - j < x)
    BY <1>2, <1>3, <2>1 DEF R
  <2> QED BY <1>4, <2>2
<1> QED BY <1>5

\* The loop stops at the last number that is not bad, and runs out of numbers
\* only when all are bad.
LEMMA TopProperties ==
  ASSUME TypeOK
  PROVE  /\ Top \in Nat
         /\ Top = 0 => \A i \in DOMAIN s_free : badblock(s_free[i])
         /\ Top # 0 => Top \in DOMAIN s_free /\ ~badblock(s_free[Top])
         /\ \A i \in DOMAIN s_free : i > Top => badblock(s_free[i])
<1> DEFINE good == {i \in DOMAIN s_free : ~badblock(s_free[i])}
<1>1. Len(s_free) \in Nat /\ DOMAIN s_free = 1 .. Len(s_free)
  BY DEF TypeOK
<1>2. CASE good = {}
  BY <1>1, <1>2 DEF Top
<1>3. CASE good # {}
  <2>1. good \subseteq 1 .. Len(s_free)
    BY <1>1
  <2>2. Top = CHOOSE i \in good : \A j \in good : j <= i
    BY <1>3 DEF Top
  <2>3. \E i \in good : \A j \in good : j <= i
    <3> HIDE DEF good
    <3> QED BY <1>1, <1>3, <2>1, Greatest
  <2>4. Top \in good /\ \A j \in good : j <= Top
    <3> HIDE DEF good
    <3> QED BY <2>2, <2>3
  <2> QED BY <1>1, <2>4
<1> QED BY <1>2, <1>3

\* The number that alloc() takes is a block.
LEMMA TopIsBlock ==
  ASSUME TypeOK, ~NoSpace
  PROVE  Top \in DOMAIN s_free /\ s_free[Top] \in Blocks /\ Top \in 1 .. Len(s_free)
<1>1. Top \in DOMAIN s_free /\ s_free[Top] # NULL
  BY DEF NoSpace
<1>2. Top # 0
  BY <1>1 DEF TypeOK
<1> QED BY <1>1, <1>2, TopProperties DEF TypeOK, Numbers, badblock

\* free() finds a group that is not empty, and is within its size.
LEMMA StartedProperties ==
  ASSUME TypeOK
  PROVE  /\ Started \in Seq(Numbers) /\ Len(Started) \in Nat
         /\ Started # <<>> /\ Len(Started) <= NICFREE
         /\ s_free # <<>> => Started = s_free
         /\ s_free = <<>> => Started = <<NULL>>
<1>1. NICFREE \in Nat /\ NICFREE >= 1
  BY AllocAssumption
<1>2. NULL \in Numbers
  BY DEF Numbers
<1>3. <<NULL>> \in Seq(Numbers) /\ Len(<<NULL>>) = 1 /\ <<NULL>> # <<>>
  BY <1>2
<1>4. CASE s_free = <<>>
  BY <1>1, <1>3, <1>4 DEF Started
<1>5. CASE s_free # <<>>
  BY <1>5 DEF Started, TypeOK
<1> QED BY <1>4, <1>5
-----------------------------------------------------------------------------
(* Types, places and the lock.                                             *)

Base == TypeOK /\ Control /\ LockExact /\ Exchange

\* The locks, the types and the exchanges hold when the system starts.
LEMMA BaseInit == Init => Base
<1> SUFFICES ASSUME Init PROVE Base
  OBVIOUS
<1>1. NICFREE \in Nat /\ NICFREE >= 1
  BY AllocAssumption
<1>2. s_free \in Seq(Numbers) /\ Len(s_free) <= NICFREE
  <2>1. CASE s_free = <<NULL>>
    BY <1>1, <2>1 DEF Numbers
  <2>2. ASSUME NEW b \in BadBlocks, NICFREE > 1, s_free = <<NULL, b>>
        PROVE  s_free \in Seq(Numbers) /\ Len(s_free) <= NICFREE
    BY <1>1, <2>2 DEF Numbers
  <2> QED BY <2>1, <2>2 DEF Init
<1>3. group \in [Blocks -> Seq(Numbers)] /\ \A b \in Blocks : Len(group[b]) <= NICFREE
  BY <1>1 DEF Init
<1>4. TypeOK
  <2>1. links \in Seq(Blocks)
    BY DEF Init
  <2> QED BY <1>2, <1>3, <2>1 DEF Init, TypeOK, Numbers
<1>5. Control /\ LockExact /\ Exchange
  BY DEF Init, Control, ControlAt, LockExact, Holders, Exchange
<1> QED BY <1>4, <1>5 DEF Base

\* Every step keeps the types: the numbers that enter a group are block numbers
\* and no group outgrows NICFREE.
LEMMA TypeStep ==
  ASSUME Base, [Next]_vars
  PROVE  TypeOK'
<1> USE DEF Base
<1>0. /\ NICFREE \in Nat /\ NICFREE >= 1
      /\ <<>> \in Seq(Numbers) /\ Len(<<>>) = 0
      /\ Len(s_free) \in Nat
  BY AllocAssumption DEF TypeOK
<1>1. CASE UNCHANGED vars
  BY <1>1 DEF vars, TypeOK
<1>2. ASSUME NEW p \in Procs,
             Alloc(p) \/ Update(p) \/ Sleep(p) \/ UpdateReturn(p) \/ FreeBad(p)
      PROVE  TypeOK'
  BY <1>2 DEF TypeOK, Alloc, Update, Sleep, UpdateReturn, FreeBad, At, Goto, fsVars, Numbers
<1>3. ASSUME NEW p \in Procs, NEW bno \in Blocks \cup BadBlocks, Free(p, bno)
      PROVE  TypeOK'
  BY <1>3 DEF TypeOK, Free, At, Goto, Numbers
<1>4. ASSUME NEW p \in Procs, AllocNoSpace(p) PROVE TypeOK'
  BY <1>0, <1>4 DEF TypeOK, AllocNoSpace, At, Goto
<1>5. ASSUME NEW p \in Procs, AllocTake(p) PROVE TypeOK'
  <2>1. Top \in 1 .. Len(s_free) /\ s_free[Top] \in Numbers
    BY <1>5, TopIsBlock DEF AllocTake, Numbers
  <2>2. s_free' \in Seq(Numbers) /\ Len(s_free') = Top - 1
    BY <1>0, <1>5, <2>1 DEF AllocTake, TypeOK
  <2> QED BY <1>0, <1>5, <2>1, <2>2 DEF TypeOK, AllocTake, At, Goto
<1>6. ASSUME NEW p \in Procs, AllocLink(p) PROVE TypeOK'
  <2>1. s_free[1] \in Numbers
    BY <1>6, TopIsBlock DEF AllocLink, Numbers
  <2> QED BY <1>0, <1>6, <2>1 DEF TypeOK, AllocLink, At, Goto
<1>7. ASSUME NEW p \in Procs, AllocRefill(p) PROVE TypeOK'
  <2>1. hold[p] \in Blocks
    BY <1>7 DEF AllocRefill, Control, ControlAt, At
  <2>2. s_free' \in Seq(Numbers) /\ Len(s_free') <= NICFREE
    BY <1>7, <2>1 DEF AllocRefill, TypeOK
  <2>3. links' \in Seq(Blocks)
    BY <1>7 DEF AllocRefill, TypeOK
  <2> QED BY <1>7, <2>2, <2>3 DEF TypeOK, AllocRefill, Unlock, At, Goto
<1>8. ASSUME NEW p \in Procs, AllocError(p) PROVE TypeOK'
  <2>1. hold[p] \in Blocks
    BY <1>8 DEF AllocError, Control, ControlAt, At
  <2>2. lost' \subseteq Blocks
    BY <1>8, <2>1 DEF AllocError, TypeOK, FreeSet
  <2>3. links' \in Seq(Blocks)
    BY <1>8 DEF AllocError
  <2> QED BY <1>8, <2>2, <2>3 DEF TypeOK, AllocError, Unlock, At, Goto, Numbers
<1>9. ASSUME NEW p \in Procs, AllocReturn(p) PROVE TypeOK'
  <2>1. hold[p] \in Blocks
    BY <1>9 DEF AllocReturn, Control, ControlAt, At
  <2>2. group' \in [Blocks -> Seq(Numbers)] /\ \A b \in Blocks : Len(group'[b]) <= NICFREE
    BY <1>0, <1>9, <2>1 DEF AllocReturn, TypeOK
  <2> QED BY <1>9, <2>1, <2>2 DEF TypeOK, AllocReturn, At, Goto, Numbers
<1>10. ASSUME NEW p \in Procs, FreePush(p) PROVE TypeOK'
  <2>1. Started \in Seq(Numbers) /\ Len(Started) \in Nat
    BY StartedProperties
  <2>2. s_free' \in Seq(Numbers) /\ Len(s_free') = Len(Started) + 1
    BY <1>10, <2>1 DEF FreePush, TypeOK
  <2>3. Len(s_free') <= NICFREE
    BY <1>0, <1>10, <2>1, <2>2 DEF FreePush, Full
  <2> QED BY <1>10, <2>2, <2>3 DEF TypeOK, FreePush, At, Goto, Numbers
<1>11. ASSUME NEW p \in Procs, FreeLink(p) PROVE TypeOK'
  <2>1. Started \in Seq(Numbers) /\ Len(Started) <= NICFREE
    BY StartedProperties
  <2> QED BY <1>11, <2>1 DEF TypeOK, FreeLink, At, Goto
<1>12. ASSUME NEW p \in Procs, FreeSpill(p) PROVE TypeOK'
  <2>1. hold[p] \in Blocks
    BY <1>12 DEF FreeSpill, Control, ControlAt, At
  <2>2. group' \in [Blocks -> Seq(Numbers)] /\ \A b \in Blocks : Len(group'[b]) <= NICFREE
    BY <1>0, <1>12, <2>1 DEF FreeSpill, TypeOK
  <2>3. links' \in Seq(Blocks)
    BY <1>12, <2>1 DEF FreeSpill, TypeOK
  <2> QED BY <1>0, <1>12, <2>2, <2>3 DEF TypeOK, FreeSpill, At, Goto
<1>13. ASSUME NEW p \in Procs, FreeReturn(p) PROVE TypeOK'
  <2>1. s_free' \in Seq(Numbers) /\ Len(s_free') = 1
    BY <1>13 DEF FreeReturn, TypeOK
  <2> QED BY <1>0, <1>13, <2>1 DEF TypeOK, FreeReturn, Unlock, At, Goto, Numbers
<1>14. ASSUME NEW p \in Procs, UpdateCopy(p) PROVE TypeOK'
  BY <1>14 DEF TypeOK, UpdateCopy, At, Goto, FreeSet
<1> QED
  BY <1>1, <1>2, <1>3, <1>4, <1>5, <1>6, <1>7, <1>8, <1>9, <1>10, <1>11, <1>12, <1>13, <1>14
     DEF Next, Call, Step

\* Every step keeps the lock with one process, which is not asleep: the loops
\* on s_flock are in alloc() and free() before they take it.
LEMMA LockStep ==
  ASSUME Base, [Next]_vars
  PROVE  Control' /\ LockExact' /\ Exchange'
<1> USE DEF Base, At, Goto
<1>1. CASE UNCHANGED vars
  BY <1>1 DEF vars, Control, ControlAt, LockExact, Holders, Exchange
<1>2. ASSUME NEW p \in Procs, Alloc(p)
      PROVE  Control' /\ LockExact' /\ Exchange'
  <2>1. Control'
    BY <1>2, AllocAssumption DEF TypeOK, Control, ControlAt, Alloc, fsVars
  <2>2. LockExact'
    BY <1>2 DEF TypeOK, Control, ControlAt, LockExact, Holders, Alloc, fsVars
  <2>3. Exchange'
    BY <1>2 DEF TypeOK, LockExact, Holders, Exchange, Alloc, fsVars
  <2> QED BY <2>1, <2>2, <2>3
<1>3. ASSUME NEW p \in Procs, Update(p)
      PROVE  Control' /\ LockExact' /\ Exchange'
  <2>1. Control'
    BY <1>3, AllocAssumption DEF TypeOK, Control, ControlAt, Update, fsVars
  <2>2. LockExact'
    BY <1>3 DEF TypeOK, Control, ControlAt, LockExact, Holders, Update, fsVars
  <2>3. Exchange'
    BY <1>3 DEF TypeOK, LockExact, Holders, Exchange, Update, fsVars
  <2> QED BY <2>1, <2>2, <2>3
<1>4. ASSUME NEW p \in Procs, NEW bno \in Blocks \cup BadBlocks, Free(p, bno)
      PROVE  Control' /\ LockExact' /\ Exchange'
  <2>1. Control'
    BY <1>4, AllocAssumption DEF TypeOK, Control, ControlAt, Free
  <2>2. LockExact'
    BY <1>4 DEF TypeOK, Control, ControlAt, LockExact, Holders, Free
  <2>3. Exchange'
    BY <1>4 DEF TypeOK, LockExact, Holders, Exchange, Free
  <2> QED BY <2>1, <2>2, <2>3
<1>5. ASSUME NEW p \in Procs, Sleep(p)
      PROVE  Control' /\ LockExact' /\ Exchange'
  <2>1. Control'
    BY <1>5, AllocAssumption DEF TypeOK, Control, ControlAt, Sleep, fsVars
  <2>2. LockExact'
    BY <1>5 DEF TypeOK, Control, ControlAt, LockExact, Holders, Sleep, fsVars
  <2>3. Exchange'
    BY <1>5 DEF TypeOK, LockExact, Holders, Exchange, Sleep, fsVars
  <2> QED BY <2>1, <2>2, <2>3
<1>6. ASSUME NEW p \in Procs, AllocNoSpace(p)
      PROVE  Control' /\ LockExact' /\ Exchange'
  <2>1. Control'
    BY <1>6, AllocAssumption DEF TypeOK, Control, ControlAt, AllocNoSpace
  <2>2. LockExact'
    BY <1>6 DEF TypeOK, Control, ControlAt, LockExact, Holders, AllocNoSpace
  <2>3. Exchange'
    BY <1>6 DEF TypeOK, LockExact, Holders, Exchange, AllocNoSpace
  <2> QED BY <2>1, <2>2, <2>3
<1>7. ASSUME NEW p \in Procs, AllocTake(p)
      PROVE  Control' /\ LockExact' /\ Exchange'
  <2>1. Control'
    BY <1>7, TopIsBlock DEF TypeOK, Control, ControlAt, AllocTake
  <2>2. LockExact'
    BY <1>7 DEF TypeOK, Control, ControlAt, LockExact, Holders, AllocTake
  <2>3. Exchange'
    BY <1>7 DEF TypeOK, LockExact, Holders, Exchange, AllocTake
  <2> QED BY <2>1, <2>2, <2>3
<1>8. ASSUME NEW p \in Procs, AllocLink(p)
      PROVE  Control' /\ LockExact' /\ Exchange'
  <2>1. Control'
    BY <1>8, TopIsBlock DEF TypeOK, Control, ControlAt, AllocLink
  <2>2. LockExact'
    BY <1>8 DEF TypeOK, Control, ControlAt, LockExact, Holders, AllocLink
  <2>3. Exchange'
    BY <1>8 DEF TypeOK, LockExact, Holders, Exchange, AllocLink
  <2> QED BY <2>1, <2>2, <2>3
<1>9. ASSUME NEW p \in Procs, AllocRefill(p)
      PROVE  Control' /\ LockExact' /\ Exchange'
  <2>1. Control'
    BY <1>9, AllocAssumption DEF TypeOK, Control, ControlAt, AllocRefill, Unlock
  <2>2. LockExact'
    BY <1>9 DEF TypeOK, Control, ControlAt, LockExact, Holders, AllocRefill, Unlock
  <2>3. Exchange'
    BY <1>9 DEF TypeOK, LockExact, Holders, Exchange, AllocRefill, Unlock
  <2> QED BY <2>1, <2>2, <2>3
<1>10. ASSUME NEW p \in Procs, AllocError(p)
      PROVE  Control' /\ LockExact' /\ Exchange'
  <2>1. Control'
    BY <1>10, AllocAssumption DEF TypeOK, Control, ControlAt, AllocError, Unlock
  <2>2. LockExact'
    BY <1>10 DEF TypeOK, Control, ControlAt, LockExact, Holders, AllocError, Unlock
  <2>3. Exchange'
    BY <1>10 DEF TypeOK, LockExact, Holders, Exchange, AllocError, Unlock
  <2> QED BY <2>1, <2>2, <2>3
<1>11. ASSUME NEW p \in Procs, AllocReturn(p)
      PROVE  Control' /\ LockExact' /\ Exchange'
  <2>1. Control'
    BY <1>11, AllocAssumption DEF TypeOK, Control, ControlAt, AllocReturn
  <2>2. LockExact'
    BY <1>11 DEF TypeOK, Control, ControlAt, LockExact, Holders, AllocReturn
  <2>3. Exchange'
    BY <1>11 DEF TypeOK, LockExact, Holders, Exchange, AllocReturn
  <2> QED BY <2>1, <2>2, <2>3
<1>12. ASSUME NEW p \in Procs, FreeBad(p)
      PROVE  Control' /\ LockExact' /\ Exchange'
  <2>1. Control'
    BY <1>12, AllocAssumption DEF TypeOK, Control, ControlAt, FreeBad, fsVars
  <2>2. LockExact'
    BY <1>12 DEF TypeOK, Control, ControlAt, LockExact, Holders, FreeBad, fsVars
  <2>3. Exchange'
    BY <1>12 DEF TypeOK, LockExact, Holders, Exchange, FreeBad, fsVars
  <2> QED BY <2>1, <2>2, <2>3
<1>13. ASSUME NEW p \in Procs, FreePush(p)
      PROVE  Control' /\ LockExact' /\ Exchange'
  <2>1. Control'
    BY <1>13, AllocAssumption DEF TypeOK, Control, ControlAt, FreePush
  <2>2. LockExact'
    BY <1>13 DEF TypeOK, Control, ControlAt, LockExact, Holders, FreePush
  <2>3. Exchange'
    BY <1>13 DEF TypeOK, LockExact, Holders, Exchange, FreePush
  <2> QED BY <2>1, <2>2, <2>3
<1>14. ASSUME NEW p \in Procs, FreeLink(p)
      PROVE  Control' /\ LockExact' /\ Exchange'
  <2>1. Control'
    BY <1>14, AllocAssumption DEF TypeOK, Control, ControlAt, FreeLink, Numbers, badblock
  <2>2. LockExact'
    BY <1>14 DEF TypeOK, Control, ControlAt, LockExact, Holders, FreeLink
  <2>3. Exchange'
    BY <1>14, StartedProperties DEF TypeOK, LockExact, Holders, Exchange, FreeLink
  <2> QED BY <2>1, <2>2, <2>3
<1>15. ASSUME NEW p \in Procs, FreeSpill(p)
      PROVE  Control' /\ LockExact' /\ Exchange'
  <2>1. Control'
    BY <1>15, AllocAssumption DEF TypeOK, Control, ControlAt, FreeSpill
  <2>2. LockExact'
    BY <1>15 DEF TypeOK, Control, ControlAt, LockExact, Holders, FreeSpill
  <2>3. Exchange'
    BY <1>15 DEF TypeOK, LockExact, Holders, Exchange, FreeSpill
  <2> QED BY <2>1, <2>2, <2>3
<1>16. ASSUME NEW p \in Procs, FreeReturn(p)
      PROVE  Control' /\ LockExact' /\ Exchange'
  <2>1. Control'
    BY <1>16, AllocAssumption DEF TypeOK, Control, ControlAt, FreeReturn, Unlock
  <2>2. LockExact'
    BY <1>16 DEF TypeOK, Control, ControlAt, LockExact, Holders, FreeReturn, Unlock
  <2>3. Exchange'
    BY <1>16 DEF TypeOK, LockExact, Holders, Exchange, FreeReturn, Unlock
  <2> QED BY <2>1, <2>2, <2>3
<1>17. ASSUME NEW p \in Procs, UpdateCopy(p)
      PROVE  Control' /\ LockExact' /\ Exchange'
  <2>1. Control'
    BY <1>17, AllocAssumption DEF TypeOK, Control, ControlAt, UpdateCopy
  <2>2. LockExact'
    BY <1>17 DEF TypeOK, Control, ControlAt, LockExact, Holders, UpdateCopy
  <2>3. Exchange'
    BY <1>17 DEF TypeOK, LockExact, Holders, Exchange, UpdateCopy
  <2> QED BY <2>1, <2>2, <2>3
<1>18. ASSUME NEW p \in Procs, UpdateReturn(p)
      PROVE  Control' /\ LockExact' /\ Exchange'
  <2>1. Control'
    BY <1>18, AllocAssumption DEF TypeOK, Control, ControlAt, UpdateReturn, fsVars
  <2>2. LockExact'
    BY <1>18 DEF TypeOK, Control, ControlAt, LockExact, Holders, UpdateReturn, fsVars
  <2>3. Exchange'
    BY <1>18 DEF TypeOK, LockExact, Holders, Exchange, UpdateReturn, fsVars
  <2> QED BY <2>1, <2>2, <2>3
<1> QED
  BY <1>1, <1>2, <1>3, <1>4, <1>5, <1>6, <1>7, <1>8, <1>9, <1>10, <1>11, <1>12, <1>13, <1>14, <1>15, <1>16, <1>17, <1>18
     DEF Next, Call, Step
-----------------------------------------------------------------------------
(* The chain, number by number.                                            *)

\* The group a link holds.
Group(k) == group[links[k]]

\* The members of the chain.
FreeMembers ==
  \A b : b \in FreeSet <=>
        /\ b \in Blocks
        /\ \/ \E i \in DOMAIN s_free : s_free[i] = b
           \/ \E k \in DOMAIN links : \E i \in DOMAIN Group(k) : Group(k)[i] = b

\* What the blocks of the free chain are: the numbers in the super block and in the blocks behind it.
LEMMA FreeMembersHold == FreeMembers
  BY DEF FreeMembers, FreeSet, Groups, Elements, Group

\* The first link.
LinkMeaning ==
  /\ s_free # <<>> => Link = s_free[1]
  /\ s_free = <<>> =>
       /\ \A p \in Procs : pc[p] \in {"bread", "bwrite"} => Link = hold[p]
       /\ (\A p \in Procs : pc[p] \notin {"bread", "bwrite"}) => Link = NULL

\* The first link is s_free[0], or what the process that exchanges the group has in hand.
LEMMA LinkMeaningHolds == LockExact => LinkMeaning
<1> SUFFICES ASSUME LockExact PROVE LinkMeaning
  OBVIOUS
<1>1. CASE s_free # <<>>
  BY <1>1 DEF Link, LinkMeaning
<1>2. CASE s_free = <<>>
  <2>1. ASSUME NEW p \in Procs, pc[p] \in {"bread", "bwrite"}
        PROVE  Link = hold[p]
    <3>1. (CHOOSE q \in Procs : pc[q] \in {"bread", "bwrite"}) = p
      BY <2>1 DEF LockExact, Holders
    <3> QED BY <1>2, <2>1, <3>1 DEF Link
  <2>2. ASSUME \A p \in Procs : pc[p] \notin {"bread", "bwrite"}
        PROVE  Link = NULL
    BY <1>2, <2>2 DEF Link
  <2> QED BY <1>2, <2>1, <2>2 DEF LinkMeaning
<1> QED BY <1>1, <1>2

\* No number is in the chain twice.
OnceEach ==
  /\ \A i, j \in DOMAIN s_free : s_free[i] = s_free[j] /\ s_free[i] \in Blocks => i = j
  /\ \A k \in DOMAIN links : \A i, j \in DOMAIN Group(k) :
       Group(k)[i] = Group(k)[j] /\ Group(k)[i] \in Blocks => i = j
  /\ \A k \in DOMAIN links : \A i \in DOMAIN Group(k) : \A j \in DOMAIN s_free :
       Group(k)[i] \in Blocks => Group(k)[i] # s_free[j]
  /\ \A k, l \in DOMAIN links : \A i \in DOMAIN Group(k) : \A j \in DOMAIN Group(l) :
       k # l /\ Group(k)[i] \in Blocks => Group(k)[i] # Group(l)[j]

\* No block is twice in the chain exactly when each of its places has a block of its own.
LEMMA OnceEachHolds == Once <=> OnceEach
<1>1. ASSUME Once PROVE OnceEach
  BY <1>1 DEF Once, OnceEach, Elements, Group
<1>2. ASSUME OnceEach PROVE Once
  BY <1>2 DEF Once, OnceEach, Elements, Group
<1> QED BY <1>1, <1>2

Meanings == FreeMembers /\ LinkMeaning /\ (Once <=> OnceEach)

\* The set-valued definitions of the properties, member by member.
LEMMA MeaningsHold == Base => Meanings
  BY FreeMembersHold, LinkMeaningHolds, OnceEachHolds DEF Base, Meanings

\* The same after a step.
LEMMA MeaningsStep == ASSUME Base' PROVE Meanings'
<1>1. (Base => Meanings)'
  BY MeaningsHold, PTL
<1> QED BY <1>1
Chain == Chained /\ Once /\ NullFirst

\* Every link is itself a number of the chain, or in the hands of the process
\* that exchanges the group.
LEMMA LinksInChain ==
  ASSUME Base, Chain, NEW k \in DOMAIN links
  PROVE  \/ links[k] \in FreeSet
         \/ \E q \in Procs : pc[q] \in {"bread", "bwrite"} /\ links[k] = hold[q]
<1>1. Meanings
  BY MeaningsHold
<1>2. /\ Len(links) \in Nat /\ DOMAIN links = 1 .. Len(links) /\ k \in 1 .. Len(links)
      /\ links[k] \in Blocks
  BY DEF Base, TypeOK
<1>3. CASE k = 1
  <2>1. Link = links[1] /\ Link # NULL
    BY <1>2, <1>3, AllocAssumption DEF Chain, Chained
  <2>2. CASE s_free # <<>>
    BY <1>1, <1>2, <1>3, <2>1, <2>2 DEF Meanings, LinkMeaning, FreeMembers, Base, TypeOK
  <2>3. CASE s_free = <<>>
    BY <1>1, <1>3, <2>1, <2>3 DEF Meanings, LinkMeaning
  <2> QED BY <2>2, <2>3
<1>4. CASE k # 1
  <2>1. k - 1 \in 1 .. Len(links) /\ k - 1 # Len(links) /\ (k - 1) + 1 = k
    BY <1>2, <1>4
  <2>2. group[links[k - 1]] # <<>> /\ group[links[k - 1]][1] = links[k]
    BY <1>2, <2>1 DEF Chain, Chained
  <2>3. links[k - 1] \in Blocks
    BY <2>1 DEF Base, TypeOK
  <2>4. 1 \in DOMAIN Group(k - 1)
    BY <2>2, <2>3 DEF Base, TypeOK, Group
  <2> QED BY <1>1, <1>2, <2>1, <2>2, <2>4 DEF Meanings, FreeMembers, Group
<1> QED BY <1>3, <1>4

\* A step that leaves the groups of the chain and the first link alone leaves
\* the chain alone.
LEMMA ChainFrame ==
  ASSUME Base, Base', Chain,
         s_free' = s_free, links' = links,
         \A k \in DOMAIN links : group'[links[k]] = group[links[k]],
         \A q \in Procs : /\ pc'[q] \in {"bread", "bwrite"} => pc[q] \in {"bread", "bwrite"}
                          /\ pc[q] \in {"bread", "bwrite"} =>
                              pc'[q] \in {"bread", "bwrite"} /\ hold'[q] = hold[q]
  PROVE  Chain' /\ FreeSet' = FreeSet
<1>1. Meanings /\ Meanings'
  BY MeaningsHold, MeaningsStep
<1>2. Link' = Link
  <2>1. CASE s_free # <<>>
    BY <1>1, <2>1 DEF Meanings, LinkMeaning
  <2>2. ASSUME s_free = <<>>, NEW q \in Procs, pc[q] \in {"bread", "bwrite"}
        PROVE  Link' = Link
    BY <1>1, <2>2 DEF Meanings, LinkMeaning
  <2>3. CASE s_free = <<>> /\ \A q \in Procs : pc[q] \notin {"bread", "bwrite"}
    BY <1>1, <2>3 DEF Meanings, LinkMeaning
  <2> QED BY <2>1, <2>2, <2>3
<1>3. Chained'
  BY <1>2 DEF Chain, Chained
<1>4. NullFirst'
  BY DEF Chain, NullFirst
<1>5. \A k \in DOMAIN links : Group(k)' = Group(k)
  BY DEF Group
<1>6. OnceEach'
  BY <1>1, <1>5 DEF Meanings, Chain, OnceEach
<1>7. FreeSet' = FreeSet
  BY <1>1, <1>5 DEF Meanings, FreeMembers
<1> QED BY <1>1, <1>3, <1>4, <1>6, <1>7 DEF Meanings, Chain
-----------------------------------------------------------------------------
(* What each step does to the chain.                                       *)

\* The steps that do not touch it.
LEMMA ChainIdle ==
  ASSUME Base, Base', Chain, NEW p \in Procs,
         \/ Alloc(p) \/ Update(p) \/ Sleep(p)
         \/ FreeBad(p) \/ UpdateCopy(p) \/ UpdateReturn(p)
  PROVE  Chain' /\ FreeSet' = FreeSet
<1>1. /\ s_free' = s_free /\ links' = links /\ group' = group
      /\ \A q \in Procs : /\ pc'[q] \in {"bread", "bwrite"} => pc[q] \in {"bread", "bwrite"}
                          /\ pc[q] \in {"bread", "bwrite"} =>
                               pc'[q] \in {"bread", "bwrite"} /\ hold'[q] = hold[q]
  BY DEF Alloc, Update, Sleep, FreeBad, UpdateCopy, UpdateReturn, At, Goto, fsVars,
         Base, TypeOK
<1> QED BY <1>1, ChainFrame

\* The blocks that are free when nobody has the list locked.
LEMMA FreeIdle ==
  ASSUME Base, Base', Chain, NEW p \in Procs, NEW bno, Free(p, bno)
  PROVE  Chain' /\ FreeSet' = FreeSet
<1>1. /\ s_free' = s_free /\ links' = links /\ group' = group
      /\ \A q \in Procs : /\ pc'[q] \in {"bread", "bwrite"} => pc[q] \in {"bread", "bwrite"}
                          /\ pc[q] \in {"bread", "bwrite"} =>
                               pc'[q] \in {"bread", "bwrite"} /\ hold'[q] = hold[q]
  BY DEF Free, At, Goto, Base, TypeOK
<1> QED BY <1>1, ChainFrame

\* alloc() finds no space only when the chain is empty.
LEMMA NoSpaceChain ==
  ASSUME Base, Base', Chain, NEW p \in Procs, AllocNoSpace(p)
  PROVE  Chain' /\ FreeSet = {} /\ FreeSet' = {}
<1> DEFINE n == Len(s_free)
<1>1. Meanings /\ Meanings'
  BY MeaningsHold, MeaningsStep
<1>2. /\ n \in Nat /\ DOMAIN s_free = 1 .. n /\ s_free' = <<>>
      /\ links' = links /\ group' = group /\ hold' = hold
  BY DEF AllocNoSpace, Base, TypeOK
<1>3. \A q \in Procs : pc[q] \notin {"bread", "bwrite"} /\ pc'[q] \notin {"bread", "bwrite"}
  BY DEF AllocNoSpace, At, Goto, Base, TypeOK, LockExact, Holders
<1>4. \A i \in 1 .. n : s_free[i] \notin Blocks
  <2>1. CASE Top = 0
    BY <1>2, <2>1, TopProperties, AllocAssumption DEF Base, badblock
  <2>2. CASE Top # 0
    <3>1. Top \in 1 .. n /\ s_free[Top] = NULL
      BY <1>2, <2>2, TopProperties DEF Base, AllocNoSpace, NoSpace
    <3>2. Top = 1
      BY <1>2, <3>1 DEF Chain, NullFirst
    <3> QED BY <1>2, <3>1, <3>2, TopProperties, AllocAssumption DEF Base, badblock
  <2> QED BY <2>1, <2>2
<1>5. Link = NULL
  <2>1. CASE s_free = <<>>
    BY <1>1, <1>3, <2>1 DEF Meanings, LinkMeaning
  <2>2. CASE s_free # <<>>
    <3>1. 1 \in 1 .. n /\ Link = s_free[1]
      BY <1>1, <1>2, <2>2 DEF Meanings, LinkMeaning, Base, TypeOK
    <3>2. links # <<>> => links[1] \in Blocks
      BY DEF Base, TypeOK
    <3> QED BY <1>4, <3>1, <3>2 DEF Chain, Chained
  <2> QED BY <2>1, <2>2
<1>6. links = <<>>
  <2>1. links # <<>> => links[1] \in Blocks
    BY DEF Base, TypeOK
  <2> QED BY <1>5, <2>1, AllocAssumption DEF Chain, Chained
<1>7. DOMAIN links = {} /\ DOMAIN s_free' = {}
  BY <1>2, <1>6
<1>8. FreeSet = {} /\ FreeSet' = {}
  BY <1>1, <1>2, <1>4, <1>7 DEF Meanings, FreeMembers
<1>9. Link' = NULL
  BY <1>1, <1>2, <1>3 DEF Meanings, LinkMeaning
<1>10. Chained' /\ NullFirst' /\ OnceEach'
  BY <1>2, <1>6, <1>7, <1>9 DEF Chained, NullFirst, OnceEach
<1> QED BY <1>1, <1>8, <1>10 DEF Meanings, Chain
\* alloc() takes a number from the group: it leaves the chain.
LEMMA TakeChain ==
  ASSUME Base, Base', Chain, NEW p \in Procs, AllocTake(p)
  PROVE  /\ Chain' /\ hold'[p] \in FreeSet
         /\ FreeSet' = FreeSet \ {hold'[p]}
<1> DEFINE n == Len(s_free)
           t == Top
<1>1. Meanings /\ Meanings'
  BY MeaningsHold, MeaningsStep
<1>2. /\ n \in Nat /\ DOMAIN s_free = 1 .. n
      /\ t \in 1 .. n /\ t > 1 /\ s_free[t] \in Blocks
      /\ \A i \in 1 .. n : i > t => s_free[i] \notin Blocks
  BY TopIsBlock, TopProperties, AllocAssumption DEF AllocTake, Base, TypeOK, badblock
<1>3. links' = links /\ group' = group /\ hold'[p] = s_free[t]
  BY DEF AllocTake, Base, TypeOK
<1>4. s_free' = SubSeq(s_free, 1, t - 1)
  BY DEF AllocTake
<1> HIDE DEF t
<1>5. DOMAIN s_free' = 1 .. t - 1 /\ \A i \in 1 .. t - 1 : s_free'[i] = s_free[i]
  BY <1>2, <1>4 DEF Base, TypeOK
<1>6. s_free # <<>> /\ s_free' # <<>> /\ s_free'[1] = s_free[1]
  BY <1>2, <1>5
<1>7. Link' = Link
  BY <1>1, <1>6 DEF Meanings, LinkMeaning
<1>8. Chained'
  BY <1>3, <1>7 DEF Chain, Chained
<1>9. NullFirst'
  BY <1>2, <1>3, <1>5 DEF Chain, NullFirst
<1>10. OnceEach
  BY <1>1 DEF Meanings, Chain
<1>11. OnceEach'
  BY <1>2, <1>3, <1>5, <1>10 DEF OnceEach, Group
<1>12. s_free[t] \in FreeSet
  BY <1>1, <1>2 DEF Meanings, FreeMembers
<1>13. ASSUME NEW b PROVE b \in FreeSet' <=> b \in FreeSet /\ b # s_free[t]
  <2>1. ASSUME b \in FreeSet' PROVE b \in FreeSet /\ b # s_free[t]
    BY <1>1, <1>2, <1>3, <1>5, <1>10, <2>1 DEF Meanings, FreeMembers, OnceEach, Group
  <2>2. ASSUME b \in FreeSet, b # s_free[t] PROVE b \in FreeSet'
    BY <1>1, <1>2, <1>3, <1>5, <2>2 DEF Meanings, FreeMembers, Group
  <2> QED BY <2>1, <2>2
<1> QED BY <1>1, <1>3, <1>8, <1>9, <1>11, <1>12, <1>13 DEF Meanings, Chain

\* alloc() takes the last number of the group, which is the first link: the
\* rest of the chain hangs on the block in its hands.
LEMMA LinkChain ==
  ASSUME Base, Base', Chain, NEW p \in Procs, AllocLink(p)
  PROVE  /\ Chain' /\ hold'[p] \in FreeSet
         /\ FreeSet' = FreeSet \ {hold'[p]}
<1> DEFINE n == Len(s_free)
<1>1. Meanings /\ Meanings'
  BY MeaningsHold, MeaningsStep
<1>2. /\ n \in Nat /\ DOMAIN s_free = 1 .. n
      /\ n >= 1 /\ s_free[1] \in Blocks
      /\ \A i \in 1 .. n : i > 1 => s_free[i] \notin Blocks
  BY TopIsBlock, TopProperties, AllocAssumption DEF AllocLink, Base, TypeOK, badblock
<1>3. links' = links /\ group' = group /\ hold'[p] = s_free[1] /\ s_free' = <<>>
  BY DEF AllocLink, Base, TypeOK
<1>4. DOMAIN s_free' = {} /\ s_free # <<>>
  BY <1>2, <1>3
<1>5. Link' = Link
  <2>1. pc'[p] = "bread"
    BY DEF AllocLink, Goto, Base, TypeOK
  <2> QED BY <1>1, <1>3, <1>4, <2>1 DEF Meanings, LinkMeaning
<1>6. Chained'
  BY <1>3, <1>5 DEF Chain, Chained
<1>7. NullFirst'
  BY <1>3, <1>4 DEF Chain, NullFirst
<1>8. OnceEach
  BY <1>1 DEF Meanings, Chain
<1>9. OnceEach'
  BY <1>3, <1>4, <1>8 DEF OnceEach, Group
<1>10. s_free[1] \in FreeSet
  BY <1>1, <1>2 DEF Meanings, FreeMembers
<1>11. ASSUME NEW b PROVE b \in FreeSet' <=> b \in FreeSet /\ b # s_free[1]
  <2>1. ASSUME b \in FreeSet' PROVE b \in FreeSet /\ b # s_free[1]
    BY <1>1, <1>2, <1>3, <1>4, <1>8, <2>1 DEF Meanings, FreeMembers, OnceEach, Group
  <2>2. ASSUME b \in FreeSet, b # s_free[1] PROVE b \in FreeSet'
    BY <1>1, <1>2, <1>3, <1>4, <2>2 DEF Meanings, FreeMembers, Group
  <2> QED BY <2>1, <2>2
<1> QED BY <1>1, <1>3, <1>6, <1>7, <1>9, <1>10, <1>11 DEF Meanings, Chain

\* alloc() copies the group of the link in its hands into the super block: no
\* number enters or leaves the chain.
LEMMA RefillChain ==
  ASSUME Base, Base', Chain, NEW p \in Procs, AllocRefill(p)
  PROVE  Chain' /\ FreeSet' = FreeSet
<1> DEFINE n == Len(links)
<1>1. Meanings /\ Meanings'
  BY MeaningsHold, MeaningsStep
<1>2. /\ pc[p] = "bread" /\ hold[p] \in Blocks /\ s_free = <<>> /\ group' = group
      /\ s_free' = group[hold[p]]
  BY DEF AllocRefill, At, Base, Control, ControlAt, Exchange
<1>3. Link = hold[p] /\ hold[p] # NULL
  BY <1>1, <1>2, AllocAssumption DEF Meanings, LinkMeaning
<1>4. links # <<>> /\ links[1] = hold[p]
  BY <1>3 DEF Chain, Chained
<1>5. /\ n \in Nat /\ n >= 1 /\ DOMAIN links = 1 .. n
      /\ DOMAIN links' = 1 .. n - 1 /\ \A k \in 1 .. n - 1 : links'[k] = links[k + 1]
      /\ Len(links') = n - 1
  BY <1>4 DEF AllocRefill, Base, TypeOK
<1>6. s_free' = Group(1) /\ s_free' # <<>> /\ DOMAIN s_free = {}
  BY <1>2, <1>4, <1>5 DEF Group, Chain, Chained
<1>7. \A k \in 1 .. n - 1 : Group(k)' = Group(k + 1) /\ k + 1 \in 1 .. n
  BY <1>2, <1>5 DEF Group
<1>8. Chained'
  <2>1. Link' = s_free'[1]
    BY <1>1, <1>6 DEF Meanings, LinkMeaning
  <2>2. s_free'[1] = IF 1 = n THEN NULL ELSE links[2]
    BY <1>2, <1>4, <1>5 DEF Chain, Chained
  <2>3. Link' = IF links' = <<>> THEN NULL ELSE links'[1]
    BY <1>5, <2>1, <2>2
  <2>4. ASSUME NEW k \in 1 .. n - 1
        PROVE  /\ group'[links'[k]] # <<>>
               /\ group'[links'[k]][1] = IF k = n - 1 THEN NULL ELSE links'[k + 1]
    <3>1. links'[k] = links[k + 1] /\ k + 1 \in DOMAIN links /\ (k + 1 = n <=> k = n - 1)
      BY <1>5
    <3>2. k # n - 1 => links'[k + 1] = links[(k + 1) + 1]
      BY <1>5
    <3> QED BY <1>2, <3>1, <3>2 DEF Chain, Chained
  <2> QED BY <1>5, <2>3, <2>4 DEF Chained
<1>9. NullFirst'
  BY <1>5, <1>6, <1>7 DEF Chain, NullFirst, Group
<1>10. OnceEach
  BY <1>1 DEF Meanings, Chain
<1>11. OnceEach'
  <2> DEFINE G(k) == Group(k)
             H(k) == Group(k)'
             f == s_free'
  <2>1. /\ 1 \in 1 .. n /\ f = G(1)
        /\ \A k \in 1 .. n - 1 : H(k) = G(k + 1) /\ k + 1 \in 1 .. n /\ k + 1 # 1
        /\ \A k, l \in 1 .. n - 1 : k # l => k + 1 # l + 1
    BY <1>5, <1>6, <1>7
  <2>2. /\ \A k \in 1 .. n : \A i, j \in DOMAIN G(k) :
             G(k)[i] = G(k)[j] /\ G(k)[i] \in Blocks => i = j
        /\ \A k, l \in 1 .. n : \A i \in DOMAIN G(k) : \A j \in DOMAIN G(l) :
             k # l /\ G(k)[i] \in Blocks => G(k)[i] # G(l)[j]
    BY <1>5, <1>10, SMTT(30) DEF OnceEach
  <2> HIDE DEF G, H, f
  <2>3. /\ \A i, j \in DOMAIN f : f[i] = f[j] /\ f[i] \in Blocks => i = j
        /\ \A k \in 1 .. n - 1 : \A i, j \in DOMAIN H(k) :
             H(k)[i] = H(k)[j] /\ H(k)[i] \in Blocks => i = j
    BY <2>1, <2>2
  <2>4. \A k \in 1 .. n - 1 : \A i \in DOMAIN H(k) : \A j \in DOMAIN f :
          H(k)[i] \in Blocks => H(k)[i] # f[j]
    BY <2>1, <2>2
  <2>5. \A k, l \in 1 .. n - 1 : \A i \in DOMAIN H(k) : \A j \in DOMAIN H(l) :
          k # l /\ H(k)[i] \in Blocks => H(k)[i] # H(l)[j]
    BY <2>1, <2>2
  <2> QED BY <1>5, <2>3, <2>4, <2>5 DEF OnceEach, H, f
<1>12. ASSUME NEW b PROVE b \in FreeSet' <=> b \in FreeSet
  <2>1. ASSUME b \in FreeSet' PROVE b \in FreeSet
    BY <1>1, <1>5, <1>6, <1>7, <2>1 DEF Meanings, FreeMembers
  <2>2. ASSUME b \in FreeSet PROVE b \in FreeSet'
    <3>1. PICK k \in 1 .. n : \E i \in DOMAIN Group(k) : Group(k)[i] = b
      BY <1>1, <1>5, <1>6, <2>2 DEF Meanings, FreeMembers
    <3>2. CASE k = 1
      BY <1>1, <1>6, <2>2, <3>1, <3>2 DEF Meanings, FreeMembers
    <3>3. CASE k # 1
      <4>1. k - 1 \in 1 .. n - 1 /\ Group(k - 1)' = Group(k)
        BY <1>5, <1>7, <3>3
      <4> QED BY <1>1, <1>5, <2>2, <3>1, <4>1 DEF Meanings, FreeMembers
    <3> QED BY <3>2, <3>3
  <2> QED BY <2>1, <2>2
<1> QED BY <1>1, <1>8, <1>9, <1>11, <1>12 DEF Meanings, Chain
\* alloc() cannot read the link in its hands: the whole chain is lost.
LEMMA ErrorChain ==
  ASSUME Base, Base', Chain, NEW p \in Procs, AllocError(p)
  PROVE  Chain' /\ FreeSet' = {}
<1>1. Meanings /\ Meanings'
  BY MeaningsHold, MeaningsStep
<1>2. s_free' = <<>> /\ links' = <<>>
  BY DEF AllocError, At, Base, Exchange
<1>3. \A q \in Procs : pc'[q] \notin {"bread", "bwrite"}
  BY DEF AllocError, At, Goto, Base, TypeOK, LockExact, Holders
<1>4. Link' = NULL
  BY <1>1, <1>2, <1>3 DEF Meanings, LinkMeaning
<1>5. DOMAIN s_free' = {} /\ DOMAIN links' = {}
  BY <1>2
<1>6. Chained' /\ NullFirst' /\ OnceEach'
  BY <1>2, <1>4, <1>5 DEF Chained, NullFirst, OnceEach
<1>7. FreeSet' = {}
  BY <1>1, <1>5 DEF Meanings, FreeMembers
<1> QED BY <1>1, <1>6, <1>7 DEF Meanings, Chain

\* A block in the hands of a process is not in the chain, and in no other hands.
Apart ==
  \A p \in Procs : hold[p] \in Blocks =>
    /\ hold[p] \notin FreeSet
    /\ \A q \in Procs : hold[q] = hold[p] => q = p

\* A block in the hands of a process that does not exchange the group is no link.
LEMMA NotALink ==
  ASSUME Base, Chain, Apart, NEW p \in Procs, hold[p] \in Blocks,
         pc[p] \notin {"bread", "bwrite"}, NEW k \in DOMAIN links
  PROVE  links[k] # hold[p]
BY LinksInChain DEF Apart

\* alloc() clears the block it has taken: it is no link any more.
LEMMA ReturnChain ==
  ASSUME Base, Base', Chain, Apart, NEW p \in Procs, AllocReturn(p)
  PROVE  Chain' /\ FreeSet' = FreeSet
<1>1. pc[p] = "getblk" /\ hold[p] \in Blocks
  BY DEF AllocReturn, At, Base, Control, ControlAt
<1>2. ASSUME NEW k \in DOMAIN links PROVE group'[links[k]] = group[links[k]]
  <2>1. links[k] # hold[p]
    BY <1>1, NotALink
  <2> QED BY <2>1 DEF AllocReturn, Base, TypeOK
<1>3. /\ s_free' = s_free /\ links' = links
      /\ \A q \in Procs : /\ pc'[q] \in {"bread", "bwrite"} => pc[q] \in {"bread", "bwrite"}
                          /\ pc[q] \in {"bread", "bwrite"} =>
                               pc'[q] \in {"bread", "bwrite"} /\ hold'[q] = hold[q]
  BY DEF AllocReturn, At, Goto, Base, TypeOK
<1> QED BY <1>2, <1>3, ChainFrame
\* free() adds a number to a group with room.
LEMMA PushChain ==
  ASSUME Base, Base', Chain, Apart, NEW p \in Procs, FreePush(p)
  PROVE  /\ Chain' /\ hold[p] \in Blocks
         /\ FreeSet' = FreeSet \cup {hold[p]}
<1> DEFINE n == Len(Started)
           b == hold[p]
<1>1. Meanings /\ Meanings'
  BY MeaningsHold, MeaningsStep
<1>2. b \in Blocks /\ b # NULL
  BY AllocAssumption DEF FreePush, At, Base, TypeOK, Control, ControlAt, Numbers, badblock
<1>3. /\ n \in Nat /\ n >= 1 /\ DOMAIN Started = 1 .. n
      /\ s_free # <<>> => Started = s_free
      /\ s_free = <<>> => n = 1 /\ Started[1] = NULL
      /\ Started \in Seq(Numbers)
  BY StartedProperties DEF Base
<1>4. links' = links /\ group' = group /\ s_free' = Append(Started, b)
  BY DEF FreePush
<1>5. /\ DOMAIN s_free' = 1 .. n + 1 /\ s_free' # <<>>
      /\ \A i \in 1 .. n : s_free'[i] = Started[i]
      /\ s_free'[n + 1] = b
  BY <1>2, <1>3, <1>4
<1>6. \A q \in Procs : pc[q] \notin {"bread", "bwrite"}
  BY DEF FreePush, At, Base, LockExact, Holders
<1>7. Link' = Link
  <2>1. Link' = Started[1]
    BY <1>1, <1>3, <1>5 DEF Meanings, LinkMeaning
  <2> QED BY <1>1, <1>3, <1>6, <2>1 DEF Meanings, LinkMeaning
<1>8. Chained'
  BY <1>4, <1>7 DEF Chain, Chained
<1>9. \A i \in 1 .. n : Started[i] \in Blocks => i \in DOMAIN s_free /\ Started[i] = s_free[i]
  BY <1>3, AllocAssumption
<1>10. NullFirst'
  <2>1. \A i \in 1 .. n : Started[i] = NULL => i = 1
    BY <1>3 DEF Chain, NullFirst
  <2> QED BY <1>2, <1>3, <1>4, <1>5, <2>1 DEF Chain, NullFirst
<1>11. OnceEach /\ b \notin FreeSet
  BY <1>1, <1>2 DEF Meanings, Chain, Apart
<1> HIDE DEF n, b
<1>12. /\ \A i \in DOMAIN s_free : s_free[i] # b
       /\ \A k \in DOMAIN links : \A i \in DOMAIN Group(k) : Group(k)[i] # b
  BY <1>1, <1>2, <1>11 DEF Meanings, FreeMembers
<1>13. \A i \in 1 .. n + 1 :
         \/ s_free'[i] \notin Blocks
         \/ i = n + 1 /\ s_free'[i] = b
         \/ i # n + 1 /\ i \in DOMAIN s_free /\ s_free'[i] = s_free[i]
  BY <1>3, <1>5, <1>9
<1>14. OnceEach'
  <2>1. \A i, j \in 1 .. n + 1 : s_free'[i] = s_free'[j] /\ s_free'[i] \in Blocks => i = j
    BY <1>11, <1>12, <1>13 DEF OnceEach
  <2>2. \A k \in DOMAIN links : Group(k)' = Group(k)
    BY <1>4 DEF Group
  <2>3. \A k \in DOMAIN links : \A i \in DOMAIN Group(k) : \A j \in 1 .. n + 1 :
          Group(k)[i] \in Blocks => Group(k)[i] # s_free'[j]
    BY <1>11, <1>12, <1>13 DEF OnceEach
  <2>4. DOMAIN links' = DOMAIN links /\ DOMAIN s_free' = 1 .. n + 1
    BY <1>4, <1>5
  <2>5. \A k \in DOMAIN links : \A i, j \in DOMAIN Group(k) :
          Group(k)[i] = Group(k)[j] /\ Group(k)[i] \in Blocks => i = j
    BY <1>11 DEF OnceEach
  <2>6. \A k, l \in DOMAIN links : \A i \in DOMAIN Group(k) : \A j \in DOMAIN Group(l) :
          k # l /\ Group(k)[i] \in Blocks => Group(k)[i] # Group(l)[j]
    BY <1>11 DEF OnceEach
  <2> QED BY <2>1, <2>2, <2>3, <2>4, <2>5, <2>6 DEF OnceEach
<1>15. ASSUME NEW x PROVE x \in FreeSet' <=> x \in FreeSet \/ x = b
  <2>1. ASSUME x \in FreeSet' PROVE x \in FreeSet \/ x = b
    <3>1. CASE \E i \in DOMAIN s_free' : s_free'[i] = x
      BY <1>1, <1>5, <1>13, <2>1, <3>1 DEF Meanings, FreeMembers
    <3>2. CASE \E k \in DOMAIN links : \E i \in DOMAIN Group(k) : Group(k)[i] = x
      BY <1>1, <2>1, <3>2 DEF Meanings, FreeMembers
    <3>3. DOMAIN links' = DOMAIN links /\ \A k : Group(k)' = Group(k)
      BY <1>4 DEF Group
    <3> QED BY <1>1, <2>1, <3>1, <3>2, <3>3 DEF Meanings, FreeMembers
  <2>2. ASSUME x \in FreeSet PROVE x \in FreeSet'
    <3>1. CASE \E i \in DOMAIN s_free : s_free[i] = x
      <4>1. PICK i \in DOMAIN s_free : s_free[i] = x
        BY <3>1
      <4>2. i \in 1 .. n + 1 /\ s_free'[i] = x
        BY <1>3, <1>5, <4>1
      <4> QED BY <1>1, <1>5, <2>2, <4>2 DEF Meanings, FreeMembers
    <3>2. CASE \E k \in DOMAIN links : \E i \in DOMAIN Group(k) : Group(k)[i] = x
      BY <1>1, <1>4, <2>2, <3>2 DEF Meanings, FreeMembers, Group
    <3> QED BY <1>1, <2>2, <3>1, <3>2 DEF Meanings, FreeMembers
  <2>3. b \in FreeSet'
    BY <1>1, <1>2, <1>3, <1>5 DEF Meanings, FreeMembers
  <2> QED BY <2>1, <2>2, <2>3
<1>16. FreeSet' = FreeSet \cup {b}
  BY <1>15
<1> QED BY <1>1, <1>2, <1>8, <1>10, <1>14, <1>16 DEF Meanings, Chain, b

\* free() finds the group full; only a group of one starts with the 0.
LEMMA LockChain ==
  ASSUME Base, Base', Chain, NEW p \in Procs, FreeLink(p)
  PROVE  Chain' /\ FreeSet' = FreeSet
<1>1. Meanings /\ Meanings'
  BY MeaningsHold, MeaningsStep
<1>2. links' = links /\ group' = group /\ s_free' = Started /\ hold' = hold
  BY DEF FreeLink
<1>3. \A q \in Procs : pc[q] \notin {"bread", "bwrite"} /\ pc'[q] \notin {"bread", "bwrite"}
  BY DEF FreeLink, At, Goto, Base, TypeOK, LockExact, Holders
<1>4. CASE s_free # <<>>
  <2>1. s_free' = s_free
    BY <1>2, <1>4, StartedProperties DEF Base
  <2> QED BY <1>2, <1>3, <2>1, ChainFrame
<1>5. CASE s_free = <<>>
  <2>1. DOMAIN s_free' = 1 .. 1 /\ s_free' # <<>> /\ s_free'[1] = NULL /\ DOMAIN s_free = {}
    BY <1>2, <1>5, StartedProperties DEF Base
  <2>2. Link = NULL /\ Link' = NULL
    BY <1>1, <1>3, <1>5, <2>1 DEF Meanings, LinkMeaning
  <2>3. Chained' /\ NullFirst'
    BY <1>2, <2>1, <2>2 DEF Chain, Chained, NullFirst
  <2>4. OnceEach
    BY <1>1 DEF Meanings, Chain
  <2>5. OnceEach'
    BY <1>2, <2>1, <2>4, AllocAssumption DEF OnceEach, Group
  <2>6. FreeSet' = FreeSet
    <3>1. DOMAIN links' = DOMAIN links /\ \A k : Group(k)' = Group(k)
      BY <1>2 DEF Group
    <3>2. \A i \in DOMAIN s_free' : s_free'[i] \notin Blocks
      BY <2>1, AllocAssumption
    <3>3. ASSUME NEW x PROVE x \in FreeSet' <=> x \in FreeSet
      BY <1>1, <2>1, <3>1, <3>2 DEF Meanings, FreeMembers
    <3> QED BY <3>3
  <2> QED BY <1>1, <2>3, <2>5, <2>6 DEF Meanings, Chain
<1> QED BY <1>4, <1>5
\* free() copies the group into the block in its hands, which becomes the first
\* link: no number enters or leaves the chain.
LEMMA SpillChain ==
  ASSUME Base, Base', Chain, Apart, NEW p \in Procs, FreeSpill(p)
  PROVE  Chain' /\ FreeSet' = FreeSet
<1> DEFINE n == Len(links)
           b == hold[p]
<1>1. Meanings /\ Meanings'
  BY MeaningsHold, MeaningsStep
<1>2. /\ pc[p] = "spill" /\ b \in Blocks /\ b # NULL /\ s_free # <<>> /\ s_free' = <<>>
      /\ hold' = hold /\ pc'[p] = "bwrite"
  BY AllocAssumption DEF FreeSpill, At, Goto, Base, TypeOK, Control, ControlAt, Exchange
<1>3. /\ n \in Nat /\ DOMAIN links = 1 .. n
      /\ Len(links') = n + 1 /\ DOMAIN links' = 1 .. n + 1 /\ links' # <<>>
      /\ links'[1] = b
      /\ \A k \in 1 .. n : links'[k + 1] = links[k]
  <2>1. links \in Seq(Blocks) /\ links' = <<b>> \o links /\ n \in Nat
    BY DEF FreeSpill, Base, TypeOK
  <2>2. links' \in Seq(Blocks) /\ <<b>> \in Seq(Blocks) /\ Len(<<b>>) = 1 /\ <<b>>[1] = b
    BY <1>2 DEF Base, TypeOK
  <2>3. Len(links') = n + 1
    BY <2>1, <2>2
  <2>4. \A k \in 1 .. n + 1 : links'[k] = IF k <= 1 THEN <<b>>[k] ELSE links[k - 1]
    BY <2>1, <2>2
  <2>5. ASSUME NEW k \in 1 .. n PROVE links'[k + 1] = links[k]
    <3>1. k + 1 \in 1 .. n + 1 /\ ~(k + 1 <= 1) /\ (k + 1) - 1 = k
      BY <2>1
    <3> QED BY <2>4, <3>1
  <2> QED BY <2>1, <2>2, <2>3, <2>4, <2>5
<1>4. Group(1)' = s_free
  BY <1>2, <1>3 DEF FreeSpill, Base, TypeOK, Group
<1>5. \A k \in 1 .. n : Group(k + 1)' = Group(k) /\ k + 1 \in 1 .. n + 1
  <2>1. ASSUME NEW k \in 1 .. n PROVE Group(k + 1)' = Group(k)
    <3>1. links[k] # b
      BY <1>2, <1>3, NotALink
    <3> QED BY <1>2, <1>3, <3>1 DEF FreeSpill, Base, TypeOK, Group
  <2> QED BY <1>3, <2>1
<1> DEFINE f == s_free
           G(k) == Group(k)
           H(k) == Group(k)'
<1>6. \A k \in 1 .. n + 1 : k = 1 \/ (k - 1 \in 1 .. n /\ H(k) = G(k - 1))
  <2>1. ASSUME NEW k \in 1 .. n + 1, k # 1 PROVE k - 1 \in 1 .. n /\ H(k) = G(k - 1)
    <3>1. k - 1 \in 1 .. n /\ (k - 1) + 1 = k
      BY <1>3, <2>1
    <3> QED BY <1>5, <3>1
  <2> QED BY <2>1
<1>7. Chained'
  <2>1. Link' = b
    BY <1>1, <1>2 DEF Meanings, LinkMeaning
  <2>2. s_free[1] = IF links = <<>> THEN NULL ELSE links[1]
    BY <1>1, <1>2 DEF Meanings, LinkMeaning, Chain, Chained
  <2>3. H(1) # <<>> /\ H(1)[1] = IF 1 = n + 1 THEN NULL ELSE links'[1 + 1]
    <3>1. CASE links = <<>>
      BY <1>2, <1>3, <1>4, <2>2, <3>1
    <3>2. CASE links # <<>>
      <4>1. 1 \in 1 .. n /\ links'[1 + 1] = links[1]
        BY <1>3, <3>2, SMTT(30) DEF Base, TypeOK
      <4> QED BY <1>2, <1>3, <1>4, <2>2, <3>2, <4>1
    <3> QED BY <3>1, <3>2
  <2>4. ASSUME NEW k \in 1 .. n + 1
        PROVE  H(k) # <<>> /\ H(k)[1] = IF k = n + 1 THEN NULL ELSE links'[k + 1]
    <3>1. CASE k = 1
      BY <2>3, <3>1
    <3>2. CASE k # 1
      <4>1. k - 1 \in 1 .. n /\ H(k) = G(k - 1)
        BY <1>6, <3>2
      <4>2. G(k - 1) # <<>> /\ G(k - 1)[1] = IF k - 1 = n THEN NULL ELSE links[(k - 1) + 1]
        BY <1>3, <4>1 DEF Chain, Chained, Group
      <4>3. (k - 1) + 1 = k /\ (k - 1 = n <=> k = n + 1)
        BY <1>3
      <4>4. k # n + 1 => links'[k + 1] = links[k]
        <5>1. k # n + 1 => k \in 1 .. n
          BY <1>3
        <5> QED BY <1>3, <5>1
      <4> HIDE DEF G, H, n
      <4> QED BY <4>1, <4>2, <4>3, <4>4
    <3> QED BY <3>1, <3>2
  <2> QED BY <1>3, <2>1, <2>4 DEF Chained, Group
<1>8. OnceEach
  BY <1>1 DEF Meanings, Chain
<1>9. DOMAIN s_free' = {}
  BY <1>2
<1>10. /\ \A i, j \in DOMAIN f : f[i] = f[j] /\ f[i] \in Blocks => i = j
       /\ \A k \in 1 .. n : \A i, j \in DOMAIN G(k) :
            G(k)[i] = G(k)[j] /\ G(k)[i] \in Blocks => i = j
       /\ \A k \in 1 .. n : \A i \in DOMAIN G(k) : \A j \in DOMAIN f :
            G(k)[i] \in Blocks => G(k)[i] # f[j]
       /\ \A k, l \in 1 .. n : \A i \in DOMAIN G(k) : \A j \in DOMAIN G(l) :
            k # l /\ G(k)[i] \in Blocks => G(k)[i] # G(l)[j]
  <2>1. DOMAIN links = 1 .. n
    BY <1>3
  <2> HIDE DEF n
  <2> QED BY <1>8, <2>1 DEF OnceEach
<1>11. /\ \A i \in DOMAIN f : f[i] = NULL => i = 1
       /\ \A k \in 1 .. n : \A i \in DOMAIN G(k) : G(k)[i] = NULL => i = 1
  BY <1>3 DEF Chain, NullFirst, Group
<1>12. \A b1 : b1 \in FreeSet <=>
         /\ b1 \in Blocks
         /\ \/ \E i \in DOMAIN f : f[i] = b1
            \/ \E k \in 1 .. n : \E i \in DOMAIN G(k) : G(k)[i] = b1
  BY <1>1, <1>3 DEF Meanings, FreeMembers
<1>13. \A b1 : b1 \in FreeSet' <=>
         /\ b1 \in Blocks
         /\ \E k \in 1 .. n + 1 : \E i \in DOMAIN H(k) : H(k)[i] = b1
  BY <1>1, <1>3, <1>9 DEF Meanings, FreeMembers
<1>14. 1 \in 1 .. n + 1 /\ H(1) = f /\ \A k \in 1 .. n : H(k + 1) = G(k) /\ k + 1 \in 1 .. n + 1
  BY <1>3, <1>4, <1>5
<1>15. \A k, l \in 1 .. n + 1 : k - 1 = l - 1 => k = l
  BY <1>3
<1>16. NullFirst'
  <2>1. \A k \in 1 .. n + 1 : \A i \in DOMAIN H(k) : H(k)[i] = NULL => i = 1
    <3> HIDE DEF f, G, H, n
    <3> QED BY <1>6, <1>11, <1>14
  <2> QED BY <1>3, <1>9, <2>1 DEF NullFirst, Group
<1>17. OnceEach'
  <2>1. \A k \in 1 .. n + 1 : \A i, j \in DOMAIN H(k) :
          H(k)[i] = H(k)[j] /\ H(k)[i] \in Blocks => i = j
    <3> HIDE DEF f, G, H, n
    <3> QED BY <1>6, <1>10, <1>14
  <2>2. ASSUME NEW k \in 1 .. n + 1, NEW l \in 1 .. n + 1, k # l,
               NEW i \in DOMAIN H(k), NEW j \in DOMAIN H(l), H(k)[i] \in Blocks
        PROVE  H(k)[i] # H(l)[j]
    <3> HIDE DEF f, G, H, n
    <3>1. CASE k = 1
      BY <1>6, <1>10, <1>14, <2>2, <3>1
    <3>2. CASE l = 1
      BY <1>6, <1>10, <1>14, <2>2, <3>2
    <3>3. CASE k # 1 /\ l # 1
      BY <1>6, <1>10, <1>15, <2>2, <3>3
    <3> QED BY <3>1, <3>2, <3>3
  <2> QED BY <1>3, <1>9, <2>1, <2>2 DEF OnceEach
<1>18. ASSUME NEW x PROVE x \in FreeSet' <=> x \in FreeSet
  <2> HIDE DEF f, G, H, n
  <2> QED BY <1>6, <1>12, <1>13, <1>14
<1> QED BY <1>1, <1>7, <1>16, <1>17, <1>18 DEF Meanings, Chain
\* free() has written the link and puts its number into the super block.
LEMMA WrittenChain ==
  ASSUME Base, Base', Chain, Apart, NEW p \in Procs, FreeReturn(p)
  PROVE  /\ Chain' /\ hold[p] \in Blocks
         /\ FreeSet' = FreeSet \cup {hold[p]}
<1> DEFINE b == hold[p]
<1>1. Meanings /\ Meanings'
  BY MeaningsHold, MeaningsStep
<1>2. pc[p] = "bwrite" /\ b \in Blocks /\ b # NULL /\ s_free = <<>>
  BY AllocAssumption DEF FreeReturn, At, Base, Control, ControlAt, Exchange
<1>3. /\ DOMAIN s_free' = {1} /\ s_free' # <<>> /\ s_free'[1] = b
      /\ DOMAIN s_free = {} /\ links' = links /\ group' = group
  BY <1>2 DEF FreeReturn
<1>4. DOMAIN links' = DOMAIN links /\ \A k : Group(k)' = Group(k)
  BY <1>3 DEF Group
<1>5. Link' = Link
  BY <1>1, <1>2, <1>3 DEF Meanings, LinkMeaning
<1>6. Chained'
  BY <1>3, <1>5 DEF Chain, Chained
<1>7. NullFirst'
  BY <1>3 DEF Chain, NullFirst
<1>8. OnceEach /\ b \notin FreeSet
  BY <1>1, <1>2 DEF Meanings, Chain, Apart
<1>9. \A k \in DOMAIN links : \A i \in DOMAIN Group(k) : Group(k)[i] # b
  BY <1>1, <1>2, <1>8 DEF Meanings, FreeMembers
<1>10. OnceEach'
  BY <1>3, <1>4, <1>8, <1>9 DEF OnceEach
<1>11. ASSUME NEW x PROVE x \in FreeSet' <=> x \in FreeSet \/ x = b
  BY <1>1, <1>2, <1>3, <1>4 DEF Meanings, FreeMembers
<1>12. FreeSet' = FreeSet \cup {b}
  BY <1>11
<1> QED BY <1>1, <1>2, <1>6, <1>7, <1>10, <1>12 DEF Meanings, Chain
-----------------------------------------------------------------------------
(* Where each block is.                                                    *)

\* No two processes have a block.
OneHand == \A p, q \in Procs : hold[p] = hold[q] /\ hold[p] \in Blocks => p = q

Partition ==
  /\ FreeSet \cup owned \cup Held \cup lost = Blocks \cup (owned \cap BadBlocks)
  /\ FreeSet \cap owned = {} /\ FreeSet \cap Held = {} /\ FreeSet \cap lost = {}
  /\ owned \cap Held = {} /\ owned \cap lost = {} /\ Held \cap lost = {}

\* Conserved in its parts: the chain, the division of the blocks, and one holder each.
LEMMA ConservedParts == Conserved /\ NullFirst <=> Chain /\ Partition /\ OneHand
  BY DEF Conserved, Chain, Partition, OneHand

\* The same after a step.
LEMMA ConservedPartsStep ==
  Conserved' /\ NullFirst' <=> Chain' /\ Partition' /\ OneHand'
<1>1. (Conserved /\ NullFirst <=> Chain /\ Partition /\ OneHand)'
  BY ConservedParts, PTL
<1> QED BY <1>1

\* A block that is held is not free.
LEMMA ApartHolds == ASSUME Partition, OneHand PROVE Apart
  BY DEF Apart, Partition, OneHand, Held

\* A process that had no block takes one that nobody has.
LEMMA HandFills ==
  ASSUME Base, OneHand, NEW p \in Procs, hold[p] \notin Blocks, NEW b \in Blocks, b \notin Held,
         hold' = [hold EXCEPT ![p] = b]
  PROVE  OneHand' /\ Held' = Held \cup {b}
<1>1. \A q \in Procs : hold'[q] = IF q = p THEN b ELSE hold[q]
  BY DEF Base, TypeOK
<1>2. \A q \in Procs : hold[q] # b
  BY DEF Held
<1>3. OneHand'
  BY <1>1, <1>2 DEF OneHand
<1>4. ASSUME NEW x PROVE x \in Held' <=> x \in Held \/ x = b
  BY <1>1 DEF Held
<1> QED BY <1>3, <1>4

\* A process puts its block down.
LEMMA HandEmpties ==
  ASSUME Base, OneHand, NEW p \in Procs,
         hold' = [hold EXCEPT ![p] = NULL]
  PROVE  OneHand' /\ Held' = Held \ {hold[p]}
<1>1. /\ \A q \in Procs : hold'[q] = IF q = p THEN NULL ELSE hold[q]
      /\ NULL \notin Blocks
  BY AllocAssumption DEF Base, TypeOK
<1>2. OneHand'
  BY <1>1 DEF OneHand
<1>3. ASSUME NEW x PROVE x \in Held' <=> x \in Held /\ x # hold[p]
  BY <1>1 DEF Held, OneHand
<1> QED BY <1>2, <1>3

\* A process has a number that is no block.
LEMMA HandBad ==
  ASSUME Base, OneHand, NEW p \in Procs, hold[p] \notin Blocks, NEW b, b \notin Blocks,
         hold' = [hold EXCEPT ![p] = b]
  PROVE  OneHand' /\ Held' = Held
<1>1. \A q \in Procs : hold'[q] = IF q = p THEN b ELSE hold[q]
  BY DEF Base, TypeOK
<1>2. OneHand'
  BY <1>1 DEF OneHand
<1>3. ASSUME NEW x PROVE x \in Held' <=> x \in Held
  BY <1>1 DEF Held
<1> QED BY <1>2, <1>3

\* Who holds what is the same when the holders are.
LEMMA HandSame == ASSUME OneHand, hold' = hold PROVE OneHand' /\ Held' = Held
  BY DEF OneHand, Held
-----------------------------------------------------------------------------
(* Every step conserves the blocks and keeps the disk's super block right. *)

Whole == Chain /\ Partition /\ OneHand

\* A bad block number is the number of no block.
LEMMA BlocksApart == Blocks \cap BadBlocks = {} /\ NULL \notin Blocks /\ NULL \notin BadBlocks
  BY AllocAssumption

\* Every step of alloc() and free() keeps the chain and the division of the blocks.
LEMMA WholeStep ==
  ASSUME Base, Base', Whole, [Next]_vars
  PROVE  Whole'
<1>1. Chain /\ Partition /\ OneHand /\ Apart
  BY ApartHolds DEF Whole
<1>2. CASE UNCHANGED vars
  <2>1. Chain' /\ FreeSet' = FreeSet
    BY <1>1, <1>2, ChainFrame DEF vars
  <2>2. OneHand' /\ Held' = Held /\ owned' = owned /\ lost' = lost
    BY <1>1, <1>2, HandSame DEF vars
  <2> QED BY <1>1, <2>1, <2>2 DEF Whole, Partition
<1>3. ASSUME NEW p \in Procs, Alloc(p) \/ Update(p) \/ Sleep(p) \/ UpdateCopy(p) \/ UpdateReturn(p)
      PROVE  Whole'
  <2>1. Chain' /\ FreeSet' = FreeSet
    BY <1>1, <1>3, ChainIdle
  <2>2. OneHand' /\ Held' = Held
    BY <1>1, <1>3, HandSame DEF Alloc, Update, Sleep, UpdateCopy, UpdateReturn
  <2>3. owned' = owned /\ lost' = lost
    BY <1>3 DEF Alloc, Update, Sleep, UpdateCopy, UpdateReturn
  <2> QED BY <1>1, <2>1, <2>2, <2>3 DEF Whole, Partition
<1>4. ASSUME NEW p \in Procs, NEW bno \in Blocks \cup BadBlocks, Free(p, bno)
      PROVE  Whole'
  <2>1. Chain' /\ FreeSet' = FreeSet
    BY <1>1, <1>4, FreeIdle
  <2>2. hold[p] \notin Blocks
    BY <1>4, BlocksApart DEF Free, At, Base, Control, ControlAt
  <2>3. bno \in owned /\ owned' = owned \ {bno} /\ lost' = lost /\ hold' = [hold EXCEPT ![p] = bno]
    BY <1>4 DEF Free
  <2>4. CASE bno \in Blocks
    <3>1. bno \notin Held
      BY <1>1, <2>3 DEF Partition
    <3>2. OneHand' /\ Held' = Held \cup {bno}
      BY <1>1, <2>2, <2>3, <2>4, <3>1, HandFills
    <3> QED BY <1>1, <2>1, <2>3, <2>4, <3>2, BlocksApart DEF Whole, Partition
  <2>5. CASE bno \notin Blocks
    <3>1. OneHand' /\ Held' = Held
      BY <1>1, <2>2, <2>3, <2>5, HandBad
    <3> QED BY <1>1, <2>1, <2>3, <2>5, <3>1 DEF Whole, Partition
  <2> QED BY <2>4, <2>5
<1>5. ASSUME NEW p \in Procs, AllocNoSpace(p) PROVE Whole'
  <2>1. Chain' /\ FreeSet' = FreeSet
    BY <1>1, <1>5, NoSpaceChain
  <2>2. OneHand' /\ Held' = Held /\ owned' = owned /\ lost' = lost
    BY <1>1, <1>5, HandSame DEF AllocNoSpace
  <2> QED BY <1>1, <2>1, <2>2 DEF Whole, Partition
<1>6. ASSUME NEW p \in Procs, AllocTake(p) \/ AllocLink(p) PROVE Whole'
  <2>1. Chain' /\ hold'[p] \in FreeSet /\ FreeSet' = FreeSet \ {hold'[p]}
    BY <1>1, <1>6, TakeChain, LinkChain
  <2>2. hold'[p] \in Blocks /\ hold'[p] \notin Held
    BY <1>1, <2>1 DEF Partition, FreeSet
  <2>3. hold[p] \notin Blocks
    BY <1>6, BlocksApart DEF AllocTake, AllocLink, At, Base, Control, ControlAt
  <2>4. hold' = [hold EXCEPT ![p] = hold'[p]] /\ owned' = owned /\ lost' = lost
    BY <1>6 DEF AllocTake, AllocLink, Base, TypeOK
  <2>5. OneHand' /\ Held' = Held \cup {hold'[p]}
    BY <1>1, <2>2, <2>3, <2>4, HandFills
  <2> QED BY <1>1, <2>1, <2>2, <2>4, <2>5 DEF Whole, Partition
<1>7. ASSUME NEW p \in Procs, AllocRefill(p) \/ FreeLink(p) \/ FreeSpill(p) PROVE Whole'
  <2>1. Chain' /\ FreeSet' = FreeSet
    BY <1>1, <1>7, RefillChain, LockChain, SpillChain
  <2>2. OneHand' /\ Held' = Held /\ owned' = owned /\ lost' = lost
    BY <1>1, <1>7, HandSame DEF AllocRefill, FreeLink, FreeSpill
  <2> QED BY <1>1, <2>1, <2>2 DEF Whole, Partition
<1>8. ASSUME NEW p \in Procs, AllocError(p) PROVE Whole'
  <2>1. Chain' /\ FreeSet' = {}
    BY <1>1, <1>8, ErrorChain
  <2>2. /\ hold' = [hold EXCEPT ![p] = NULL] /\ owned' = owned
        /\ lost' = lost \cup FreeSet \cup {hold[p]} /\ hold[p] \in Held
    BY <1>8 DEF AllocError, At, Base, Control, ControlAt, Held
  <2>3. OneHand' /\ Held' = Held \ {hold[p]}
    BY <1>1, <2>2, HandEmpties
  <2> QED BY <1>1, <2>1, <2>2, <2>3 DEF Whole, Partition
<1>9. ASSUME NEW p \in Procs, AllocReturn(p) PROVE Whole'
  <2>1. Chain' /\ FreeSet' = FreeSet
    BY <1>1, <1>9, ReturnChain
  <2>2. /\ hold' = [hold EXCEPT ![p] = NULL] /\ owned' = owned \cup {hold[p]}
        /\ lost' = lost /\ hold[p] \in Held /\ hold[p] \in Blocks
    BY <1>9 DEF AllocReturn, At, Base, Control, ControlAt, Held
  <2>3. OneHand' /\ Held' = Held \ {hold[p]}
    BY <1>1, <2>2, HandEmpties
  <2> QED BY <1>1, <2>1, <2>2, <2>3, BlocksApart DEF Whole, Partition
<1>10. ASSUME NEW p \in Procs, FreeBad(p) PROVE Whole'
  <2>1. Chain' /\ FreeSet' = FreeSet
    BY <1>1, <1>10, ChainIdle
  <2>2. /\ hold' = [hold EXCEPT ![p] = NULL] /\ owned' = owned /\ lost' = lost
        /\ hold[p] \notin Blocks
    BY <1>10, BlocksApart DEF FreeBad, badblock
  <2>3. OneHand' /\ Held' = Held
    BY <1>1, <2>2, BlocksApart, HandBad
  <2> QED BY <1>1, <2>1, <2>2, <2>3 DEF Whole, Partition
<1>11. ASSUME NEW p \in Procs, FreePush(p) \/ FreeReturn(p) PROVE Whole'
  <2>1. Chain' /\ hold[p] \in Blocks /\ FreeSet' = FreeSet \cup {hold[p]}
    BY <1>1, <1>11, PushChain, WrittenChain
  <2>2. hold' = [hold EXCEPT ![p] = NULL] /\ owned' = owned /\ lost' = lost
    BY <1>11 DEF FreePush, FreeReturn
  <2>3. OneHand' /\ Held' = Held \ {hold[p]} /\ hold[p] \in Held
    BY <1>1, <2>1, <2>2, HandEmpties DEF Held
  <2> QED BY <1>1, <2>1, <2>2, <2>3 DEF Whole, Partition
<1> QED
  BY <1>2, <1>3, <1>4, <1>5, <1>6, <1>7, <1>8, <1>9, <1>10, <1>11 DEF Next, Call, Step

\* update() copies the group as it is; whoever is about to change it then sets
\* s_fmod before it gives the block to a file or returns.
LEMMA SuperStep ==
  ASSUME Base, Base', Whole, SuperKept, [Next]_vars
  PROVE  SuperKept'
<1>1. CASE UNCHANGED vars
  BY <1>1 DEF SuperKept, vars
<1>2. ASSUME NEW p \in Procs, Alloc(p) \/ Update(p) \/ Sleep(p) \/ UpdateReturn(p) \/ FreeBad(p)
      PROVE  SuperKept'
  <2>1. \A q \in Procs : pc[q] \in {"bread", "getblk", "spill", "bwrite"} =>
          pc'[q] = pc[q] /\ hold'[q] = hold[q]
    BY <1>2 DEF Alloc, Update, Sleep, UpdateReturn, FreeBad, At, Goto, Base, TypeOK
  <2>2. super' = super /\ s_free' = s_free /\ lost' = lost /\ s_fmod' = s_fmod
    BY <1>2 DEF Alloc, Update, Sleep, UpdateReturn, FreeBad, fsVars
  <2> QED BY <2>1, <2>2 DEF SuperKept
<1>3. ASSUME NEW p \in Procs, UpdateCopy(p) PROVE SuperKept'
  BY <1>3 DEF UpdateCopy, SuperKept
<1>4. ASSUME NEW p \in Procs,
             \/ \E bno \in Blocks \cup BadBlocks : Free(p, bno)
             \/ AllocReturn(p) \/ FreePush(p) \/ FreeReturn(p)
      PROVE  SuperKept'
  BY <1>4 DEF Free, AllocReturn, FreePush, FreeReturn, SuperKept
<1>5. ASSUME NEW p \in Procs,
             AllocTake(p) \/ AllocRefill(p) \/ FreeLink(p) \/ FreeSpill(p)
      PROVE  SuperKept'
  <2>1. pc'[p] \in {"getblk", "spill", "bwrite"}
    BY <1>5 DEF AllocTake, AllocRefill, FreeLink, FreeSpill, Goto, Base, TypeOK
  <2> QED BY <2>1 DEF SuperKept
<1>6. ASSUME NEW p \in Procs, AllocNoSpace(p) PROVE SuperKept'
  <2>1. \A q \in Procs : q # p => pc'[q] = pc[q]
    BY <1>6 DEF AllocNoSpace, At, Goto, Base, TypeOK
  <2>2. /\ super' = super /\ s_free' = <<>> /\ lost' = lost /\ s_fmod' = s_fmod
        /\ pc[p] = "alloc" /\ hold' = hold
    BY <1>6 DEF AllocNoSpace, At
  <2>3. \A i \in DOMAIN s_free : s_free[i] \notin Blocks
    <3>1. FreeSet = {}
      BY <1>6, NoSpaceChain DEF Whole
    <3>2. FreeMembers
      BY FreeMembersHold
    <3> QED BY <3>1, <3>2 DEF FreeMembers
  <2> QED BY <2>1, <2>2, <2>3 DEF SuperKept
<1>7. ASSUME NEW p \in Procs, AllocLink(p) PROVE SuperKept'
  <2>1. \A q \in Procs : q # p => pc'[q] = pc[q]
    BY <1>7 DEF AllocLink, At, Goto, Base, TypeOK
  <2>2. /\ super' = super /\ s_free' = <<>> /\ lost' = lost /\ s_fmod' = s_fmod
        /\ pc[p] = "alloc" /\ pc'[p] = "bread" /\ hold'[p] = s_free[1]
    BY <1>7 DEF AllocLink, At, Goto, Base, TypeOK
  <2>3. s_free # <<>> /\ \A i \in DOMAIN s_free : s_free[i] \in Blocks => s_free[i] = s_free[1]
    BY <1>7, TopIsBlock, TopProperties, AllocAssumption DEF AllocLink, Base, TypeOK, badblock
  <2> QED BY <2>1, <2>2, <2>3 DEF SuperKept
<1>8. ASSUME NEW p \in Procs, AllocError(p) PROVE SuperKept'
  <2>1. \A q \in Procs : q # p => pc'[q] = pc[q] /\ hold'[q] = hold[q]
    BY <1>8 DEF AllocError, At, Goto, Base, TypeOK
  <2>2. /\ super' = super /\ s_free' = s_free /\ s_fmod' = s_fmod
        /\ lost \subseteq lost' /\ hold[p] \in lost' /\ pc[p] = "bread"
    BY <1>8 DEF AllocError, At
  <2> QED BY <2>1, <2>2 DEF SuperKept
<1> QED
  BY <1>1, <1>2, <1>3, <1>4, <1>5, <1>6, <1>7, <1>8 DEF Next, Call, Step
\* The chain mkfs leaves behind holds every block once.
LEMMA WholeInit ==
  ASSUME Init
  PROVE  Whole /\ SuperKept
<1>1. Base
  BY BaseInit
<1>2. Meanings
  BY <1>1, MeaningsHold
<1>3. /\ s_free # <<>> /\ s_free[1] = NULL /\ links = <<>> /\ DOMAIN links = {}
      /\ \A i \in DOMAIN s_free : s_free[i] \notin Blocks /\ (s_free[i] = NULL => i = 1)
  <2>1. CASE s_free = <<NULL>>
    BY <2>1, BlocksApart DEF Init
  <2>2. ASSUME NEW b \in BadBlocks, s_free = <<NULL, b>>
        PROVE  /\ s_free # <<>> /\ s_free[1] = NULL
               /\ \A i \in DOMAIN s_free : s_free[i] \notin Blocks /\ (s_free[i] = NULL => i = 1)
    BY <2>2, BlocksApart
  <2> QED BY <2>1, <2>2 DEF Init
<1>4. FreeSet = {}
  BY <1>2, <1>3 DEF Meanings, FreeMembers
<1>5. Chain
  <2>1. Chained /\ NullFirst
    BY <1>2, <1>3 DEF Meanings, LinkMeaning, Chained, NullFirst
  <2>2. OnceEach
    BY <1>3 DEF OnceEach
  <2> QED BY <1>2, <2>1, <2>2 DEF Meanings, Chain
<1>6. Held = {} /\ OneHand
  BY BlocksApart DEF Init, Held, OneHand
<1>7. Partition
  BY <1>4, <1>6 DEF Init, Partition
<1>8. SuperKept
  BY DEF Init, SuperKept
<1> QED BY <1>5, <1>6, <1>7, <1>8 DEF Whole
-----------------------------------------------------------------------------
(* The theorems.                                                           *)

\* The inductive invariant in the parts the steps are proved for.
LEMMA IInvParts == IInv <=> Base /\ Whole /\ SuperKept
  BY ConservedParts DEF IInv, Base, Whole

\* IInv holds initially and is kept by every step of alloc(), free() and
\* update().
THEOREM Invariance == Spec => []IInv
<1>1. Init => IInv
  BY BaseInit, WholeInit, IInvParts
<1>2. ASSUME IInv, [Next]_vars PROVE IInv'
  <2>1. Base /\ Whole /\ SuperKept
    BY <1>2, IInvParts
  <2>2. Base'
    BY <1>2, <2>1, TypeStep, LockStep DEF Base
  <2>3. Whole' /\ SuperKept'
    BY <1>2, <2>1, <2>2, WholeStep, SuperStep
  <2>4. Conserved' /\ NullFirst'
    BY <2>3, ConservedPartsStep DEF Whole
  <2> QED BY <2>2, <2>3, <2>4 DEF IInv, Base
<1> QED BY <1>1, <1>2, PTL DEF Spec

\* The variables keep their types; no group outgrows NICFREE, however free()
\* finds it (alloc.c:95).
THEOREM TypeCorrect == Spec => []TypeOK
<1>1. IInv => TypeOK
  BY DEF IInv
<1> QED BY <1>1, Invariance, PTL

\* s_flock is set exactly while one process exchanges the group, and nobody
\* sleeps for it when it is off (alloc.c:34, alloc.c:49, alloc.c:87).
THEOREM LockCorrect == Spec => []LockExact
<1>1. IInv => LockExact
  BY DEF IInv
<1> QED BY <1>1, Invariance, PTL

\* No block is ever in two places: a number is once in the chain, in one file,
\* in the hands of one process in alloc() or free(), or lost with a link that
\* could not be read; and the chain stays intact (alloc.c:18).
THEOREM ConservedCorrect == Spec => []Conserved
<1>1. IInv => Conserved
  BY DEF IInv
<1> QED BY <1>1, Invariance, PTL

\* update() may copy the group while it is being exchanged, an s_nfree of 0 that
\* leads to no free block; and still s_fmod off with nobody at work means that
\* the disk's super block has the group, or nothing but lost blocks where
\* alloc() ran out of space (alloc.c:299, alloc.c:304).
THEOREM SuperCorrect == Spec => []SuperSaved
<1>1. ASSUME IInv PROVE SuperSaved
  <2> SUFFICES ASSUME ~s_fmod, \A p \in Procs : pc[p] \notin {"bread", "getblk", "spill", "bwrite"}
               PROVE  super = s_free \/ (s_free = <<>> /\ Elements(super) \cap Blocks \subseteq lost)
    BY DEF SuperSaved
  <2>1. SuperKept
    BY <1>1 DEF IInv
  <2> QED BY <2>1 DEF SuperKept, Elements
<1> QED BY <1>1, Invariance, PTL
=============================================================================
