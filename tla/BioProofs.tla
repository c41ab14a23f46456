----------------------------- MODULE BioProofs -----------------------------
(***************************************************************************)
(* Proofs about the buffer cache, for any number of processes, buffers and *)
(* blocks and with any transfer failing.                                   *)
(***************************************************************************)
EXTENDS Bio, SequenceTheorems, FiniteSetTheorems, TLAPS

(***************************************************************************)
(* The inductive invariant.                                                *)
(***************************************************************************)
InGetblk == {"getblk", "found", "getblk.age"}
GetblkReturns == {"bread", "full", "breada1", "breada3"}

\* Where each process is and what its locals hold there: only the running
\* process is at a point where it cannot be descheduled.
ControlAt(p) ==
  /\ pc[p] \notin {"client", "getblk", "geteblk", "iowait", "bwrite.iowait"} => cur = p
  /\ cur = p => wchan[p] = Awake
  /\ pc[p] \in InGetblk => want[p] \in Blocks /\ ret[p] \in GetblkReturns
  /\ pc[p] \in {"found", "bwrite.geterror"} \cup DOMAIN AgeReturn => cand[p] \in Bufs
  /\ bp[p] # NULL <=> pc[p] \in GetblkReturns \cup {"iowait", "bwrite.iowait"}
  /\ first[p] # NULL => \/ pc[p] \in {"breada2", "breada3", "breada4"}
                        \/ pc[p] \in InGetblk /\ ret[p] = "breada3"
  /\ \/ pc[p] \in {"breada1", "breada2", "breada3", "breada4"}
     \/ pc[p] \in InGetblk /\ ret[p] \in {"breada1", "breada3"}
     => blkno[p] \in Blocks

Control == \A p \in Procs : ControlAt(p)

\* p must release b.
Owns(p, b) == bp[p] = b \/ first[p] = b \/ b \in held[p]

\* No two processes own a buffer.
Exclusive ==
  \A p, q \in Procs, b \in Bufs : Owns(p, b) /\ Owns(q, b) => p = q

\* A process owns a buffer in one role only.
OneRole ==
  \A p \in Procs : /\ bp[p] # NULL => bp[p] # first[p] /\ bp[p] \notin held[p]
                   /\ first[p] \notin held[p]

\* What a process owns is busy and not the device's to release.
OwnedBusy ==
  \A p \in Procs, b \in Bufs :
    Owns(p, b) => "BUSY" \in b_flags[b] /\ "ASYNC" \notin b_flags[b]

\* What is busy is owned by a process or an asynchronous transfer.
BusyOwned ==
  \A b \in Bufs :
    /\ "BUSY" \in b_flags[b] => (\E p \in Procs : Owns(p, b)) \/ "ASYNC" \in b_flags[b]
    /\ b \in ioq => "BUSY" \in b_flags[b]
    /\ "ASYNC" \in b_flags[b] => b \in ioq

Ownership == Exclusive /\ OneRole /\ OwnedBusy /\ BusyOwned

\* What the flags of a buffer say about its transfer and its association.
AssociationOf(b) ==
  /\ b \in ioq => b_blkno[b] \in Blocks /\ "DONE" \notin b_flags[b]
  /\ "DELWRI" \in b_flags[b] =>
       b_blkno[b] \in Blocks /\ "DONE" \in b_flags[b] /\ "ERROR" \notin b_flags[b]
  /\ "ERROR" \in b_flags[b] => "DONE" \in b_flags[b]
  /\ "ERROR" \in b_flags[b] /\ "BUSY" \notin b_flags[b] => b_blkno[b] = NODEV

\* What a process may rely on about the buffers it points at.
AssociationAt(p) ==
  /\ pc[p] \in GetblkReturns =>
       /\ "DONE" \notin b_flags[bp[p]] => b_blkno[bp[p]] = want[p] /\ want[p] \in Blocks
       /\ "ERROR" \in b_flags[bp[p]] => b_blkno[bp[p]] = NODEV
       /\ bp[p] \notin ioq
  /\ pc[p] = "found" =>
       \/ b_blkno[cand[p]] = want[p]
       \/ "DONE" \in b_flags[cand[p]] /\ "BUSY" \notin b_flags[cand[p]]
  /\ pc[p] \in {"iowait", "bwrite.iowait"} =>
       bp[p] \in ioq \/ "DONE" \in b_flags[bp[p]]
  /\ first[p] # NULL => first[p] \in ioq \/ "DONE" \in b_flags[first[p]]
  /\ \A b \in held[p] :
       /\ b \notin ioq
       /\ "ERROR" \in b_flags[b] => u_error[p] \/ b_blkno[b] = NODEV

Association ==
  /\ \A b \in Bufs : AssociationOf(b)
  /\ \A p \in Procs : AssociationAt(p)

IInv ==
  /\ TypeOK
  /\ Control
  /\ Association
  /\ FreeListExact
  /\ Ownership
  /\ UniqueBlock
  /\ NoLostWakeup
-----------------------------------------------------------------------------
(* The available list.                                                     *)

\* Taking a buffer off the middle of the list (notavail) removes exactly that
\* buffer, and keeps a list without duplicates one.
LEMMA UnlinkProperties ==
  ASSUME NEW S, NEW s \in Seq(S), NEW b, IsInjective(s)
  PROVE  /\ Unlink(s, b) \in Seq(S)
         /\ IsInjective(Unlink(s, b))
         /\ \A x : OnList(Unlink(s, b), x) <=> OnList(s, x) /\ x # b
<1>1. CASE ~OnList(s, b)
  BY <1>1 DEF Unlink, OnList
<1>2. CASE OnList(s, b)
  <2> DEFINE k == CHOOSE i \in DOMAIN s : s[i] = b
             u == RemoveAt(s, k)
  <2>1. k \in 1 .. Len(s) /\ s[k] = b /\ Len(s) \in Nat
    BY <1>2 DEF OnList
  <2>2. Unlink(s, b) = u
    BY <1>2 DEF Unlink
  <2> HIDE DEF k
  <2>3. /\ u \in Seq(S)
        /\ Len(u) = Len(s) - 1
        /\ \A i \in 1 .. Len(u) : u[i] = IF i < k THEN s[i] ELSE s[i + 1]
    <3> DEFINE l == SubSeq(s, 1, k - 1)
               r == SubSeq(s, k + 1, Len(s))
    <3>1. /\ l \in Seq(S) /\ Len(l) = k - 1
          /\ \A i \in 1 .. k - 1 : l[i] = s[i]
      BY <2>1
    <3>2. /\ r \in Seq(S) /\ Len(r) = Len(s) - k
          /\ \A i \in 1 .. Len(s) - k : r[i] = s[k + i]
      BY <2>1
    <3>3. u = l \o r
      BY DEF RemoveAt
    <3> HIDE DEF l, r, u
    <3>4. /\ u \in Seq(S) /\ Len(u) = Len(l) + Len(r)
          /\ \A i \in 1 .. Len(l) + Len(r) :
               u[i] = IF i <= Len(l) THEN l[i] ELSE r[i - Len(l)]
      BY <3>1, <3>2, <3>3, ConcatProperties
    <3>5. ASSUME NEW i \in 1 .. Len(s) - 1
          PROVE  u[i] = IF i < k THEN s[i] ELSE s[i + 1]
      <4>1. CASE i < k
        BY <2>1, <3>1, <3>2, <3>4, <4>1, SMTT(30)
      <4>2. CASE i >= k
        <5>1. ~(i <= Len(l)) /\ i \in 1 .. Len(l) + Len(r) /\ i - Len(l) \in 1 .. Len(s) - k
          BY <2>1, <3>1, <3>2, <4>2
        <5>2. u[i] = r[i - Len(l)]
          BY <3>4, <5>1
        <5>3. r[i - Len(l)] = s[k + (i - Len(l))] /\ k + (i - Len(l)) = i + 1
          BY <2>1, <3>1, <3>2, <5>1
        <5> QED BY <2>1, <4>2, <5>2, <5>3
      <4> QED BY <2>1, <4>1, <4>2
    <3> QED BY <2>1, <3>1, <3>2, <3>4, <3>5
  <2> HIDE DEF u
  <2>4. IsInjective(u)
    BY <2>1, <2>3, SMTT(30) DEF IsInjective
  <2>5. ASSUME NEW x, OnList(u, x) PROVE OnList(s, x) /\ x # b
    BY <2>1, <2>3, <2>5, SMTT(30) DEF OnList, IsInjective
  <2>6. ASSUME NEW x, OnList(s, x), x # b PROVE OnList(u, x)
    <3>1. PICK i \in 1 .. Len(s) : s[i] = x
      BY <2>6 DEF OnList
    <3>2. CASE i < k
      BY <2>1, <2>3, <3>1, <3>2 DEF OnList
    <3>3. CASE i > k
      <4>1. i - 1 \in 1 .. Len(u) /\ u[i - 1] = x
        BY <2>1, <2>3, <3>1, <3>3
      <4> QED BY <2>3, <4>1 DEF OnList
    <3> QED BY <2>1, <2>6, <3>1, <3>2, <3>3
  <2> QED BY <2>2, <2>3, <2>4, <2>5, <2>6
<1> QED BY <1>1, <1>2

\* Taking the first buffer of the list removes exactly that buffer.
LEMMA TailProperties ==
  ASSUME NEW S, NEW s \in Seq(S), s # <<>>, IsInjective(s)
  PROVE  /\ Head(s) \in S /\ OnList(s, Head(s))
         /\ Tail(s) \in Seq(S)
         /\ IsInjective(Tail(s))
         /\ \A x : OnList(Tail(s), x) <=> OnList(s, x) /\ x # Head(s)
<1>1. /\ Len(s) \in Nat /\ Len(s) > 0 /\ Head(s) = s[1] /\ Head(s) \in S
      /\ Tail(s) \in Seq(S) /\ Len(Tail(s)) = Len(s) - 1
      /\ \A i \in 1 .. Len(Tail(s)) : Tail(s)[i] = s[i + 1]
  OBVIOUS
<1>2. IsInjective(Tail(s))
  BY <1>1 DEF IsInjective
<1>3. OnList(s, Head(s))
  BY <1>1 DEF OnList
<1>4. ASSUME NEW x, OnList(Tail(s), x) PROVE OnList(s, x) /\ x # Head(s)
  BY <1>1, <1>4 DEF OnList, IsInjective
<1>5. ASSUME NEW x, OnList(s, x), x # Head(s) PROVE OnList(Tail(s), x)
  <2>1. PICK i \in 1 .. Len(s) : s[i] = x
    BY <1>5 DEF OnList
  <2>2. i - 1 \in 1 .. Len(Tail(s)) /\ Tail(s)[i - 1] = x
    BY <1>1, <1>5, <2>1
  <2>3. DOMAIN Tail(s) = 1 .. Len(Tail(s))
    BY <1>1
  <2> QED BY <2>2, <2>3 DEF OnList
<1> QED BY <1>1, <1>2, <1>3, <1>4, <1>5

\* Putting a buffer that is not on the list at its end (brelse) adds exactly
\* that buffer.
LEMMA AppendProperty ==
  ASSUME NEW S, NEW s \in Seq(S), NEW b \in S, IsInjective(s), ~OnList(s, b)
  PROVE  /\ Append(s, b) \in Seq(S)
         /\ IsInjective(Append(s, b))
         /\ \A x : OnList(Append(s, b), x) <=> OnList(s, x) \/ x = b
<1> DEFINE t == Append(s, b)
<1>1. /\ Len(s) \in Nat /\ t \in Seq(S) /\ Len(t) = Len(s) + 1
      /\ \A i \in 1 .. Len(s) : t[i] = s[i]
      /\ t[Len(s) + 1] = b
  OBVIOUS
<1> HIDE DEF t
<1>2. IsInjective(t)
  BY <1>1 DEF IsInjective, OnList
<1>3. \A x : OnList(t, x) <=> OnList(s, x) \/ x = b
  BY <1>1 DEF OnList
<1> QED BY <1>1, <1>2, <1>3 DEF t

\* Putting it at the front, as brelse() does with a B_AGE buffer, as well.
LEMMA PrependProperty ==
  ASSUME NEW S, NEW s \in Seq(S), NEW b \in S, IsInjective(s), ~OnList(s, b)
  PROVE  /\ <<b>> \o s \in Seq(S)
         /\ IsInjective(<<b>> \o s)
         /\ \A x : OnList(<<b>> \o s, x) <=> OnList(s, x) \/ x = b
<1> DEFINE t == <<b>> \o s
<1>1. /\ Len(s) \in Nat /\ t \in Seq(S) /\ Len(t) = Len(s) + 1
      /\ \A i \in 1 .. Len(s) : t[i + 1] = s[i]
      /\ t[1] = b
  OBVIOUS
<1> HIDE DEF t
<1>0. \A i \in 2 .. Len(t) : i - 1 \in 1 .. Len(s) /\ t[i] = s[i - 1]
  BY <1>1
<1>2. IsInjective(t)
  BY <1>0, <1>1 DEF IsInjective, OnList
<1>3. ASSUME NEW x, OnList(t, x) PROVE OnList(s, x) \/ x = b
  BY <1>0, <1>1, <1>3 DEF OnList
<1>4. ASSUME NEW x, OnList(s, x) \/ x = b PROVE OnList(t, x)
  BY <1>1, <1>4 DEF OnList
<1> QED BY <1>1, <1>2, <1>3, <1>4 DEF t

-----------------------------------------------------------------------------
(* Type correctness.                                                       *)

\* The types of what brelse() changes.
BufTypes ==
  /\ b_flags \in [Bufs -> SUBSET Flags]
  /\ b_blkno \in [Bufs -> Blocks \cup {NODEV}]
  /\ av \in Seq(Bufs)
  /\ bfwanted \in BOOLEAN
  /\ wchan \in [Procs -> Bufs \cup {Bfreelist, Awake}]

\* brelse() keeps them.
LEMMA BrelseTypes ==
  ASSUME TypeOK, NEW b \in Bufs, NEW fl \in SUBSET Flags, brelse(b, fl)
  PROVE  BufTypes'
<1>1. av' \in Seq(Bufs)
  BY DEF TypeOK, brelse
<1>2. b_flags' \in [Bufs -> SUBSET Flags] /\ b_blkno' \in [Bufs -> Blocks \cup {NODEV}]
  BY DEF TypeOK, brelse
<1>3. bfwanted' \in BOOLEAN /\ wchan' \in [Procs -> Bufs \cup {Bfreelist, Awake}]
  BY DEF TypeOK, brelse
<1> QED BY <1>1, <1>2, <1>3 DEF BufTypes

\* Pushing a delayed write out keeps every type.
LEMMA PushTypes ==
  ASSUME TypeOK, FreeListExact, NEW p \in Procs, NEW b \in Bufs, NEW c \in PCs,
         PushDelayed(p, b, c)
  PROVE  TypeOK'
<1>1. av' \in Seq(Bufs)
  BY UnlinkProperties DEF TypeOK, FreeListExact, PushDelayed
<1> QED
  BY <1>1 DEF TypeOK, PushDelayed, strategy, bwriteFlags, Goto, callVars, Flags

\* Every step keeps the types.
LEMMA TypeStep ==
  ASSUME TypeOK, Control, Association, FreeListExact, Next
  PROVE  TypeOK'
<1> USE BioAssumption DEF TypeOK, Control, ControlAt, Association, AssociationOf,
     AssociationAt, InGetblk, GetblkReturns, PCs, Flags, bufVars, ioVars, callVars
<1>1. ASSUME NEW p \in Procs, NEW k \in Blocks, CallBread(p, k) PROVE TypeOK'
  BY <1>1 DEF CallBread, MayCall, MayAskFor, Enter, Goto, Runnable
<1>2. ASSUME NEW p \in Procs, NEW k \in Blocks, CallGetblk(p, k) PROVE TypeOK'
  BY <1>2 DEF CallGetblk, MayCall, MayAskFor, Enter, Goto, Runnable
<1>3. ASSUME NEW p \in Procs, NEW k \in Blocks, NEW r \in Blocks \cup {NULL},
     CallBreada(p, k, r)
      PROVE  TypeOK'
  BY <1>3 DEF CallBreada, MayCall, Enter, Goto, Runnable
<1>4. ASSUME NEW p \in Procs, CallGeteblk(p) PROVE TypeOK'
  BY <1>4 DEF CallGeteblk, MayCall, Enter, Goto, Runnable
<1>5. ASSUME NEW p \in Procs, CallBflush(p) PROVE TypeOK'
  BY <1>5 DEF CallBflush, MayCall, Enter, Goto, Runnable
<1>6. ASSUME NEW p \in Procs, NEW b \in held[p], WriteWild(p, b) PROVE TypeOK'
  BY <1>6 DEF WriteWild, MayRelease, Goto, Runnable
<1>7. ASSUME NEW p \in Procs, NEW b \in held[p], NEW v \in Vals, Bwrite(p, b, v)
      PROVE  TypeOK'
  BY <1>7 DEF Bwrite, MayWrite, MayRelease, Modify, strategy, bwriteFlags, Goto, Runnable
<1>8. ASSUME NEW p \in Procs, NEW b \in held[p], NEW v \in Vals, Bawrite(p, b, v)
      PROVE  TypeOK'
  BY <1>8 DEF Bawrite, MayWrite, MayRelease, Modify, bawrite, strategy, bwriteFlags, Goto,
       Runnable
<1>9. ASSUME NEW p \in Procs, GetblkFound(p) PROVE TypeOK'
  BY <1>9 DEF GetblkFound, AtGetblk, Goto, Runnable
<1>10. ASSUME NEW p \in Procs, GetblkBusy(p) PROVE TypeOK'
  BY <1>10 DEF GetblkBusy, sleep, Runnable
<1>11. ASSUME NEW p \in Procs, GetblkEmpty(p) PROVE TypeOK'
  BY <1>11 DEF GetblkEmpty, AtGetblk, incore, sleep, Runnable
<1>12. ASSUME NEW p \in Procs, GetblkTake(p) PROVE TypeOK'
  BY <1>12 DEF GetblkTake, AtGetblk, incore, Goto, Runnable
<1>13. ASSUME NEW p \in Procs, GeteblkEmpty(p) PROVE TypeOK'
  BY <1>13 DEF GeteblkEmpty, AtGeteblk, sleep, Runnable
<1>14. ASSUME NEW p \in Procs, GeteblkTake(p) PROVE TypeOK'
  BY <1>14 DEF GeteblkTake, AtGeteblk, Return, Runnable
<1>15. ASSUME NEW p \in Procs, BflushDone(p) PROVE TypeOK'
  BY <1>15 DEF BflushDone, Return, Runnable
<1>16. ASSUME NEW p \in Procs, SetAge(p) PROVE TypeOK'
  BY <1>16 DEF SetAge, AgeReturn, Runnable
<1>17. ASSUME NEW p \in Procs, Full(p) PROVE TypeOK'
  BY <1>17 DEF Full, Return, Runnable
<1>18. ASSUME NEW p \in Procs, BreadCached(p) PROVE TypeOK'
  BY <1>18 DEF BreadCached, Return, Runnable
<1>19. ASSUME NEW p \in Procs, BreadStart(p) PROVE TypeOK'
  BY <1>19 DEF BreadStart, strategy, Goto, Runnable
<1>20. ASSUME NEW p \in Procs, IowaitSleep(p) PROVE TypeOK'
  BY <1>20 DEF IowaitSleep, sleep, Runnable
<1>21. ASSUME NEW p \in Procs, IowaitDone(p) PROVE TypeOK'
  BY <1>21 DEF IowaitDone, geterror, Return, Runnable
<1>22. ASSUME NEW p \in Procs, BawriteGeterror(p) PROVE TypeOK'
  BY <1>22 DEF BawriteGeterror, geterror, Return, Runnable
<1> HIDE BioAssumption DEF TypeOK, Control, ControlAt, Association, AssociationOf,
     AssociationAt, InGetblk, GetblkReturns, PCs, Flags, bufVars, ioVars, callVars
<1>23. ASSUME NEW p \in Procs, NEW b \in held[p], Brelse(p, b) PROVE TypeOK'
  <2>1. b \in Bufs /\ b_flags[b] \in SUBSET Flags
    BY <1>23, BioAssumption DEF Brelse, TypeOK, Control, ControlAt, GetblkReturns, Flags
  <2>2. BufTypes'
    BY <1>23, <2>1, BrelseTypes DEF Brelse
  <2> QED
    BY <1>23, <2>1, <2>2 DEF Brelse, TypeOK, BufTypes, PCs, ioVars, callVars
<1>24. ASSUME NEW p \in Procs, NEW b \in held[p], NEW v \in Vals, Bdwrite(p, b, v)
      PROVE  TypeOK'
  <2>1. b \in Bufs /\ b_flags[b] \cup {"DELWRI", "DONE"} \in SUBSET Flags
    BY <1>24 DEF TypeOK, Flags
  <2>2. CASE b_blkno[b] \in Tapes /\ bawrite(p, b)
    BY <1>24, <2>1, <2>2, ZenonT(40) DEF Bdwrite, bawrite, strategy, bwriteFlags, Goto, Modify, TypeOK,
       PCs, Flags, callVars
  <2>3. CASE /\ brelse(b, b_flags[b] \cup {"DELWRI", "DONE"})
             /\ UNCHANGED <<ioq, pc, cand, cur>>
    <3>1. BufTypes'
      BY <2>1, <2>3, BrelseTypes
    <3> QED
      BY <1>24, <2>1, <2>3, <3>1 DEF Bdwrite, Modify, TypeOK, BufTypes, callVars
  <2> QED BY <1>24, <2>2, <2>3 DEF Bdwrite
<1>25. ASSUME NEW p \in Procs, GetblkHit(p) PROVE TypeOK'
  <2>1. av' \in Seq(Bufs)
    BY <1>25, UnlinkProperties DEF GetblkHit, TypeOK, FreeListExact
  <2> QED
    BY <1>25, <2>1 DEF GetblkHit, Goto, TypeOK, Flags, ioVars, callVars
<1>26. ASSUME NEW p \in Procs, GetblkPush(p) PROVE TypeOK'
  <2>1. Head(av) \in Bufs
    BY <1>26 DEF GetblkPush, TypeOK
  <2> QED BY <1>26, <2>1, PushTypes DEF GetblkPush, PCs
<1>27. ASSUME NEW p \in Procs, GeteblkPush(p) PROVE TypeOK'
  <2>1. Head(av) \in Bufs
    BY <1>27 DEF GeteblkPush, TypeOK
  <2> QED BY <1>27, <2>1, PushTypes DEF GeteblkPush, PCs
<1>28. ASSUME NEW p \in Procs, BflushPush(p) PROVE TypeOK'
  <2>1. PICK i \in DOMAIN av : PushDelayed(p, av[i], "bflush.age")
    BY <1>28 DEF BflushPush
  <2>2. av[i] \in Bufs
    BY <2>1 DEF TypeOK
  <2> QED BY <2>1, <2>2, PushTypes DEF PCs
<1>29. ASSUME NEW p \in Procs, Breada1(p) PROVE TypeOK'
  <2>1. b_flags' \in [Bufs -> SUBSET Flags] /\ ioq' \in SUBSET Bufs
    <3>1. CASE UNCHANGED <<b_flags, ioq>>
      BY <3>1 DEF TypeOK
    <3>2. CASE strategy(bp[p], b_flags[bp[p]] \cup {"READ"})
      <4>1. bp[p] \in Bufs
        BY <1>29 DEF Breada1, TypeOK, Control, ControlAt, GetblkReturns
      <4> QED BY <3>2, <4>1 DEF strategy, TypeOK, Flags
    <3> QED BY <1>29, <3>1, <3>2 DEF Breada1
  <2> QED
    BY <1>29, <2>1 DEF Breada1, Goto, TypeOK, PCs, callVars
<1>30. ASSUME NEW p \in Procs, Breada2(p) PROVE TypeOK'
  <2>1. want' \in [Procs -> Blocks \cup {NULL}] /\ ret' \in [Procs -> PCs]
    BY <1>30 DEF Breada2, TypeOK, PCs
  <2>2. pc' \in [Procs -> PCs] /\ cur' \in Procs \cup {NULL}
    BY <1>30 DEF Breada2, Goto, TypeOK, PCs
  <2> QED
    BY <1>30, <2>1, <2>2 DEF Breada2, TypeOK, bufVars, ioVars, callVars
<1>31. ASSUME NEW p \in Procs, Breada3(p) PROVE TypeOK'
  <2>1. bp[p] \in Bufs /\ b_flags[bp[p]] \in SUBSET Flags
    BY <1>31, BioAssumption DEF Breada3, TypeOK, Control, ControlAt, GetblkReturns
  <2>2. BufTypes' /\ ioq' \in SUBSET Bufs
    <3>1. CASE brelse(bp[p], b_flags[bp[p]]) /\ UNCHANGED ioq
      BY <2>1, <3>1, BrelseTypes DEF TypeOK
    <3>2. CASE /\ strategy(bp[p], b_flags[bp[p]] \cup {"READ", "ASYNC"})
               /\ UNCHANGED <<b_blkno, av, bfwanted, wchan>>
      BY <2>1, <3>2 DEF TypeOK, BufTypes, strategy, Flags
    <3> QED BY <1>31, <3>1, <3>2 DEF Breada3
  <2> QED
    BY <1>31, <2>1, <2>2 DEF Breada3, Goto, TypeOK, BufTypes, PCs, callVars
<1>32. ASSUME NEW p \in Procs, Breada4(p) PROVE TypeOK'
  <2>1. /\ want' \in [Procs -> Blocks \cup {NULL}] /\ ret' \in [Procs -> PCs]
        /\ bp' \in [Procs -> Bufs \cup {NULL}] /\ first' \in [Procs -> Bufs \cup {NULL}]
    BY <1>32 DEF Breada4, TypeOK, PCs
  <2>2. pc' \in [Procs -> PCs] /\ cur' \in Procs \cup {NULL}
    BY <1>32 DEF Breada4, Goto, TypeOK, PCs
  <2> QED
    BY <1>32, <2>1, <2>2 DEF Breada4, TypeOK, bufVars, ioVars, callVars
<1>33. ASSUME NEW p \in Procs, BwriteDone(p) PROVE TypeOK'
  <2>1. bp[p] \in Bufs /\ b_flags[bp[p]] \in SUBSET Flags
    BY <1>33, BioAssumption DEF BwriteDone, geterror, Return, Runnable, TypeOK, Control,
         ControlAt, GetblkReturns, Flags
  <2>2. BufTypes'
    BY <1>33, <2>1, BrelseTypes DEF BwriteDone
  <2> QED
    BY <1>33, <2>1, <2>2 DEF BwriteDone, geterror, Return, Runnable, TypeOK, BufTypes,
         PCs, ioVars, callVars
<1>34. ASSUME NEW b \in Bufs, NEW failed \in BOOLEAN, Interrupt(b, failed) PROVE TypeOK'
  <2> DEFINE fl == b_flags[b] \cup {"DONE"} \cup (IF failed THEN {"ERROR"} ELSE {})
  <2>1. fl \in SUBSET Flags
    BY DEF TypeOK, Flags
  <2>2. BufTypes'
    <3>1. CASE "ASYNC" \in fl
      BY <1>34, <2>1, <3>1, BrelseTypes DEF Interrupt, iodone
    <3>2. CASE "ASYNC" \notin fl
      <4> HIDE DEF fl
      <4>1. iodone(b, fl)
        BY <1>34 DEF Interrupt, fl
      <4>2. /\ b_flags' = [b_flags EXCEPT ![b] = fl \ {"WANTED"}]
            /\ wchan' = [p \in Procs |-> IF wchan[p] = b THEN Awake ELSE wchan[p]]
            /\ UNCHANGED <<b_blkno, av, bfwanted>>
        BY <3>2, <4>1, Zenon DEF iodone
      <4> QED BY <2>1, <4>2 DEF TypeOK, BufTypes
    <3> QED BY <3>1, <3>2
  <2>3. b_blkno[b] \in Blocks
    BY <1>34 DEF Interrupt, Association, AssociationOf
  <2>4. /\ b_addr' \in [Bufs -> Vals] /\ disk' \in [Blocks -> Vals]
        /\ latest' \in [Blocks -> Vals]
    <3>1. Transfer(b, failed)
      BY <1>34 DEF Interrupt
    <3> QED BY <2>3, <3>1 DEF Transfer, TypeOK
  <2>5. ioq' \in SUBSET Bufs
    BY <1>34 DEF Interrupt, TypeOK
  <2> QED
    BY <1>34, <2>2, <2>4, <2>5 DEF Interrupt, TypeOK, BufTypes, callVars
<1> QED
  BY <1>1, <1>2, <1>3, <1>4, <1>5, <1>6, <1>7, <1>8, <1>9, <1>10, <1>11, <1>12, <1>13,
       <1>14, <1>15, <1>16, <1>17, <1>18, <1>19, <1>20, <1>21, <1>22, <1>23, <1>24, <1>25,
       <1>26, <1>27, <1>28, <1>29, <1>30, <1>31, <1>32, <1>33, <1>34 DEF Next, Call, Release,
       Kernel, Device

-----------------------------------------------------------------------------
(* Control.                                                                *)

\* Every step keeps the control invariant.
LEMMA ControlStep ==
  ASSUME TypeOK, Control, Next
  PROVE  Control'
<1> USE BioAssumption DEF TypeOK, Control, ControlAt, InGetblk, GetblkReturns, AgeReturn,
     bufVars, ioVars, callVars
<1>1. ASSUME NEW p \in Procs, NEW k \in Blocks, CallBread(p, k) PROVE Control'
  BY <1>1 DEF CallBread, MayCall, MayAskFor, Enter, Goto, Runnable
<1>2. ASSUME NEW p \in Procs, NEW k \in Blocks, CallGetblk(p, k) PROVE Control'
  BY <1>2 DEF CallGetblk, MayCall, MayAskFor, Enter, Goto, Runnable
<1>3. ASSUME NEW p \in Procs, NEW k \in Blocks, NEW r \in Blocks \cup {NULL},
     CallBreada(p, k, r)
      PROVE  Control'
  BY <1>3 DEF CallBreada, MayCall, Enter, Goto, Runnable
<1>4. ASSUME NEW p \in Procs, CallGeteblk(p) PROVE Control'
  BY <1>4 DEF CallGeteblk, MayCall, Enter, Goto, Runnable
<1>5. ASSUME NEW p \in Procs, CallBflush(p) PROVE Control'
  BY <1>5 DEF CallBflush, MayCall, Enter, Goto, Runnable
<1>6. ASSUME NEW p \in Procs, NEW b \in held[p], Brelse(p, b) PROVE Control'
  BY <1>6 DEF Brelse, MayRelease, brelse, Runnable
<1>7. ASSUME NEW p \in Procs, NEW b \in held[p], WriteWild(p, b) PROVE Control'
  BY <1>7 DEF WriteWild, MayRelease, Goto, Runnable
<1>8. ASSUME NEW p \in Procs, NEW b \in held[p], NEW v \in Vals, Bwrite(p, b, v)
      PROVE  Control'
  BY <1>8 DEF Bwrite, MayWrite, MayRelease, Modify, strategy, bwriteFlags, Goto, Runnable
<1>9. ASSUME NEW p \in Procs, NEW b \in held[p], NEW v \in Vals, Bawrite(p, b, v)
      PROVE  Control'
  BY <1>9 DEF Bawrite, MayWrite, MayRelease, Modify, bawrite, strategy, bwriteFlags, Goto,
       Runnable
<1>10. ASSUME NEW p \in Procs, NEW b \in held[p], NEW v \in Vals, Bdwrite(p, b, v)
      PROVE  Control'
  BY <1>10 DEF Bdwrite, MayWrite, MayRelease, Modify, bawrite, strategy, bwriteFlags,
       Goto, brelse, Runnable
<1>11. ASSUME NEW p \in Procs, GetblkFound(p) PROVE Control'
  BY <1>11 DEF GetblkFound, AtGetblk, Goto, Runnable
<1>12. ASSUME NEW p \in Procs, GetblkEmpty(p) PROVE Control'
  BY <1>12 DEF GetblkEmpty, AtGetblk, incore, sleep, Runnable
<1>13. ASSUME NEW p \in Procs, GetblkPush(p) PROVE Control'
  BY <1>13 DEF GetblkPush, AtGetblk, incore, PushDelayed, strategy, bwriteFlags, Goto,
       Runnable
<1>14. ASSUME NEW p \in Procs, GetblkTake(p) PROVE Control'
  BY <1>14 DEF GetblkTake, AtGetblk, incore, Goto, Runnable
<1>15. ASSUME NEW p \in Procs, GeteblkEmpty(p) PROVE Control'
  BY <1>15 DEF GeteblkEmpty, AtGeteblk, sleep, Runnable
<1>16. ASSUME NEW p \in Procs, GeteblkPush(p) PROVE Control'
  BY <1>16 DEF GeteblkPush, AtGeteblk, PushDelayed, strategy, bwriteFlags, Goto, Runnable
<1>17. ASSUME NEW p \in Procs, GeteblkTake(p) PROVE Control'
  BY <1>17 DEF GeteblkTake, AtGeteblk, Return, Runnable
<1>18. ASSUME NEW p \in Procs, BflushPush(p) PROVE Control'
  BY <1>18 DEF BflushPush, PushDelayed, strategy, bwriteFlags, Goto, Runnable
<1>19. ASSUME NEW p \in Procs, BflushDone(p) PROVE Control'
  BY <1>19 DEF BflushDone, Return, Runnable
<1>20. ASSUME NEW p \in Procs, IowaitSleep(p) PROVE Control'
  BY <1>20 DEF IowaitSleep, sleep, Runnable
<1>21. ASSUME NEW p \in Procs, IowaitDone(p) PROVE Control'
  BY <1>21 DEF IowaitDone, geterror, Return, Runnable
<1>22. ASSUME NEW p \in Procs, BwriteDone(p) PROVE Control'
  BY <1>22 DEF BwriteDone, geterror, brelse, Return, Runnable
<1>23. ASSUME NEW p \in Procs, BawriteGeterror(p) PROVE Control'
  BY <1>23 DEF BawriteGeterror, geterror, Return, Runnable
<1>24. ASSUME NEW b \in Bufs, NEW failed \in BOOLEAN, Interrupt(b, failed) PROVE Control'
  BY <1>24 DEF Interrupt, iodone, brelse, Transfer
<1> HIDE BioAssumption DEF TypeOK, Control, ControlAt, InGetblk, GetblkReturns, AgeReturn,
     bufVars, ioVars, callVars
<1>25. ASSUME NEW p \in Procs, GetblkBusy(p) PROVE Control'
  <2>1. cur = p /\ wchan[p] = Awake
    BY <1>25 DEF GetblkBusy, Control, ControlAt, GetblkReturns, AgeReturn
  <2>2. ASSUME NEW q \in Procs, q # p PROVE ControlAt(q)'
    <3>1. ControlAt(q) /\ cur # q
      BY <2>1, <2>2 DEF Control
    <3> QED BY <1>25, <2>1, <2>2, <3>1, BioAssumption DEF GetblkBusy, sleep, ControlAt,
         TypeOK, InGetblk,
       GetblkReturns, AgeReturn, bufVars, ioVars, callVars
  <2>3. ControlAt(p)'
    <3>1. ControlAt(p)
      BY DEF Control
    <3> QED BY <1>25, <2>1, <3>1, BioAssumption DEF GetblkBusy, sleep, ControlAt, TypeOK,
         InGetblk,
       GetblkReturns, AgeReturn, bufVars, ioVars, callVars
  <2> QED BY <2>2, <2>3 DEF Control
<1>26. ASSUME NEW p \in Procs, GetblkHit(p) PROVE Control'
  <2>1. cur = p /\ wchan[p] = Awake
    BY <1>26 DEF GetblkHit, Control, ControlAt, GetblkReturns, AgeReturn
  <2>2. ASSUME NEW q \in Procs, q # p PROVE ControlAt(q)'
    <3>1. ControlAt(q) /\ cur # q
      BY <2>1, <2>2 DEF Control
    <3> QED BY <1>26, <2>1, <2>2, <3>1, BioAssumption DEF GetblkHit, Goto, ControlAt,
         TypeOK, InGetblk,
       GetblkReturns, AgeReturn, bufVars, ioVars, callVars
  <2>3. ControlAt(p)'
    <3>1. ControlAt(p)
      BY DEF Control
    <3> QED BY <1>26, <2>1, <3>1, BioAssumption DEF GetblkHit, Goto, ControlAt, TypeOK,
         InGetblk,
       GetblkReturns, AgeReturn, bufVars, ioVars, callVars
  <2> QED BY <2>2, <2>3 DEF Control
<1>27. ASSUME NEW p \in Procs, SetAge(p) PROVE Control'
  <2>1. cur = p /\ wchan[p] = Awake
    BY <1>27 DEF SetAge, Control, ControlAt, GetblkReturns, AgeReturn
  <2>2. ASSUME NEW q \in Procs, q # p PROVE ControlAt(q)'
    <3>1. ControlAt(q) /\ cur # q
      BY <2>1, <2>2 DEF Control
    <3> QED BY <1>27, <2>1, <2>2, <3>1, BioAssumption DEF SetAge, AgeReturn, ControlAt,
         TypeOK, InGetblk,
       GetblkReturns, AgeReturn, bufVars, ioVars, callVars
  <2>3. ControlAt(p)'
    <3>1. ControlAt(p)
      BY DEF Control
    <3> QED BY <1>27, <2>1, <3>1, BioAssumption DEF SetAge, AgeReturn, ControlAt, TypeOK,
         InGetblk,
       GetblkReturns, AgeReturn, bufVars, ioVars, callVars
  <2> QED BY <2>2, <2>3 DEF Control
<1>28. ASSUME NEW p \in Procs, Full(p) PROVE Control'
  <2>1. cur = p /\ wchan[p] = Awake
    BY <1>28 DEF Full, Control, ControlAt, GetblkReturns, AgeReturn
  <2>2. ASSUME NEW q \in Procs, q # p PROVE ControlAt(q)'
    <3>1. ControlAt(q) /\ cur # q
      BY <2>1, <2>2 DEF Control
    <3> QED BY <1>28, <2>1, <2>2, <3>1, BioAssumption DEF Full, Return, ControlAt, TypeOK,
         InGetblk,
       GetblkReturns, AgeReturn, bufVars, ioVars, callVars
  <2>3. ControlAt(p)'
    <3>1. ControlAt(p)
      BY DEF Control
    <3> QED BY <1>28, <2>1, <3>1, BioAssumption DEF Full, Return, ControlAt, TypeOK,
         InGetblk,
       GetblkReturns, AgeReturn, bufVars, ioVars, callVars
  <2> QED BY <2>2, <2>3 DEF Control
<1>29. ASSUME NEW p \in Procs, BreadCached(p) PROVE Control'
  <2>1. cur = p /\ wchan[p] = Awake
    BY <1>29 DEF BreadCached, Control, ControlAt, GetblkReturns, AgeReturn
  <2>2. ASSUME NEW q \in Procs, q # p PROVE ControlAt(q)'
    <3>1. ControlAt(q) /\ cur # q
      BY <2>1, <2>2 DEF Control
    <3> QED BY <1>29, <2>1, <2>2, <3>1, BioAssumption DEF BreadCached, Return, ControlAt,
         TypeOK, InGetblk,
       GetblkReturns, AgeReturn, bufVars, ioVars, callVars
  <2>3. ControlAt(p)'
    <3>1. ControlAt(p)
      BY DEF Control
    <3> QED BY <1>29, <2>1, <3>1, BioAssumption DEF BreadCached, Return, ControlAt,
         TypeOK, InGetblk,
       GetblkReturns, AgeReturn, bufVars, ioVars, callVars
  <2> QED BY <2>2, <2>3 DEF Control
<1>30. ASSUME NEW p \in Procs, BreadStart(p) PROVE Control'
  <2>1. cur = p /\ wchan[p] = Awake
    BY <1>30 DEF BreadStart, Control, ControlAt, GetblkReturns, AgeReturn
  <2>2. ASSUME NEW q \in Procs, q # p PROVE ControlAt(q)'
    <3>1. ControlAt(q) /\ cur # q
      BY <2>1, <2>2 DEF Control
    <3> QED BY <1>30, <2>1, <2>2, <3>1, BioAssumption DEF BreadStart, strategy, Goto,
         ControlAt, TypeOK, InGetblk,
       GetblkReturns, AgeReturn, bufVars, ioVars, callVars
  <2>3. ControlAt(p)'
    <3>1. ControlAt(p)
      BY DEF Control
    <3> QED BY <1>30, <2>1, <3>1, BioAssumption DEF BreadStart, strategy, Goto, ControlAt,
         TypeOK, InGetblk,
       GetblkReturns, AgeReturn, bufVars, ioVars, callVars
  <2> QED BY <2>2, <2>3 DEF Control
<1>31. ASSUME NEW p \in Procs, Breada1(p) PROVE Control'
  <2>1. cur = p /\ wchan[p] = Awake
    BY <1>31 DEF Breada1, Control, ControlAt, GetblkReturns, AgeReturn
  <2>2. ASSUME NEW q \in Procs, q # p PROVE ControlAt(q)'
    <3>1. ControlAt(q) /\ cur # q
      BY <2>1, <2>2 DEF Control
    <3> QED BY <1>31, <2>1, <2>2, <3>1, BioAssumption DEF Breada1, strategy, Goto,
         ControlAt, TypeOK, InGetblk,
       GetblkReturns, AgeReturn, bufVars, ioVars, callVars
  <2>3. ControlAt(p)'
    <3>1. ControlAt(p)
      BY DEF Control
    <3> QED BY <1>31, <2>1, <3>1, BioAssumption DEF Breada1, strategy, Goto, ControlAt,
         TypeOK, InGetblk,
       GetblkReturns, AgeReturn, bufVars, ioVars, callVars
  <2> QED BY <2>2, <2>3 DEF Control
<1>32. ASSUME NEW p \in Procs, Breada2(p) PROVE Control'
  <2>1. cur = p /\ wchan[p] = Awake
    BY <1>32 DEF Breada2, Control, ControlAt, GetblkReturns, AgeReturn
  <2>2. ASSUME NEW q \in Procs, q # p PROVE ControlAt(q)'
    <3>1. ControlAt(q) /\ cur # q
      BY <2>1, <2>2 DEF Control
    <3> QED BY <1>32, <2>1, <2>2, <3>1, BioAssumption DEF Breada2, Goto, ControlAt,
         TypeOK, InGetblk,
       GetblkReturns, AgeReturn, bufVars, ioVars, callVars
  <2>3. ControlAt(p)'
    <3>1. ControlAt(p)
      BY DEF Control
    <3> QED BY <1>32, <2>1, <3>1, BioAssumption DEF Breada2, Goto, ControlAt, TypeOK,
         InGetblk,
       GetblkReturns, AgeReturn, bufVars, ioVars, callVars
  <2> QED BY <2>2, <2>3 DEF Control
<1>33. ASSUME NEW p \in Procs, Breada3(p) PROVE Control'
  <2>1. cur = p /\ wchan[p] = Awake
    BY <1>33 DEF Breada3, Control, ControlAt, GetblkReturns, AgeReturn
  <2>2. ASSUME NEW q \in Procs, q # p PROVE ControlAt(q)'
    <3>1. ControlAt(q) /\ cur # q
      BY <2>1, <2>2 DEF Control
    <3> QED BY <1>33, <2>1, <2>2, <3>1, BioAssumption DEF Breada3, strategy, brelse, Goto,
         ControlAt, TypeOK, InGetblk,
       GetblkReturns, AgeReturn, bufVars, ioVars, callVars
  <2>3. ControlAt(p)'
    <3>1. ControlAt(p)
      BY DEF Control
    <3> QED BY <1>33, <2>1, <3>1, BioAssumption DEF Breada3, strategy, brelse, Goto,
         ControlAt, TypeOK, InGetblk,
       GetblkReturns, AgeReturn, bufVars, ioVars, callVars
  <2> QED BY <2>2, <2>3 DEF Control
<1>34. ASSUME NEW p \in Procs, Breada4(p) PROVE Control'
  <2>1. cur = p /\ wchan[p] = Awake
    BY <1>34 DEF Breada4, Control, ControlAt, GetblkReturns, AgeReturn
  <2>2. ASSUME NEW q \in Procs, q # p PROVE ControlAt(q)'
    <3>1. ControlAt(q) /\ cur # q
      BY <2>1, <2>2 DEF Control
    <3> QED BY <1>34, <2>1, <2>2, <3>1, BioAssumption DEF Breada4, Goto, ControlAt,
         TypeOK, InGetblk,
       GetblkReturns, AgeReturn, bufVars, ioVars, callVars
  <2>3. ControlAt(p)'
    <3>1. ControlAt(p)
      BY DEF Control
    <3> QED BY <1>34, <2>1, <3>1, BioAssumption DEF Breada4, Goto, ControlAt, TypeOK,
         InGetblk,
       GetblkReturns, AgeReturn, bufVars, ioVars, callVars
  <2> QED BY <2>2, <2>3 DEF Control
<1> QED
  BY <1>1, <1>2, <1>3, <1>4, <1>5, <1>6, <1>7, <1>8, <1>9, <1>10, <1>11, <1>12, <1>13,
       <1>14, <1>15, <1>16, <1>17, <1>18, <1>19, <1>20, <1>21, <1>22, <1>23, <1>24, <1>25,
       <1>26, <1>27, <1>28, <1>29, <1>30, <1>31, <1>32, <1>33, <1>34 DEF Next, Call, Release,
       Kernel, Device

-----------------------------------------------------------------------------
(* Steps on the available list.                                            *)

\* A buffer on the available list is not busy, so that no process owns it.
LEMMA AvailableFree ==
  ASSUME TypeOK, FreeListExact, Ownership, NEW b, OnList(av, b)
  PROVE  /\ b \in Bufs /\ "BUSY" \notin b_flags[b]
         /\ b \notin ioq /\ "ASYNC" \notin b_flags[b]
         /\ \A p \in Procs : ~Owns(p, b)
<1>1. b \in Bufs
  BY DEF TypeOK, OnList
<1> QED BY <1>1 DEF FreeListExact, Ownership, OwnedBusy, BusyOwned

\* So is the first one.
LEMMA HeadFree ==
  ASSUME TypeOK, FreeListExact, Ownership, av # <<>>
  PROVE  /\ Head(av) \in Bufs /\ "BUSY" \notin b_flags[Head(av)]
         /\ Head(av) \notin ioq /\ "ASYNC" \notin b_flags[Head(av)]
         /\ \A p \in Procs : ~Owns(p, Head(av))
<1>1. OnList(av, Head(av))
  BY TailProperties DEF TypeOK, FreeListExact
<1> QED BY <1>1, AvailableFree

\* brelse() of a busy buffer keeps the list exact.
LEMMA BrelseFreeList ==
  ASSUME TypeOK, FreeListExact, NEW b \in Bufs, NEW fl, "BUSY" \in b_flags[b],
         brelse(b, fl)
  PROVE  FreeListExact'
<1>1. av \in Seq(Bufs) /\ IsInjective(av) /\ ~OnList(av, b)
  BY DEF TypeOK, FreeListExact
<1>2. /\ IsInjective(av')
      /\ \A x : OnList(av', x) <=> OnList(av, x) \/ x = b
  BY <1>1, AppendProperty, PrependProperty DEF brelse
<1>3. \A x \in Bufs : "BUSY" \in b_flags'[x] <=> "BUSY" \in b_flags[x] /\ x # b
  BY DEF brelse, TypeOK
<1> QED BY <1>2, <1>3 DEF FreeListExact

\* Every step keeps the available list exact.
LEMMA FreeListStep ==
  ASSUME TypeOK, Control, Association, FreeListExact, Ownership, Next
  PROVE  FreeListExact'
<1> USE BioAssumption, UnlinkProperties, TailProperties DEF TypeOK, Control, ControlAt,
     Ownership, FreeListExact, bufVars
<1>1. ASSUME NEW p \in Procs, NEW k \in Blocks, CallBread(p, k) PROVE FreeListExact'
  BY <1>1 DEF CallBread, MayCall, MayAskFor, Enter, Goto, Runnable
<1>2. ASSUME NEW p \in Procs, NEW k \in Blocks, CallGetblk(p, k) PROVE FreeListExact'
  BY <1>2 DEF CallGetblk, MayCall, MayAskFor, Enter, Goto, Runnable
<1>3. ASSUME NEW p \in Procs, NEW k \in Blocks, NEW r \in Blocks \cup {NULL},
     CallBreada(p, k, r)
      PROVE  FreeListExact'
  BY <1>3 DEF CallBreada, MayCall, Enter, Goto, Runnable
<1>4. ASSUME NEW p \in Procs, CallGeteblk(p) PROVE FreeListExact'
  BY <1>4 DEF CallGeteblk, MayCall, Enter, Goto, Runnable
<1>5. ASSUME NEW p \in Procs, CallBflush(p) PROVE FreeListExact'
  BY <1>5 DEF CallBflush, MayCall, Enter, Goto, Runnable
<1>6. ASSUME NEW p \in Procs, NEW b \in held[p], WriteWild(p, b) PROVE FreeListExact'
  BY <1>6 DEF WriteWild, MayRelease, Goto, Runnable
<1>7. ASSUME NEW p \in Procs, NEW b \in held[p], NEW v \in Vals, Bwrite(p, b, v)
      PROVE  FreeListExact'
  BY <1>7 DEF Bwrite, MayWrite, MayRelease, Modify, strategy, bwriteFlags, Goto, Runnable
<1>8. ASSUME NEW p \in Procs, NEW b \in held[p], NEW v \in Vals, Bawrite(p, b, v)
      PROVE  FreeListExact'
  BY <1>8 DEF Bawrite, MayWrite, MayRelease, Modify, bawrite, strategy, bwriteFlags, Goto,
       Runnable
<1>9. ASSUME NEW p \in Procs, GetblkFound(p) PROVE FreeListExact'
  BY <1>9 DEF GetblkFound, AtGetblk, Goto, Runnable
<1>10. ASSUME NEW p \in Procs, GetblkBusy(p) PROVE FreeListExact'
  BY <1>10 DEF GetblkBusy, sleep, Runnable
<1>11. ASSUME NEW p \in Procs, GetblkHit(p) PROVE FreeListExact'
  BY <1>11 DEF GetblkHit, Goto, Runnable
<1>12. ASSUME NEW p \in Procs, GetblkEmpty(p) PROVE FreeListExact'
  BY <1>12 DEF GetblkEmpty, AtGetblk, incore, sleep, Runnable
<1>13. ASSUME NEW p \in Procs, GetblkPush(p) PROVE FreeListExact'
  BY <1>13 DEF GetblkPush, AtGetblk, incore, PushDelayed, strategy, bwriteFlags, Goto,
       Runnable
<1>14. ASSUME NEW p \in Procs, GetblkTake(p) PROVE FreeListExact'
  BY <1>14 DEF GetblkTake, AtGetblk, incore, Goto, Runnable
<1>15. ASSUME NEW p \in Procs, GeteblkEmpty(p) PROVE FreeListExact'
  BY <1>15 DEF GeteblkEmpty, AtGeteblk, sleep, Runnable
<1>16. ASSUME NEW p \in Procs, GeteblkPush(p) PROVE FreeListExact'
  BY <1>16 DEF GeteblkPush, AtGeteblk, PushDelayed, strategy, bwriteFlags, Goto, Runnable
<1>17. ASSUME NEW p \in Procs, GeteblkTake(p) PROVE FreeListExact'
  BY <1>17 DEF GeteblkTake, AtGeteblk, Return, Runnable
<1>18. ASSUME NEW p \in Procs, BflushPush(p) PROVE FreeListExact'
  BY <1>18 DEF BflushPush, PushDelayed, strategy, bwriteFlags, Goto, Runnable
<1>19. ASSUME NEW p \in Procs, BflushDone(p) PROVE FreeListExact'
  BY <1>19 DEF BflushDone, Return, Runnable
<1>20. ASSUME NEW p \in Procs, SetAge(p) PROVE FreeListExact'
  BY <1>20 DEF SetAge, AgeReturn, Runnable
<1>21. ASSUME NEW p \in Procs, Full(p) PROVE FreeListExact'
  BY <1>21 DEF Full, Return, Runnable
<1>22. ASSUME NEW p \in Procs, BreadCached(p) PROVE FreeListExact'
  BY <1>22 DEF BreadCached, Return, Runnable
<1>23. ASSUME NEW p \in Procs, BreadStart(p) PROVE FreeListExact'
  BY <1>23 DEF BreadStart, strategy, Goto, Runnable
<1>24. ASSUME NEW p \in Procs, Breada2(p) PROVE FreeListExact'
  BY <1>24 DEF Breada2, Goto, Runnable
<1>25. ASSUME NEW p \in Procs, Breada4(p) PROVE FreeListExact'
  BY <1>25 DEF Breada4, Goto, Runnable
<1>26. ASSUME NEW p \in Procs, IowaitSleep(p) PROVE FreeListExact'
  BY <1>26 DEF IowaitSleep, sleep, Runnable
<1>27. ASSUME NEW p \in Procs, IowaitDone(p) PROVE FreeListExact'
  BY <1>27 DEF IowaitDone, geterror, Return, Runnable
<1>28. ASSUME NEW p \in Procs, BawriteGeterror(p) PROVE FreeListExact'
  BY <1>28 DEF BawriteGeterror, geterror, Return, Runnable
<1> HIDE BioAssumption, UnlinkProperties, TailProperties DEF TypeOK, Control, ControlAt,
     Ownership, FreeListExact, bufVars
<1>29. ASSUME NEW p \in Procs, NEW b \in held[p], Brelse(p, b) PROVE FreeListExact'
  <2>1. b \in Bufs /\ "BUSY" \in b_flags[b]
    BY <1>29, BioAssumption DEF Brelse, MayRelease, TypeOK, Control, ControlAt,
         GetblkReturns, Ownership,
       OwnedBusy, Owns
  <2> QED BY <1>29, <2>1, BrelseFreeList DEF Brelse
<1>30. ASSUME NEW p \in Procs, NEW b \in held[p], NEW v \in Vals, Bdwrite(p, b, v)
      PROVE  FreeListExact'
  <2>1. b \in Bufs /\ "BUSY" \in b_flags[b]
    BY <1>30, BioAssumption DEF Bdwrite, MayWrite, MayRelease, TypeOK, Control, ControlAt,
         GetblkReturns, Ownership,
       OwnedBusy, Owns
  <2>2. CASE bawrite(p, b)
    BY <2>1, <2>2 DEF bawrite, strategy, bwriteFlags, TypeOK, FreeListExact
  <2> QED BY <1>30, <2>1, <2>2, BrelseFreeList DEF Bdwrite
<1>31. ASSUME NEW p \in Procs, Breada1(p) PROVE FreeListExact'
  <2>1. av' = av /\ \A x \in Bufs : "BUSY" \in b_flags'[x] <=> "BUSY" \in b_flags[x]
    <3>1. CASE UNCHANGED <<b_flags, ioq>>
      BY <1>31, <3>1 DEF Breada1
    <3>2. CASE strategy(bp[p], b_flags[bp[p]] \cup {"READ"})
      BY <1>31, <3>2 DEF Breada1, strategy, TypeOK
    <3> QED BY <1>31, <3>1, <3>2 DEF Breada1
  <2> QED BY <2>1 DEF FreeListExact
<1>32. ASSUME NEW p \in Procs, Breada3(p) PROVE FreeListExact'
  <2>1. bp[p] \in Bufs /\ "BUSY" \in b_flags[bp[p]]
    BY <1>32, BioAssumption DEF Breada3, TypeOK, Control, ControlAt, GetblkReturns,
         Ownership,
       OwnedBusy, Owns
  <2>2. CASE strategy(bp[p], b_flags[bp[p]] \cup {"READ", "ASYNC"}) /\ av' = av
    BY <2>1, <2>2 DEF strategy, TypeOK, FreeListExact
  <2> QED BY <1>32, <2>1, <2>2, BrelseFreeList DEF Breada3
<1>33. ASSUME NEW p \in Procs, BwriteDone(p) PROVE FreeListExact'
  <2>1. bp[p] \in Bufs /\ "BUSY" \in b_flags[bp[p]]
    BY <1>33, BioAssumption DEF BwriteDone, TypeOK, Control, ControlAt, GetblkReturns,
         Ownership,
       OwnedBusy, Owns
  <2> QED BY <1>33, <2>1, BrelseFreeList DEF BwriteDone
<1>34. ASSUME NEW b \in Bufs, NEW failed \in BOOLEAN, Interrupt(b, failed)
      PROVE  FreeListExact'
  <2> DEFINE fl == b_flags[b] \cup {"DONE"} \cup (IF failed THEN {"ERROR"} ELSE {})
  <2>1. b \in ioq /\ "BUSY" \in b_flags[b] /\ iodone(b, fl)
    BY <1>34 DEF Interrupt, Ownership, BusyOwned
  <2>2. "BUSY" \in fl
    BY <2>1
  <2> HIDE DEF fl
  <2>3. CASE "ASYNC" \in fl
    BY <2>1, <2>3, BrelseFreeList DEF iodone
  <2>4. CASE "ASYNC" \notin fl
    <3>1. b_flags' = [b_flags EXCEPT ![b] = fl \ {"WANTED"}] /\ av' = av
      BY <2>1, <2>4, Zenon DEF iodone
    <3> QED BY <2>1, <2>2, <3>1 DEF TypeOK, FreeListExact
  <2> QED BY <2>3, <2>4
<1> QED
  BY <1>1, <1>2, <1>3, <1>4, <1>5, <1>6, <1>7, <1>8, <1>9, <1>10, <1>11, <1>12, <1>13,
       <1>14, <1>15, <1>16, <1>17, <1>18, <1>19, <1>20, <1>21, <1>22, <1>23, <1>24, <1>25,
       <1>26, <1>27, <1>28, <1>29, <1>30, <1>31, <1>32, <1>33, <1>34 DEF Next, Call, Release,
       Kernel, Device

-----------------------------------------------------------------------------
(* Ownership.                                                              *)

\* A delayed write that is pushed out becomes the device's.
LEMMA PushOwnership ==
  ASSUME TypeOK, Ownership, NEW p \in Procs, NEW b \in Bufs, NEW c,
         "BUSY" \notin b_flags[b], PushDelayed(p, b, c)
  PROVE  Ownership'
<1>1. \A q \in Procs, x \in Bufs : Owns(q, x)' <=> Owns(q, x)
  BY DEF PushDelayed, Owns
<1>2. Exclusive' /\ OneRole'
  BY <1>1 DEF PushDelayed, Ownership, Exclusive, OneRole
<1>3. OwnedBusy' /\ BusyOwned'
  BY <1>1 DEF PushDelayed, strategy, bwriteFlags, Ownership, OwnedBusy, BusyOwned, TypeOK
<1> QED BY <1>2, <1>3 DEF Ownership

\* Every step keeps every busy buffer in the hands of exactly one owner.
LEMMA OwnershipStep ==
  ASSUME TypeOK, Control, Association, FreeListExact, Ownership, Next
  PROVE  Ownership'
<1> USE BioAssumption DEF TypeOK, Control, ControlAt, Ownership, Exclusive, OneRole,
     OwnedBusy, BusyOwned, Owns, bufVars, ioVars
<1>1. ASSUME NEW p \in Procs, NEW k \in Blocks, CallBread(p, k) PROVE Ownership'
  BY <1>1 DEF CallBread, MayCall, MayAskFor, Enter, Goto, Runnable
<1>2. ASSUME NEW p \in Procs, NEW k \in Blocks, CallGetblk(p, k) PROVE Ownership'
  BY <1>2 DEF CallGetblk, MayCall, MayAskFor, Enter, Goto, Runnable
<1>3. ASSUME NEW p \in Procs, NEW k \in Blocks, NEW r \in Blocks \cup {NULL},
     CallBreada(p, k, r)
      PROVE  Ownership'
  BY <1>3 DEF CallBreada, MayCall, Enter, Goto, Runnable
<1>4. ASSUME NEW p \in Procs, CallGeteblk(p) PROVE Ownership'
  BY <1>4 DEF CallGeteblk, MayCall, Enter, Goto, Runnable
<1>5. ASSUME NEW p \in Procs, CallBflush(p) PROVE Ownership'
  BY <1>5 DEF CallBflush, MayCall, Enter, Goto, Runnable
<1>6. ASSUME NEW p \in Procs, NEW b \in held[p], WriteWild(p, b) PROVE Ownership'
  BY <1>6 DEF WriteWild, MayRelease, Goto, Runnable
<1>7. ASSUME NEW p \in Procs, NEW b \in held[p], NEW v \in Vals, Bawrite(p, b, v)
      PROVE  Ownership'
  BY <1>7 DEF Bawrite, MayWrite, MayRelease, Modify, bawrite, strategy, bwriteFlags, Goto,
       Runnable
<1>8. ASSUME NEW p \in Procs, GetblkFound(p) PROVE Ownership'
  BY <1>8 DEF GetblkFound, AtGetblk, Goto, Runnable
<1>9. ASSUME NEW p \in Procs, GetblkBusy(p) PROVE Ownership'
  BY <1>9 DEF GetblkBusy, sleep, Runnable
<1>10. ASSUME NEW p \in Procs, GetblkEmpty(p) PROVE Ownership'
  BY <1>10 DEF GetblkEmpty, AtGetblk, incore, sleep, Runnable
<1>11. ASSUME NEW p \in Procs, GeteblkEmpty(p) PROVE Ownership'
  BY <1>11 DEF GeteblkEmpty, AtGeteblk, sleep, Runnable
<1>12. ASSUME NEW p \in Procs, BflushDone(p) PROVE Ownership'
  BY <1>12 DEF BflushDone, Return, Runnable
<1>13. ASSUME NEW p \in Procs, SetAge(p) PROVE Ownership'
  BY <1>13 DEF SetAge, AgeReturn, Runnable
<1>14. ASSUME NEW p \in Procs, BreadStart(p) PROVE Ownership'
  BY <1>14 DEF BreadStart, strategy, Goto, Runnable
<1>15. ASSUME NEW p \in Procs, Breada2(p) PROVE Ownership'
  BY <1>15 DEF Breada2, Goto, Runnable
<1>16. ASSUME NEW p \in Procs, IowaitSleep(p) PROVE Ownership'
  BY <1>16 DEF IowaitSleep, sleep, Runnable
<1>17. ASSUME NEW p \in Procs, BawriteGeterror(p) PROVE Ownership'
  BY <1>17 DEF BawriteGeterror, geterror, Return, Runnable
<1> HIDE BioAssumption DEF TypeOK, Control, ControlAt, Ownership, Exclusive, OneRole,
     OwnedBusy, BusyOwned, Owns, bufVars, ioVars
<1>18. ASSUME NEW p \in Procs, NEW b \in held[p], Brelse(p, b) PROVE Ownership'
  <2>1. b \in Bufs /\ Owns(p, b) /\ b # NULL /\ b \notin ioq
    BY <1>18, BioAssumption DEF Brelse, MayRelease, Owns, TypeOK, Control, ControlAt,
         GetblkReturns, Association, AssociationOf, AssociationAt
  <2>2. \A q \in Procs, x \in Bufs : Owns(q, x)' <=> Owns(q, x) /\ x # b
    BY <1>18, <2>1, BioAssumption DEF Brelse, MayRelease, brelse, Ownership, Exclusive,
         OneRole, Owns, TypeOK, Control, ControlAt, GetblkReturns, InGetblk
  <2>3. Exclusive'
    BY <2>1, <2>2 DEF Ownership, Exclusive
  <2>4. OneRole'
    BY <1>18, <2>1, BioAssumption DEF Brelse, MayRelease, brelse, Ownership, OneRole,
         Owns, TypeOK, Control, ControlAt, GetblkReturns, InGetblk
  <2>5. OwnedBusy' /\ BusyOwned'
    BY <1>18, <2>1, <2>2 DEF Brelse, MayRelease, brelse, Ownership, OwnedBusy, BusyOwned,
         TypeOK, bufVars, ioVars
  <2> QED BY <2>3, <2>4, <2>5 DEF Ownership
<1>19. ASSUME NEW p \in Procs, NEW b \in held[p], NEW v \in Vals, Bwrite(p, b, v)
      PROVE  Ownership'
  <2>1. \A q \in Procs, x \in Bufs : Owns(q, x)' <=> Owns(q, x)
    BY <1>19, BioAssumption, ZenonT(40) DEF Bwrite, MayWrite, MayRelease, strategy, bwriteFlags, Goto,
         Owns, TypeOK, Control, ControlAt, GetblkReturns
  <2>2. Exclusive'
    BY <2>1 DEF Ownership, Exclusive
  <2>3. OneRole'
    BY <1>19, BioAssumption DEF Bwrite, MayWrite, MayRelease, strategy, bwriteFlags, Goto,
         Ownership, OneRole, TypeOK, Control, ControlAt, GetblkReturns, InGetblk
  <2>4. OwnedBusy' /\ BusyOwned'
    BY <1>19, <2>1, BioAssumption DEF Bwrite, MayWrite, MayRelease, strategy, bwriteFlags,
         Goto, Ownership, OwnedBusy, BusyOwned, Owns, TypeOK, Control, ControlAt,
         GetblkReturns, bufVars, ioVars
  <2> QED BY <2>2, <2>3, <2>4 DEF Ownership
<1>20. ASSUME NEW p \in Procs, NEW b \in held[p], NEW v \in Vals, Bdwrite(p, b, v)
      PROVE  Ownership'
  <2>1. b \in Bufs /\ Owns(p, b) /\ b # NULL /\ b \notin ioq
    BY <1>20, BioAssumption DEF Bdwrite, MayWrite, MayRelease, Owns, TypeOK, Control,
         ControlAt, GetblkReturns, Association, AssociationOf, AssociationAt
  <2>2. \A q \in Procs, x \in Bufs : Owns(q, x)' <=> Owns(q, x) /\ x # b
    BY <1>20, <2>1, BioAssumption DEF Bdwrite, MayWrite, MayRelease, bawrite, strategy,
         bwriteFlags, brelse, Ownership, Exclusive, OneRole, Owns, TypeOK, Control, ControlAt,
         GetblkReturns, InGetblk
  <2>3. Exclusive'
    BY <2>1, <2>2 DEF Ownership, Exclusive
  <2>4. OneRole'
    BY <1>20, <2>1, BioAssumption DEF Bdwrite, MayWrite, MayRelease, bawrite, strategy,
         bwriteFlags, brelse, Ownership, OneRole, Owns, TypeOK, Control, ControlAt,
         GetblkReturns, InGetblk
  <2>5. OwnedBusy' /\ BusyOwned'
    <3>1. CASE bawrite(p, b)
      BY <1>20, <2>1, <2>2, <3>1 DEF Bdwrite, bawrite, strategy, bwriteFlags, Ownership,
           OwnedBusy, BusyOwned, TypeOK
    <3>2. CASE brelse(b, b_flags[b] \cup {"DELWRI", "DONE"}) /\ UNCHANGED ioq
      BY <1>20, <2>1, <2>2, <3>2 DEF Bdwrite, brelse, Ownership, OwnedBusy, BusyOwned,
           TypeOK
    <3> QED BY <1>20, <3>1, <3>2 DEF Bdwrite
  <2> QED BY <2>3, <2>4, <2>5 DEF Ownership
<1>21. ASSUME NEW p \in Procs, GetblkHit(p) PROVE Ownership'
  <2>1. /\ cand[p] \in Bufs /\ cand[p] # NULL
        /\ "ASYNC" \notin b_flags[cand[p]] /\ \A q \in Procs : ~Owns(q, cand[p])
    BY <1>21, AvailableFree, BioAssumption DEF GetblkHit, Control, ControlAt, FreeListExact
  <2>2. \A q \in Procs, x \in Bufs : Owns(q, x)' <=> Owns(q, x) \/ (q = p /\ x = cand[p])
    BY <1>21, <2>1, BioAssumption, ZenonT(40) DEF GetblkHit, Goto, Ownership, Exclusive, OneRole,
         Owns, TypeOK, Control, ControlAt, GetblkReturns, InGetblk
  <2>3. Exclusive'
    BY <2>1, <2>2 DEF Ownership, Exclusive
  <2>4. OneRole'
    BY <1>21, <2>1, BioAssumption DEF GetblkHit, Goto, Ownership, OneRole, Owns, TypeOK,
         Control, ControlAt, GetblkReturns, InGetblk
  <2>5. OwnedBusy' /\ BusyOwned'
    BY <1>21, <2>1, <2>2 DEF GetblkHit, Goto, Ownership, OwnedBusy, BusyOwned, TypeOK,
         bufVars, ioVars
  <2> QED BY <2>3, <2>4, <2>5 DEF Ownership
<1>22. ASSUME NEW p \in Procs, GetblkPush(p) PROVE Ownership'
  BY <1>22, HeadFree, PushOwnership DEF GetblkPush
<1>23. ASSUME NEW p \in Procs, GetblkTake(p) PROVE Ownership'
  <2>1. /\ Head(av) \in Bufs /\ Head(av) # NULL
        /\ "ASYNC" \notin b_flags[Head(av)] /\ \A q \in Procs : ~Owns(q, Head(av))
        /\ bp[p] = NULL
    BY <1>23, HeadFree, BioAssumption DEF GetblkTake, AtGetblk, AtGeteblk, Control,
         ControlAt, GetblkReturns
  <2>2. \A q \in Procs, x \in Bufs : Owns(q, x)' <=> Owns(q, x) \/ (q = p /\ x = Head(av))
    BY <1>23, <2>1, BioAssumption DEF GetblkTake, AtGetblk, Goto, Ownership, Exclusive,
         OneRole, Owns, TypeOK, Control, ControlAt, GetblkReturns, InGetblk
  <2>3. Exclusive'
    BY <2>1, <2>2 DEF Ownership, Exclusive
  <2>4. OneRole'
    BY <1>23, <2>1, BioAssumption DEF GetblkTake, AtGetblk, Goto, Ownership, OneRole,
         Owns, TypeOK, Control, ControlAt, GetblkReturns, InGetblk
  <2>5. OwnedBusy' /\ BusyOwned'
    BY <1>23, <2>1, <2>2 DEF GetblkTake, AtGetblk, Goto, Ownership, OwnedBusy, BusyOwned,
         TypeOK, bufVars, ioVars
  <2> QED BY <2>3, <2>4, <2>5 DEF Ownership
<1>24. ASSUME NEW p \in Procs, GeteblkPush(p) PROVE Ownership'
  BY <1>24, HeadFree, PushOwnership DEF GeteblkPush
<1>25. ASSUME NEW p \in Procs, GeteblkTake(p) PROVE Ownership'
  <2>1. /\ Head(av) \in Bufs /\ Head(av) # NULL
        /\ "ASYNC" \notin b_flags[Head(av)] /\ \A q \in Procs : ~Owns(q, Head(av))
        /\ bp[p] = NULL
    BY <1>25, HeadFree, BioAssumption DEF GeteblkTake, AtGetblk, AtGeteblk, Control,
         ControlAt, GetblkReturns
  <2>2. \A q \in Procs, x \in Bufs : Owns(q, x)' <=> Owns(q, x) \/ (q = p /\ x = Head(av))
    BY <1>25, <2>1, BioAssumption DEF GeteblkTake, AtGeteblk, Return, Ownership,
         Exclusive, OneRole, Owns, TypeOK, Control, ControlAt, GetblkReturns, InGetblk
  <2>3. Exclusive'
    BY <2>1, <2>2 DEF Ownership, Exclusive
  <2>4. OneRole'
    BY <1>25, <2>1, BioAssumption DEF GeteblkTake, AtGeteblk, Return, Ownership, OneRole,
         Owns, TypeOK, Control, ControlAt, GetblkReturns, InGetblk
  <2>5. OwnedBusy' /\ BusyOwned'
    BY <1>25, <2>1, <2>2 DEF GeteblkTake, AtGeteblk, Return, Ownership, OwnedBusy,
         BusyOwned, TypeOK, bufVars, ioVars
  <2> QED BY <2>3, <2>4, <2>5 DEF Ownership
<1>26. ASSUME NEW p \in Procs, BflushPush(p) PROVE Ownership'
  <2>1. PICK i \in DOMAIN av : PushDelayed(p, av[i], "bflush.age")
    BY <1>26 DEF BflushPush
  <2>2. av[i] \in Bufs /\ "BUSY" \notin b_flags[av[i]]
    BY <2>1, AvailableFree DEF OnList
  <2> QED BY <2>1, <2>2, PushOwnership
<1>27. ASSUME NEW p \in Procs, Full(p) PROVE Ownership'
  <2>1. \A q \in Procs, x \in Bufs : Owns(q, x)' <=> Owns(q, x)
    BY <1>27, BioAssumption DEF Full, Return, Owns, TypeOK, Control, ControlAt,
         GetblkReturns
  <2>2. Exclusive'
    BY <2>1 DEF Ownership, Exclusive
  <2>3. OneRole'
    BY <1>27, BioAssumption DEF Full, Return, Ownership, OneRole, TypeOK, Control,
         ControlAt, GetblkReturns, InGetblk
  <2>4. OwnedBusy' /\ BusyOwned'
    BY <1>27, <2>1, BioAssumption DEF Full, Return, Ownership, OwnedBusy, BusyOwned, Owns,
         TypeOK, Control, ControlAt, GetblkReturns, bufVars, ioVars
  <2> QED BY <2>2, <2>3, <2>4 DEF Ownership
<1>28. ASSUME NEW p \in Procs, BreadCached(p) PROVE Ownership'
  <2>1. \A q \in Procs, x \in Bufs : Owns(q, x)' <=> Owns(q, x)
    BY <1>28, BioAssumption DEF BreadCached, Return, Owns, TypeOK, Control, ControlAt,
         GetblkReturns
  <2>2. Exclusive'
    BY <2>1 DEF Ownership, Exclusive
  <2>3. OneRole'
    BY <1>28, BioAssumption DEF BreadCached, Return, Ownership, OneRole, TypeOK, Control,
         ControlAt, GetblkReturns, InGetblk
  <2>4. OwnedBusy' /\ BusyOwned'
    BY <1>28, <2>1, BioAssumption DEF BreadCached, Return, Ownership, OwnedBusy,
         BusyOwned, Owns, TypeOK, Control, ControlAt, GetblkReturns, bufVars, ioVars
  <2> QED BY <2>2, <2>3, <2>4 DEF Ownership
<1>29. ASSUME NEW p \in Procs, Breada1(p) PROVE Ownership'
  <2>1. bp[p] \in Bufs /\ bp[p] # NULL /\ first[p] = NULL
    BY <1>29, BioAssumption DEF Breada1, TypeOK, Control, ControlAt, GetblkReturns, InGetblk
  <2>2. CASE UNCHANGED <<b_flags, ioq>>
    <3>1. \A q \in Procs, x \in Bufs : Owns(q, x)' <=> Owns(q, x)
      BY <1>29, <2>1, <2>2, BioAssumption DEF Breada1, strategy, Owns, TypeOK
    <3>2. Exclusive'
      BY <3>1 DEF Ownership, Exclusive
    <3>3. OneRole'
      <4>1. \A q \in Procs : NULL \notin held[q]
        BY BioAssumption DEF TypeOK
      <4> QED BY <1>29, <2>1, <2>2, <4>1 DEF Breada1, Ownership, OneRole, TypeOK
    <3>4. OwnedBusy' /\ BusyOwned'
      BY <1>29, <2>1, <2>2, <3>1 DEF Breada1, strategy, Ownership, OwnedBusy, BusyOwned,
           Owns, TypeOK, bufVars, ioVars
    <3> QED BY <3>2, <3>3, <3>4 DEF Ownership
  <2>3. CASE strategy(bp[p], b_flags[bp[p]] \cup {"READ"})
    <3>1. \A q \in Procs, x \in Bufs : Owns(q, x)' <=> Owns(q, x)
      BY <1>29, <2>1, <2>3, BioAssumption DEF Breada1, strategy, Owns, TypeOK
    <3>2. Exclusive'
      BY <3>1 DEF Ownership, Exclusive
    <3>3. OneRole'
      <4>1. \A q \in Procs : NULL \notin held[q]
        BY BioAssumption DEF TypeOK
      <4> QED BY <1>29, <2>1, <2>3, <4>1 DEF Breada1, Ownership, OneRole, TypeOK
    <3>4. OwnedBusy' /\ BusyOwned'
      BY <1>29, <2>1, <2>3, <3>1 DEF Breada1, strategy, Ownership, OwnedBusy, BusyOwned,
           Owns, TypeOK, bufVars, ioVars
    <3> QED BY <3>2, <3>3, <3>4 DEF Ownership
  <2> QED BY <1>29, <2>2, <2>3 DEF Breada1
<1>30. ASSUME NEW p \in Procs, Breada3(p) PROVE Ownership'
  <2>1. bp[p] \in Bufs /\ Owns(p, bp[p]) /\ bp[p] # NULL /\ bp[p] \notin ioq
    BY <1>30, BioAssumption DEF Breada3, Owns, TypeOK, Control, ControlAt, GetblkReturns,
         Association, AssociationOf, AssociationAt
  <2>2. \A q \in Procs, x \in Bufs : Owns(q, x)' <=> Owns(q, x) /\ x # bp[p]
    BY <1>30, <2>1, BioAssumption DEF Breada3, brelse, strategy, Goto, Ownership,
         Exclusive, OneRole, Owns, TypeOK, Control, ControlAt, GetblkReturns, InGetblk
  <2>3. Exclusive'
    BY <2>1, <2>2 DEF Ownership, Exclusive
  <2>4. OneRole'
    BY <1>30, <2>1, BioAssumption DEF Breada3, brelse, strategy, Goto, Ownership, OneRole,
         Owns, TypeOK, Control, ControlAt, GetblkReturns, InGetblk
  <2>5. OwnedBusy' /\ BusyOwned'
    <3>1. CASE strategy(bp[p], b_flags[bp[p]] \cup {"READ", "ASYNC"})
      BY <1>30, <2>1, <2>2, <3>1 DEF Breada3, strategy, Ownership, OwnedBusy, BusyOwned,
           TypeOK
    <3>2. CASE brelse(bp[p], b_flags[bp[p]]) /\ UNCHANGED ioq
      BY <1>30, <2>1, <2>2, <3>2 DEF Breada3, brelse, Ownership, OwnedBusy, BusyOwned,
           TypeOK
    <3> QED BY <1>30, <3>1, <3>2 DEF Breada3
  <2> QED BY <2>3, <2>4, <2>5 DEF Ownership
<1>31. ASSUME NEW p \in Procs, Breada4(p) PROVE Ownership'
  <2>1. bp[p] = NULL
    BY <1>31, BioAssumption DEF Breada4, TypeOK, Control, ControlAt, GetblkReturns, InGetblk
  <2>2. CASE first[p] = NULL
    <3>1. \A q \in Procs, x \in Bufs : Owns(q, x)' <=> Owns(q, x)
      BY <1>31, <2>1, <2>2, BioAssumption DEF Breada4, Goto, Owns, TypeOK
    <3>2. Exclusive'
      BY <3>1 DEF Ownership, Exclusive
    <3>3. OneRole'
      <4>1. \A q \in Procs : NULL \notin held[q]
        BY BioAssumption DEF TypeOK
      <4> QED BY <1>31, <2>1, <2>2, <4>1 DEF Breada4, Ownership, OneRole, TypeOK
    <3>4. OwnedBusy' /\ BusyOwned'
      BY <1>31, <2>1, <2>2, <3>1 DEF Breada4, Goto, Ownership, OwnedBusy, BusyOwned, Owns,
           TypeOK, bufVars, ioVars
    <3> QED BY <3>2, <3>3, <3>4 DEF Ownership
  <2>3. CASE first[p] # NULL
    <3>1. \A q \in Procs, x \in Bufs : Owns(q, x)' <=> Owns(q, x)
      BY <1>31, <2>1, <2>3, BioAssumption DEF Breada4, Goto, Owns, TypeOK
    <3>2. Exclusive'
      BY <3>1 DEF Ownership, Exclusive
    <3>3. OneRole'
      <4>1. \A q \in Procs : NULL \notin held[q]
        BY BioAssumption DEF TypeOK
      <4> QED BY <1>31, <2>1, <2>3, <4>1, ZenonT(40) DEF Breada4, Ownership, OneRole, TypeOK
    <3>4. OwnedBusy' /\ BusyOwned'
      BY <1>31, <2>1, <2>3, <3>1 DEF Breada4, Goto, Ownership, OwnedBusy, BusyOwned, Owns,
           TypeOK, bufVars, ioVars
    <3> QED BY <3>2, <3>3, <3>4 DEF Ownership
  <2> QED BY <1>31, <2>2, <2>3 DEF Breada4
<1>32. ASSUME NEW p \in Procs, IowaitDone(p) PROVE Ownership'
  <2>1. \A q \in Procs, x \in Bufs : Owns(q, x)' <=> Owns(q, x)
    BY <1>32, BioAssumption DEF IowaitDone, Return, Owns, TypeOK, Control, ControlAt,
         GetblkReturns
  <2>2. Exclusive'
    BY <2>1 DEF Ownership, Exclusive
  <2>3. OneRole'
    BY <1>32, BioAssumption DEF IowaitDone, Return, Ownership, OneRole, TypeOK, Control,
         ControlAt, GetblkReturns, InGetblk
  <2>4. OwnedBusy' /\ BusyOwned'
    BY <1>32, <2>1, BioAssumption DEF IowaitDone, Return, Ownership, OwnedBusy, BusyOwned,
         Owns, TypeOK, Control, ControlAt, GetblkReturns, bufVars, ioVars
  <2> QED BY <2>2, <2>3, <2>4 DEF Ownership
<1>33. ASSUME NEW p \in Procs, BwriteDone(p) PROVE Ownership'
  <2>1. bp[p] \in Bufs /\ Owns(p, bp[p]) /\ bp[p] # NULL /\ bp[p] \notin ioq
    BY <1>33, BioAssumption DEF BwriteDone, Owns, TypeOK, Control, ControlAt,
         GetblkReturns, Association, AssociationOf, AssociationAt
  <2>2. \A q \in Procs, x \in Bufs : Owns(q, x)' <=> Owns(q, x) /\ x # bp[p]
    BY <1>33, <2>1, BioAssumption DEF BwriteDone, brelse, Return, Ownership, Exclusive,
         OneRole, Owns, TypeOK, Control, ControlAt, GetblkReturns, InGetblk
  <2>3. Exclusive'
    BY <2>1, <2>2 DEF Ownership, Exclusive
  <2>4. OneRole'
    BY <1>33, <2>1, BioAssumption DEF BwriteDone, brelse, Return, Ownership, OneRole,
         Owns, TypeOK, Control, ControlAt, GetblkReturns, InGetblk
  <2>5. OwnedBusy' /\ BusyOwned'
    BY <1>33, <2>1, <2>2 DEF BwriteDone, brelse, Return, Ownership, OwnedBusy, BusyOwned,
         TypeOK, bufVars, ioVars
  <2> QED BY <2>3, <2>4, <2>5 DEF Ownership
<1>34. ASSUME NEW b \in Bufs, NEW failed \in BOOLEAN, Interrupt(b, failed)
      PROVE  Ownership'
  <2> DEFINE fl == b_flags[b] \cup {"DONE"} \cup (IF failed THEN {"ERROR"} ELSE {})
  <2>1. \A q \in Procs, x \in Bufs : Owns(q, x)' <=> Owns(q, x)
    BY <1>34 DEF Interrupt, Owns
  <2>2. Exclusive' /\ OneRole'
    BY <1>34, <2>1 DEF Interrupt, Ownership, Exclusive, OneRole
  <2>3. \A q \in Procs : "ASYNC" \in b_flags[b] => ~Owns(q, b)
    BY DEF Ownership, OwnedBusy
  <2>4. /\ b_flags' = [b_flags EXCEPT ![b] = b_flags'[b]]
        /\ "ASYNC" \notin b_flags'[b]
        /\ "BUSY" \in b_flags'[b] <=> "BUSY" \in b_flags[b] /\ "ASYNC" \notin b_flags[b]
    <3>1. iodone(b, fl) /\ ("ASYNC" \in fl <=> "ASYNC" \in b_flags[b])
          /\ ("BUSY" \in fl <=> "BUSY" \in b_flags[b])
      BY <1>34 DEF Interrupt
    <3> HIDE DEF fl
    <3>2. CASE "ASYNC" \in fl
      BY <3>1, <3>2 DEF iodone, brelse, TypeOK
    <3>3. CASE "ASYNC" \notin fl
      <4>1. b_flags' = [b_flags EXCEPT ![b] = fl \ {"WANTED"}]
        BY <3>1, <3>3, Zenon DEF iodone
      <4> QED BY <3>1, <3>3, <4>1 DEF TypeOK
    <3> QED BY <3>2, <3>3
  <2>5. ioq' = ioq \ {b}
    BY <1>34 DEF Interrupt
  <2>6. OwnedBusy' /\ BusyOwned'
    BY <2>1, <2>3, <2>4, <2>5 DEF Ownership, OwnedBusy, BusyOwned, TypeOK
  <2> QED BY <2>2, <2>6 DEF Ownership
<1> QED
  BY <1>1, <1>2, <1>3, <1>4, <1>5, <1>6, <1>7, <1>8, <1>9, <1>10, <1>11, <1>12, <1>13,
       <1>14, <1>15, <1>16, <1>17, <1>18, <1>19, <1>20, <1>21, <1>22, <1>23, <1>24, <1>25,
       <1>26, <1>27, <1>28, <1>29, <1>30, <1>31, <1>32, <1>33, <1>34 DEF Next, Call, Release,
       Kernel, Device

-----------------------------------------------------------------------------
(* No block is cached twice.                                               *)

\* Every step keeps blocks in one buffer only: getblk() takes a buffer for a
\* block only when no buffer has it, and nothing else associates one.
LEMMA UniqueStep ==
  ASSUME TypeOK, Control, FreeListExact, UniqueBlock, Next
  PROVE  UniqueBlock'
<1> USE BioAssumption DEF TypeOK, Control, ControlAt, InGetblk, UniqueBlock, bufVars
<1>1. ASSUME NEW p \in Procs, NEW k \in Blocks, CallBread(p, k) PROVE UniqueBlock'
  BY <1>1 DEF CallBread, MayCall, MayAskFor, Enter, Goto, Runnable
<1>2. ASSUME NEW p \in Procs, NEW k \in Blocks, CallGetblk(p, k) PROVE UniqueBlock'
  BY <1>2 DEF CallGetblk, MayCall, MayAskFor, Enter, Goto, Runnable
<1>3. ASSUME NEW p \in Procs, NEW k \in Blocks, NEW r \in Blocks \cup {NULL},
     CallBreada(p, k, r)
      PROVE  UniqueBlock'
  BY <1>3 DEF CallBreada, MayCall, Enter, Goto, Runnable
<1>4. ASSUME NEW p \in Procs, CallGeteblk(p) PROVE UniqueBlock'
  BY <1>4 DEF CallGeteblk, MayCall, Enter, Goto, Runnable
<1>5. ASSUME NEW p \in Procs, CallBflush(p) PROVE UniqueBlock'
  BY <1>5 DEF CallBflush, MayCall, Enter, Goto, Runnable
<1>6. ASSUME NEW p \in Procs, NEW b \in held[p], Brelse(p, b) PROVE UniqueBlock'
  BY <1>6 DEF Brelse, MayRelease, brelse, Runnable
<1>7. ASSUME NEW p \in Procs, NEW b \in held[p], WriteWild(p, b) PROVE UniqueBlock'
  BY <1>7 DEF WriteWild, MayRelease, Goto, Runnable
<1>8. ASSUME NEW p \in Procs, NEW b \in held[p], NEW v \in Vals, Bwrite(p, b, v)
      PROVE  UniqueBlock'
  BY <1>8 DEF Bwrite, MayWrite, MayRelease, Modify, strategy, bwriteFlags, Goto, Runnable
<1>9. ASSUME NEW p \in Procs, NEW b \in held[p], NEW v \in Vals, Bawrite(p, b, v)
      PROVE  UniqueBlock'
  BY <1>9 DEF Bawrite, MayWrite, MayRelease, Modify, bawrite, strategy, bwriteFlags, Goto,
       Runnable
<1>10. ASSUME NEW p \in Procs, GetblkFound(p) PROVE UniqueBlock'
  BY <1>10 DEF GetblkFound, AtGetblk, Goto, Runnable
<1>11. ASSUME NEW p \in Procs, GetblkBusy(p) PROVE UniqueBlock'
  BY <1>11 DEF GetblkBusy, sleep, Runnable
<1>12. ASSUME NEW p \in Procs, GetblkHit(p) PROVE UniqueBlock'
  BY <1>12 DEF GetblkHit, Goto, Runnable
<1>13. ASSUME NEW p \in Procs, GetblkEmpty(p) PROVE UniqueBlock'
  BY <1>13 DEF GetblkEmpty, AtGetblk, incore, sleep, Runnable
<1>14. ASSUME NEW p \in Procs, GetblkPush(p) PROVE UniqueBlock'
  BY <1>14 DEF GetblkPush, AtGetblk, incore, PushDelayed, strategy, bwriteFlags, Goto,
       Runnable
<1>15. ASSUME NEW p \in Procs, GetblkTake(p) PROVE UniqueBlock'
  BY <1>15 DEF GetblkTake, AtGetblk, incore, Goto, Runnable
<1>16. ASSUME NEW p \in Procs, GeteblkEmpty(p) PROVE UniqueBlock'
  BY <1>16 DEF GeteblkEmpty, AtGeteblk, sleep, Runnable
<1>17. ASSUME NEW p \in Procs, GeteblkPush(p) PROVE UniqueBlock'
  BY <1>17 DEF GeteblkPush, AtGeteblk, PushDelayed, strategy, bwriteFlags, Goto, Runnable
<1>18. ASSUME NEW p \in Procs, GeteblkTake(p) PROVE UniqueBlock'
  BY <1>18 DEF GeteblkTake, AtGeteblk, Return, Runnable
<1>19. ASSUME NEW p \in Procs, BflushPush(p) PROVE UniqueBlock'
  BY <1>19 DEF BflushPush, PushDelayed, strategy, bwriteFlags, Goto, Runnable
<1>20. ASSUME NEW p \in Procs, BflushDone(p) PROVE UniqueBlock'
  BY <1>20 DEF BflushDone, Return, Runnable
<1>21. ASSUME NEW p \in Procs, SetAge(p) PROVE UniqueBlock'
  BY <1>21 DEF SetAge, AgeReturn, Runnable
<1>22. ASSUME NEW p \in Procs, Full(p) PROVE UniqueBlock'
  BY <1>22 DEF Full, Return, Runnable
<1>23. ASSUME NEW p \in Procs, BreadCached(p) PROVE UniqueBlock'
  BY <1>23 DEF BreadCached, Return, Runnable
<1>24. ASSUME NEW p \in Procs, BreadStart(p) PROVE UniqueBlock'
  BY <1>24 DEF BreadStart, strategy, Goto, Runnable
<1>25. ASSUME NEW p \in Procs, Breada1(p) PROVE UniqueBlock'
  BY <1>25 DEF Breada1, strategy, Goto, Runnable
<1>26. ASSUME NEW p \in Procs, Breada2(p) PROVE UniqueBlock'
  BY <1>26 DEF Breada2, Goto, Runnable
<1>27. ASSUME NEW p \in Procs, Breada4(p) PROVE UniqueBlock'
  BY <1>27 DEF Breada4, Goto, Runnable
<1>28. ASSUME NEW p \in Procs, IowaitSleep(p) PROVE UniqueBlock'
  BY <1>28 DEF IowaitSleep, sleep, Runnable
<1>29. ASSUME NEW p \in Procs, IowaitDone(p) PROVE UniqueBlock'
  BY <1>29 DEF IowaitDone, geterror, Return, Runnable
<1>30. ASSUME NEW p \in Procs, BwriteDone(p) PROVE UniqueBlock'
  BY <1>30 DEF BwriteDone, geterror, brelse, Return, Runnable
<1>31. ASSUME NEW p \in Procs, BawriteGeterror(p) PROVE UniqueBlock'
  BY <1>31 DEF BawriteGeterror, geterror, Return, Runnable
<1> HIDE BioAssumption DEF TypeOK, Control, ControlAt, InGetblk, UniqueBlock, bufVars
<1>32. ASSUME NEW p \in Procs, NEW b \in held[p], NEW v \in Vals, Bdwrite(p, b, v)
      PROVE  UniqueBlock'
  <2>1. \A x \in Bufs : b_blkno'[x] \in {b_blkno[x], NODEV}
    BY <1>32 DEF Bdwrite, bawrite, brelse, TypeOK
  <2> QED BY <2>1 DEF UniqueBlock
<1>33. ASSUME NEW p \in Procs, Breada3(p) PROVE UniqueBlock'
  <2>1. \A x \in Bufs : b_blkno'[x] \in {b_blkno[x], NODEV}
    BY <1>33 DEF Breada3, brelse, TypeOK
  <2> QED BY <2>1 DEF UniqueBlock
<1>34. ASSUME NEW b \in Bufs, NEW failed \in BOOLEAN, Interrupt(b, failed)
      PROVE  UniqueBlock'
  <2>1. \A x \in Bufs : b_blkno'[x] \in {b_blkno[x], NODEV}
    BY <1>34 DEF Interrupt, iodone, brelse, TypeOK
  <2> QED BY <2>1 DEF UniqueBlock
<1> QED
  BY <1>1, <1>2, <1>3, <1>4, <1>5, <1>6, <1>7, <1>8, <1>9, <1>10, <1>11, <1>12, <1>13,
       <1>14, <1>15, <1>16, <1>17, <1>18, <1>19, <1>20, <1>21, <1>22, <1>23, <1>24, <1>25,
       <1>26, <1>27, <1>28, <1>29, <1>30, <1>31, <1>32, <1>33, <1>34 DEF Next, Call, Release,
       Kernel, Device

-----------------------------------------------------------------------------
(* Associations.                                                           *)

\* A step of one process says nothing new to another one, as long as it leaves
\* alone the buffers that one owns.
LEMMA OthersAssociation ==
  ASSUME TypeOK, Control, Association, NEW q \in Procs, cur # q,
         pc'[q] = pc[q], bp'[q] = bp[q], first'[q] = first[q], held'[q] = held[q],
         u_error'[q] = u_error[q],
         \A x \in Bufs : Owns(q, x) => /\ b_flags'[x] = b_flags[x]
                                       /\ b_blkno'[x] = b_blkno[x]
                                       /\ x \in ioq' <=> x \in ioq
  PROVE  AssociationAt(q)'
<1>1. ControlAt(q) /\ AssociationAt(q)
  BY DEF Control, Association
<1>2. pc[q] \notin GetblkReturns /\ pc[q] # "found"
  BY <1>1 DEF ControlAt, GetblkReturns
<1>3. pc[q] \in {"iowait", "bwrite.iowait"} => bp[q] \in Bufs /\ Owns(q, bp[q])
  BY <1>1 DEF ControlAt, TypeOK, Owns
<1>4. first[q] # NULL => first[q] \in Bufs /\ Owns(q, first[q])
  BY DEF TypeOK, Owns
<1>5. \A x \in held[q] : x \in Bufs /\ Owns(q, x)
  BY DEF TypeOK, Owns
<1> QED BY <1>1, <1>2, <1>3, <1>4, <1>5 DEF AssociationAt

\* Pushing a delayed write out keeps the associations.
LEMMA PushAssociation ==
  ASSUME TypeOK, Control, Association, NEW p \in Procs, cur \in {NULL, p},
         NEW b \in Bufs, NEW c, c \in DOMAIN AgeReturn, bp[p] = NULL,
         "DELWRI" \in b_flags[b], \A q \in Procs : ~Owns(q, b), PushDelayed(p, b, c)
  PROVE  Association'
<1>1. \A x \in Bufs : AssociationOf(x)'
  BY DEF PushDelayed, strategy, bwriteFlags, Association, AssociationOf, TypeOK
<1>2. AssociationAt(p)'
  <2>1. AssociationAt(p)
    BY DEF Association
  <2>2. pc'[p] = c /\ c \notin GetblkReturns \cup {"found", "iowait", "bwrite.iowait"}
    BY DEF PushDelayed, Goto, TypeOK, AgeReturn, GetblkReturns
  <2>3. \A x \in Bufs : Owns(p, x) => /\ b_flags'[x] = b_flags[x]
                                      /\ b_blkno'[x] = b_blkno[x]
                                      /\ x \in ioq' <=> x \in ioq
    BY DEF PushDelayed, strategy, TypeOK
  <2>4. first[p] # NULL => first[p] \in Bufs /\ Owns(p, first[p])
    BY DEF TypeOK, Owns
  <2>5. \A x \in held[p] : x \in Bufs /\ Owns(p, x)
    BY DEF TypeOK, Owns
  <2> QED BY <2>1, <2>2, <2>3, <2>4, <2>5 DEF PushDelayed, AssociationAt
<1>3. ASSUME NEW q \in Procs, q # p PROVE AssociationAt(q)'
  <2>1. cur # q
    BY <1>3, BioAssumption
  <2>2. /\ pc'[q] = pc[q] /\ bp'[q] = bp[q] /\ first'[q] = first[q]
        /\ held'[q] = held[q] /\ u_error'[q] = u_error[q]
        /\ \A x \in Bufs : Owns(q, x) => /\ b_flags'[x] = b_flags[x]
                                         /\ b_blkno'[x] = b_blkno[x]
                                         /\ x \in ioq' <=> x \in ioq
    BY <1>3 DEF PushDelayed, strategy, Goto, TypeOK
  <2> QED BY <2>1, <2>2, OthersAssociation
<1> QED BY <1>1, <1>2, <1>3 DEF Association

\* Every step keeps the associations.
LEMMA AssociationStep ==
  ASSUME TypeOK, Control, Association, FreeListExact, Ownership, Next
  PROVE  Association'
<1> USE BioAssumption DEF TypeOK, Control, ControlAt, Association, AssociationOf,
     AssociationAt, Ownership, Exclusive, OneRole, OwnedBusy, Owns, InGetblk, GetblkReturns,
     bufVars, ioVars, callVars
<1>1. ASSUME NEW p \in Procs, NEW k \in Blocks, CallBread(p, k) PROVE Association'
  BY <1>1 DEF CallBread, MayCall, MayAskFor, Enter, Goto, Runnable
<1>2. ASSUME NEW p \in Procs, NEW k \in Blocks, CallGetblk(p, k) PROVE Association'
  BY <1>2 DEF CallGetblk, MayCall, MayAskFor, Enter, Goto, Runnable
<1>3. ASSUME NEW p \in Procs, NEW k \in Blocks, NEW r \in Blocks \cup {NULL},
     CallBreada(p, k, r)
      PROVE  Association'
  BY <1>3 DEF CallBreada, MayCall, Enter, Goto, Runnable
<1>4. ASSUME NEW p \in Procs, CallGeteblk(p) PROVE Association'
  BY <1>4 DEF CallGeteblk, MayCall, Enter, Goto, Runnable
<1>5. ASSUME NEW p \in Procs, CallBflush(p) PROVE Association'
  BY <1>5 DEF CallBflush, MayCall, Enter, Goto, Runnable
<1>6. ASSUME NEW p \in Procs, NEW b \in held[p], Brelse(p, b) PROVE Association'
  BY <1>6 DEF Brelse, MayRelease, brelse, Runnable
<1>7. ASSUME NEW p \in Procs, NEW b \in held[p], WriteWild(p, b) PROVE Association'
  BY <1>7 DEF WriteWild, MayRelease, Goto, Runnable
<1>8. ASSUME NEW p \in Procs, NEW b \in held[p], NEW v \in Vals, Bwrite(p, b, v)
      PROVE  Association'
  BY <1>8 DEF Bwrite, MayWrite, MayRelease, Modify, strategy, bwriteFlags, Goto, Runnable
<1>9. ASSUME NEW p \in Procs, NEW b \in held[p], NEW v \in Vals, Bawrite(p, b, v)
      PROVE  Association'
  BY <1>9 DEF Bawrite, MayWrite, MayRelease, Modify, bawrite, strategy, bwriteFlags, Goto,
       Runnable
<1>10. ASSUME NEW p \in Procs, GetblkFound(p) PROVE Association'
  BY <1>10 DEF GetblkFound, AtGetblk, Goto, Runnable
<1>11. ASSUME NEW p \in Procs, GetblkBusy(p) PROVE Association'
  BY <1>11 DEF GetblkBusy, sleep, Runnable
<1>12. ASSUME NEW p \in Procs, GetblkEmpty(p) PROVE Association'
  BY <1>12 DEF GetblkEmpty, AtGetblk, incore, sleep, Runnable
<1>13. ASSUME NEW p \in Procs, GeteblkEmpty(p) PROVE Association'
  BY <1>13 DEF GeteblkEmpty, AtGeteblk, sleep, Runnable
<1>14. ASSUME NEW p \in Procs, BflushDone(p) PROVE Association'
  BY <1>14 DEF BflushDone, Return, Runnable
<1>15. ASSUME NEW p \in Procs, SetAge(p) PROVE Association'
  BY <1>15 DEF SetAge, AgeReturn, Runnable
<1>16. ASSUME NEW p \in Procs, Full(p) PROVE Association'
  BY <1>16 DEF Full, Return, Runnable
<1>17. ASSUME NEW p \in Procs, BreadCached(p) PROVE Association'
  BY <1>17 DEF BreadCached, Return, Runnable
<1>18. ASSUME NEW p \in Procs, BreadStart(p) PROVE Association'
  BY <1>18 DEF BreadStart, strategy, Goto, Runnable
<1>19. ASSUME NEW p \in Procs, Breada1(p) PROVE Association'
  BY <1>19 DEF Breada1, strategy, Goto, Runnable
<1>20. ASSUME NEW p \in Procs, Breada2(p) PROVE Association'
  BY <1>20 DEF Breada2, Goto, Runnable
<1>21. ASSUME NEW p \in Procs, IowaitSleep(p) PROVE Association'
  BY <1>21 DEF IowaitSleep, sleep, Runnable
<1>22. ASSUME NEW p \in Procs, BwriteDone(p) PROVE Association'
  BY <1>22 DEF BwriteDone, geterror, brelse, Return, Runnable
<1>23. ASSUME NEW p \in Procs, BawriteGeterror(p) PROVE Association'
  BY <1>23 DEF BawriteGeterror, geterror, Return, Runnable
<1> HIDE BioAssumption DEF TypeOK, Control, ControlAt, Association, AssociationOf,
     AssociationAt, Ownership, Exclusive, OneRole, OwnedBusy, Owns, InGetblk, GetblkReturns,
     bufVars, ioVars, callVars
<1>24. ASSUME NEW p \in Procs, NEW b \in held[p], NEW v \in Vals, Bdwrite(p, b, v)
      PROVE  Association'
  <2>1. b \in Bufs /\ cur \in {NULL, p} /\ Owns(p, b) /\ b \notin ioq /\ b # first[p] /\
       bp[p] = NULL /\ b_blkno[b] \in Blocks /\ "ERROR" \notin b_flags[b]
    <3>1. AssociationAt(p) /\ ControlAt(p)
      BY DEF Association, Control
    <3> QED BY <3>1, <1>24, BioAssumption DEF Bdwrite, MayWrite, MayRelease, Runnable,
         ControlAt, TypeOK, GetblkReturns, InGetblk, AgeReturn, Owns, Ownership, OneRole,
         AssociationAt
  <2>2. \A x \in Bufs : AssociationOf(x)'
    <3>1. CASE bawrite(p, b)
      BY <1>24, <2>1, <3>1, BioAssumption DEF Bdwrite, MayWrite, MayRelease, bawrite,
           strategy, bwriteFlags, Goto, brelse, Association, AssociationOf, TypeOK, bufVars,
           ioVars
    <3>2. CASE brelse(b, b_flags[b] \cup {"DELWRI", "DONE"}) /\ UNCHANGED <<ioq, pc, cand,
         cur>>
      BY <1>24, <2>1, <3>2, BioAssumption DEF Bdwrite, MayWrite, MayRelease, bawrite,
           strategy, bwriteFlags, Goto, brelse, Association, AssociationOf, TypeOK, bufVars,
           ioVars
    <3> QED BY <1>24, <3>1, <3>2 DEF Bdwrite
  <2>3. AssociationAt(p)'
    <3>1. AssociationAt(p) /\ ControlAt(p)
      BY DEF Association, Control
    <3>2. CASE bawrite(p, b)
      BY <1>24, <2>1, <3>1, <3>2, BioAssumption DEF Bdwrite, MayWrite, MayRelease,
           bawrite, strategy, bwriteFlags, Goto, brelse, AssociationAt, AssociationOf,
           ControlAt, Owns, TypeOK, InGetblk, GetblkReturns, bufVars, ioVars
    <3>3. CASE brelse(b, b_flags[b] \cup {"DELWRI", "DONE"}) /\ UNCHANGED <<ioq, pc, cand,
         cur>>
      BY <1>24, <2>1, <3>1, <3>3, BioAssumption DEF Bdwrite, MayWrite, MayRelease,
           bawrite, strategy, bwriteFlags, Goto, brelse, AssociationAt, AssociationOf,
           ControlAt, Owns, TypeOK, InGetblk, GetblkReturns, bufVars, ioVars
    <3> QED BY <1>24, <3>2, <3>3 DEF Bdwrite
  <2>4. ASSUME NEW q \in Procs, q # p PROVE AssociationAt(q)'
    <3>1. \A x \in Bufs : Owns(q, x) => x # b
      BY <2>1, <2>4 DEF Ownership, Exclusive
    <3>2. cur # q
      BY <2>1, <2>4, BioAssumption
    <3>3. /\ pc'[q] = pc[q] /\ bp'[q] = bp[q] /\ first'[q] = first[q]
          /\ held'[q] = held[q] /\ u_error'[q] = u_error[q]
          /\ \A x \in Bufs : Owns(q, x) => /\ b_flags'[x] = b_flags[x]
                                           /\ b_blkno'[x] = b_blkno[x]
                                           /\ x \in ioq' <=> x \in ioq
      BY <1>24, <2>1, <2>4, <3>1 DEF Bdwrite, MayWrite, MayRelease, bawrite, strategy,
           bwriteFlags, Goto, brelse, TypeOK, bufVars, ioVars
    <3> QED BY <3>2, <3>3, OthersAssociation
  <2> QED BY <2>2, <2>3, <2>4 DEF Association
<1>25. ASSUME NEW p \in Procs, GetblkHit(p) PROVE Association'
  <2>1. cand[p] \in Bufs /\ cur = p /\ cand[p] \notin ioq /\ ret[p] \in GetblkReturns /\
       want[p] \in Blocks
        /\ AssociationOf(cand[p])
        /\ \A q \in Procs : ~Owns(q, cand[p])
    <3>1. AssociationAt(p) /\ ControlAt(p)
      BY DEF Association, Control
    <3> QED BY <3>1, <1>25, AvailableFree DEF GetblkHit, ControlAt, TypeOK, GetblkReturns,
         InGetblk, AgeReturn, FreeListExact, Association
  <2>2. \A x \in Bufs : AssociationOf(x)'
    BY <1>25, <2>1, BioAssumption DEF GetblkHit, Goto, Association, AssociationOf, TypeOK,
         bufVars, ioVars
  <2>3. AssociationAt(p)'
    <3>1. AssociationAt(p) /\ ControlAt(p)
      BY DEF Association, Control
    <3> QED BY <1>25, <2>1, <3>1, BioAssumption DEF GetblkHit, Goto, AssociationAt,
         AssociationOf, ControlAt, Owns, TypeOK, InGetblk, GetblkReturns, bufVars, ioVars
  <2>4. ASSUME NEW q \in Procs, q # p PROVE AssociationAt(q)'
    <3>1. \A x \in Bufs : Owns(q, x) => x # cand[p]
      BY <2>1, <2>4 DEF Ownership, Exclusive
    <3>2. cur # q
      BY <2>1, <2>4, BioAssumption
    <3>3. /\ pc'[q] = pc[q] /\ bp'[q] = bp[q] /\ first'[q] = first[q]
          /\ held'[q] = held[q] /\ u_error'[q] = u_error[q]
          /\ \A x \in Bufs : Owns(q, x) => /\ b_flags'[x] = b_flags[x]
                                           /\ b_blkno'[x] = b_blkno[x]
                                           /\ x \in ioq' <=> x \in ioq
      BY <1>25, <2>1, <2>4, <3>1 DEF GetblkHit, Goto, TypeOK, bufVars, ioVars
    <3> QED BY <3>2, <3>3, OthersAssociation
  <2> QED BY <2>2, <2>3, <2>4 DEF Association
<1>26. ASSUME NEW p \in Procs, GetblkPush(p) PROVE Association'
  <2>1. cur \in {NULL, p} /\ bp[p] = NULL
    BY <1>26 DEF GetblkPush, AtGetblk, Runnable, Control, ControlAt, GetblkReturns
  <2> QED BY <1>26, <2>1, HeadFree, PushAssociation DEF GetblkPush, AgeReturn
<1>27. ASSUME NEW p \in Procs, GetblkTake(p) PROVE Association'
  <2>1. Head(av) \in Bufs /\ cur \in {NULL, p} /\ Head(av) \notin ioq
        /\ \A q \in Procs : ~Owns(q, Head(av))
    <3>1. AssociationAt(p) /\ ControlAt(p)
      BY DEF Association, Control
    <3> QED BY <3>1, <1>27, HeadFree DEF GetblkTake, AtGetblk, Runnable
  <2>2. \A x \in Bufs : AssociationOf(x)'
    BY <1>27, <2>1, BioAssumption DEF GetblkTake, AtGetblk, Goto, Association,
         AssociationOf, TypeOK, bufVars, ioVars
  <2>3. AssociationAt(p)'
    <3>1. AssociationAt(p) /\ ControlAt(p)
      BY DEF Association, Control
    <3> QED BY <1>27, <2>1, <3>1, BioAssumption DEF GetblkTake, AtGetblk, Goto,
         AssociationAt, AssociationOf, ControlAt, Owns, TypeOK, InGetblk, GetblkReturns,
         bufVars, ioVars
  <2>4. ASSUME NEW q \in Procs, q # p PROVE AssociationAt(q)'
    <3>1. \A x \in Bufs : Owns(q, x) => x # Head(av)
      BY <2>1, <2>4 DEF Ownership, Exclusive
    <3>2. cur # q
      BY <2>1, <2>4, BioAssumption
    <3>3. /\ pc'[q] = pc[q] /\ bp'[q] = bp[q] /\ first'[q] = first[q]
          /\ held'[q] = held[q] /\ u_error'[q] = u_error[q]
          /\ \A x \in Bufs : Owns(q, x) => /\ b_flags'[x] = b_flags[x]
                                           /\ b_blkno'[x] = b_blkno[x]
                                           /\ x \in ioq' <=> x \in ioq
      BY <1>27, <2>1, <2>4, <3>1 DEF GetblkTake, AtGetblk, Goto, TypeOK, bufVars, ioVars
    <3> QED BY <3>2, <3>3, OthersAssociation
  <2> QED BY <2>2, <2>3, <2>4 DEF Association
<1>28. ASSUME NEW p \in Procs, GeteblkPush(p) PROVE Association'
  <2>1. cur \in {NULL, p} /\ bp[p] = NULL
    BY <1>28 DEF GeteblkPush, AtGeteblk, Runnable, Control, ControlAt, GetblkReturns
  <2> QED BY <1>28, <2>1, HeadFree, PushAssociation DEF GeteblkPush, AgeReturn
<1>29. ASSUME NEW p \in Procs, GeteblkTake(p) PROVE Association'
  <2>1. Head(av) \in Bufs /\ cur \in {NULL, p} /\ Head(av) \notin ioq
        /\ \A q \in Procs : ~Owns(q, Head(av))
    <3>1. AssociationAt(p) /\ ControlAt(p)
      BY DEF Association, Control
    <3> QED BY <3>1, <1>29, HeadFree DEF GeteblkTake, AtGeteblk, Runnable
  <2>2. \A x \in Bufs : AssociationOf(x)'
    BY <1>29, <2>1, BioAssumption DEF GeteblkTake, AtGeteblk, Return, Association,
         AssociationOf, TypeOK, bufVars, ioVars
  <2>3. AssociationAt(p)'
    <3>1. AssociationAt(p) /\ ControlAt(p)
      BY DEF Association, Control
    <3> QED BY <1>29, <2>1, <3>1, BioAssumption DEF GeteblkTake, AtGeteblk, Return,
         AssociationAt, AssociationOf, ControlAt, Owns, TypeOK, InGetblk, GetblkReturns,
         bufVars, ioVars
  <2>4. ASSUME NEW q \in Procs, q # p PROVE AssociationAt(q)'
    <3>1. \A x \in Bufs : Owns(q, x) => x # Head(av)
      BY <2>1, <2>4 DEF Ownership, Exclusive
    <3>2. cur # q
      BY <2>1, <2>4, BioAssumption
    <3>3. /\ pc'[q] = pc[q] /\ bp'[q] = bp[q] /\ first'[q] = first[q]
          /\ held'[q] = held[q] /\ u_error'[q] = u_error[q]
          /\ \A x \in Bufs : Owns(q, x) => /\ b_flags'[x] = b_flags[x]
                                           /\ b_blkno'[x] = b_blkno[x]
                                           /\ x \in ioq' <=> x \in ioq
      BY <1>29, <2>1, <2>4, <3>1 DEF GeteblkTake, AtGeteblk, Return, TypeOK, bufVars, ioVars
    <3> QED BY <3>2, <3>3, OthersAssociation
  <2> QED BY <2>2, <2>3, <2>4 DEF Association
<1>30. ASSUME NEW p \in Procs, BflushPush(p) PROVE Association'
  <2>1. PICK i \in DOMAIN av :
          "DELWRI" \in b_flags[av[i]] /\ PushDelayed(p, av[i], "bflush.age")
    BY <1>30 DEF BflushPush
  <2>2. av[i] \in Bufs /\ \A q \in Procs : ~Owns(q, av[i])
    BY <2>1, AvailableFree DEF OnList
  <2>3. cur \in {NULL, p} /\ bp[p] = NULL
    BY <1>30 DEF BflushPush, Runnable, Control, ControlAt, GetblkReturns
  <2> QED BY <2>1, <2>2, <2>3, PushAssociation DEF AgeReturn
<1>31. ASSUME NEW p \in Procs, Breada3(p) PROVE Association'
  <2>1. bp[p] \in Bufs /\ cur = p /\ bp[p] \notin ioq /\ Owns(p, bp[p]) /\ bp[p] # first[p]
        /\ bp[p] \notin held[p] /\ ("DONE" \notin b_flags[bp[p]] => b_blkno[bp[p]] \in
             Blocks)
    <3>1. AssociationAt(p) /\ ControlAt(p)
      BY DEF Association, Control
    <3> QED BY <3>1, <1>31, BioAssumption DEF Breada3, ControlAt, TypeOK, GetblkReturns,
         InGetblk, AgeReturn, Owns, Ownership, OneRole, AssociationAt
  <2>2. \A x \in Bufs : AssociationOf(x)'
    <3>1. CASE strategy(bp[p], b_flags[bp[p]] \cup {"READ", "ASYNC"}) /\ UNCHANGED b_blkno
         /\ "DONE" \notin b_flags[bp[p]]
      BY <1>31, <2>1, <3>1, BioAssumption DEF Breada3, strategy, brelse, Goto,
           Association, AssociationOf, TypeOK, bufVars, ioVars
    <3>2. CASE brelse(bp[p], b_flags[bp[p]]) /\ UNCHANGED ioq
      BY <1>31, <2>1, <3>2, BioAssumption DEF Breada3, strategy, brelse, Goto,
           Association, AssociationOf, TypeOK, bufVars, ioVars
    <3> QED BY <1>31, <3>1, <3>2 DEF Breada3
  <2>3. AssociationAt(p)'
    <3>1. AssociationAt(p) /\ ControlAt(p)
      BY DEF Association, Control
    <3>2. CASE strategy(bp[p], b_flags[bp[p]] \cup {"READ", "ASYNC"}) /\ UNCHANGED b_blkno
         /\ "DONE" \notin b_flags[bp[p]]
      BY <1>31, <2>1, <3>1, <3>2, BioAssumption DEF Breada3, strategy, brelse, Goto,
           AssociationAt, AssociationOf, ControlAt, Owns, TypeOK, InGetblk, GetblkReturns,
           bufVars, ioVars
    <3>3. CASE brelse(bp[p], b_flags[bp[p]]) /\ UNCHANGED ioq
      BY <1>31, <2>1, <3>1, <3>3, BioAssumption DEF Breada3, strategy, brelse, Goto,
           AssociationAt, AssociationOf, ControlAt, Owns, TypeOK, InGetblk, GetblkReturns,
           bufVars, ioVars
    <3> QED BY <1>31, <3>2, <3>3 DEF Breada3
  <2>4. ASSUME NEW q \in Procs, q # p PROVE AssociationAt(q)'
    <3>1. \A x \in Bufs : Owns(q, x) => x # bp[p]
      BY <2>1, <2>4 DEF Ownership, Exclusive
    <3>2. cur # q
      BY <2>1, <2>4, BioAssumption
    <3>3. /\ pc'[q] = pc[q] /\ bp'[q] = bp[q] /\ first'[q] = first[q]
          /\ held'[q] = held[q] /\ u_error'[q] = u_error[q]
          /\ \A x \in Bufs : Owns(q, x) => /\ b_flags'[x] = b_flags[x]
                                           /\ b_blkno'[x] = b_blkno[x]
                                           /\ x \in ioq' <=> x \in ioq
      BY <1>31, <2>1, <2>4, <3>1 DEF Breada3, strategy, brelse, Goto, TypeOK, bufVars,
           ioVars
    <3> QED BY <3>2, <3>3, OthersAssociation
  <2> QED BY <2>2, <2>3, <2>4 DEF Association
<1>32. ASSUME NEW p \in Procs, Breada4(p) PROVE Association'
  <2>1. cur = p /\ bp[p] = NULL /\ blkno[p] \in Blocks
    <3>1. AssociationAt(p) /\ ControlAt(p)
      BY DEF Association, Control
    <3> QED BY <3>1, <1>32 DEF Breada4, ControlAt, TypeOK, GetblkReturns, InGetblk,
         AgeReturn
  <2>2. \A x \in Bufs : AssociationOf(x)'
    BY <1>32, <2>1, BioAssumption DEF Breada4, Goto, Association, AssociationOf, TypeOK,
         bufVars, ioVars
  <2>3. AssociationAt(p)'
    <3>1. AssociationAt(p) /\ ControlAt(p)
      BY DEF Association, Control
    <3> QED BY <1>32, <2>1, <3>1, BioAssumption DEF Breada4, Goto, AssociationAt,
         AssociationOf, ControlAt, Owns, TypeOK, InGetblk, GetblkReturns, bufVars, ioVars
  <2>4. ASSUME NEW q \in Procs, q # p PROVE AssociationAt(q)'
    <3>1. \A x \in Bufs : Owns(q, x) => x # NULL
      BY BioAssumption
    <3>2. cur # q
      BY <2>1, <2>4, BioAssumption
    <3>3. /\ pc'[q] = pc[q] /\ bp'[q] = bp[q] /\ first'[q] = first[q]
          /\ held'[q] = held[q] /\ u_error'[q] = u_error[q]
          /\ \A x \in Bufs : Owns(q, x) => /\ b_flags'[x] = b_flags[x]
                                           /\ b_blkno'[x] = b_blkno[x]
                                           /\ x \in ioq' <=> x \in ioq
      BY <1>32, <2>1, <2>4, <3>1 DEF Breada4, Goto, TypeOK, bufVars, ioVars
    <3> QED BY <3>2, <3>3, OthersAssociation
  <2> QED BY <2>2, <2>3, <2>4 DEF Association
<1>33. ASSUME NEW p \in Procs, IowaitDone(p) PROVE Association'
  <2>1. bp[p] \in Bufs /\ cur \in {NULL, p} /\ Owns(p, bp[p]) /\ bp[p] \notin ioq
    <3>1. AssociationAt(p) /\ ControlAt(p)
      BY DEF Association, Control
    <3> QED BY <3>1, <1>33, BioAssumption DEF IowaitDone, Runnable, ControlAt, TypeOK,
         GetblkReturns, InGetblk, AgeReturn, Owns, Association, AssociationOf, AssociationAt
  <2>2. \A x \in Bufs : AssociationOf(x)'
    BY <1>33, <2>1, BioAssumption DEF IowaitDone, geterror, Return, Association,
         AssociationOf, TypeOK, bufVars, ioVars
  <2>3. AssociationAt(p)'
    <3>1. AssociationAt(p) /\ ControlAt(p)
      BY DEF Association, Control
    <3> QED BY <1>33, <2>1, <3>1, BioAssumption, ZenonT(40) DEF IowaitDone, geterror, Return,
         AssociationAt, AssociationOf, ControlAt, Owns, TypeOK, InGetblk, GetblkReturns,
         bufVars, ioVars
  <2>4. ASSUME NEW q \in Procs, q # p PROVE AssociationAt(q)'
    <3>1. \A x \in Bufs : Owns(q, x) => x # bp[p]
      BY <2>1, <2>4 DEF Ownership, Exclusive
    <3>2. cur # q
      BY <2>1, <2>4, BioAssumption
    <3>3. /\ pc'[q] = pc[q] /\ bp'[q] = bp[q] /\ first'[q] = first[q]
          /\ held'[q] = held[q] /\ u_error'[q] = u_error[q]
          /\ \A x \in Bufs : Owns(q, x) => /\ b_flags'[x] = b_flags[x]
                                           /\ b_blkno'[x] = b_blkno[x]
                                           /\ x \in ioq' <=> x \in ioq
      BY <1>33, <2>1, <2>4, <3>1 DEF IowaitDone, geterror, Return, TypeOK, bufVars, ioVars
    <3> QED BY <3>2, <3>3, OthersAssociation
  <2> QED BY <2>2, <2>3, <2>4 DEF Association
<1>34. ASSUME NEW b \in Bufs, NEW failed \in BOOLEAN, Interrupt(b, failed)
      PROVE  Association'
  <2> DEFINE fl == b_flags[b] \cup {"DONE"} \cup (IF failed THEN {"ERROR"} ELSE {})
  <2>1. /\ b \in ioq /\ iodone(b, fl) /\ ioq' = ioq \ {b}
        /\ UNCHANGED <<pc, want, bp, first, cand, held, u_error>>
        /\ AssociationOf(b) /\ b_blkno[b] \in Blocks /\ "DELWRI" \notin b_flags[b]
    BY <1>34 DEF Interrupt, Association, AssociationOf, callVars
  <2>2. /\ "DONE" \in fl /\ "DELWRI" \notin fl
        /\ "ASYNC" \in fl <=> "ASYNC" \in b_flags[b]
        /\ "BUSY" \in fl <=> "BUSY" \in b_flags[b]
    BY <2>1
  <2> HIDE DEF fl
  <2>3. CASE "ASYNC" \in fl
    <3>1. brelse(b, fl)
      BY <2>1, <2>3, Zenon DEF iodone
    <3>2. /\ b_flags' = [b_flags EXCEPT ![b] = fl \ {"WANTED", "BUSY", "ASYNC", "AGE"}]
          /\ b_blkno' = [b_blkno EXCEPT ![b] = IF "ERROR" \in fl THEN NODEV ELSE @]
      BY <3>1 DEF brelse
    <3>3. \A q \in Procs : ~Owns(q, b)
      BY <2>2, <2>3 DEF Ownership, OwnedBusy
    <3>4. \A x \in Bufs : AssociationOf(x)'
      BY <2>1, <2>2, <3>2, BioAssumption DEF Association, AssociationOf, TypeOK
    <3>5. ASSUME NEW q \in Procs PROVE AssociationAt(q)'
      <4>1. AssociationAt(q) /\ ControlAt(q)
        BY DEF Association, Control
      <4>2. first[q] # b /\ b \notin held[q]
            /\ (pc[q] \in GetblkReturns \cup {"iowait", "bwrite.iowait"} => bp[q] \in Bufs
                 /\ bp[q] # b)
        BY <3>3, <4>1 DEF Owns, ControlAt, TypeOK
      <4>3. first[q] # NULL => first[q] \in Bufs
        BY DEF TypeOK
      <4>4. held[q] \subseteq Bufs
        BY DEF TypeOK
      <4>5. pc[q] = "found" => cand[q] \in Bufs
        BY <4>1 DEF ControlAt
      <4> QED BY <2>1, <2>2, <3>2, <4>1, <4>2, <4>3, <4>4, <4>5 DEF AssociationAt, TypeOK
    <3> QED BY <3>4, <3>5 DEF Association
  <2>4. CASE "ASYNC" \notin fl
    <3>1. b_flags' = [b_flags EXCEPT ![b] = fl \ {"WANTED"}] /\ b_blkno' = b_blkno
      BY <2>1, <2>4, Zenon DEF iodone
    <3>2. "BUSY" \in fl
      BY <2>1, <2>2 DEF Ownership, BusyOwned
    <3>3. \A x \in Bufs : AssociationOf(x)'
      BY <2>1, <2>2, <3>1, <3>2 DEF Association, AssociationOf, TypeOK
    <3>4. ASSUME NEW q \in Procs PROVE AssociationAt(q)'
      <4>1. AssociationAt(q) /\ ControlAt(q)
        BY DEF Association, Control
      <4>2. /\ pc[q] \in GetblkReturns => bp[q] # b
            /\ b \notin held[q]
        BY <2>1, <4>1 DEF AssociationAt
      <4>3. first[q] # NULL => first[q] \in Bufs
        BY DEF TypeOK
      <4>4. held[q] \subseteq Bufs
        BY DEF TypeOK
      <4>5. pc[q] = "found" =>
              cand[q] \in Bufs /\ (cand[q] = b => b_blkno[cand[q]] = want[q])
        BY <2>1, <3>2, <2>2, <4>1 DEF ControlAt, AssociationAt
      <4>6. pc[q] \in GetblkReturns \cup {"iowait", "bwrite.iowait"} => bp[q] \in Bufs
        BY <4>1 DEF ControlAt, TypeOK
      <4> QED BY <2>1, <2>2, <3>1, <4>1, <4>2, <4>3, <4>4, <4>5, <4>6
              DEF AssociationAt, TypeOK
    <3> QED BY <3>3, <3>4 DEF Association
  <2> QED BY <2>3, <2>4
<1> QED
  BY <1>1, <1>2, <1>3, <1>4, <1>5, <1>6, <1>7, <1>8, <1>9, <1>10, <1>11, <1>12, <1>13,
       <1>14, <1>15, <1>16, <1>17, <1>18, <1>19, <1>20, <1>21, <1>22, <1>23, <1>24, <1>25,
       <1>26, <1>27, <1>28, <1>29, <1>30, <1>31, <1>32, <1>33, <1>34 DEF Next, Call, Release,
       Kernel, Device

-----------------------------------------------------------------------------
(* Wakeups.                                                                *)

\* A process that is awake will be woken.
LEMMA AwakeWoken ==
  ASSUME NEW q \in Procs, wchan'[q] = Awake
  PROVE  WillBeWoken(q)'
BY BioAssumption DEF WillBeWoken

\* Pushing a delayed write out disturbs no sleeper: the buffer was free, and
\* nobody sleeps on a free buffer, nor on bfreelist while there is one.
LEMMA PushWakeup ==
  ASSUME TypeOK, NoLostWakeup, Ownership, NEW p \in Procs, wchan[p] = Awake,
         NEW b \in Bufs, NEW c, av # <<>>, "BUSY" \notin b_flags[b], b \notin ioq,
         PushDelayed(p, b, c)
  PROVE  NoLostWakeup'
<1>1. WillBeWoken(p)'
  BY AwakeWoken DEF PushDelayed
<1>2. ASSUME NEW q \in Procs, q # p PROVE WillBeWoken(q)'
  <2>1. WillBeWoken(q)
    BY DEF NoLostWakeup
  <2> QED BY <1>2, <2>1 DEF WillBeWoken, PushDelayed, strategy, Goto, TypeOK
<1> QED BY <1>1, <1>2 DEF NoLostWakeup

\* No step loses a wakeup.
LEMMA WakeupStep ==
  ASSUME TypeOK, Control, Association, FreeListExact, Ownership, NoLostWakeup, Next
  PROVE  NoLostWakeup'
<1> USE BioAssumption DEF TypeOK, Control, ControlAt, Ownership, Exclusive, OwnedBusy,
     Owns, NoLostWakeup, WillBeWoken, bufVars, ioVars
<1>1. ASSUME NEW p \in Procs, NEW k \in Blocks, CallBread(p, k) PROVE NoLostWakeup'
  BY <1>1 DEF CallBread, MayCall, MayAskFor, Enter, Goto, Runnable
<1>2. ASSUME NEW p \in Procs, NEW k \in Blocks, CallGetblk(p, k) PROVE NoLostWakeup'
  BY <1>2 DEF CallGetblk, MayCall, MayAskFor, Enter, Goto, Runnable
<1>3. ASSUME NEW p \in Procs, NEW k \in Blocks, NEW r \in Blocks \cup {NULL},
     CallBreada(p, k, r)
      PROVE  NoLostWakeup'
  BY <1>3 DEF CallBreada, MayCall, Enter, Goto, Runnable
<1>4. ASSUME NEW p \in Procs, CallGeteblk(p) PROVE NoLostWakeup'
  BY <1>4 DEF CallGeteblk, MayCall, Enter, Goto, Runnable
<1>5. ASSUME NEW p \in Procs, CallBflush(p) PROVE NoLostWakeup'
  BY <1>5 DEF CallBflush, MayCall, Enter, Goto, Runnable
<1>6. ASSUME NEW p \in Procs, NEW b \in held[p], Brelse(p, b) PROVE NoLostWakeup'
  BY <1>6 DEF Brelse, MayRelease, brelse, Runnable
<1>7. ASSUME NEW p \in Procs, NEW b \in held[p], WriteWild(p, b) PROVE NoLostWakeup'
  BY <1>7 DEF WriteWild, MayRelease, Goto, Runnable
<1>8. ASSUME NEW p \in Procs, NEW b \in held[p], NEW v \in Vals, Bwrite(p, b, v)
      PROVE  NoLostWakeup'
  BY <1>8 DEF Bwrite, MayWrite, MayRelease, Modify, strategy, bwriteFlags, Goto, Runnable
<1>9. ASSUME NEW p \in Procs, NEW b \in held[p], NEW v \in Vals, Bawrite(p, b, v)
      PROVE  NoLostWakeup'
  BY <1>9 DEF Bawrite, MayWrite, MayRelease, Modify, bawrite, strategy, bwriteFlags, Goto,
       Runnable
<1>10. ASSUME NEW p \in Procs, GetblkFound(p) PROVE NoLostWakeup'
  BY <1>10 DEF GetblkFound, AtGetblk, Goto, Runnable
<1>11. ASSUME NEW p \in Procs, GetblkBusy(p) PROVE NoLostWakeup'
  BY <1>11 DEF GetblkBusy, sleep, Runnable
<1>12. ASSUME NEW p \in Procs, GetblkEmpty(p) PROVE NoLostWakeup'
  BY <1>12 DEF GetblkEmpty, AtGetblk, incore, sleep, Runnable
<1>13. ASSUME NEW p \in Procs, GeteblkEmpty(p) PROVE NoLostWakeup'
  BY <1>13 DEF GeteblkEmpty, AtGeteblk, sleep, Runnable
<1>14. ASSUME NEW p \in Procs, BflushDone(p) PROVE NoLostWakeup'
  BY <1>14 DEF BflushDone, Return, Runnable
<1>15. ASSUME NEW p \in Procs, SetAge(p) PROVE NoLostWakeup'
  BY <1>15 DEF SetAge, AgeReturn, Runnable
<1>16. ASSUME NEW p \in Procs, Full(p) PROVE NoLostWakeup'
  BY <1>16 DEF Full, Return, Runnable
<1>17. ASSUME NEW p \in Procs, BreadCached(p) PROVE NoLostWakeup'
  BY <1>17 DEF BreadCached, Return, Runnable
<1>18. ASSUME NEW p \in Procs, BreadStart(p) PROVE NoLostWakeup'
  BY <1>18 DEF BreadStart, strategy, Goto, Runnable
<1>19. ASSUME NEW p \in Procs, IowaitDone(p) PROVE NoLostWakeup'
  BY <1>19 DEF IowaitDone, geterror, Return, Runnable
<1>20. ASSUME NEW p \in Procs, BwriteDone(p) PROVE NoLostWakeup'
  BY <1>20 DEF BwriteDone, geterror, brelse, Return, Runnable
<1>21. ASSUME NEW p \in Procs, BawriteGeterror(p) PROVE NoLostWakeup'
  BY <1>21 DEF BawriteGeterror, geterror, Return, Runnable
<1> HIDE BioAssumption DEF TypeOK, Control, ControlAt, Ownership, Exclusive, OwnedBusy,
     Owns, NoLostWakeup, WillBeWoken, bufVars, ioVars
<1>22. ASSUME NEW p \in Procs, NEW b \in held[p], NEW v \in Vals, Bdwrite(p, b, v)
      PROVE  NoLostWakeup'
  <2>1. wchan[p] = Awake /\ b \in Bufs /\ b \notin ioq
        /\ \A q \in Procs : bp[q] = b => q = p
    BY <1>22 DEF Bdwrite, MayWrite, MayRelease, Runnable, TypeOK, Association,
         AssociationAt, Ownership, Exclusive, Owns
  <2>2. WillBeWoken(p)'
    BY <1>22, <2>1, AwakeWoken DEF Bdwrite, MayWrite, MayRelease, Runnable, bawrite,
         strategy, bwriteFlags, Goto, brelse, TypeOK
  <2>3. ASSUME NEW q \in Procs, q # p PROVE WillBeWoken(q)'
    <3>1. WillBeWoken(q)
      BY DEF NoLostWakeup
    <3>2. CASE bawrite(p, b)
      BY <1>22, <2>1, <2>3, <3>1, <3>2, BioAssumption DEF WillBeWoken, Bdwrite, MayWrite,
           MayRelease, Runnable, bawrite, strategy, bwriteFlags, Goto, brelse, TypeOK, bufVars,
           ioVars
    <3>3. CASE brelse(b, b_flags[b] \cup {"DELWRI", "DONE"}) /\ UNCHANGED <<ioq, pc, cand,
         cur>>
      BY <1>22, <2>1, <2>3, <3>1, <3>3, BioAssumption DEF WillBeWoken, Bdwrite, MayWrite,
           MayRelease, Runnable, bawrite, strategy, bwriteFlags, Goto, brelse, TypeOK, bufVars,
           ioVars
    <3> QED BY <1>22, <3>2, <3>3 DEF Bdwrite
  <2> QED BY <2>2, <2>3 DEF NoLostWakeup
<1>23. ASSUME NEW p \in Procs, GetblkHit(p) PROVE NoLostWakeup'
  <2>1. wchan[p] = Awake /\ cand[p] \in Bufs /\ av # <<>>
        /\ cand[p] \notin ioq
    BY <1>23, AvailableFree DEF GetblkHit, Control, ControlAt, GetblkReturns, AgeReturn,
         FreeListExact, OnList
  <2>2. WillBeWoken(p)'
    BY <1>23, <2>1, AwakeWoken DEF GetblkHit, Goto, TypeOK
  <2>3. ASSUME NEW q \in Procs, q # p PROVE WillBeWoken(q)'
    <3>1. WillBeWoken(q)
      BY DEF NoLostWakeup
    <3> QED BY <1>23, <2>1, <2>3, <3>1, BioAssumption DEF WillBeWoken, GetblkHit, Goto,
         TypeOK, bufVars, ioVars
  <2> QED BY <2>2, <2>3 DEF NoLostWakeup
<1>24. ASSUME NEW p \in Procs, GetblkPush(p) PROVE NoLostWakeup'
  BY <1>24, HeadFree, PushWakeup DEF GetblkPush, AtGetblk, Runnable
<1>25. ASSUME NEW p \in Procs, GetblkTake(p) PROVE NoLostWakeup'
  <2>1. wchan[p] = Awake /\ Head(av) \in Bufs /\ "BUSY" \notin b_flags[Head(av)]
        /\ Head(av) \notin ioq
    BY <1>25, HeadFree DEF GetblkTake, AtGetblk, Runnable
  <2>2. WillBeWoken(p)'
    BY <1>25, <2>1, AwakeWoken DEF GetblkTake, AtGetblk, Goto, TypeOK
  <2>3. ASSUME NEW q \in Procs, q # p PROVE WillBeWoken(q)'
    <3>1. WillBeWoken(q)
      BY DEF NoLostWakeup
    <3> QED BY <1>25, <2>1, <2>3, <3>1, BioAssumption DEF WillBeWoken, GetblkTake,
         AtGetblk, Goto, TypeOK, bufVars, ioVars
  <2> QED BY <2>2, <2>3 DEF NoLostWakeup
<1>26. ASSUME NEW p \in Procs, GeteblkPush(p) PROVE NoLostWakeup'
  BY <1>26, HeadFree, PushWakeup DEF GeteblkPush, AtGeteblk, Runnable
<1>27. ASSUME NEW p \in Procs, GeteblkTake(p) PROVE NoLostWakeup'
  <2>1. wchan[p] = Awake /\ Head(av) \in Bufs /\ "BUSY" \notin b_flags[Head(av)]
        /\ Head(av) \notin ioq
    BY <1>27, HeadFree DEF GeteblkTake, AtGeteblk, Runnable
  <2>2. WillBeWoken(p)'
    BY <1>27, <2>1, AwakeWoken DEF GeteblkTake, AtGeteblk, Return, TypeOK
  <2>3. ASSUME NEW q \in Procs, q # p PROVE WillBeWoken(q)'
    <3>1. WillBeWoken(q)
      BY DEF NoLostWakeup
    <3> QED BY <1>27, <2>1, <2>3, <3>1, BioAssumption DEF WillBeWoken, GeteblkTake,
         AtGeteblk, Return, TypeOK, bufVars, ioVars
  <2> QED BY <2>2, <2>3 DEF NoLostWakeup
<1>28. ASSUME NEW p \in Procs, BflushPush(p) PROVE NoLostWakeup'
  <2>1. PICK i \in DOMAIN av : PushDelayed(p, av[i], "bflush.age")
    BY <1>28 DEF BflushPush
  <2>2. av[i] \in Bufs /\ "BUSY" \notin b_flags[av[i]] /\ av[i] \notin ioq
    BY <2>1, AvailableFree DEF OnList
  <2>3. av # <<>> /\ wchan[p] = Awake
    BY <1>28, <2>1 DEF BflushPush, Runnable
  <2> QED BY <2>1, <2>2, <2>3, PushWakeup
<1>29. ASSUME NEW p \in Procs, Breada1(p) PROVE NoLostWakeup'
  <2>1. wchan[p] = Awake /\ bp[p] \in Bufs /\ bp[p] \notin ioq
        /\ \A q \in Procs : bp[q] = bp[p] => q = p
    <3>1. ControlAt(p) /\ AssociationAt(p)
      BY DEF Control, Association
    <3>2. bp[p] \in Bufs /\ bp[p] \notin ioq /\ wchan[p] = Awake
      BY <1>29, <3>1 DEF Breada1, ControlAt, AssociationAt, GetblkReturns, TypeOK
    <3>3. \A q \in Procs : bp[q] = bp[p] => Owns(q, bp[p]) /\ Owns(p, bp[p])
      BY DEF Owns
    <3> QED BY <3>2, <3>3 DEF Ownership, Exclusive
  <2>2. WillBeWoken(p)'
    BY <1>29, <2>1, AwakeWoken DEF Breada1, strategy, Goto, TypeOK
  <2>3. ASSUME NEW q \in Procs, q # p PROVE WillBeWoken(q)'
    <3>1. WillBeWoken(q)
      BY DEF NoLostWakeup
    <3>2. CASE UNCHANGED <<b_flags, ioq>>
      BY <1>29, <2>1, <2>3, <3>1, <3>2, BioAssumption DEF WillBeWoken, Breada1, strategy,
           Goto, TypeOK, bufVars, ioVars
    <3>3. CASE strategy(bp[p], b_flags[bp[p]] \cup {"READ"})
      BY <1>29, <2>1, <2>3, <3>1, <3>3, BioAssumption DEF WillBeWoken, Breada1, strategy,
           Goto, TypeOK, bufVars, ioVars
    <3> QED BY <1>29, <3>2, <3>3 DEF Breada1
  <2> QED BY <2>2, <2>3 DEF NoLostWakeup
<1>30. ASSUME NEW p \in Procs, Breada2(p) PROVE NoLostWakeup'
  <2>1. wchan[p] = Awake
    BY <1>30 DEF Breada2, Control, ControlAt, GetblkReturns, AgeReturn
  <2>2. WillBeWoken(p)'
    BY <1>30, <2>1, AwakeWoken DEF Breada2, Goto, TypeOK
  <2>3. ASSUME NEW q \in Procs, q # p PROVE WillBeWoken(q)'
    <3>1. WillBeWoken(q)
      BY DEF NoLostWakeup
    <3> QED BY <1>30, <2>1, <2>3, <3>1, BioAssumption DEF WillBeWoken, Breada2, Goto,
         TypeOK, bufVars, ioVars
  <2> QED BY <2>2, <2>3 DEF NoLostWakeup
<1>31. ASSUME NEW p \in Procs, Breada3(p) PROVE NoLostWakeup'
  <2>1. wchan[p] = Awake /\ bp[p] \in Bufs /\ bp[p] \notin ioq
        /\ \A q \in Procs : bp[q] = bp[p] => q = p
    <3>1. ControlAt(p) /\ AssociationAt(p)
      BY DEF Control, Association
    <3>2. bp[p] \in Bufs /\ bp[p] \notin ioq /\ wchan[p] = Awake
      BY <1>31, <3>1 DEF Breada3, ControlAt, AssociationAt, GetblkReturns, TypeOK
    <3>3. \A q \in Procs : bp[q] = bp[p] => Owns(q, bp[p]) /\ Owns(p, bp[p])
      BY DEF Owns
    <3> QED BY <3>2, <3>3 DEF Ownership, Exclusive
  <2>2. WillBeWoken(p)'
    BY <1>31, <2>1, AwakeWoken DEF Breada3, strategy, brelse, Goto, TypeOK
  <2>3. ASSUME NEW q \in Procs, q # p PROVE WillBeWoken(q)'
    <3>1. WillBeWoken(q)
      BY DEF NoLostWakeup
    <3>2. CASE strategy(bp[p], b_flags[bp[p]] \cup {"READ", "ASYNC"})
               /\ UNCHANGED <<av, bfwanted, wchan>>
      BY <1>31, <2>1, <2>3, <3>1, <3>2, BioAssumption DEF WillBeWoken, Breada3, strategy,
           brelse, Goto, TypeOK, bufVars, ioVars
    <3>3. CASE brelse(bp[p], b_flags[bp[p]]) /\ UNCHANGED ioq
      BY <1>31, <2>1, <2>3, <3>1, <3>3, BioAssumption DEF WillBeWoken, Breada3, strategy,
           brelse, Goto, TypeOK, bufVars, ioVars
    <3> QED BY <1>31, <3>2, <3>3 DEF Breada3
  <2> QED BY <2>2, <2>3 DEF NoLostWakeup
<1>32. ASSUME NEW p \in Procs, Breada4(p) PROVE NoLostWakeup'
  <2>1. wchan[p] = Awake
    BY <1>32 DEF Breada4, Control, ControlAt, GetblkReturns, AgeReturn
  <2>2. WillBeWoken(p)'
    BY <1>32, <2>1, AwakeWoken DEF Breada4, Goto, TypeOK
  <2>3. ASSUME NEW q \in Procs, q # p PROVE WillBeWoken(q)'
    <3>1. WillBeWoken(q)
      BY DEF NoLostWakeup
    <3> QED BY <1>32, <2>1, <2>3, <3>1, BioAssumption DEF WillBeWoken, Breada4, Goto,
         TypeOK, bufVars, ioVars
  <2> QED BY <2>2, <2>3 DEF NoLostWakeup
<1>33. ASSUME NEW p \in Procs, IowaitSleep(p) PROVE NoLostWakeup'
  <2>1. bp[p] \in ioq /\ "ASYNC" \notin b_flags[bp[p]] /\ bp[p] \in Bufs
    BY <1>33 DEF IowaitSleep, Control, ControlAt, GetblkReturns, TypeOK, Association,
       AssociationAt, Ownership, OwnedBusy, Owns
  <2>2. WillBeWoken(p)'
    BY <1>33, <2>1, BioAssumption DEF IowaitSleep, sleep, WillBeWoken, TypeOK, bufVars,
         ioVars
  <2>3. ASSUME NEW q \in Procs, q # p PROVE WillBeWoken(q)'
    BY <1>33, <2>3 DEF IowaitSleep, sleep, NoLostWakeup, WillBeWoken, TypeOK, bufVars,
         ioVars
  <2> QED BY <2>2, <2>3 DEF NoLostWakeup
<1>34. ASSUME NEW b \in Bufs, NEW failed \in BOOLEAN, Interrupt(b, failed)
      PROVE  NoLostWakeup'
  <2> DEFINE fl == b_flags[b] \cup {"DONE"} \cup (IF failed THEN {"ERROR"} ELSE {})
  <2>1. b \in ioq /\ iodone(b, fl) /\ ioq' = ioq \ {b} /\ UNCHANGED <<pc, bp>>
    BY <1>34 DEF Interrupt
  <2>2. /\ "ASYNC" \in fl <=> "ASYNC" \in b_flags[b]
        /\ "WANTED" \in fl <=> "WANTED" \in b_flags[b]
    OBVIOUS
  <2> HIDE DEF fl
  <2>3. SUFFICES ASSUME NEW q \in Procs PROVE WillBeWoken(q)'
    BY DEF NoLostWakeup
  <2>4. WillBeWoken(q)
    BY DEF NoLostWakeup
  <2>5. CASE "ASYNC" \in fl
    <3>1. brelse(b, fl)
      BY <2>1, <2>5, Zenon DEF iodone
    <3>2. wchan[q] = b => wchan'[q] = Awake
      BY <2>2, <2>4, <2>5, <3>1, BioAssumption DEF WillBeWoken, brelse
    <3>3. CASE wchan'[q] = Awake
      BY <3>3, AwakeWoken
    <3>4. CASE wchan'[q] = wchan[q] /\ wchan[q] # Bfreelist /\ wchan[q] # b
      BY <2>1, <2>4, <3>1, <3>4 DEF WillBeWoken, brelse, TypeOK
    <3>5. wchan[q] = Bfreelist => wchan'[q] = Awake
      BY <2>4, <3>1 DEF WillBeWoken, brelse
    <3> QED BY <3>1, <3>2, <3>3, <3>4, <3>5 DEF brelse
  <2>6. CASE "ASYNC" \notin fl
    <3>1. /\ b_flags' = [b_flags EXCEPT ![b] = fl \ {"WANTED"}]
          /\ wchan' = [p \in Procs |-> IF wchan[p] = b THEN Awake ELSE wchan[p]]
          /\ UNCHANGED <<b_blkno, av, bfwanted>>
      BY <2>1, <2>6, Zenon DEF iodone
    <3>2. CASE wchan[q] = b
      BY <3>1, <3>2, AwakeWoken
    <3>3. CASE wchan[q] # b
      BY <2>1, <2>4, <3>1, <3>3 DEF WillBeWoken, TypeOK
    <3> QED BY <3>2, <3>3
  <2> QED BY <2>5, <2>6
<1> QED
  BY <1>1, <1>2, <1>3, <1>4, <1>5, <1>6, <1>7, <1>8, <1>9, <1>10, <1>11, <1>12, <1>13,
       <1>14, <1>15, <1>16, <1>17, <1>18, <1>19, <1>20, <1>21, <1>22, <1>23, <1>24, <1>25,
       <1>26, <1>27, <1>28, <1>29, <1>30, <1>31, <1>32, <1>33, <1>34 DEF Next, Call, Release,
       Kernel, Device

-----------------------------------------------------------------------------
(* The theorems.                                                           *)

\* The machine starts in a state that satisfies the invariant.
LEMMA InitInv == Init => IInv
<1> SUFFICES ASSUME Init PROVE IInv
  OBVIOUS
<1> USE BioAssumption
<1>1. TypeOK
  <2>1. av \in Seq(Bufs)
    <3> DEFINE n == Cardinality(Bufs)
    <3>1. n \in Nat
      BY FS_CardinalityType
    <3>2. av \in [1..n -> Bufs]
      BY DEF Init
    <3> HIDE DEF n
    <3> QED BY <3>1, <3>2
  <2> QED BY <2>1 DEF Init, TypeOK, PCs, Flags
<1>2. Control
  BY DEF Init, Control, ControlAt, InGetblk, GetblkReturns, AgeReturn
<1>3. Association
  BY DEF Init, Association, AssociationOf, AssociationAt, GetblkReturns
<1>4. FreeListExact
  BY DEF Init, FreeListExact, OnList
<1>5. Ownership
  BY DEF Init, Ownership, Exclusive, OneRole, OwnedBusy, BusyOwned, Owns
<1>6. UniqueBlock
  BY DEF Init, UniqueBlock
<1>7. NoLostWakeup
  BY DEF Init, NoLostWakeup, WillBeWoken
<1> QED BY <1>1, <1>2, <1>3, <1>4, <1>5, <1>6, <1>7 DEF IInv

\* Every step, of a process or of the device, preserves it.
LEMMA NextInv == IInv /\ [Next]_vars => IInv'
<1> SUFFICES ASSUME IInv, [Next]_vars PROVE IInv'
  OBVIOUS
<1>1. CASE Next
  BY <1>1, TypeStep, ControlStep, AssociationStep, FreeListStep, OwnershipStep, UniqueStep,
     WakeupStep DEF IInv
<1>2. CASE UNCHANGED vars
  <2>1. TypeOK' /\ FreeListExact' /\ UniqueBlock'
    BY <1>2 DEF IInv, vars, TypeOK, FreeListExact, UniqueBlock
  <2>2. Control' /\ Association'
    BY <1>2 DEF IInv, vars, Control, ControlAt, Association, AssociationOf, AssociationAt
  <2>3. Ownership'
    BY <1>2 DEF IInv, vars, Ownership, Exclusive, OneRole, OwnedBusy, BusyOwned, Owns
  <2>4. NoLostWakeup'
    BY <1>2 DEF IInv, vars, NoLostWakeup, WillBeWoken
  <2> QED BY <2>1, <2>2, <2>3, <2>4 DEF IInv
<1> QED BY <1>1, <1>2

\* Ownership in terms of the set of holders.
LEMMA OwnershipHolders == TypeOK /\ Ownership => OneHolder
<1> SUFFICES ASSUME TypeOK, Ownership, NEW b \in Bufs
    PROVE  /\ "BUSY" \in b_flags[b] <=> Holders(b) # {}
           /\ \A g, h \in Holders(b) : g = h
           /\ b \in ioq => "BUSY" \in b_flags[b]
  BY DEF OneHolder
<1>1. \A h : h \in Holders(b) <=>
        \/ \E p \in Procs : h = <<p, "bp">> /\ bp[p] = b
        \/ \E p \in Procs : h = <<p, "first">> /\ first[p] = b
        \/ \E p \in Procs : h = <<p, "held">> /\ b \in held[p]
        \/ h = <<NULL, "device">> /\ b \in ioq /\ "ASYNC" \in b_flags[b]
  BY DEF Holders
<1>2. Holders(b) # {} <=> \/ \E p \in Procs : Owns(p, b)
                          \/ b \in ioq /\ "ASYNC" \in b_flags[b]
  BY <1>1 DEF Owns
<1>3. "BUSY" \in b_flags[b] <=> Holders(b) # {}
  BY <1>2 DEF Ownership, OwnedBusy, BusyOwned
<1>4. ASSUME NEW g \in Holders(b), NEW h \in Holders(b) PROVE g = h
  <2>1. CASE "ASYNC" \in b_flags[b]
    BY <1>1, <1>4, <2>1 DEF Ownership, OwnedBusy, Owns
  <2>2. CASE "ASYNC" \notin b_flags[b]
    <3>1. PICK p \in Procs : \/ g = <<p, "bp">> /\ bp[p] = b
                             \/ g = <<p, "first">> /\ first[p] = b
                             \/ g = <<p, "held">> /\ b \in held[p]
      BY <1>1, <1>4, <2>2
    <3>2. PICK q \in Procs : \/ h = <<q, "bp">> /\ bp[q] = b
                             \/ h = <<q, "first">> /\ first[q] = b
                             \/ h = <<q, "held">> /\ b \in held[q]
      BY <1>1, <1>4, <2>2
    <3>3. p = q
      BY <3>1, <3>2 DEF Ownership, Exclusive, Owns
    <3>4. b # NULL
      BY BioAssumption
    <3> QED BY <3>1, <3>2, <3>3, <3>4 DEF Ownership, OneRole
  <2> QED BY <2>1, <2>2
<1> QED BY <1>3, <1>4 DEF Ownership, BusyOwned

\* The invariant holds in every reachable state of the cache.
THEOREM Invariance == Spec => []IInv
BY InitInv, NextInv, PTL DEF Spec

\* Every variable keeps its type: in particular no transfer is ever started on,
\* and no write directed to, a block that does not exist.
THEOREM TypeCorrect == Spec => []TypeOK
<1>1. IInv => TypeOK
  BY DEF IInv
<1> QED BY <1>1, Invariance, PTL

\* The available list is exact for any number of processes and buffers, with
\* every interrupt where it may come.
THEOREM FreeListCorrect == Spec => []FreeListExact
<1>1. IInv => FreeListExact
  BY DEF IInv
<1> QED BY <1>1, Invariance, PTL

\* Every busy buffer has exactly one holder: B_BUSY is a lock, and is never
\* left set by nobody.
THEOREM HolderCorrect == Spec => []OneHolder
<1>1. IInv => OneHolder
  BY OwnershipHolders DEF IInv
<1> QED BY <1>1, Invariance, PTL

\* No block is ever cached in two buffers.
THEOREM UniqueCorrect == Spec => []UniqueBlock
<1>1. IInv => UniqueBlock
  BY DEF IInv
<1> QED BY <1>1, Invariance, PTL

\* No sleeper misses its wakeup.
THEOREM WakeupCorrect == Spec => []NoLostWakeup
<1>1. IInv => NoLostWakeup
  BY DEF IInv
<1> QED BY <1>1, Invariance, PTL
-----------------------------------------------------------------------------
(* What the buffers and the device hold.                                   *)

\* A buffer that claims to hold its block, or is being written to it, holds what
\* was last written.
Sound(b) ==
  \/ b_blkno[b] # NODEV /\ "DONE" \in b_flags[b] /\ "ERROR" \notin b_flags[b]
  \/ b \in ioq /\ "READ" \notin b_flags[b]
  => b_addr[b] = latest[b_blkno[b]]

Data == (\A b \in Bufs : Sound(b)) /\ NoLostWrite

\* A step leaves alone what a buffer holds, and what its flags say of that.
Same(b) ==
  /\ b_blkno'[b] = b_blkno[b] /\ b_addr'[b] = b_addr[b]
  /\ b \in ioq' <=> b \in ioq
  /\ \A f \in {"READ", "DONE", "ERROR", "DELWRI"} : f \in b_flags'[b] <=> f \in b_flags[b]

\* The contents are to go to the device.
Marked(b) == "DELWRI" \in b_flags[b] \/ (b \in ioq /\ "READ" \notin b_flags[b])

\* The device has the contents of a block whose buffer is not marked.
LEMMA Unmarked ==
  ASSUME IInv, Data, NEW b \in Bufs, b_blkno[b] \in Blocks, ~Marked(b)
  PROVE  disk[b_blkno[b]] = latest[b_blkno[b]]
<1> SUFFICES ASSUME disk[b_blkno[b]] # latest[b_blkno[b]] PROVE FALSE
  OBVIOUS
<1>1. PICK a \in Bufs : b_blkno[a] = b_blkno[b] /\ Marked(a)
  <2>1. NoLostWrite
    BY DEF Data
  <2> QED BY <2>1 DEF NoLostWrite, Marked
<1>2. a = b
  BY <1>1, BioAssumption DEF IInv, UniqueBlock
<1> QED BY <1>1, <1>2

\* A step that changes one buffer, and the one block it holds, changes nothing for
\* the others.
LEMMA OneBuffer ==
  ASSUME IInv, Data, NEW b \in Bufs,
         \A a \in Bufs : a # b => Same(a),
         \A k \in Blocks : k # b_blkno[b] => disk'[k] = disk[k] /\ latest'[k] = latest[k],
         Sound(b)',
         b_blkno[b] \in Blocks /\ disk'[b_blkno[b]] # latest'[b_blkno[b]] =>
           b_blkno'[b] = b_blkno[b] /\ b_addr'[b] = latest'[b_blkno[b]] /\ Marked(b)'
  PROVE  Data'
<1>1. ASSUME NEW a \in Bufs, a # b PROVE Sound(a)'
  <2>1. Same(a) /\ Sound(a)
    BY <1>1 DEF Data
  <2>2. b_blkno[a] \in Blocks => b_blkno[a] # b_blkno[b]
    BY <1>1, BioAssumption DEF IInv, UniqueBlock
  <2>3. a \in ioq => b_blkno[a] \in Blocks
    BY DEF IInv, Association, AssociationOf
  <2>4. b_blkno[a] \in Blocks \cup {NODEV}
    BY DEF IInv, TypeOK
  <2>5. b_blkno[a] \in Blocks => latest'[b_blkno[a]] = latest[b_blkno[a]]
    BY <2>2
  <2> QED BY <2>1, <2>3, <2>4, <2>5 DEF Same, Sound
<1>2. ASSUME NEW k \in Blocks, disk'[k] # latest'[k]
      PROVE  \E a \in Bufs : b_blkno'[a] = k /\ b_addr'[a] = latest'[k] /\ Marked(a)'
  <2>1. CASE k = b_blkno[b]
    BY <1>2, <2>1
  <2>2. CASE k # b_blkno[b]
    <3>1. disk[k] # latest[k] /\ latest'[k] = latest[k]
      BY <1>2, <2>2
    <3>2. PICK a \in Bufs : b_blkno[a] = k /\ b_addr[a] = latest[k] /\ Marked(a)
      <4>1. NoLostWrite
        BY DEF Data
      <4> QED BY <3>1, <4>1 DEF NoLostWrite, Marked
    <3>3. a # b /\ Same(a)
      BY <2>2, <3>2
    <3> QED BY <3>1, <3>2, <3>3 DEF Same, Marked
  <2> QED BY <2>1, <2>2
<1> QED BY <1>1, <1>2 DEF Data, NoLostWrite, Marked

\* A step that changes no buffer, nor the device.
LEMMA NoBuffer ==
  ASSUME Data, \A a \in Bufs : Same(a), UNCHANGED <<disk, latest>>
  PROVE  Data'
<1>1. ASSUME NEW a \in Bufs PROVE Sound(a)'
  BY DEF Data, Sound, Same
<1>2. ASSUME NEW k \in Blocks, disk'[k] # latest'[k]
      PROVE  \E a \in Bufs : b_blkno'[a] = k /\ b_addr'[a] = latest'[k] /\ Marked(a)'
  <2>1. NoLostWrite /\ disk[k] # latest[k] /\ latest'[k] = latest[k]
    BY <1>2 DEF Data
  <2>2. PICK a \in Bufs : b_blkno[a] = k /\ b_addr[a] = latest[k] /\ Marked(a)
    BY <2>1 DEF NoLostWrite, Marked
  <2>3. Same(a)
    OBVIOUS
  <2> QED BY <2>1, <2>2, <2>3 DEF Same, Marked
<1> QED BY <1>1, <1>2 DEF Data, NoLostWrite, Marked

\* brelse() of a buffer after an error gives up the block, which the device has.
LEMMA ReleaseData ==
  ASSUME IInv, Data, NEW b \in Bufs, b \notin ioq, brelse(b, b_flags[b]),
         UNCHANGED <<b_addr, ioq, disk, latest>>
  PROVE  Data'
<1>1. /\ b_flags \in [Bufs -> SUBSET Flags] /\ b_blkno \in [Bufs -> Blocks \cup {NODEV}]
      /\ b_flags' = [b_flags EXCEPT ![b] = b_flags[b] \ {"WANTED", "BUSY", "ASYNC", "AGE"}]
      /\ b_blkno' = [b_blkno EXCEPT ![b] = IF "ERROR" \in b_flags[b] THEN NODEV ELSE @]
  BY DEF IInv, TypeOK, brelse
<1>2. \A a \in Bufs : a # b => Same(a)
  BY <1>1 DEF Same
<1>3. CASE "ERROR" \notin b_flags[b]
  <2>1. Same(b)
    BY <1>1, <1>3 DEF Same
  <2> QED BY <1>2, <2>1, NoBuffer
<1>4. CASE "ERROR" \in b_flags[b]
  <2>1. b_blkno'[b] = NODEV
    BY <1>1, <1>4
  <2>2. Sound(b)'
    BY <2>1 DEF Sound
  <2>3. ~Marked(b)
    BY <1>4 DEF Marked, IInv, Association, AssociationOf
  <2>4. b_blkno[b] \in Blocks => disk[b_blkno[b]] = latest[b_blkno[b]]
    BY <2>3, Unmarked
  <2> QED BY <1>2, <2>2, <2>4, OneBuffer
<1> QED BY <1>3, <1>4

\* A read is started into a buffer that does not hold its block.
LEMMA ReadData ==
  ASSUME IInv, Data, NEW b \in Bufs, NEW F, "DONE" \notin b_flags[b], b \notin ioq,
         F \subseteq {"READ", "ASYNC"}, "READ" \in F, strategy(b, b_flags[b] \cup F),
         UNCHANGED <<b_blkno, b_addr, disk, latest>>
  PROVE  Data'
<1>1. /\ b_flags \in [Bufs -> SUBSET Flags]
      /\ b_flags' = [b_flags EXCEPT ![b] = b_flags[b] \cup F] /\ ioq' = ioq \cup {b}
  BY DEF IInv, TypeOK, strategy
<1>2. \A a \in Bufs : a # b => Same(a)
  BY <1>1 DEF Same
<1>3. "READ" \in b_flags'[b] /\ "DONE" \notin b_flags'[b]
  BY <1>1
<1>4. ~Marked(b)
  BY DEF Marked, IInv, Association, AssociationOf
<1>5. b_blkno[b] \in Blocks => disk[b_blkno[b]] = latest[b_blkno[b]]
  BY <1>4, Unmarked
<1> QED BY <1>2, <1>3, <1>5, OneBuffer DEF Sound

\* A write of what was last written is started.
LEMMA WriteData ==
  ASSUME IInv, Data, NEW b \in Bufs, NEW F, strategy(b, bwriteFlags(b_flags[b] \cup F)),
         b_addr'[b] = latest'[b_blkno[b]],
         \A a \in Bufs : a # b => b_addr'[a] = b_addr[a],
         \A k \in Blocks : k # b_blkno[b] => latest'[k] = latest[k],
         UNCHANGED <<b_blkno, disk>>
  PROVE  Data'
<1>1. /\ b_flags \in [Bufs -> SUBSET Flags]
      /\ b_flags' = [b_flags EXCEPT ![b] = bwriteFlags(b_flags[b] \cup F)] /\ ioq' = ioq \cup {b}
  BY DEF IInv, TypeOK, strategy
<1>2. \A a \in Bufs : a # b => Same(a)
  BY <1>1 DEF Same
<1>3. b \in ioq' /\ "READ" \notin b_flags'[b]
  BY <1>1 DEF bwriteFlags
<1> QED BY <1>2, <1>3, OneBuffer DEF Sound, Marked

\* A buffer that is not to be written is given to another block, or to none.
LEMMA TakeData ==
  ASSUME IInv, Data, NEW b \in Bufs, NEW k, "DELWRI" \notin b_flags[b], b \notin ioq,
         b_flags' = [b_flags EXCEPT ![b] = {"BUSY"}], b_blkno' = [b_blkno EXCEPT ![b] = k],
         UNCHANGED <<b_addr, ioq, disk, latest>>
  PROVE  Data'
<1>1. /\ b_flags \in [Bufs -> SUBSET Flags] /\ b_blkno \in [Bufs -> Blocks \cup {NODEV}]
  BY DEF IInv, TypeOK
<1>2. \A a \in Bufs : a # b => Same(a)
  BY <1>1 DEF Same
<1>3. "DONE" \notin b_flags'[b] /\ b \notin ioq'
  BY <1>1
<1>4. ~Marked(b)
  BY DEF Marked
<1>5. b_blkno[b] \in Blocks => disk[b_blkno[b]] = latest[b_blkno[b]]
  BY <1>4, Unmarked
<1> QED BY <1>2, <1>3, <1>5, OneBuffer DEF Sound

\* A delayed write that is pushed out holds what was last written.
LEMMA PushData ==
  ASSUME IInv, Data, NEW p \in Procs, NEW b \in Bufs, NEW c, "DELWRI" \in b_flags[b],
         PushDelayed(p, b, c)
  PROVE  Data'
<1>1. /\ strategy(b, bwriteFlags(b_flags[b] \cup {"BUSY", "ASYNC"}))
      /\ UNCHANGED <<b_blkno, b_addr, disk, latest>>
  BY DEF PushDelayed
<1>2. b_addr[b] = latest[b_blkno[b]]
  <2>1. b_blkno[b] \in Blocks /\ "DONE" \in b_flags[b] /\ "ERROR" \notin b_flags[b]
    BY DEF IInv, Association, AssociationOf
  <2> QED BY <2>1, BioAssumption DEF Data, Sound
<1> QED BY <1>1, <1>2, WriteData

\* The interrupt: what was read is what was last written, and what was to be
\* written is on the device or is no longer the last that was written.
LEMMA InterruptData ==
  ASSUME IInv, Data, NEW b \in Bufs, NEW failed \in BOOLEAN, Interrupt(b, failed)
  PROVE  Data'
<1> DEFINE fl == b_flags[b] \cup {"DONE"} \cup (IF failed THEN {"ERROR"} ELSE {})
<1>1. /\ b_flags \in [Bufs -> SUBSET Flags] /\ b_blkno \in [Bufs -> Blocks \cup {NODEV}]
      /\ b_addr \in [Bufs -> Vals] /\ disk \in [Blocks -> Vals] /\ latest \in [Blocks -> Vals]
  BY DEF IInv, TypeOK
<1>2. /\ b \in ioq /\ b_blkno[b] \in Blocks /\ "DONE" \notin b_flags[b]
      /\ "ERROR" \notin b_flags[b] /\ "DELWRI" \notin b_flags[b]
  BY DEF Interrupt, IInv, Association, AssociationOf
<1>3. /\ ioq' = ioq \ {b} /\ Transfer(b, failed) /\ iodone(b, fl)
  BY DEF Interrupt
<1> HIDE DEF fl
<1>4. /\ \/ b_flags' = [b_flags EXCEPT ![b] = fl \ {"WANTED", "BUSY", "ASYNC", "AGE"}]
         \/ b_flags' = [b_flags EXCEPT ![b] = fl \ {"WANTED"}]
      /\ \/ b_blkno' = [b_blkno EXCEPT ![b] = IF "ERROR" \in fl THEN NODEV ELSE @]
         \/ b_blkno' = b_blkno
  BY <1>3 DEF iodone, brelse
<1>5. /\ \A a \in Bufs : a # b => b_flags'[a] = b_flags[a] /\ b_blkno'[a] = b_blkno[a]
      /\ \A f \in {"READ", "DONE", "ERROR", "DELWRI"} : f \in b_flags'[b] <=> f \in fl
      /\ "ERROR" \notin fl => b_blkno'[b] = b_blkno[b]
  BY <1>1, <1>4
<1>6. /\ \A a \in Bufs : a # b => b_addr'[a] = b_addr[a]
      /\ \A k \in Blocks : k # b_blkno[b] => disk'[k] = disk[k] /\ latest'[k] = latest[k]
  BY <1>1, <1>2, <1>3 DEF Transfer
<1>7. \A a \in Bufs : a # b => Same(a)
  BY <1>3, <1>5, <1>6 DEF Same
<1>8. "READ" \in b_flags[b] => disk[b_blkno[b]] = latest[b_blkno[b]]
  BY <1>2, Unmarked DEF Marked
<1>9. "READ" \notin b_flags[b] => b_addr[b] = latest[b_blkno[b]]
  BY <1>2 DEF Data, Sound
<1>10. disk'[b_blkno[b]] = latest'[b_blkno[b]]
  BY <1>1, <1>2, <1>3, <1>8, <1>9 DEF Transfer
<1>11. CASE failed
  <2>1. "ERROR" \in b_flags'[b] /\ b \notin ioq'
    BY <1>3, <1>5, <1>11 DEF fl
  <2> QED BY <1>6, <1>7, <1>10, <2>1, OneBuffer DEF Sound
<1>12. CASE ~failed
  <2>1. b_blkno'[b] = b_blkno[b]
    BY <1>2, <1>5, <1>12 DEF fl
  <2>2. b_addr'[b] = latest'[b_blkno[b]]
    BY <1>1, <1>2, <1>3, <1>8, <1>9, <1>12 DEF Transfer
  <2> QED BY <1>6, <1>7, <1>10, <2>1, <2>2, OneBuffer DEF Sound
<1> QED BY <1>11, <1>12

\* Every step keeps the cache and the device in step.
LEMMA DataStep ==
  ASSUME IInv, Data, Next
  PROVE  Data'
<1>t. /\ b_flags \in [Bufs -> SUBSET Flags] /\ b_blkno \in [Bufs -> Blocks \cup {NODEV}]
      /\ b_addr \in [Bufs -> Vals] /\ latest \in [Blocks -> Vals]
      /\ bp \in [Procs -> Bufs \cup {NULL}] /\ held \in [Procs -> SUBSET Bufs]
      /\ cand \in [Procs -> Bufs \cup {NULL}]
  BY DEF IInv, TypeOK
<1>1. ASSUME NEW p \in Procs, NEW k \in Blocks, CallBread(p, k) PROVE Data'
  <2>1. UNCHANGED <<b_flags, b_blkno, b_addr, ioq, disk, latest>>
    BY <1>1 DEF CallBread, bufVars, ioVars
  <2> QED BY <2>1, NoBuffer DEF Same
<1>2. ASSUME NEW p \in Procs, NEW k \in Blocks, CallGetblk(p, k) PROVE Data'
  <2>1. UNCHANGED <<b_flags, b_blkno, b_addr, ioq, disk, latest>>
    BY <1>2 DEF CallGetblk, bufVars, ioVars
  <2> QED BY <2>1, NoBuffer DEF Same
<1>3. ASSUME NEW p \in Procs, NEW k \in Blocks, NEW r \in Blocks \cup {NULL}, CallBreada(p, k, r) PROVE Data'
  <2>1. UNCHANGED <<b_flags, b_blkno, b_addr, ioq, disk, latest>>
    BY <1>3 DEF CallBreada, bufVars, ioVars
  <2> QED BY <2>1, NoBuffer DEF Same
<1>4. ASSUME NEW p \in Procs, CallGeteblk(p) PROVE Data'
  <2>1. UNCHANGED <<b_flags, b_blkno, b_addr, ioq, disk, latest>>
    BY <1>4 DEF CallGeteblk, bufVars, ioVars
  <2> QED BY <2>1, NoBuffer DEF Same
<1>5. ASSUME NEW p \in Procs, CallBflush(p) PROVE Data'
  <2>1. UNCHANGED <<b_flags, b_blkno, b_addr, ioq, disk, latest>>
    BY <1>5 DEF CallBflush, bufVars, ioVars
  <2> QED BY <2>1, NoBuffer DEF Same
<1>6. ASSUME NEW p \in Procs, NEW b \in held[p], WriteWild(p, b) PROVE Data'
  <2>1. UNCHANGED <<b_flags, b_blkno, b_addr, ioq, disk, latest>>
    BY <1>6 DEF WriteWild, bufVars, ioVars
  <2> QED BY <2>1, NoBuffer DEF Same
<1>7. ASSUME NEW p \in Procs, GetblkFound(p) PROVE Data'
  <2>1. UNCHANGED <<b_flags, b_blkno, b_addr, ioq, disk, latest>>
    BY <1>7 DEF GetblkFound, bufVars, ioVars
  <2> QED BY <2>1, NoBuffer DEF Same
<1>8. ASSUME NEW p \in Procs, GetblkBusy(p) PROVE Data'
  <2>1. /\ b_flags' = [b_flags EXCEPT ![cand[p]] = @ \cup {"WANTED"}]
        /\ UNCHANGED <<b_blkno, b_addr, ioq, disk, latest>>
    BY <1>8 DEF GetblkBusy, ioVars
  <2>2. \A a \in Bufs : Same(a)
    BY <1>t, <2>1 DEF Same
  <2> QED BY <2>1, <2>2, NoBuffer
<1>9. ASSUME NEW p \in Procs, GetblkHit(p) PROVE Data'
  <2>1. /\ b_flags' = [b_flags EXCEPT ![cand[p]] = @ \cup {"BUSY"}]
        /\ UNCHANGED <<b_blkno, b_addr, ioq, disk, latest>>
    BY <1>9 DEF GetblkHit, ioVars
  <2>2. \A a \in Bufs : Same(a)
    BY <1>t, <2>1 DEF Same
  <2> QED BY <2>1, <2>2, NoBuffer
<1>10. ASSUME NEW p \in Procs, GetblkEmpty(p) PROVE Data'
  <2>1. UNCHANGED <<b_flags, b_blkno, b_addr, ioq, disk, latest>>
    BY <1>10 DEF GetblkEmpty, bufVars, ioVars
  <2> QED BY <2>1, NoBuffer DEF Same
<1>11. ASSUME NEW p \in Procs, GeteblkEmpty(p) PROVE Data'
  <2>1. UNCHANGED <<b_flags, b_blkno, b_addr, ioq, disk, latest>>
    BY <1>11 DEF GeteblkEmpty, bufVars, ioVars
  <2> QED BY <2>1, NoBuffer DEF Same
<1>12. ASSUME NEW p \in Procs, BflushDone(p) PROVE Data'
  <2>1. UNCHANGED <<b_flags, b_blkno, b_addr, ioq, disk, latest>>
    BY <1>12 DEF BflushDone, bufVars, ioVars
  <2> QED BY <2>1, NoBuffer DEF Same
<1>13. ASSUME NEW p \in Procs, SetAge(p) PROVE Data'
  <2>1. /\ b_flags' = [b_flags EXCEPT ![cand[p]] = @ \cup {"AGE"}]
        /\ UNCHANGED <<b_blkno, b_addr, ioq, disk, latest>>
    BY <1>13 DEF SetAge, ioVars
  <2>2. \A a \in Bufs : Same(a)
    BY <1>t, <2>1 DEF Same
  <2> QED BY <2>1, <2>2, NoBuffer
<1>14. ASSUME NEW p \in Procs, Full(p) PROVE Data'
  <2>1. UNCHANGED <<b_flags, b_blkno, b_addr, ioq, disk, latest>>
    BY <1>14 DEF Full, bufVars, ioVars
  <2> QED BY <2>1, NoBuffer DEF Same
<1>15. ASSUME NEW p \in Procs, BreadCached(p) PROVE Data'
  <2>1. UNCHANGED <<b_flags, b_blkno, b_addr, ioq, disk, latest>>
    BY <1>15 DEF BreadCached, bufVars, ioVars
  <2> QED BY <2>1, NoBuffer DEF Same
<1>16. ASSUME NEW p \in Procs, Breada2(p) PROVE Data'
  <2>1. UNCHANGED <<b_flags, b_blkno, b_addr, ioq, disk, latest>>
    BY <1>16 DEF Breada2, bufVars, ioVars
  <2> QED BY <2>1, NoBuffer DEF Same
<1>17. ASSUME NEW p \in Procs, Breada4(p) PROVE Data'
  <2>1. UNCHANGED <<b_flags, b_blkno, b_addr, ioq, disk, latest>>
    BY <1>17 DEF Breada4, bufVars, ioVars
  <2> QED BY <2>1, NoBuffer DEF Same
<1>18. ASSUME NEW p \in Procs, IowaitSleep(p) PROVE Data'
  <2>1. UNCHANGED <<b_flags, b_blkno, b_addr, ioq, disk, latest>>
    BY <1>18 DEF IowaitSleep, bufVars, ioVars
  <2> QED BY <2>1, NoBuffer DEF Same
<1>19. ASSUME NEW p \in Procs, IowaitDone(p) PROVE Data'
  <2>1. UNCHANGED <<b_flags, b_blkno, b_addr, ioq, disk, latest>>
    BY <1>19 DEF IowaitDone, bufVars, ioVars
  <2> QED BY <2>1, NoBuffer DEF Same
<1>20. ASSUME NEW p \in Procs, BawriteGeterror(p) PROVE Data'
  <2>1. UNCHANGED <<b_flags, b_blkno, b_addr, ioq, disk, latest>>
    BY <1>20 DEF BawriteGeterror, bufVars, ioVars
  <2> QED BY <2>1, NoBuffer DEF Same
<1>21. ASSUME NEW p \in Procs, GetblkTake(p) PROVE Data'
  <2>1. Head(av) \in Bufs /\ Head(av) \notin ioq
    BY <1>21, HeadFree DEF GetblkTake, IInv
  <2> QED BY <1>21, <2>1, TakeData DEF GetblkTake, ioVars
<1>22. ASSUME NEW p \in Procs, GeteblkTake(p) PROVE Data'
  <2>1. Head(av) \in Bufs /\ Head(av) \notin ioq
    BY <1>22, HeadFree DEF GeteblkTake, IInv
  <2> QED BY <1>22, <2>1, TakeData DEF GeteblkTake, ioVars
<1>23. ASSUME NEW p \in Procs, GetblkPush(p) PROVE Data'
  <2>1. Head(av) \in Bufs
    BY <1>23, HeadFree DEF GetblkPush, IInv
  <2> QED BY <1>23, <2>1, PushData DEF GetblkPush
<1>24. ASSUME NEW p \in Procs, GeteblkPush(p) PROVE Data'
  <2>1. Head(av) \in Bufs
    BY <1>24, HeadFree DEF GeteblkPush, IInv
  <2> QED BY <1>24, <2>1, PushData DEF GeteblkPush
<1>25. ASSUME NEW p \in Procs, BflushPush(p) PROVE Data'
  <2>1. PICK i \in DOMAIN av : "DELWRI" \in b_flags[av[i]] /\ PushDelayed(p, av[i], "bflush.age")
    BY <1>25 DEF BflushPush
  <2>2. av[i] \in Bufs
    BY <2>1 DEF IInv, TypeOK
  <2> QED BY <2>1, <2>2, PushData
<1>26. ASSUME NEW p \in Procs, BreadStart(p) PROVE Data'
  <2>1. bp[p] \in Bufs /\ bp[p] \notin ioq
    BY <1>t, <1>26 DEF BreadStart, IInv, Control, ControlAt, GetblkReturns, Association, AssociationAt
  <2> QED BY <1>26, <2>1, ReadData DEF BreadStart
<1>27. ASSUME NEW p \in Procs, Breada1(p) PROVE Data'
  <2>1. bp[p] \in Bufs /\ bp[p] \notin ioq
    BY <1>t, <1>27 DEF Breada1, IInv, Control, ControlAt, GetblkReturns, Association, AssociationAt
  <2>2. UNCHANGED <<b_blkno, b_addr, disk, latest>>
    BY <1>27 DEF Breada1
  <2>3. CASE UNCHANGED <<b_flags, ioq>>
    BY <2>2, <2>3, NoBuffer DEF Same
  <2>4. CASE "DONE" \notin b_flags[bp[p]] /\ strategy(bp[p], b_flags[bp[p]] \cup {"READ"})
    BY <2>1, <2>2, <2>4, ReadData
  <2> QED BY <1>27, <2>3, <2>4 DEF Breada1
<1>28. ASSUME NEW p \in Procs, Breada3(p) PROVE Data'
  <2>1. bp[p] \in Bufs /\ bp[p] \notin ioq
    BY <1>t, <1>28 DEF Breada3, IInv, Control, ControlAt, GetblkReturns, Association, AssociationAt
  <2>2. UNCHANGED <<b_addr, disk, latest>>
    BY <1>28 DEF Breada3
  <2>3. CASE brelse(bp[p], b_flags[bp[p]]) /\ UNCHANGED ioq
    BY <2>1, <2>2, <2>3, ReleaseData
  <2>4. CASE /\ "DONE" \notin b_flags[bp[p]] /\ strategy(bp[p], b_flags[bp[p]] \cup {"READ", "ASYNC"})
             /\ UNCHANGED b_blkno
    BY <2>1, <2>2, <2>4, ReadData
  <2> QED BY <1>28, <2>3, <2>4 DEF Breada3
<1>29. ASSUME NEW p \in Procs, BwriteDone(p) PROVE Data'
  <2>1. bp[p] \in Bufs /\ bp[p] \notin ioq
    BY <1>t, <1>29 DEF BwriteDone, IInv, Control, ControlAt, GetblkReturns, Association, AssociationOf
  <2> QED BY <1>29, <2>1, ReleaseData DEF BwriteDone, ioVars
<1>30. ASSUME NEW p \in Procs, NEW b \in held[p], Brelse(p, b) PROVE Data'
  <2>1. b \in Bufs /\ b \notin ioq
    BY <1>t, <1>30 DEF IInv, Association, AssociationAt
  <2> QED BY <1>30, <2>1, ReleaseData DEF Brelse, ioVars
<1>31. ASSUME NEW p \in Procs, NEW b \in held[p], NEW v \in Vals, Bwrite(p, b, v) PROVE Data'
  <2>1. /\ b \in Bufs /\ b \notin ioq /\ b_blkno[b] \in Blocks /\ "ERROR" \notin b_flags[b]
    BY <1>t, <1>31 DEF Bwrite, MayWrite, MayRelease, IInv, Association, AssociationAt
  <2>2. /\ b_addr' = [b_addr EXCEPT ![b] = v] /\ latest' = [latest EXCEPT ![b_blkno[b]] = v]
        /\ UNCHANGED disk
    BY <1>31 DEF Bwrite, Modify
  <2>3. /\ b_addr'[b] = latest'[b_blkno[b]] /\ \A a \in Bufs : a # b => b_addr'[a] = b_addr[a]
        /\ \A k \in Blocks : k # b_blkno[b] => latest'[k] = latest[k]
    BY <1>t, <2>1, <2>2
  <2>4. strategy(b, bwriteFlags(b_flags[b] \cup {})) /\ UNCHANGED b_blkno
    <3>1. b_flags[b] \cup {} = b_flags[b]
      OBVIOUS
    <3> QED BY <1>31, <3>1 DEF Bwrite
  <2> QED BY <2>1, <2>2, <2>3, <2>4, WriteData
<1>32. ASSUME NEW p \in Procs, NEW b \in held[p], NEW v \in Vals, Bawrite(p, b, v) PROVE Data'
  <2>1. /\ b \in Bufs /\ b \notin ioq /\ b_blkno[b] \in Blocks /\ "ERROR" \notin b_flags[b]
    BY <1>t, <1>32 DEF Bawrite, MayWrite, MayRelease, IInv, Association, AssociationAt
  <2>2. /\ b_addr' = [b_addr EXCEPT ![b] = v] /\ latest' = [latest EXCEPT ![b_blkno[b]] = v]
        /\ UNCHANGED disk
    BY <1>32 DEF Bawrite, Modify
  <2>3. /\ b_addr'[b] = latest'[b_blkno[b]] /\ \A a \in Bufs : a # b => b_addr'[a] = b_addr[a]
        /\ \A k \in Blocks : k # b_blkno[b] => latest'[k] = latest[k]
    BY <1>t, <2>1, <2>2
  <2>4. strategy(b, bwriteFlags(b_flags[b] \cup {"ASYNC"})) /\ UNCHANGED b_blkno
    BY <1>32 DEF Bawrite, bawrite
  <2> QED BY <2>1, <2>2, <2>3, <2>4, WriteData
<1>33. ASSUME NEW p \in Procs, NEW b \in held[p], NEW v \in Vals, Bdwrite(p, b, v) PROVE Data'
  <2>1. /\ b \in Bufs /\ b \notin ioq /\ b_blkno[b] \in Blocks /\ "ERROR" \notin b_flags[b]
    BY <1>t, <1>33 DEF Bdwrite, MayWrite, MayRelease, IInv, Association, AssociationAt
  <2>2. /\ b_addr' = [b_addr EXCEPT ![b] = v] /\ latest' = [latest EXCEPT ![b_blkno[b]] = v]
        /\ UNCHANGED disk
    BY <1>33 DEF Bdwrite, Modify
  <2>3. /\ b_addr'[b] = latest'[b_blkno[b]] /\ \A a \in Bufs : a # b => b_addr'[a] = b_addr[a]
        /\ \A k \in Blocks : k # b_blkno[b] => latest'[k] = latest[k]
    BY <1>t, <2>1, <2>2
  <2>4. CASE bawrite(p, b)
    <3>1. strategy(b, bwriteFlags(b_flags[b] \cup {"ASYNC"})) /\ UNCHANGED b_blkno
      BY <2>4 DEF bawrite
    <3> QED BY <2>1, <2>2, <2>3, <3>1, WriteData
  <2>5. CASE brelse(b, b_flags[b] \cup {"DELWRI", "DONE"}) /\ UNCHANGED ioq
    <3>1. /\ b_flags' = [b_flags EXCEPT ![b] = (b_flags[b] \cup {"DELWRI", "DONE"}) \ {"WANTED", "BUSY", "ASYNC", "AGE"}]
          /\ b_blkno' = [b_blkno EXCEPT ![b] = IF "ERROR" \in b_flags[b] \cup {"DELWRI", "DONE"} THEN NODEV ELSE @]
      BY <2>5 DEF brelse
    <3>2. \A a \in Bufs : a # b => Same(a)
      BY <1>t, <2>1, <2>3, <2>5, <3>1 DEF Same
    <3>3. b_blkno'[b] = b_blkno[b] /\ "DELWRI" \in b_flags'[b]
      BY <1>t, <2>1, <3>1
    <3>4. Sound(b)' /\ Marked(b)'
      BY <2>3, <3>3 DEF Sound, Marked
    <3> QED BY <2>1, <2>2, <2>3, <3>2, <3>3, <3>4, OneBuffer
  <2> QED BY <1>33, <2>4, <2>5 DEF Bdwrite
<1>34. ASSUME NEW b \in Bufs, NEW failed \in BOOLEAN, Interrupt(b, failed) PROVE Data'
  BY <1>34, InterruptData
<1> QED
  BY <1>1, <1>2, <1>3, <1>4, <1>5, <1>6, <1>7, <1>8, <1>9, <1>10, <1>11, <1>12, <1>13,
     <1>14, <1>15, <1>16, <1>17, <1>18, <1>19, <1>20, <1>21, <1>22, <1>23, <1>24, <1>25,
     <1>26, <1>27, <1>28, <1>29, <1>30, <1>31, <1>32, <1>33, <1>34 DEF Next, Call,
     Release, Kernel, Device

\* The contents, with the invariant of the cache.
THEOREM DataInvariance == Spec => [](IInv /\ Data)
<1>1. Init => Data
  BY DEF Init, Data, Sound, NoLostWrite
<1>2. IInv /\ Data /\ [Next]_vars => Data'
  <2> SUFFICES ASSUME IInv, Data, [Next]_vars PROVE Data'
    OBVIOUS
  <2>1. CASE Next
    BY <2>1, DataStep
  <2>2. CASE UNCHANGED vars
    BY <2>2, NoBuffer DEF vars, Same
  <2> QED BY <2>1, <2>2
<1> QED BY <1>1, <1>2, Invariance, PTL DEF Spec

\* Whoever gets a buffer that claims to hold its block gets what was last written
\* to it, by bwrite(), bawrite() or bdwrite(), whatever getblk() and bflush() have
\* pushed out and whichever transfers have failed.
THEOREM CoherentCorrect == Spec => []CacheCoherent
<1>1. Data => CacheCoherent
  BY DEF Data, Sound, CacheCoherent
<1> QED BY <1>1, DataInvariance, PTL

\* getblk(), geteblk() and bflush() never drop a delayed write: what the device
\* does not have yet is in a buffer that will be written.
THEOREM WriteCorrect == Spec => []NoLostWrite
<1>1. Data => NoLostWrite
  BY DEF Data
<1> QED BY <1>1, DataInvariance, PTL

-----------------------------------------------------------------------------
(* What a caller holds.                                                    *)

\* A step leaves alone the buffers a process holds across it.
Stable ==
  \A b \in Bufs, p \in Procs :
    b \in held[p] /\ b \in held'[p] =>
      b_addr'[b] = b_addr[b] /\ b_blkno'[b] = b_blkno[b]

\* A step that changes one buffer, which nobody holds across it.
LEMMA OnlyBuffer ==
  ASSUME NEW b \in Bufs,
         \A a \in Bufs : a # b => b_addr'[a] = b_addr[a] /\ b_blkno'[a] = b_blkno[a],
         \A q \in Procs : b \notin held[q] \/ b \notin held'[q]
  PROVE  Stable
BY DEF Stable

\* Nobody else holds what a process works on, or gives back.
LEMMA NotHeld ==
  ASSUME IInv, NEW p \in Procs, NEW b \in Bufs
  PROVE  /\ bp[p] = b => \A q \in Procs : b \notin held[q]
         /\ b \in held[p] => \A q \in Procs : q # p => b \notin held[q]
         /\ "BUSY" \notin b_flags[b] \/ b \in ioq => \A q \in Procs : b \notin held[q]
<1>1. bp[p] = b => \A q \in Procs : b \notin held[q]
  BY BioAssumption DEF IInv, Ownership, Exclusive, OneRole, Owns
<1>2. b \in held[p] => \A q \in Procs : q # p => b \notin held[q]
  BY DEF IInv, Ownership, Exclusive, Owns
<1>3. "BUSY" \notin b_flags[b] => \A q \in Procs : b \notin held[q]
  BY DEF IInv, Ownership, OwnedBusy, Owns
<1>4. b \in ioq => \A q \in Procs : b \notin held[q]
  BY DEF IInv, Association, AssociationAt
<1> QED BY <1>1, <1>2, <1>3, <1>4

\* No step, of another process or of the device, changes what a process holds.
LEMMA StableStep ==
  ASSUME IInv, Next
  PROVE  Stable
<1>t. /\ b_blkno \in [Bufs -> Blocks \cup {NODEV}] /\ b_addr \in [Bufs -> Vals]
      /\ bp \in [Procs -> Bufs \cup {NULL}] /\ held \in [Procs -> SUBSET Bufs]
  BY DEF IInv, TypeOK
<1>1. ASSUME NEW p \in Procs, NEW k \in Blocks, CallBread(p, k) PROVE Stable
  <2>1. UNCHANGED <<b_blkno, b_addr>>
    BY <1>1 DEF CallBread, bufVars
  <2> QED BY <2>1 DEF Stable
<1>2. ASSUME NEW p \in Procs, NEW k \in Blocks, CallGetblk(p, k) PROVE Stable
  <2>1. UNCHANGED <<b_blkno, b_addr>>
    BY <1>2 DEF CallGetblk, bufVars
  <2> QED BY <2>1 DEF Stable
<1>3. ASSUME NEW p \in Procs, NEW k \in Blocks, NEW r \in Blocks \cup {NULL}, CallBreada(p, k, r) PROVE Stable
  <2>1. UNCHANGED <<b_blkno, b_addr>>
    BY <1>3 DEF CallBreada, bufVars
  <2> QED BY <2>1 DEF Stable
<1>4. ASSUME NEW p \in Procs, CallGeteblk(p) PROVE Stable
  <2>1. UNCHANGED <<b_blkno, b_addr>>
    BY <1>4 DEF CallGeteblk, bufVars
  <2> QED BY <2>1 DEF Stable
<1>5. ASSUME NEW p \in Procs, CallBflush(p) PROVE Stable
  <2>1. UNCHANGED <<b_blkno, b_addr>>
    BY <1>5 DEF CallBflush, bufVars
  <2> QED BY <2>1 DEF Stable
<1>6. ASSUME NEW p \in Procs, NEW b \in held[p], WriteWild(p, b) PROVE Stable
  <2>1. UNCHANGED <<b_blkno, b_addr>>
    BY <1>6 DEF WriteWild, bufVars
  <2> QED BY <2>1 DEF Stable
<1>7. ASSUME NEW p \in Procs, GetblkFound(p) PROVE Stable
  <2>1. UNCHANGED <<b_blkno, b_addr>>
    BY <1>7 DEF GetblkFound, bufVars
  <2> QED BY <2>1 DEF Stable
<1>8. ASSUME NEW p \in Procs, GetblkBusy(p) PROVE Stable
  <2>1. UNCHANGED <<b_blkno, b_addr>>
    BY <1>8 DEF GetblkBusy, bufVars
  <2> QED BY <2>1 DEF Stable
<1>9. ASSUME NEW p \in Procs, GetblkHit(p) PROVE Stable
  <2>1. UNCHANGED <<b_blkno, b_addr>>
    BY <1>9 DEF GetblkHit, bufVars
  <2> QED BY <2>1 DEF Stable
<1>10. ASSUME NEW p \in Procs, GetblkEmpty(p) PROVE Stable
  <2>1. UNCHANGED <<b_blkno, b_addr>>
    BY <1>10 DEF GetblkEmpty, bufVars
  <2> QED BY <2>1 DEF Stable
<1>11. ASSUME NEW p \in Procs, GeteblkEmpty(p) PROVE Stable
  <2>1. UNCHANGED <<b_blkno, b_addr>>
    BY <1>11 DEF GeteblkEmpty, bufVars
  <2> QED BY <2>1 DEF Stable
<1>12. ASSUME NEW p \in Procs, BflushDone(p) PROVE Stable
  <2>1. UNCHANGED <<b_blkno, b_addr>>
    BY <1>12 DEF BflushDone, bufVars
  <2> QED BY <2>1 DEF Stable
<1>13. ASSUME NEW p \in Procs, SetAge(p) PROVE Stable
  <2>1. UNCHANGED <<b_blkno, b_addr>>
    BY <1>13 DEF SetAge, bufVars
  <2> QED BY <2>1 DEF Stable
<1>14. ASSUME NEW p \in Procs, Full(p) PROVE Stable
  <2>1. UNCHANGED <<b_blkno, b_addr>>
    BY <1>14 DEF Full, bufVars
  <2> QED BY <2>1 DEF Stable
<1>15. ASSUME NEW p \in Procs, BreadCached(p) PROVE Stable
  <2>1. UNCHANGED <<b_blkno, b_addr>>
    BY <1>15 DEF BreadCached, bufVars
  <2> QED BY <2>1 DEF Stable
<1>16. ASSUME NEW p \in Procs, Breada2(p) PROVE Stable
  <2>1. UNCHANGED <<b_blkno, b_addr>>
    BY <1>16 DEF Breada2, bufVars
  <2> QED BY <2>1 DEF Stable
<1>17. ASSUME NEW p \in Procs, Breada4(p) PROVE Stable
  <2>1. UNCHANGED <<b_blkno, b_addr>>
    BY <1>17 DEF Breada4, bufVars
  <2> QED BY <2>1 DEF Stable
<1>18. ASSUME NEW p \in Procs, IowaitSleep(p) PROVE Stable
  <2>1. UNCHANGED <<b_blkno, b_addr>>
    BY <1>18 DEF IowaitSleep, bufVars
  <2> QED BY <2>1 DEF Stable
<1>19. ASSUME NEW p \in Procs, IowaitDone(p) PROVE Stable
  <2>1. UNCHANGED <<b_blkno, b_addr>>
    BY <1>19 DEF IowaitDone, bufVars
  <2> QED BY <2>1 DEF Stable
<1>20. ASSUME NEW p \in Procs, BawriteGeterror(p) PROVE Stable
  <2>1. UNCHANGED <<b_blkno, b_addr>>
    BY <1>20 DEF BawriteGeterror, bufVars
  <2> QED BY <2>1 DEF Stable
<1>21. ASSUME NEW p \in Procs, GetblkPush(p) PROVE Stable
  <2>1. UNCHANGED <<b_blkno, b_addr>>
    BY <1>21 DEF GetblkPush, bufVars, PushDelayed
  <2> QED BY <2>1 DEF Stable
<1>22. ASSUME NEW p \in Procs, GeteblkPush(p) PROVE Stable
  <2>1. UNCHANGED <<b_blkno, b_addr>>
    BY <1>22 DEF GeteblkPush, bufVars, PushDelayed
  <2> QED BY <2>1 DEF Stable
<1>23. ASSUME NEW p \in Procs, BflushPush(p) PROVE Stable
  <2>1. UNCHANGED <<b_blkno, b_addr>>
    BY <1>23 DEF BflushPush, bufVars, PushDelayed
  <2> QED BY <2>1 DEF Stable
<1>24. ASSUME NEW p \in Procs, BreadStart(p) PROVE Stable
  <2>1. UNCHANGED <<b_blkno, b_addr>>
    BY <1>24 DEF BreadStart, bufVars
  <2> QED BY <2>1 DEF Stable
<1>25. ASSUME NEW p \in Procs, Breada1(p) PROVE Stable
  <2>1. UNCHANGED <<b_blkno, b_addr>>
    BY <1>25 DEF Breada1, bufVars
  <2> QED BY <2>1 DEF Stable
<1>26. ASSUME NEW p \in Procs, GetblkTake(p) PROVE Stable
  <2>1. Head(av) \in Bufs /\ "BUSY" \notin b_flags[Head(av)]
    BY <1>26, HeadFree DEF GetblkTake, IInv
  <2>2. \A q \in Procs : Head(av) \notin held[q]
    BY <2>1, NotHeld
  <2>3. UNCHANGED b_addr /\ b_blkno' = [b_blkno EXCEPT ![Head(av)] = want[p]]
    BY <1>26 DEF GetblkTake
  <2> QED BY <1>t, <2>1, <2>2, <2>3, OnlyBuffer
<1>27. ASSUME NEW p \in Procs, GeteblkTake(p) PROVE Stable
  <2>1. Head(av) \in Bufs /\ "BUSY" \notin b_flags[Head(av)]
    BY <1>27, HeadFree DEF GeteblkTake, IInv
  <2>2. \A q \in Procs : Head(av) \notin held[q]
    BY <2>1, NotHeld
  <2>3. UNCHANGED b_addr /\ b_blkno' = [b_blkno EXCEPT ![Head(av)] = NODEV]
    BY <1>27 DEF GeteblkTake
  <2> QED BY <1>t, <2>1, <2>2, <2>3, OnlyBuffer
<1>28. ASSUME NEW p \in Procs, Breada3(p) PROVE Stable
  <2>1. bp[p] \in Bufs
    BY <1>t, <1>28 DEF Breada3, IInv, Control, ControlAt, GetblkReturns
  <2>2. \A q \in Procs : bp[p] \notin held[q]
    BY <2>1, NotHeld
  <2>3. /\ UNCHANGED b_addr
        /\ \A a \in Bufs : a # bp[p] => b_blkno'[a] = b_blkno[a]
    BY <1>t, <1>28, <2>1 DEF Breada3, brelse
  <2> QED BY <2>1, <2>2, <2>3, OnlyBuffer
<1>29. ASSUME NEW p \in Procs, BwriteDone(p) PROVE Stable
  <2>1. bp[p] \in Bufs
    BY <1>t, <1>29 DEF BwriteDone, IInv, Control, ControlAt, GetblkReturns
  <2>2. \A q \in Procs : bp[p] \notin held[q]
    BY <2>1, NotHeld
  <2>3. /\ UNCHANGED b_addr
        /\ \A a \in Bufs : a # bp[p] => b_blkno'[a] = b_blkno[a]
    BY <1>t, <1>29, <2>1 DEF BwriteDone, brelse
  <2> QED BY <2>1, <2>2, <2>3, OnlyBuffer
<1>30. ASSUME NEW p \in Procs, NEW b \in held[p], Brelse(p, b) PROVE Stable
  <2>1. b \in Bufs /\ \A q \in Procs : q # p => b \notin held[q]
    BY <1>t, NotHeld
  <2>2. held' = [held EXCEPT ![p] = @ \ {b}]
    BY <1>30 DEF Brelse
  <2>3. \A a \in Bufs : a # b => b_addr'[a] = b_addr[a] /\ b_blkno'[a] = b_blkno[a]
    BY <1>t, <1>30, <2>1 DEF Brelse, brelse
  <2>4. \A q \in Procs : b \notin held[q] \/ b \notin held'[q]
    BY <1>t, <2>1, <2>2
  <2> QED BY <2>1, <2>3, <2>4, OnlyBuffer
<1>31. ASSUME NEW p \in Procs, NEW b \in held[p], NEW v \in Vals, Bwrite(p, b, v) PROVE Stable
  <2>1. b \in Bufs /\ \A q \in Procs : q # p => b \notin held[q]
    BY <1>t, NotHeld
  <2>2. held' = [held EXCEPT ![p] = @ \ {b}]
    BY <1>31 DEF Bwrite
  <2>3. \A a \in Bufs : a # b => b_addr'[a] = b_addr[a] /\ b_blkno'[a] = b_blkno[a]
    BY <1>t, <1>31, <2>1 DEF Bwrite, Modify, strategy
  <2>4. \A q \in Procs : b \notin held[q] \/ b \notin held'[q]
    BY <1>t, <2>1, <2>2
  <2> QED BY <2>1, <2>3, <2>4, OnlyBuffer
<1>32. ASSUME NEW p \in Procs, NEW b \in held[p], NEW v \in Vals, Bawrite(p, b, v) PROVE Stable
  <2>1. b \in Bufs /\ \A q \in Procs : q # p => b \notin held[q]
    BY <1>t, NotHeld
  <2>2. held' = [held EXCEPT ![p] = @ \ {b}]
    BY <1>32 DEF Bawrite
  <2>3. \A a \in Bufs : a # b => b_addr'[a] = b_addr[a] /\ b_blkno'[a] = b_blkno[a]
    BY <1>t, <1>32, <2>1 DEF Bawrite, Modify, bawrite
  <2>4. \A q \in Procs : b \notin held[q] \/ b \notin held'[q]
    BY <1>t, <2>1, <2>2
  <2> QED BY <2>1, <2>3, <2>4, OnlyBuffer
<1>33. ASSUME NEW p \in Procs, NEW b \in held[p], NEW v \in Vals, Bdwrite(p, b, v) PROVE Stable
  <2>1. b \in Bufs /\ \A q \in Procs : q # p => b \notin held[q]
    BY <1>t, NotHeld
  <2>2. held' = [held EXCEPT ![p] = @ \ {b}]
    BY <1>33 DEF Bdwrite
  <2>3. \A a \in Bufs : a # b => b_addr'[a] = b_addr[a] /\ b_blkno'[a] = b_blkno[a]
    BY <1>t, <1>33, <2>1 DEF Bdwrite, Modify, bawrite, brelse
  <2>4. \A q \in Procs : b \notin held[q] \/ b \notin held'[q]
    BY <1>t, <2>1, <2>2
  <2> QED BY <2>1, <2>3, <2>4, OnlyBuffer
<1>34. ASSUME NEW b \in Bufs, NEW failed \in BOOLEAN, Interrupt(b, failed) PROVE Stable
  <2>1. b \in ioq /\ Transfer(b, failed)
    BY <1>34 DEF Interrupt
  <2>2. \A q \in Procs : b \notin held[q]
    BY <2>1, NotHeld DEF IInv, Association, AssociationAt
  <2>3. \A a \in Bufs : a # b => b_addr'[a] = b_addr[a]
    BY <1>t, <2>1 DEF Transfer
  <2>4. \A a \in Bufs : a # b => b_blkno'[a] = b_blkno[a]
    BY <1>t, <1>34 DEF Interrupt, iodone, brelse
  <2> QED BY <2>2, <2>3, <2>4, OnlyBuffer
<1> QED
  BY <1>1, <1>2, <1>3, <1>4, <1>5, <1>6, <1>7, <1>8, <1>9, <1>10, <1>11, <1>12, <1>13,
     <1>14, <1>15, <1>16, <1>17, <1>18, <1>19, <1>20, <1>21, <1>22, <1>23, <1>24, <1>25,
     <1>26, <1>27, <1>28, <1>29, <1>30, <1>31, <1>32, <1>33, <1>34 DEF Next, Call,
     Release, Kernel, Device

\* B_BUSY protects a buffer: while a process has what bread() or getblk() returned
\* to it, neither another process nor the device changes its contents or its block.
THEOREM StableCorrect == Spec => OwnedStable
<1>1. IInv /\ [Next]_vars => [Stable]_vars
  BY StableStep
<1>2. Spec => [][Stable]_vars
  BY <1>1, Invariance, PTL DEF Spec
<1> QED BY <1>2 DEF OwnedStable, Stable

=============================================================================
