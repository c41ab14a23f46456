----------------------------- MODULE ProcProofs -----------------------------
(***************************************************************************)
(* Proofs about the life of processes, for any size of the table, any      *)
(* number of process numbers and any number of forks.                      *)
(***************************************************************************)
EXTENDS Proc, WellFoundedInduction, TLAPS

(***************************************************************************)
(* The inductive invariant.                                                *)
(***************************************************************************)

\* What the state of a process is where it is.
PlaceAt(p) ==
  /\ pc[p] = "user" => p_stat[p] \in {"SRUN", "NULL"}
  /\ pc[p] = "newproc" => p_stat[p] = "SIDL"
  /\ pc[p] = "xswap" => p_stat[p] = "SSLEEP"
  /\ pc[p] \in {"wait", "ptlock", "ptreq"} => p_stat[p] \in {"SRUN", "SSLEEP"}
  /\ pc[p] = "exit" => p_stat[p] \in {"SRUN", "SZOMB"}
  /\ pc[p] = "stop" => p_stat[p] \in {"SRUN", "SSTOP"}

Places == \A p \in Slots : PlaceAt(p)

\* A slot has a number when a process is in it.
Numbers ==
  \A p \in Slots : /\ p_stat[p] = "NULL" <=> p_pid[p] = 0
                   /\ p_stat[p] = "NULL" => p_ppid[p] = 0

\* init lives, and does nothing but wait and fork.
InitAlive ==
  /\ p_pid[init] = 1 /\ p_ppid[init] = 0 /\ p_stat[init] \notin {"NULL", "SZOMB"}
  /\ p_sig[init] = {} /\ pc[init] \notin {"exit", "stop", "xswap"}

\* The process newproc() makes waits for its image to be swapped out.
Copies ==
  \A p \in Slots : pc[p] = "newproc" =>
    child[p] \in Slots /\ pc[child[p]] = "xswap" /\ child[p] \in Children(p)

Base == TypeOK /\ Places /\ Numbers /\ InitAlive /\ Copies

IInv == Base /\ PidsUnique /\ Family /\ NoLostDeath /\ TraceServed
-----------------------------------------------------------------------------
(* Numbers, and the members of the table.                                  *)

\* A set of numbers that is not empty has a least member.
LEMMA Least ==
  ASSUME NEW T, T \subseteq Nat, T # {}
  PROVE  \E n \in T : \A m \in T : n <= m
<1> DEFINE R == {xy \in Nat \X Nat : xy[1] < xy[2]}
<1>1. IsWellFoundedOn(R, Nat)
  BY NatLessThanWellFounded DEF OpToRel
<1> HIDE DEF R
<1>2. PICK x \in T : \A y \in T : <<y, x>> \notin R
  BY <1>1, WFMin
<1>3. ASSUME NEW y \in T PROVE x <= y
  <2>1. ~(y < x)
    BY <1>2 DEF R
  <2> QED BY <2>1
<1> QED BY <1>3

\* The loops over the table stop at a member of the set they look for.
LEMMA FirstIn ==
  ASSUME NEW S, S \subseteq Slots, S # {}
  PROVE  First(S) \in S
<1>1. S \subseteq Nat
  BY DEF Slots
<1>2. \E s \in S : \A t \in S : s <= t
  BY <1>1, Least
<1> QED BY <1>2 DEF First

\* The remainder of a number below 2 * d.
LEMMA Remainder ==
  ASSUME NEW d \in Nat, d >= 1, NEW a \in 0 .. d - 1
  PROVE  a % d = a /\ (a + d) % d = a
<1>1. ASSUME NEW y \in Int, NEW b \in Int, y = a + d * b, b \in {0, 1} PROVE y % d = a
  <2> DEFINE q == y \div d
             r == y % d
  <2>1. q \in Int /\ y = d * q + r /\ r \in 0 .. d - 1
    BY <1>1
  <2> HIDE DEF q, r
  <2>2. a - r = d * (q - b)
    BY <1>1, <2>1
  <2>3. a - r < d /\ a - r > 0 - d
    BY <2>1
  <2>4. q - b < 1
    <3>1. SUFFICES ASSUME q - b >= 1 PROVE FALSE
      BY <1>1, <2>1
    <3>2. d * (q - b) >= d
      BY <1>1, <2>1, <3>1
    <3> QED BY <2>1, <2>2, <2>3, <3>2
  <2>5. q - b > 0 - 1
    <3>1. SUFFICES ASSUME q - b <= 0 - 1 PROVE FALSE
      BY <1>1, <2>1
    <3>2. d * (q - b) <= 0 - d
      BY <1>1, <2>1, <3>1
    <3> QED BY <2>1, <2>2, <2>3, <3>2
  <2>6. q - b = 0
    BY <1>1, <2>1, <2>4, <2>5
  <2>7. a = r
    BY <2>1, <2>2, <2>6
  <2> QED BY <2>7 DEF r
<1>2. a = a + d * 0 /\ a + d = a + d * 1
  OBVIOUS
<1> QED BY <1>1, <1>2

\* newproc()'s loop comes to every number.
LEMMA TurnsAll ==
  ASSUME TypeOK, NEW x \in Pids
  PROVE  \E n \in Pids : Turn(n) = x
<1> DEFINE d == MAXPID - 1
<1>1. /\ d \in Nat /\ d >= 1 /\ mpid \in 1 .. d /\ x \in 1 .. d /\ Pids = 1 .. d
  BY ProcAssumption DEF TypeOK, Pids
<1> HIDE DEF d
<1>2. x - 1 \in 0 .. d - 1
  BY <1>1
<1>3. (x - 1) % d = x - 1 /\ ((x - 1) + d) % d = x - 1
  BY <1>1, <1>2, Remainder
<1>4. CASE x > mpid
  <2>1. x - mpid \in Pids /\ mpid + (x - mpid) - 1 = x - 1
    BY <1>1, <1>4
  <2>2. Turn(x - mpid) = x
    BY <1>1, <1>3, <2>1 DEF Turn, d
  <2> QED BY <2>1, <2>2
<1>5. CASE x <= mpid
  <2>1. x - mpid + d \in Pids /\ mpid + (x - mpid + d) - 1 = (x - 1) + d
    BY <1>1, <1>5
  <2>2. Turn(x - mpid + d) = x
    BY <1>1, <1>3, <2>1 DEF Turn, d
  <2> QED BY <2>1, <2>2
<1> QED BY <1>1, <1>4, <1>5

\* newproc() finds a number that no process and no group has.
LEMMA NewPidFree ==
  ASSUME TypeOK, Pids \ InUse # {}
  PROVE  NewPid \in Pids /\ NewPid \notin InUse
<1> DEFINE T == {n \in Pids : Turn(n) \notin InUse}
<1>1. PICK x \in Pids : x \notin InUse
  OBVIOUS
<1>2. T # {} /\ T \subseteq Nat
  BY <1>1, TurnsAll DEF Pids
<1>3. PICK n \in T : \A m \in T : n <= m
  <2> HIDE DEF T
  <2> QED BY <1>2, Least
<1>4. n \in Pids /\ Turn(n) \notin InUse /\ \A k \in 1 .. n - 1 : Turn(k) \in InUse
  <2>1. n \in Pids /\ Turn(n) \notin InUse
    OBVIOUS
  <2>2. ASSUME NEW k \in 1 .. n - 1 PROVE Turn(k) \in InUse
    <3>1. k \in Pids /\ ~(n <= k)
      BY <2>1, ProcAssumption DEF Pids
    <3>2. k \notin T
      BY <1>3, <3>1
    <3> QED BY <3>1, <3>2
  <2> QED BY <2>1, <2>2
<1> DEFINE m == CHOOSE k \in Pids : Turn(k) \notin InUse /\ \A l \in 1 .. k - 1 : Turn(l) \in InUse
<1>5. m \in Pids /\ Turn(m) \notin InUse
  BY <1>4
<1> HIDE DEF m
<1>6. Turn(m) \in Pids
  <2>1. MAXPID - 1 \in Nat /\ MAXPID - 1 >= 1 /\ mpid + m - 1 \in Int
    BY <1>5, ProcAssumption DEF Pids, TypeOK
  <2>2. (mpid + m - 1) % (MAXPID - 1) \in 0 .. (MAXPID - 1) - 1
    BY <2>1
  <2> QED BY <2>1, <2>2 DEF Turn, Pids
<1> QED BY <1>5, <1>6 DEF NewPid, m

\* What TypeOK says of each variable.
LEMMA TypeFacts ==
  ASSUME IInv
  PROVE  /\ p_stat \in [Slots -> {"NULL", "SRUN", "SSLEEP", "SIDL", "SZOMB", "SSTOP"}]
         /\ p_pid \in [Slots -> Pids \cup {0}] /\ p_ppid \in [Slots -> Pids \cup {0}]
         /\ p_pgrp \in [Slots -> Pids \cup {0}] /\ p_sig \in [Slots -> SUBSET Sigs]
         /\ p_flag \in [Slots -> SUBSET {"STRC", "SWTED"}]
         /\ pc \in [Slots -> {"user", "newproc", "xswap", "wait", "exit", "stop", "ptlock", "ptreq"}]
         /\ child \in [Slots -> Slots \cup {0}] /\ 0 \notin Pids /\ 0 \notin Slots
         /\ init \in Slots /\ 1 \in Pids
<1>1. 0 \notin Pids /\ 0 \notin Slots /\ init \in Slots /\ 1 \in Pids
  BY ProcAssumption DEF Pids, Slots, init
<1> QED BY <1>1 DEF IInv, Base, TypeOK

\* Two slots with processes have numbers of their own.
LEMMA OneNumber ==
  ASSUME IInv, NEW p \in Slots, NEW q \in Slots, p_pid[p] = p_pid[q], p_stat[p] # "NULL"
  PROVE  p = q
BY DEF IInv, Base, Numbers, PidsUnique, Processes, Free

\* The effect of stop(): p is stopped and its parent told, or p exits.  Others are
\* left alone or woken.
Halts(p) ==
  /\ p_stat' \in [Slots -> {"NULL", "SRUN", "SSLEEP", "SIDL", "SZOMB", "SSTOP"}]
  /\ p_stat[p] = "SRUN" /\ p_stat'[p] \in {"SRUN", "SSTOP"}
  /\ \A q \in Slots : q # p =>
       \/ p_stat'[q] = p_stat[q]
       \/ Asleep(q, {"wait", "ptlock", "ptreq"}) /\ p_stat'[q] = "SRUN"
  /\ p_stat'[p] = "SSTOP" =>
       /\ p_ppid[p] # 1 /\ pc' = [pc EXCEPT ![p] = "stop"] /\ UNCHANGED <<p_flag, p_sig>>
       /\ \A q \in Slots : Asleep(q, {"wait"}) /\ p_pid[q] = p_ppid[p] => p_stat'[q] = "SRUN"
  /\ p_stat'[p] = "SRUN" => Exiting(p)
  /\ pc[p] \in {"user", "stop"} /\ p # init
  /\ UNCHANGED <<p_pid, p_ppid, p_pgrp, mpid, tty, ip_lock, child, req, forks>>

\* stop() called by issig(), or going on after the parent has exited.
LEMMA StopHalts ==
  ASSUME IInv, NEW p \in Slots, PsigTraced(p) \/ StopAgain(p)
  PROVE  /\ Halts(p)
         /\ \A q \in Slots : Asleep(q, {"ptlock", "ptreq"}) => p_stat'[q] = p_stat[q]
         /\ UNCHANGED ip_req
<1> USE DEF At, Goto, Asleep
<1>t. /\ p_stat \in [Slots -> {"NULL", "SRUN", "SSLEEP", "SIDL", "SZOMB", "SSTOP"}]
      /\ p_pid \in [Slots -> Pids \cup {0}] /\ p_ppid \in [Slots -> Pids \cup {0}] /\ 0 \notin Pids
  BY TypeFacts
<1>0. /\ stop(p, p_stat) /\ p_stat[p] = "SRUN" /\ pc[p] \in {"user", "stop"}
      /\ UNCHANGED <<p_pid, p_ppid, p_pgrp, mpid, tty, ip_lock, ip_req, child, req, forks>>
  BY DEF PsigTraced, StopAgain, ipc
<1>a. p # init
  BY DEF IInv, Base, InitAlive, PsigTraced, StopAgain
<1>1. CASE p_ppid[p] # 1 /\ Parents(p) # {}
  <2>1. First(Parents(p)) \in Parents(p)
    BY <1>1, FirstIn DEF Parents
  <2>2. PICK f \in Slots : f = First(Parents(p)) /\ p_pid[f] = p_ppid[p]
    BY <2>1 DEF Parents
  <2>3. /\ p_stat' = [[q \in Slots |-> IF q = f /\ Asleep(q, {"wait"}) THEN "SRUN" ELSE p_stat[q]]
                        EXCEPT ![p] = "SSTOP"]
        /\ pc' = [pc EXCEPT ![p] = "stop"] /\ UNCHANGED <<p_flag, p_sig>>
    BY <1>0, <1>1, <2>2 DEF stop, Woken
  <2>4. \A q \in Slots : Asleep(q, {"wait"}) /\ p_pid[q] = p_ppid[p] => q = f
    BY <2>2, OneNumber
  <2>5. /\ p_stat' \in [Slots -> {"NULL", "SRUN", "SSLEEP", "SIDL", "SZOMB", "SSTOP"}]
        /\ p_stat'[p] = "SSTOP"
        /\ \A q \in Slots : q # p =>
             p_stat'[q] = IF q = f /\ Asleep(q, {"wait"}) THEN "SRUN" ELSE p_stat[q]
    BY <1>t, <2>3
  <2> QED BY <1>0, <1>1, <1>a, <2>3, <2>4, <2>5 DEF Halts
<1>2. CASE ~(p_ppid[p] # 1 /\ Parents(p) # {})
  <2>1. p_stat' = p_stat /\ Exiting(p)
    BY <1>0, <1>2 DEF stop
  <2> QED BY <1>0, <1>t, <1>a, <2>1 DEF Halts
<1> QED BY <1>1, <1>2

\* stop() going on after procxmt() has read or written for the parent, which is
\* woken.
LEMMA AccessHalts ==
  ASSUME IInv, NEW p \in Slots, ProcxmtAccess(p)
  PROVE  /\ Halts(p)
         /\ \A q \in Slots : Asleep(q, {"ptlock", "ptreq"}) => p_stat'[q] = "SRUN"
         /\ ip_req' = "done"
<1> USE DEF At, Goto, Asleep
<1>t. /\ p_stat \in [Slots -> {"NULL", "SRUN", "SSLEEP", "SIDL", "SZOMB", "SSTOP"}]
      /\ p_pid \in [Slots -> Pids \cup {0}] /\ p_ppid \in [Slots -> Pids \cup {0}] /\ 0 \notin Pids
  BY TypeFacts
<1>0. /\ stop(p, IpcWoken(p_stat)) /\ p_stat[p] = "SRUN" /\ pc[p] = "stop" /\ ip_req' = "done"
      /\ UNCHANGED <<p_pid, p_ppid, p_pgrp, mpid, tty, ip_lock, child, req, forks>>
  BY DEF ProcxmtAccess
<1>a. p # init
  BY DEF IInv, Base, InitAlive, ProcxmtAccess
<1> DEFINE w == IpcWoken(p_stat)
<1>b. /\ w \in [Slots -> {"NULL", "SRUN", "SSLEEP", "SIDL", "SZOMB", "SSTOP"}] /\ w[p] = "SRUN"
      /\ \A q \in Slots : w[q] = IF Asleep(q, {"ptlock", "ptreq"}) THEN "SRUN" ELSE p_stat[q]
  BY <1>t, <1>0 DEF IpcWoken
<1> HIDE DEF w
<1>1. CASE p_ppid[p] # 1 /\ Parents(p) # {}
  <2>1. First(Parents(p)) \in Parents(p)
    BY <1>1, FirstIn DEF Parents
  <2>2. PICK f \in Slots : f = First(Parents(p)) /\ p_pid[f] = p_ppid[p]
    BY <2>1 DEF Parents
  <2>3. /\ p_stat' = [[q \in Slots |-> IF q = f /\ Asleep(q, {"wait"}) THEN "SRUN" ELSE w[q]]
                        EXCEPT ![p] = "SSTOP"]
        /\ pc' = [pc EXCEPT ![p] = "stop"] /\ UNCHANGED <<p_flag, p_sig>>
    BY <1>0, <1>1, <2>2 DEF stop, Woken, w
  <2>4. \A q \in Slots : Asleep(q, {"wait"}) /\ p_pid[q] = p_ppid[p] => q = f
    BY <2>2, OneNumber
  <2>5. /\ p_stat' \in [Slots -> {"NULL", "SRUN", "SSLEEP", "SIDL", "SZOMB", "SSTOP"}]
        /\ p_stat'[p] = "SSTOP"
        /\ \A q \in Slots : q # p =>
             p_stat'[q] = IF q = f /\ Asleep(q, {"wait"}) THEN "SRUN" ELSE w[q]
    BY <1>b, <2>3
  <2> QED BY <1>0, <1>1, <1>a, <1>b, <2>3, <2>4, <2>5 DEF Halts
<1>2. CASE ~(p_ppid[p] # 1 /\ Parents(p) # {})
  <2>1. p_stat' = w /\ Exiting(p)
    BY <1>0, <1>2 DEF stop, w
  <2> QED BY <1>0, <1>a, <1>b, <2>1 DEF Halts
<1> QED BY <1>1, <1>2

\* The effect of exit(): p is dead, its children are init's and go on, its parent
\* and init, if it has new children, are woken.
Dies(p) ==
  /\ p_stat' \in [Slots -> {"NULL", "SRUN", "SSLEEP", "SIDL", "SZOMB", "SSTOP"}]
  /\ p_stat[p] = "SRUN" /\ p_stat'[p] = "SZOMB" /\ pc[p] = "exit" /\ p # init
  /\ \A q \in Slots : q # p =>
       p_stat'[q] = IF \/ q \in Children(p) /\ p_stat[q] = "SSTOP"
                       \/ /\ Asleep(q, {"wait"})
                          /\ p_pid[q] = p_ppid[p] \/ (q = init /\ Children(p) # {})
                    THEN "SRUN" ELSE p_stat[q]
  /\ p_ppid' \in [Slots -> Pids \cup {0}]
  /\ \A q \in Slots : p_ppid'[q] = IF q \in Children(p) THEN 1 ELSE p_ppid[q]
  /\ UNCHANGED <<p_pid, p_pgrp, p_flag, p_sig, mpid, tty, ip_lock, ip_req, pc, child, req, forks>>

\* The three loops of exit() have that effect.
LEMMA ExitDies ==
  ASSUME IInv, NEW p \in Slots, Exit(p)
  PROVE  Dies(p)
<1> USE DEF At, Asleep
<1>t. /\ p_stat \in [Slots -> {"NULL", "SRUN", "SSLEEP", "SIDL", "SZOMB", "SSTOP"}]
      /\ p_ppid \in [Slots -> Pids \cup {0}] /\ 1 \in Pids
  BY TypeFacts
<1>0. p_stat[p] = "SRUN" /\ pc[p] = "exit" /\ p # init
  BY DEF IInv, Base, InitAlive, Exit
<1> DEFINE a == [p_stat EXCEPT ![p] = "SZOMB"]
           b == Woken(a, IF Children(p) # {} THEN {init} ELSE {})
           d == [q \in Slots |-> IF q \in Children(p) /\ p_stat[q] = "SSTOP" THEN "SRUN" ELSE b[q]]
<1>1. p_stat' = [q \in Slots |-> IF q \in Parents(p) /\ Asleep(q, {"wait"}) THEN "SRUN" ELSE d[q]]
  BY DEF Exit, Woken, Disowned
<1>2. \A q \in Slots : b[q] = IF q = init /\ Children(p) # {} /\ Asleep(q, {"wait"}) THEN "SRUN" ELSE a[q]
  BY DEF Woken
<1>3. \A q \in Slots : a[q] = IF q = p THEN "SZOMB" ELSE p_stat[q]
  BY <1>t
<1>4. \A q \in Slots : d[q] = IF q \in Children(p) /\ p_stat[q] = "SSTOP" THEN "SRUN" ELSE b[q]
  OBVIOUS
<1> HIDE DEF a, b, d
<1>5. \A q \in Slots : p_stat'[q] = IF q \in Parents(p) /\ Asleep(q, {"wait"}) THEN "SRUN" ELSE d[q]
  BY <1>1
<1>6. \A q \in Slots : d[q] \in {"NULL", "SRUN", "SSLEEP", "SIDL", "SZOMB", "SSTOP"}
  BY <1>t, <1>2, <1>3, <1>4
<1>7. p_stat' \in [Slots -> {"NULL", "SRUN", "SSLEEP", "SIDL", "SZOMB", "SSTOP"}]
  BY <1>1, <1>6
<1>8. p_stat'[p] = "SZOMB"
  BY <1>0, <1>2, <1>3, <1>4, <1>5
<1>9. \A q \in Slots : q # p =>
       p_stat'[q] = IF \/ q \in Children(p) /\ p_stat[q] = "SSTOP"
                       \/ /\ Asleep(q, {"wait"})
                          /\ p_pid[q] = p_ppid[p] \/ (q = init /\ Children(p) # {})
                    THEN "SRUN" ELSE p_stat[q]
  BY <1>2, <1>3, <1>4, <1>5 DEF Parents
<1>10. /\ p_ppid' \in [Slots -> Pids \cup {0}]
       /\ \A q \in Slots : p_ppid'[q] = IF q \in Children(p) THEN 1 ELSE p_ppid[q]
  BY <1>t DEF Exit
<1>11. UNCHANGED <<p_pid, p_pgrp, p_flag, p_sig, mpid, tty, ip_lock, ip_req, pc, child, req, forks>>
  BY DEF Exit, ipc
<1> QED BY <1>0, <1>7, <1>8, <1>9, <1>10, <1>11 DEF Dies

\* A command is for a stopped child.
LEMMA CommandFor ==
  ASSUME IInv, NEW p \in Slots, NEW c \in Slots, c \in Traceable(p), p_stat[p] = "SRUN"
  PROVE  /\ p_stat[c] = "SSTOP" /\ pc[c] = "stop" /\ p_ppid[c] = p_pid[p] /\ c # p
         /\ c # init /\ p_pid[c] \in Pids
<1>1. p_stat[c] = "SSTOP" /\ p_ppid[c] = p_pid[p]
  BY DEF Traceable, Children
<1>2. pc[c] = "stop"
  BY <1>1, TypeFacts DEF IInv, Base, Places, PlaceAt
<1>3. p_pid[c] \in Pids
  BY <1>1, TypeFacts DEF IInv, Base, Numbers
<1> QED BY <1>1, <1>2, <1>3 DEF IInv, Base, InitAlive

\* Every step keeps the types.
LEMMA TypeStep ==
  ASSUME IInv, NEW p \in Slots, User(p) \/ Wait(p) \/ Kernel(p)
  PROVE  TypeOK'
<1> USE DEF At, Goto, Asleep, tty
<1>0. TypeOK
  BY DEF IInv, Base
<1>t. /\ p_stat \in [Slots -> {"NULL", "SRUN", "SSLEEP", "SIDL", "SZOMB", "SSTOP"}]
      /\ p_pid \in [Slots -> Pids \cup {0}] /\ p_ppid \in [Slots -> Pids \cup {0}]
      /\ p_pgrp \in [Slots -> Pids \cup {0}] /\ p_sig \in [Slots -> SUBSET Sigs]
      /\ p_flag \in [Slots -> SUBSET {"STRC", "SWTED"}]
      /\ pc \in [Slots -> {"user", "newproc", "xswap", "wait", "exit", "stop", "ptlock", "ptreq"}]
      /\ child \in [Slots -> Slots \cup {0}] /\ 0 \notin Pids /\ 0 \notin Slots
      /\ init \in Slots /\ 1 \in Pids
  BY TypeFacts
<1>1. ASSUME Fork(p) PROVE TypeOK'
  <2>1. First(Free) \in Slots /\ p_stat[First(Free)] = "NULL"
    BY <1>1, FirstIn DEF Fork, Free
  <2>2. PICK c \in Slots : c = First(Free)
    BY <2>1
  <2>3. NewPid \in Pids /\ NewPid \notin InUse
    BY <1>1, NewPidFree DEF Fork, IInv, Base
  <2>4. p_pid' \in [Slots -> Pids \cup {0}] /\ p_ppid' \in [Slots -> Pids \cup {0}]
    BY <1>t, <1>1, <2>1, <2>2, <2>3 DEF Fork
  <2>5. forks' \in 0 .. MaxForks
    BY <1>0, <1>1, ProcAssumption DEF TypeOK, Fork
  <2>6. p_pgrp' \in [Slots -> Pids \cup {0}] /\ p_flag' \in [Slots -> SUBSET {"STRC", "SWTED"}]
    BY <1>t, <1>1, <2>1, <2>2 DEF Fork
  <2>7. /\ p_stat' \in [Slots -> {"NULL", "SRUN", "SSLEEP", "SIDL", "SZOMB", "SSTOP"}]
        /\ pc' \in [Slots -> {"user", "newproc", "xswap", "wait", "exit", "stop", "ptlock", "ptreq"}]
        /\ child' \in [Slots -> Slots \cup {0}]
    BY <1>t, <1>1, <2>1, <2>2 DEF Fork
  <2> QED BY <1>0, <1>1, <2>3, <2>4, <2>5, <2>6, <2>7 DEF TypeOK, Fork, ipc
<1>2. ASSUME Forked(p) PROVE TypeOK'
  <2>1. PICK c \in Slots : c = child[p] /\ pc[c] = "xswap" /\ p_ppid[c] = p_pid[p]
    BY <1>2 DEF Forked, IInv, Base, Copies, Children
  <2>2. /\ p_stat' = [p_stat EXCEPT ![p] = "SRUN", ![c] = "SRUN"]
        /\ pc' = [pc EXCEPT ![p] = "user", ![c] = "user"]
        /\ child' = [child EXCEPT ![p] = 0] /\ c # p /\ pc[p] = "newproc"
        /\ UNCHANGED <<p_pid, p_ppid, p_pgrp, p_flag, p_sig, mpid, tty, ip_lock, ip_req, req, forks>>
    BY <1>2, <2>1 DEF Forked, ipc
  <2>3. p_stat[p] = "SIDL" /\ p_stat[c] = "SSLEEP"
    BY <2>1, <2>2 DEF IInv, Base, Places, PlaceAt
  <2> QED BY <1>0, <1>t, <2>1, <2>2, <2>3 DEF TypeOK
<1>3. ASSUME Ttyopen(p) PROVE TypeOK'
  <2>1. p_pid[p] \in Pids
    BY <1>t, <1>3 DEF IInv, Base, Numbers, Ttyopen
  <2>2. t_pgrp' \in Pids /\ revived' \subseteq Pids
    BY <1>0, <1>3, <2>1 DEF TypeOK, Ttyopen
  <2>3. p_pgrp' \in [Slots -> Pids \cup {0}]
    BY <1>t, <1>3, <2>2 DEF Ttyopen
  <2> QED BY <1>0, <1>t, <1>3, <2>2, <2>3 DEF TypeOK, ipc, Ttyopen
<1>4. ASSUME Rexit(p) PROVE TypeOK'
  BY <1>0, <1>t, <1>4 DEF TypeOK, ipc, Rexit, Exiting
<1>5. ASSUME TraceMe(p) PROVE TypeOK'
  BY <1>0, <1>t, <1>5 DEF TypeOK, ipc, TraceMe
<1>6. ASSUME NEW c \in Slots, NEW r \in Commands, Ptrace(p, c, r) PROVE TypeOK'
  <2>1. Command(p, c, r) /\ p_stat[p] = "SRUN" /\ pc[p] = "user"
    BY <1>6 DEF Ptrace
  <2>2. /\ p_stat[c] = "SSTOP" /\ pc[c] = "stop" /\ p_ppid[c] = p_pid[p] /\ c # p
        /\ c # init /\ p_pid[c] \in Pids
    BY <1>6, <2>1, CommandFor DEF Ptrace
  <2> QED BY <1>0, <1>t, <2>1, <2>2 DEF TypeOK, Command
<1>7. ASSUME NEW c \in Slots, NEW r \in Commands, PtraceWait(p, c, r) PROVE TypeOK'
  BY <1>0, <1>t, <1>7 DEF TypeOK, ipc, PtraceWait, Traceable
<1>8. ASSUME NEW n \in Sigs, Psignal(p, n) PROVE TypeOK'
  BY <1>0, <1>t, <1>8 DEF TypeOK, ipc, Psignal, Woken
<1>9. ASSUME WaitDead(p) PROVE TypeOK'
  <2>1. First(News(p)) \in Slots /\ First(News(p)) \in News(p)
    BY <1>9, FirstIn DEF WaitDead, News, Children
  <2>2. PICK c \in Slots : c = First(News(p))
    BY <2>1
  <2>3. c \in Children(p) /\ p_stat[c] = "SZOMB"
    BY <1>9, <2>1, <2>2 DEF WaitDead, News
  <2> QED BY <1>0, <1>t, <1>9, <2>1, <2>2, <2>3 DEF TypeOK, WaitDead, ipc
<1>10. ASSUME WaitStopped(p) PROVE TypeOK'
  <2>1. First(News(p)) \in Slots /\ First(News(p)) \in News(p)
    BY <1>10, FirstIn DEF WaitStopped, News, Children
  <2>2. PICK c \in Slots : c = First(News(p))
    BY <2>1
  <2>3. c \in Children(p) /\ Stopped(c)
    BY <1>10, <2>1, <2>2 DEF WaitStopped, News
  <2> QED BY <1>0, <1>t, <1>10, <2>1, <2>2, <2>3 DEF TypeOK, WaitStopped, ipc
<1>11. ASSUME WaitSleep(p) PROVE TypeOK'
  BY <1>0, <1>t, <1>11 DEF TypeOK, ipc, WaitSleep, Scans
<1>12. ASSUME WaitSignal(p) PROVE TypeOK'
  BY <1>0, <1>t, <1>12 DEF TypeOK, ipc, WaitSignal, table
<1>13. ASSUME Exit(p) PROVE TypeOK'
  <2>1. Dies(p)
    BY <1>13, ExitDies
  <2> QED BY <1>0, <1>t, <2>1 DEF TypeOK, Dies
<1>14. ASSUME Psig(p) PROVE TypeOK'
  BY <1>0, <1>t, <1>14 DEF TypeOK, ipc, Psig, Exiting
<1>15. ASSUME PsigTraced(p) PROVE TypeOK'
  <2>1. Halts(p) /\ UNCHANGED ip_req
    BY <1>15, StopHalts
  <2> QED BY <1>0, <1>t, <2>1 DEF TypeOK, Halts, Exiting
<1>16. ASSUME StopAgain(p) PROVE TypeOK'
  <2>1. Halts(p) /\ UNCHANGED ip_req
    BY <1>16, StopHalts
  <2> QED BY <1>0, <1>t, <2>1 DEF TypeOK, Halts, Exiting
<1>17. ASSUME PtraceLock(p) PROVE TypeOK'
  <2>1. PICK c \in Slots : c = child[p] /\ c \in Traceable(p)
    BY <1>17 DEF PtraceLock, IInv, TraceServed, Traceable, Children
  <2>2. PICK r \in Commands : r = req[p]
    BY DEF IInv, Base, TypeOK
  <2>3. Command(p, c, r) /\ p_stat[p] = "SRUN" /\ pc[p] = "ptlock"
    BY <1>17, <2>1, <2>2 DEF PtraceLock
  <2>4. /\ p_stat[c] = "SSTOP" /\ pc[c] = "stop" /\ p_ppid[c] = p_pid[p] /\ c # p
        /\ c # init /\ p_pid[c] \in Pids
    BY <2>1, <2>3, CommandFor
  <2> QED BY <1>0, <1>t, <2>3, <2>4 DEF TypeOK, Command
<1>18. ASSUME PtraceAgain(p) PROVE TypeOK'
  BY <1>0, <1>t, <1>18 DEF TypeOK, ipc, PtraceAgain, Blocked
<1>19. ASSUME PtraceDone(p) PROVE TypeOK'
  <2>1. p_stat' \in [Slots -> {"NULL", "SRUN", "SSLEEP", "SIDL", "SZOMB", "SSTOP"}]
    BY <1>t, <1>19 DEF PtraceDone, IpcWoken
  <2>2. req' \in [Slots -> Commands] /\ child' \in [Slots -> Slots \cup {0}]
    BY <1>0, <1>t, <1>19 DEF PtraceDone, TypeOK, Commands
  <2> QED BY <1>0, <1>t, <1>19, <2>1, <2>2 DEF TypeOK, PtraceDone
<1>20. ASSUME ProcxmtAccess(p) PROVE TypeOK'
  <2>1. Halts(p) /\ ip_req' = "done"
    BY <1>20, AccessHalts
  <2> QED BY <1>0, <1>t, <2>1 DEF TypeOK, Halts, Exiting
<1>21. ASSUME ProcxmtContinue(p) PROVE TypeOK'
  BY <1>0, <1>t, <1>21 DEF TypeOK, ipc, ProcxmtContinue, Exiting, IpcWoken
<1>22. ASSUME ProcxmtExit(p) PROVE TypeOK'
  BY <1>0, <1>t, <1>22 DEF TypeOK, ipc, ProcxmtExit, Exiting, IpcWoken
<1>23. ASSUME Ttyclose(p) PROVE TypeOK'
  BY <1>0, <1>t, <1>23 DEF TypeOK, ipc, table, Ttyclose
<1> QED
  BY <1>1, <1>2, <1>3, <1>4, <1>5, <1>6, <1>7, <1>8, <1>9, <1>10, <1>11, <1>12, <1>13, <1>14, <1>15, <1>16, <1>17, <1>18, <1>19, <1>20, <1>21, <1>22,
     <1>23
     DEF User, Wait, Kernel, Traceable, Children

\* Every step leaves every process in a state that fits its place.
LEMMA PlacesStep ==
  ASSUME IInv, NEW p \in Slots, User(p) \/ Wait(p) \/ Kernel(p)
  PROVE  Places'
<1> USE DEF At, Goto, Asleep
<1>0. Places
  BY DEF IInv, Base
<1>t. /\ p_stat \in [Slots -> {"NULL", "SRUN", "SSLEEP", "SIDL", "SZOMB", "SSTOP"}]
      /\ p_pid \in [Slots -> Pids \cup {0}] /\ p_ppid \in [Slots -> Pids \cup {0}]
      /\ p_pgrp \in [Slots -> Pids \cup {0}] /\ p_sig \in [Slots -> SUBSET Sigs]
      /\ p_flag \in [Slots -> SUBSET {"STRC", "SWTED"}]
      /\ pc \in [Slots -> {"user", "newproc", "xswap", "wait", "exit", "stop", "ptlock", "ptreq"}]
      /\ child \in [Slots -> Slots \cup {0}] /\ 0 \notin Pids /\ 0 \notin Slots
      /\ init \in Slots /\ 1 \in Pids
  BY TypeFacts
<1>1. ASSUME Fork(p) PROVE Places'
  <2>1. First(Free) \in Slots /\ p_stat[First(Free)] = "NULL"
    BY <1>1, FirstIn DEF Fork, Free
  <2>2. PICK c \in Slots : c = First(Free)
    BY <2>1
  <2>3. NewPid \in Pids /\ NewPid \notin InUse
    BY <1>1, NewPidFree DEF Fork, IInv, Base
  <2> QED BY <1>0, <1>t, <1>1, <2>1, <2>2, <2>3 DEF Places, PlaceAt, Fork
<1>2. ASSUME Forked(p) PROVE Places'
  <2>1. PICK c \in Slots : c = child[p] /\ pc[c] = "xswap" /\ p_ppid[c] = p_pid[p]
    BY <1>2 DEF Forked, IInv, Base, Copies, Children
  <2>2. /\ p_stat' = [p_stat EXCEPT ![p] = "SRUN", ![c] = "SRUN"]
        /\ pc' = [pc EXCEPT ![p] = "user", ![c] = "user"]
        /\ child' = [child EXCEPT ![p] = 0] /\ c # p /\ pc[p] = "newproc"
        /\ UNCHANGED <<p_pid, p_ppid, p_pgrp, p_flag, p_sig, mpid, tty, ip_lock, ip_req, req, forks>>
    BY <1>2, <2>1 DEF Forked, ipc
  <2>3. p_stat[p] = "SIDL" /\ p_stat[c] = "SSLEEP"
    BY <2>1, <2>2 DEF IInv, Base, Places, PlaceAt
  <2> QED BY <1>0, <1>t, <2>1, <2>2, <2>3 DEF Places, PlaceAt
<1>3. ASSUME Ttyopen(p) PROVE Places'
  BY <1>0, <1>t, <1>3 DEF Places, PlaceAt, Ttyopen
<1>4. ASSUME Rexit(p) PROVE Places'
  BY <1>0, <1>t, <1>4 DEF Places, PlaceAt, Rexit, Exiting
<1>5. ASSUME TraceMe(p) PROVE Places'
  BY <1>0, <1>t, <1>5 DEF Places, PlaceAt, TraceMe
<1>6. ASSUME NEW c \in Slots, NEW r \in Commands, Ptrace(p, c, r) PROVE Places'
  <2>1. Command(p, c, r) /\ p_stat[p] = "SRUN" /\ pc[p] = "user"
    BY <1>6 DEF Ptrace
  <2>2. /\ p_stat[c] = "SSTOP" /\ pc[c] = "stop" /\ p_ppid[c] = p_pid[p] /\ c # p
        /\ c # init /\ p_pid[c] \in Pids
    BY <1>6, <2>1, CommandFor DEF Ptrace
  <2> QED BY <1>0, <1>t, <2>1, <2>2 DEF Places, PlaceAt, Command
<1>7. ASSUME NEW c \in Slots, NEW r \in Commands, PtraceWait(p, c, r) PROVE Places'
  BY <1>0, <1>t, <1>7 DEF Places, PlaceAt, PtraceWait, Traceable
<1>8. ASSUME NEW n \in Sigs, Psignal(p, n) PROVE Places'
  BY <1>0, <1>t, <1>8 DEF Places, PlaceAt, Psignal, Woken
<1>9. ASSUME WaitDead(p) PROVE Places'
  <2>1. First(News(p)) \in Slots /\ First(News(p)) \in News(p)
    BY <1>9, FirstIn DEF WaitDead, News, Children
  <2>2. PICK c \in Slots : c = First(News(p))
    BY <2>1
  <2>3. c \in Children(p) /\ p_stat[c] = "SZOMB"
    BY <1>9, <2>1, <2>2 DEF WaitDead, News
  <2> QED BY <1>0, <1>t, <1>9, <2>1, <2>2, <2>3 DEF Places, PlaceAt, WaitDead, Scans
<1>10. ASSUME WaitStopped(p) PROVE Places'
  BY <1>0, <1>t, <1>10 DEF Places, PlaceAt, WaitStopped, Scans, News, Stopped
<1>11. ASSUME WaitSleep(p) PROVE Places'
  BY <1>0, <1>t, <1>11 DEF Places, PlaceAt, WaitSleep, Scans
<1>12. ASSUME WaitSignal(p) PROVE Places'
  BY <1>0, <1>t, <1>12 DEF Places, PlaceAt, WaitSignal, table
<1>13. ASSUME Exit(p) PROVE Places'
  <2>1. Dies(p)
    BY <1>13, ExitDies
  <2> QED BY <1>0, <1>t, <2>1 DEF Places, PlaceAt, Dies
<1>14. ASSUME Psig(p) PROVE Places'
  BY <1>0, <1>t, <1>14 DEF Places, PlaceAt, Psig, Exiting
<1>15. ASSUME PsigTraced(p) PROVE Places'
  <2>1. Halts(p) /\ UNCHANGED ip_req
    BY <1>15, StopHalts
  <2> QED BY <1>0, <1>t, <2>1 DEF Places, PlaceAt, Halts, Exiting
<1>16. ASSUME StopAgain(p) PROVE Places'
  <2>1. Halts(p) /\ UNCHANGED ip_req
    BY <1>16, StopHalts
  <2> QED BY <1>0, <1>t, <2>1 DEF Places, PlaceAt, Halts, Exiting
<1>17. ASSUME PtraceLock(p) PROVE Places'
  <2>1. PICK c \in Slots : c = child[p] /\ c \in Traceable(p)
    BY <1>17 DEF PtraceLock, IInv, TraceServed, Traceable, Children
  <2>2. PICK r \in Commands : r = req[p]
    BY DEF IInv, Base, TypeOK
  <2>3. Command(p, c, r) /\ p_stat[p] = "SRUN" /\ pc[p] = "ptlock"
    BY <1>17, <2>1, <2>2 DEF PtraceLock
  <2>4. /\ p_stat[c] = "SSTOP" /\ pc[c] = "stop" /\ p_ppid[c] = p_pid[p] /\ c # p
        /\ c # init /\ p_pid[c] \in Pids
    BY <2>1, <2>3, CommandFor
  <2> QED BY <1>0, <1>t, <2>3, <2>4 DEF Places, PlaceAt, Command
<1>18. ASSUME PtraceAgain(p) PROVE Places'
  BY <1>0, <1>t, <1>18 DEF Places, PlaceAt, PtraceAgain, Blocked
<1>19. ASSUME PtraceDone(p) PROVE Places'
  BY <1>0, <1>t, <1>19 DEF Places, PlaceAt, PtraceDone, IpcWoken
<1>20. ASSUME ProcxmtAccess(p) PROVE Places'
  <2>1. Halts(p) /\ ip_req' = "done"
    BY <1>20, AccessHalts
  <2> QED BY <1>0, <1>t, <2>1 DEF Places, PlaceAt, Halts, Exiting
<1>21. ASSUME ProcxmtContinue(p) PROVE Places'
  BY <1>0, <1>t, <1>21 DEF Places, PlaceAt, ProcxmtContinue, Exiting, IpcWoken
<1>22. ASSUME ProcxmtExit(p) PROVE Places'
  BY <1>0, <1>t, <1>22 DEF Places, PlaceAt, ProcxmtExit, Exiting, IpcWoken
<1>23. ASSUME Ttyclose(p) PROVE Places'
  BY <1>0, <1>t, <1>23 DEF Places, PlaceAt, ipc, table, Ttyclose
<1> QED
  BY <1>1, <1>2, <1>3, <1>4, <1>5, <1>6, <1>7, <1>8, <1>9, <1>10, <1>11, <1>12, <1>13, <1>14, <1>15, <1>16, <1>17, <1>18, <1>19, <1>20, <1>21, <1>22,
     <1>23
     DEF User, Wait, Kernel, Traceable, Children

\* Every step gives a number to a slot with a process, and to no other.
LEMMA NumbersStep ==
  ASSUME IInv, NEW p \in Slots, User(p) \/ Wait(p) \/ Kernel(p)
  PROVE  Numbers'
<1> USE DEF At, Goto, Asleep
<1>0. Numbers /\ Places
  BY DEF IInv, Base
<1>t. /\ p_stat \in [Slots -> {"NULL", "SRUN", "SSLEEP", "SIDL", "SZOMB", "SSTOP"}]
      /\ p_pid \in [Slots -> Pids \cup {0}] /\ p_ppid \in [Slots -> Pids \cup {0}]
      /\ p_pgrp \in [Slots -> Pids \cup {0}] /\ p_sig \in [Slots -> SUBSET Sigs]
      /\ p_flag \in [Slots -> SUBSET {"STRC", "SWTED"}]
      /\ pc \in [Slots -> {"user", "newproc", "xswap", "wait", "exit", "stop", "ptlock", "ptreq"}]
      /\ child \in [Slots -> Slots \cup {0}] /\ 0 \notin Pids /\ 0 \notin Slots
      /\ init \in Slots /\ 1 \in Pids
  BY TypeFacts
<1>1. ASSUME Fork(p) PROVE Numbers'
  <2>1. First(Free) \in Slots /\ p_stat[First(Free)] = "NULL"
    BY <1>1, FirstIn DEF Fork, Free
  <2>2. PICK c \in Slots : c = First(Free)
    BY <2>1
  <2>3. NewPid \in Pids /\ NewPid \notin InUse
    BY <1>1, NewPidFree DEF Fork, IInv, Base
  <2> QED BY <1>0, <1>t, <1>1, <2>1, <2>2, <2>3 DEF Numbers, Fork, InUse
<1>2. ASSUME Forked(p) PROVE Numbers'
  <2>1. PICK c \in Slots : c = child[p] /\ pc[c] = "xswap" /\ p_ppid[c] = p_pid[p]
    BY <1>2 DEF Forked, IInv, Base, Copies, Children
  <2>2. /\ p_stat' = [p_stat EXCEPT ![p] = "SRUN", ![c] = "SRUN"]
        /\ pc' = [pc EXCEPT ![p] = "user", ![c] = "user"]
        /\ child' = [child EXCEPT ![p] = 0] /\ c # p /\ pc[p] = "newproc"
        /\ UNCHANGED <<p_pid, p_ppid, p_pgrp, p_flag, p_sig, mpid, tty, ip_lock, ip_req, req, forks>>
    BY <1>2, <2>1 DEF Forked, ipc
  <2>3. p_stat[p] = "SIDL" /\ p_stat[c] = "SSLEEP"
    BY <2>1, <2>2 DEF IInv, Base, Places, PlaceAt
  <2> QED BY <1>0, <1>t, <2>1, <2>2, <2>3 DEF Numbers
<1>3. ASSUME Ttyopen(p) PROVE Numbers'
  BY <1>0, <1>t, <1>3 DEF Numbers, Places, PlaceAt, Ttyopen
<1>4. ASSUME Rexit(p) PROVE Numbers'
  BY <1>0, <1>t, <1>4 DEF Numbers, Places, PlaceAt, Rexit, Exiting
<1>5. ASSUME TraceMe(p) PROVE Numbers'
  BY <1>0, <1>t, <1>5 DEF Numbers, Places, PlaceAt, TraceMe
<1>6. ASSUME NEW c \in Slots, NEW r \in Commands, Ptrace(p, c, r) PROVE Numbers'
  <2>1. Command(p, c, r) /\ p_stat[p] = "SRUN" /\ pc[p] = "user"
    BY <1>6 DEF Ptrace
  <2>2. /\ p_stat[c] = "SSTOP" /\ pc[c] = "stop" /\ p_ppid[c] = p_pid[p] /\ c # p
        /\ c # init /\ p_pid[c] \in Pids
    BY <1>6, <2>1, CommandFor DEF Ptrace
  <2> QED BY <1>0, <1>t, <2>1, <2>2 DEF Numbers, Command
<1>7. ASSUME NEW c \in Slots, NEW r \in Commands, PtraceWait(p, c, r) PROVE Numbers'
  BY <1>0, <1>t, <1>7 DEF Numbers, Places, PlaceAt, PtraceWait, Traceable
<1>8. ASSUME NEW n \in Sigs, Psignal(p, n) PROVE Numbers'
  BY <1>0, <1>t, <1>8 DEF Numbers, Places, PlaceAt, Psignal, Woken
<1>9. ASSUME WaitDead(p) PROVE Numbers'
  <2>1. First(News(p)) \in Slots /\ First(News(p)) \in News(p)
    BY <1>9, FirstIn DEF WaitDead, News, Children
  <2>2. PICK c \in Slots : c = First(News(p))
    BY <2>1
  <2>3. c \in Children(p) /\ p_stat[c] = "SZOMB"
    BY <1>9, <2>1, <2>2 DEF WaitDead, News
  <2> QED BY <1>0, <1>t, <1>9, <2>1, <2>2, <2>3 DEF Numbers, WaitDead
<1>10. ASSUME WaitStopped(p) PROVE Numbers'
  BY <1>0, <1>t, <1>10 DEF Numbers, Places, PlaceAt, WaitStopped, Scans, News, Stopped
<1>11. ASSUME WaitSleep(p) PROVE Numbers'
  BY <1>0, <1>t, <1>11 DEF Numbers, Places, PlaceAt, WaitSleep, Scans
<1>12. ASSUME WaitSignal(p) PROVE Numbers'
  BY <1>0, <1>t, <1>12 DEF Numbers, Places, PlaceAt, WaitSignal, table
<1>13. ASSUME Exit(p) PROVE Numbers'
  <2>1. Dies(p)
    BY <1>13, ExitDies
  <2> QED BY <1>0, <1>t, <2>1 DEF Numbers, Dies, Children
<1>14. ASSUME Psig(p) PROVE Numbers'
  BY <1>0, <1>t, <1>14 DEF Numbers, Places, PlaceAt, Psig, Exiting
<1>15. ASSUME PsigTraced(p) PROVE Numbers'
  <2>1. Halts(p) /\ UNCHANGED ip_req
    BY <1>15, StopHalts
  <2> QED BY <1>0, <1>t, <2>1 DEF Numbers, Halts, Exiting
<1>16. ASSUME StopAgain(p) PROVE Numbers'
  <2>1. Halts(p) /\ UNCHANGED ip_req
    BY <1>16, StopHalts
  <2> QED BY <1>0, <1>t, <2>1 DEF Numbers, Halts, Exiting
<1>17. ASSUME PtraceLock(p) PROVE Numbers'
  <2>1. PICK c \in Slots : c = child[p] /\ c \in Traceable(p)
    BY <1>17 DEF PtraceLock, IInv, TraceServed, Traceable, Children
  <2>2. PICK r \in Commands : r = req[p]
    BY DEF IInv, Base, TypeOK
  <2>3. Command(p, c, r) /\ p_stat[p] = "SRUN" /\ pc[p] = "ptlock"
    BY <1>17, <2>1, <2>2 DEF PtraceLock
  <2>4. /\ p_stat[c] = "SSTOP" /\ pc[c] = "stop" /\ p_ppid[c] = p_pid[p] /\ c # p
        /\ c # init /\ p_pid[c] \in Pids
    BY <2>1, <2>3, CommandFor
  <2> QED BY <1>0, <1>t, <2>3, <2>4 DEF Numbers, Command
<1>18. ASSUME PtraceAgain(p) PROVE Numbers'
  BY <1>0, <1>t, <1>18 DEF Numbers, Places, PlaceAt, PtraceAgain, Blocked
<1>19. ASSUME PtraceDone(p) PROVE Numbers'
  BY <1>0, <1>t, <1>19 DEF Numbers, Places, PlaceAt, PtraceDone, IpcWoken
<1>20. ASSUME ProcxmtAccess(p) PROVE Numbers'
  <2>1. Halts(p) /\ ip_req' = "done"
    BY <1>20, AccessHalts
  <2> QED BY <1>0, <1>t, <2>1 DEF Numbers, Halts, Exiting
<1>21. ASSUME ProcxmtContinue(p) PROVE Numbers'
  BY <1>0, <1>t, <1>21 DEF Numbers, Places, PlaceAt, ProcxmtContinue, Exiting, IpcWoken
<1>22. ASSUME ProcxmtExit(p) PROVE Numbers'
  BY <1>0, <1>t, <1>22 DEF Numbers, Places, PlaceAt, ProcxmtExit, Exiting, IpcWoken
<1>23. ASSUME Ttyclose(p) PROVE Numbers'
  BY <1>0, <1>t, <1>23 DEF Numbers, Places, PlaceAt, ipc, table, Ttyclose
<1> QED
  BY <1>1, <1>2, <1>3, <1>4, <1>5, <1>6, <1>7, <1>8, <1>9, <1>10, <1>11, <1>12, <1>13, <1>14, <1>15, <1>16, <1>17, <1>18, <1>19, <1>20, <1>21, <1>22,
     <1>23
     DEF User, Wait, Kernel, Traceable, Children

\* init does not exit: nobody but itself could make it.
LEMMA InitStep ==
  ASSUME IInv, NEW p \in Slots, User(p) \/ Wait(p) \/ Kernel(p)
  PROVE  InitAlive'
<1> USE DEF At, Goto, Asleep
<1>0. InitAlive /\ Numbers
  BY DEF IInv, Base
<1>t. /\ p_stat \in [Slots -> {"NULL", "SRUN", "SSLEEP", "SIDL", "SZOMB", "SSTOP"}]
      /\ p_pid \in [Slots -> Pids \cup {0}] /\ p_ppid \in [Slots -> Pids \cup {0}]
      /\ p_pgrp \in [Slots -> Pids \cup {0}] /\ p_sig \in [Slots -> SUBSET Sigs]
      /\ p_flag \in [Slots -> SUBSET {"STRC", "SWTED"}]
      /\ pc \in [Slots -> {"user", "newproc", "xswap", "wait", "exit", "stop", "ptlock", "ptreq"}]
      /\ child \in [Slots -> Slots \cup {0}] /\ 0 \notin Pids /\ 0 \notin Slots
      /\ init \in Slots /\ 1 \in Pids
  BY TypeFacts
<1>1. ASSUME Fork(p) PROVE InitAlive'
  <2>1. First(Free) \in Slots /\ p_stat[First(Free)] = "NULL"
    BY <1>1, FirstIn DEF Fork, Free
  <2>2. PICK c \in Slots : c = First(Free)
    BY <2>1
  <2>3. NewPid \in Pids /\ NewPid \notin InUse
    BY <1>1, NewPidFree DEF Fork, IInv, Base
  <2>4. /\ p_pid' = [p_pid EXCEPT ![c] = NewPid] /\ p_ppid' = [p_ppid EXCEPT ![c] = p_pid[p]]
        /\ p_stat[c] = "NULL" /\ c # p /\ p_stat[p] = "SRUN" /\ pc[p] = "user"
        /\ p_pgrp' = [p_pgrp EXCEPT ![c] = p_pgrp[p]] /\ p_flag' = [p_flag EXCEPT ![c] = {}]
        /\ UNCHANGED <<p_sig, tty, ip_lock, ip_req, req>>
        /\ \/ /\ p_stat' = [p_stat EXCEPT ![c] = "SRUN"]
              /\ pc' = [pc EXCEPT ![c] = "user"] /\ UNCHANGED child
           \/ /\ p_stat' = [p_stat EXCEPT ![c] = "SSLEEP", ![p] = "SIDL"]
              /\ pc' = [pc EXCEPT ![c] = "xswap", ![p] = "newproc"]
              /\ child' = [child EXCEPT ![p] = c]
    BY <1>1, <2>1, <2>2 DEF Fork, ipc
  <2>5. pc[c] = "user" /\ p_pid[c] = 0 /\ p_ppid[c] = 0 /\ c # init
    BY <1>t, <2>4 DEF IInv, Base, Places, PlaceAt, Numbers, InitAlive
  <2>6. p_pid[p] # 0
    BY <1>t, <2>4 DEF IInv, Base, Numbers
  <2> QED BY <1>0, <1>t, <2>3, <2>4, <2>5, <2>6 DEF InitAlive
<1>2. ASSUME Forked(p) PROVE InitAlive'
  <2>1. PICK c \in Slots : c = child[p] /\ pc[c] = "xswap" /\ p_ppid[c] = p_pid[p]
    BY <1>2 DEF Forked, IInv, Base, Copies, Children
  <2>2. /\ p_stat' = [p_stat EXCEPT ![p] = "SRUN", ![c] = "SRUN"]
        /\ pc' = [pc EXCEPT ![p] = "user", ![c] = "user"]
        /\ child' = [child EXCEPT ![p] = 0] /\ c # p /\ pc[p] = "newproc"
        /\ UNCHANGED <<p_pid, p_ppid, p_pgrp, p_flag, p_sig, mpid, tty, ip_lock, ip_req, req, forks>>
    BY <1>2, <2>1 DEF Forked, ipc
  <2>3. p_stat[p] = "SIDL" /\ p_stat[c] = "SSLEEP"
    BY <2>1, <2>2 DEF IInv, Base, Places, PlaceAt
  <2> QED BY <1>0, <1>t, <2>1, <2>2, <2>3 DEF InitAlive
<1>3. ASSUME Ttyopen(p) PROVE InitAlive'
  BY <1>0, <1>t, <1>3 DEF InitAlive, Ttyopen
<1>4. ASSUME Rexit(p) PROVE InitAlive'
  BY <1>0, <1>t, <1>4 DEF InitAlive, Rexit, Exiting
<1>5. ASSUME TraceMe(p) PROVE InitAlive'
  BY <1>0, <1>t, <1>5 DEF InitAlive, TraceMe
<1>6. ASSUME NEW c \in Slots, NEW r \in Commands, Ptrace(p, c, r) PROVE InitAlive'
  <2>1. Command(p, c, r) /\ p_stat[p] = "SRUN" /\ pc[p] = "user"
    BY <1>6 DEF Ptrace
  <2>2. /\ p_stat[c] = "SSTOP" /\ pc[c] = "stop" /\ p_ppid[c] = p_pid[p] /\ c # p
        /\ c # init /\ p_pid[c] \in Pids
    BY <1>6, <2>1, CommandFor DEF Ptrace
  <2> QED BY <1>0, <1>t, <2>1, <2>2 DEF InitAlive, Command
<1>7. ASSUME NEW c \in Slots, NEW r \in Commands, PtraceWait(p, c, r) PROVE InitAlive'
  BY <1>0, <1>t, <1>7 DEF InitAlive, PtraceWait, Traceable
<1>8. ASSUME NEW n \in Sigs, Psignal(p, n) PROVE InitAlive'
  BY <1>0, <1>t, <1>8, ProcAssumption DEF InitAlive, Psignal, Woken, init
<1>9. ASSUME WaitDead(p) PROVE InitAlive'
  <2>1. First(News(p)) \in Slots /\ First(News(p)) \in News(p)
    BY <1>9, FirstIn DEF WaitDead, News, Children
  <2>2. PICK c \in Slots : c = First(News(p))
    BY <2>1
  <2>3. c \in Children(p) /\ p_stat[c] = "SZOMB"
    BY <1>9, <2>1, <2>2 DEF WaitDead, News
  <2>4. /\ p_stat' = [p_stat EXCEPT ![c] = "NULL"] /\ p_pid' = [p_pid EXCEPT ![c] = 0]
        /\ p_ppid' = [p_ppid EXCEPT ![c] = 0] /\ p_pgrp' = [p_pgrp EXCEPT ![c] = 0]
        /\ p_flag' = [p_flag EXCEPT ![c] = {}] /\ p_sig' = [p_sig EXCEPT ![c] = {}]
        /\ pc' = [pc EXCEPT ![p] = "user", ![c] = "user"] /\ p_stat[p] = "SRUN"
        /\ pc[p] \in {"user", "wait"} /\ c # p
        /\ UNCHANGED <<mpid, tty, ip_lock, ip_req, child, req, forks>>
    BY <1>9, <2>2, <2>3 DEF WaitDead, ipc, Scans
  <2>5. pc[c] = "exit" /\ c # init /\ p_ppid[c] = p_pid[p]
    BY <1>t, <2>3 DEF IInv, Base, Places, PlaceAt, InitAlive, Children
  <2> QED BY <1>0, <1>t, <2>3, <2>4, <2>5 DEF InitAlive
<1>10. ASSUME WaitStopped(p) PROVE InitAlive'
  BY <1>0, <1>t, <1>10 DEF InitAlive, WaitStopped, Scans, News, Stopped
<1>11. ASSUME WaitSleep(p) PROVE InitAlive'
  BY <1>0, <1>t, <1>11 DEF InitAlive, WaitSleep, Scans
<1>12. ASSUME WaitSignal(p) PROVE InitAlive'
  BY <1>0, <1>t, <1>12 DEF InitAlive, WaitSignal, table
<1>13. ASSUME Exit(p) PROVE InitAlive'
  <2>1. Dies(p)
    BY <1>13, ExitDies
  <2> QED BY <1>0, <1>t, <2>1 DEF InitAlive, Dies, Children, Numbers
<1>14. ASSUME Psig(p) PROVE InitAlive'
  BY <1>0, <1>t, <1>14 DEF InitAlive, Psig, Exiting
<1>15. ASSUME PsigTraced(p) PROVE InitAlive'
  <2>1. Halts(p) /\ UNCHANGED ip_req
    BY <1>15, StopHalts
  <2> QED BY <1>0, <1>t, <2>1 DEF InitAlive, Halts, Exiting
<1>16. ASSUME StopAgain(p) PROVE InitAlive'
  <2>1. Halts(p) /\ UNCHANGED ip_req
    BY <1>16, StopHalts
  <2> QED BY <1>0, <1>t, <2>1 DEF InitAlive, Halts, Exiting
<1>17. ASSUME PtraceLock(p) PROVE InitAlive'
  <2>1. PICK c \in Slots : c = child[p] /\ c \in Traceable(p)
    BY <1>17 DEF PtraceLock, IInv, TraceServed, Traceable, Children
  <2>2. PICK r \in Commands : r = req[p]
    BY DEF IInv, Base, TypeOK
  <2>3. Command(p, c, r) /\ p_stat[p] = "SRUN" /\ pc[p] = "ptlock"
    BY <1>17, <2>1, <2>2 DEF PtraceLock
  <2>4. /\ p_stat[c] = "SSTOP" /\ pc[c] = "stop" /\ p_ppid[c] = p_pid[p] /\ c # p
        /\ c # init /\ p_pid[c] \in Pids
    BY <2>1, <2>3, CommandFor
  <2> QED BY <1>0, <1>t, <2>3, <2>4 DEF InitAlive, Command
<1>18. ASSUME PtraceAgain(p) PROVE InitAlive'
  BY <1>0, <1>t, <1>18 DEF InitAlive, PtraceAgain, Blocked
<1>19. ASSUME PtraceDone(p) PROVE InitAlive'
  BY <1>0, <1>t, <1>19 DEF InitAlive, PtraceDone, IpcWoken
<1>20. ASSUME ProcxmtAccess(p) PROVE InitAlive'
  <2>1. Halts(p) /\ ip_req' = "done"
    BY <1>20, AccessHalts
  <2> QED BY <1>0, <1>t, <2>1 DEF InitAlive, Halts, Exiting
<1>21. ASSUME ProcxmtContinue(p) PROVE InitAlive'
  BY <1>0, <1>t, <1>21 DEF InitAlive, ProcxmtContinue, Exiting, IpcWoken
<1>22. ASSUME ProcxmtExit(p) PROVE InitAlive'
  BY <1>0, <1>t, <1>22 DEF InitAlive, ProcxmtExit, Exiting, IpcWoken
<1>23. ASSUME Ttyclose(p) PROVE InitAlive'
  BY <1>0, <1>t, <1>23 DEF InitAlive, ipc, table, Ttyclose
<1> QED
  BY <1>1, <1>2, <1>3, <1>4, <1>5, <1>6, <1>7, <1>8, <1>9, <1>10, <1>11, <1>12, <1>13, <1>14, <1>15, <1>16, <1>17, <1>18, <1>19, <1>20, <1>21, <1>22,
     <1>23
     DEF User, Wait, Kernel, Traceable, Children

\* Nobody but its parent ends the sleep of the process newproc() makes.
LEMMA CopiesStep ==
  ASSUME IInv, NEW p \in Slots, User(p) \/ Wait(p) \/ Kernel(p)
  PROVE  Copies'
<1> USE DEF At, Goto, Asleep
<1>0. Copies /\ Places /\ Numbers
  BY DEF IInv, Base
<1>t. /\ p_stat \in [Slots -> {"NULL", "SRUN", "SSLEEP", "SIDL", "SZOMB", "SSTOP"}]
      /\ p_pid \in [Slots -> Pids \cup {0}] /\ p_ppid \in [Slots -> Pids \cup {0}]
      /\ p_pgrp \in [Slots -> Pids \cup {0}] /\ p_sig \in [Slots -> SUBSET Sigs]
      /\ p_flag \in [Slots -> SUBSET {"STRC", "SWTED"}]
      /\ pc \in [Slots -> {"user", "newproc", "xswap", "wait", "exit", "stop", "ptlock", "ptreq"}]
      /\ child \in [Slots -> Slots \cup {0}] /\ 0 \notin Pids /\ 0 \notin Slots
      /\ init \in Slots /\ 1 \in Pids
  BY TypeFacts
<1>1. ASSUME Fork(p) PROVE Copies'
  <2>1. First(Free) \in Slots /\ p_stat[First(Free)] = "NULL"
    BY <1>1, FirstIn DEF Fork, Free
  <2>2. PICK c \in Slots : c = First(Free)
    BY <2>1
  <2>3. NewPid \in Pids /\ NewPid \notin InUse
    BY <1>1, NewPidFree DEF Fork, IInv, Base
  <2>4. /\ p_pid' = [p_pid EXCEPT ![c] = NewPid] /\ p_ppid' = [p_ppid EXCEPT ![c] = p_pid[p]]
        /\ p_stat[c] = "NULL" /\ c # p /\ p_stat[p] = "SRUN" /\ pc[p] = "user"
        /\ p_pgrp' = [p_pgrp EXCEPT ![c] = p_pgrp[p]] /\ p_flag' = [p_flag EXCEPT ![c] = {}]
        /\ UNCHANGED <<p_sig, tty, ip_lock, ip_req, req>>
        /\ \/ /\ p_stat' = [p_stat EXCEPT ![c] = "SRUN"]
              /\ pc' = [pc EXCEPT ![c] = "user"] /\ UNCHANGED child
           \/ /\ p_stat' = [p_stat EXCEPT ![c] = "SSLEEP", ![p] = "SIDL"]
              /\ pc' = [pc EXCEPT ![c] = "xswap", ![p] = "newproc"]
              /\ child' = [child EXCEPT ![p] = c]
    BY <1>1, <2>1, <2>2 DEF Fork, ipc
  <2>5. pc[c] = "user" /\ p_pid[c] = 0 /\ p_ppid[c] = 0 /\ c # init
    BY <1>t, <2>4 DEF IInv, Base, Places, PlaceAt, Numbers, InitAlive
  <2>6. p_pid[p] # 0
    BY <1>t, <2>4 DEF IInv, Base, Numbers
  <2> QED BY <1>0, <1>t, <2>3, <2>4, <2>5, <2>6 DEF Copies, Children
<1>2. ASSUME Forked(p) PROVE Copies'
  <2>1. PICK c \in Slots : c = child[p] /\ pc[c] = "xswap" /\ p_ppid[c] = p_pid[p]
    BY <1>2 DEF Forked, IInv, Base, Copies, Children
  <2>2. /\ p_stat' = [p_stat EXCEPT ![p] = "SRUN", ![c] = "SRUN"]
        /\ pc' = [pc EXCEPT ![p] = "user", ![c] = "user"]
        /\ child' = [child EXCEPT ![p] = 0] /\ c # p /\ pc[p] = "newproc"
        /\ UNCHANGED <<p_pid, p_ppid, p_pgrp, p_flag, p_sig, mpid, tty, ip_lock, ip_req, req, forks>>
    BY <1>2, <2>1 DEF Forked, ipc
  <2>3. p_stat[p] = "SIDL" /\ p_stat[c] = "SSLEEP"
    BY <2>1, <2>2 DEF IInv, Base, Places, PlaceAt
  <2>4. \A q \in Slots : pc[q] = "newproc" /\ child[q] = c => q = p
    BY <1>0, <1>t, <2>1, <2>3, OneNumber DEF Copies, Children, Places, PlaceAt
  <2> QED BY <1>0, <1>t, <2>1, <2>2, <2>3, <2>4 DEF Copies, Children
<1>3. ASSUME Ttyopen(p) PROVE Copies'
  BY <1>0, <1>t, <1>3 DEF Copies, Children, Ttyopen
<1>4. ASSUME Rexit(p) PROVE Copies'
  BY <1>0, <1>t, <1>4 DEF Copies, Children, Rexit, Exiting
<1>5. ASSUME TraceMe(p) PROVE Copies'
  BY <1>0, <1>t, <1>5 DEF Copies, Children, TraceMe
<1>6. ASSUME NEW c \in Slots, NEW r \in Commands, Ptrace(p, c, r) PROVE Copies'
  <2>1. Command(p, c, r) /\ p_stat[p] = "SRUN" /\ pc[p] = "user"
    BY <1>6 DEF Ptrace
  <2>2. /\ p_stat[c] = "SSTOP" /\ pc[c] = "stop" /\ p_ppid[c] = p_pid[p] /\ c # p
        /\ c # init /\ p_pid[c] \in Pids
    BY <1>6, <2>1, CommandFor DEF Ptrace
  <2> QED BY <1>0, <1>t, <2>1, <2>2 DEF Copies, Children, Command
<1>7. ASSUME NEW c \in Slots, NEW r \in Commands, PtraceWait(p, c, r) PROVE Copies'
  BY <1>0, <1>t, <1>7 DEF Copies, Children, PtraceWait, Traceable
<1>8. ASSUME NEW n \in Sigs, Psignal(p, n) PROVE Copies'
  BY <1>0, <1>t, <1>8 DEF Copies, Children, Psignal, Woken
<1>9. ASSUME WaitDead(p) PROVE Copies'
  <2>1. First(News(p)) \in Slots /\ First(News(p)) \in News(p)
    BY <1>9, FirstIn DEF WaitDead, News, Children
  <2>2. PICK c \in Slots : c = First(News(p))
    BY <2>1
  <2>3. c \in Children(p) /\ p_stat[c] = "SZOMB"
    BY <1>9, <2>1, <2>2 DEF WaitDead, News
  <2>4. /\ p_stat' = [p_stat EXCEPT ![c] = "NULL"] /\ p_pid' = [p_pid EXCEPT ![c] = 0]
        /\ p_ppid' = [p_ppid EXCEPT ![c] = 0] /\ p_pgrp' = [p_pgrp EXCEPT ![c] = 0]
        /\ p_flag' = [p_flag EXCEPT ![c] = {}] /\ p_sig' = [p_sig EXCEPT ![c] = {}]
        /\ pc' = [pc EXCEPT ![p] = "user", ![c] = "user"] /\ p_stat[p] = "SRUN"
        /\ pc[p] \in {"user", "wait"} /\ c # p
        /\ UNCHANGED <<mpid, tty, ip_lock, ip_req, child, req, forks>>
    BY <1>9, <2>2, <2>3 DEF WaitDead, ipc, Scans
  <2>5. pc[c] = "exit" /\ c # init /\ p_ppid[c] = p_pid[p]
    BY <1>t, <2>3 DEF IInv, Base, Places, PlaceAt, InitAlive, Children
  <2> QED BY <1>0, <1>t, <2>3, <2>4, <2>5 DEF Copies, Children
<1>10. ASSUME WaitStopped(p) PROVE Copies'
  BY <1>0, <1>t, <1>10 DEF Copies, Children, WaitStopped, Scans, News, Stopped
<1>11. ASSUME WaitSleep(p) PROVE Copies'
  BY <1>0, <1>t, <1>11 DEF Copies, Children, WaitSleep, Scans
<1>12. ASSUME WaitSignal(p) PROVE Copies'
  BY <1>0, <1>t, <1>12 DEF Copies, Children, WaitSignal, table
<1>13. ASSUME Exit(p) PROVE Copies'
  <2>1. Dies(p)
    BY <1>13, ExitDies
  <2>2. ASSUME NEW q \in Slots, pc'[q] = "newproc"
        PROVE  child'[q] \in Slots /\ pc'[child'[q]] = "xswap" /\ p_ppid'[child'[q]] = p_pid'[q]
    <3>1. pc[q] = "newproc" /\ child[q] \in Slots /\ pc[child[q]] = "xswap" /\ p_ppid[child[q]] = p_pid[q]
      BY <1>0, <2>1, <2>2 DEF Dies, Copies, Children
    <3>2. q # p /\ p_stat[q] = "SIDL"
      BY <1>0, <2>1, <3>1 DEF Dies, Places, PlaceAt
    <3>3. p_pid[q] # p_pid[p]
      BY <3>2, OneNumber
    <3> QED BY <2>1, <3>1, <3>3 DEF Dies, Children
  <2> QED BY <2>2 DEF Copies, Children
<1>14. ASSUME Psig(p) PROVE Copies'
  BY <1>0, <1>t, <1>14 DEF Copies, Children, Psig, Exiting
<1>15. ASSUME PsigTraced(p) PROVE Copies'
  <2>1. Halts(p) /\ UNCHANGED ip_req
    BY <1>15, StopHalts
  <2> QED BY <1>0, <1>t, <2>1 DEF Copies, Children, Halts, Exiting
<1>16. ASSUME StopAgain(p) PROVE Copies'
  <2>1. Halts(p) /\ UNCHANGED ip_req
    BY <1>16, StopHalts
  <2> QED BY <1>0, <1>t, <2>1 DEF Copies, Children, Halts, Exiting
<1>17. ASSUME PtraceLock(p) PROVE Copies'
  <2>1. PICK c \in Slots : c = child[p] /\ c \in Traceable(p)
    BY <1>17 DEF PtraceLock, IInv, TraceServed, Traceable, Children
  <2>2. PICK r \in Commands : r = req[p]
    BY DEF IInv, Base, TypeOK
  <2>3. Command(p, c, r) /\ p_stat[p] = "SRUN" /\ pc[p] = "ptlock"
    BY <1>17, <2>1, <2>2 DEF PtraceLock
  <2>4. /\ p_stat[c] = "SSTOP" /\ pc[c] = "stop" /\ p_ppid[c] = p_pid[p] /\ c # p
        /\ c # init /\ p_pid[c] \in Pids
    BY <2>1, <2>3, CommandFor
  <2> QED BY <1>0, <1>t, <2>3, <2>4 DEF Copies, Children, Command
<1>18. ASSUME PtraceAgain(p) PROVE Copies'
  BY <1>0, <1>t, <1>18 DEF Copies, Children, PtraceAgain, Blocked
<1>19. ASSUME PtraceDone(p) PROVE Copies'
  BY <1>0, <1>t, <1>19 DEF Copies, Children, PtraceDone, IpcWoken
<1>20. ASSUME ProcxmtAccess(p) PROVE Copies'
  <2>1. Halts(p) /\ ip_req' = "done"
    BY <1>20, AccessHalts
  <2> QED BY <1>0, <1>t, <2>1 DEF Copies, Children, Halts, Exiting
<1>21. ASSUME ProcxmtContinue(p) PROVE Copies'
  BY <1>0, <1>t, <1>21 DEF Copies, Children, ProcxmtContinue, Exiting, IpcWoken
<1>22. ASSUME ProcxmtExit(p) PROVE Copies'
  BY <1>0, <1>t, <1>22 DEF Copies, Children, ProcxmtExit, Exiting, IpcWoken
<1>23. ASSUME Ttyclose(p) PROVE Copies'
  BY <1>0, <1>t, <1>23 DEF Copies, Children, ipc, table, Ttyclose
<1> QED
  BY <1>1, <1>2, <1>3, <1>4, <1>5, <1>6, <1>7, <1>8, <1>9, <1>10, <1>11, <1>12, <1>13, <1>14, <1>15, <1>16, <1>17, <1>18, <1>19, <1>20, <1>21, <1>22,
     <1>23
     DEF User, Wait, Kernel, Traceable, Children

\* Every step leaves every process, and every group, with a number of its own.
LEMMA PidsStep ==
  ASSUME IInv, NEW p \in Slots, User(p) \/ Wait(p) \/ Kernel(p)
  PROVE  PidsUnique'
<1> USE DEF At, Goto, Asleep, tty
<1>0. PidsUnique /\ Numbers /\ Places
  BY DEF IInv, Base
<1>t. /\ p_stat \in [Slots -> {"NULL", "SRUN", "SSLEEP", "SIDL", "SZOMB", "SSTOP"}]
      /\ p_pid \in [Slots -> Pids \cup {0}] /\ p_ppid \in [Slots -> Pids \cup {0}]
      /\ p_pgrp \in [Slots -> Pids \cup {0}] /\ p_sig \in [Slots -> SUBSET Sigs]
      /\ p_flag \in [Slots -> SUBSET {"STRC", "SWTED"}]
      /\ pc \in [Slots -> {"user", "newproc", "xswap", "wait", "exit", "stop", "ptlock", "ptreq"}]
      /\ child \in [Slots -> Slots \cup {0}] /\ 0 \notin Pids /\ 0 \notin Slots
      /\ init \in Slots /\ 1 \in Pids
  BY TypeFacts
<1>1. ASSUME Fork(p) PROVE PidsUnique'
  <2>1. First(Free) \in Slots /\ p_stat[First(Free)] = "NULL"
    BY <1>1, FirstIn DEF Fork, Free
  <2>2. PICK c \in Slots : c = First(Free)
    BY <2>1
  <2>3. NewPid \in Pids /\ NewPid \notin InUse
    BY <1>1, NewPidFree DEF Fork, IInv, Base
  <2>4. /\ p_pid' = [p_pid EXCEPT ![c] = NewPid] /\ p_ppid' = [p_ppid EXCEPT ![c] = p_pid[p]]
        /\ p_stat[c] = "NULL" /\ c # p /\ p_stat[p] = "SRUN" /\ pc[p] = "user"
        /\ p_pgrp' = [p_pgrp EXCEPT ![c] = p_pgrp[p]] /\ p_flag' = [p_flag EXCEPT ![c] = {}]
        /\ UNCHANGED <<p_sig, tty, ip_lock, ip_req, req>>
        /\ \/ /\ p_stat' = [p_stat EXCEPT ![c] = "SRUN"]
              /\ pc' = [pc EXCEPT ![c] = "user"] /\ UNCHANGED child
           \/ /\ p_stat' = [p_stat EXCEPT ![c] = "SSLEEP", ![p] = "SIDL"]
              /\ pc' = [pc EXCEPT ![c] = "xswap", ![p] = "newproc"]
              /\ child' = [child EXCEPT ![p] = c]
    BY <1>1, <2>1, <2>2 DEF Fork, ipc
  <2>5. pc[c] = "user" /\ p_pid[c] = 0 /\ p_ppid[c] = 0 /\ c # init
    BY <1>t, <2>4 DEF IInv, Base, Places, PlaceAt, Numbers, InitAlive
  <2>6. p_pid[p] # 0
    BY <1>t, <2>4 DEF IInv, Base, Numbers
  <2> QED BY <1>0, <1>t, <2>3, <2>4, <2>5, <2>6 DEF PidsUnique, Processes, Free, InUse
<1>2. ASSUME Forked(p) PROVE PidsUnique'
  <2>1. PICK c \in Slots : c = child[p] /\ pc[c] = "xswap" /\ p_ppid[c] = p_pid[p]
    BY <1>2 DEF Forked, IInv, Base, Copies, Children
  <2>2. /\ p_stat' = [p_stat EXCEPT ![p] = "SRUN", ![c] = "SRUN"]
        /\ pc' = [pc EXCEPT ![p] = "user", ![c] = "user"]
        /\ child' = [child EXCEPT ![p] = 0] /\ c # p /\ pc[p] = "newproc"
        /\ UNCHANGED <<p_pid, p_ppid, p_pgrp, p_flag, p_sig, mpid, tty, ip_lock, ip_req, req, forks>>
    BY <1>2, <2>1 DEF Forked, ipc
  <2>3. p_stat[p] = "SIDL" /\ p_stat[c] = "SSLEEP"
    BY <2>1, <2>2 DEF IInv, Base, Places, PlaceAt
  <2> QED BY <1>0, <1>t, <2>1, <2>2, <2>3 DEF PidsUnique, Processes, Free
<1>3. ASSUME Ttyopen(p) PROVE PidsUnique'
  <2>1. /\ UNCHANGED <<p_pid, p_stat>> /\ p_stat[p] = "SRUN" /\ p_pgrp[p] = 0
        /\ revived \subseteq revived' /\ p_pgrp' = [p_pgrp EXCEPT ![p] = t_pgrp']
    BY <1>3 DEF Ttyopen
  <2>2. Processes' = Processes /\ Processes \subseteq Slots /\ p \in Processes /\ p_pid[p] # 0
    BY <1>0, <2>1 DEF Processes, Free, Numbers
  <2>3. ASSUME NEW x \in Processes, NEW y \in Processes, p_pgrp'[y] = p_pid[x]
        PROVE  p_pgrp'[x] = p_pid[x] \/ p_pid[x] \in revived'
    <3>1. CASE x = p
      <4>1. CASE y = p
        BY <2>3, <3>1, <4>1
      <4>2. CASE y # p
        <5>1. p_pgrp[y] = p_pid[x]
          BY <1>t, <2>1, <2>2, <2>3, <4>2
        <5>2. p_pid[x] \in revived
          BY <1>0, <2>1, <2>2, <3>1, <5>1 DEF PidsUnique
        <5> QED BY <2>1, <5>2
      <4> QED BY <4>1, <4>2
    <3>2. CASE x # p /\ y # p
      <4>1. p_pgrp'[x] = p_pgrp[x] /\ p_pgrp[y] = p_pid[x]
        BY <1>t, <2>1, <2>2, <2>3, <3>2
      <4>2. p_pgrp[x] = p_pid[x] \/ p_pid[x] \in revived
        BY <1>0, <4>1 DEF PidsUnique
      <4> QED BY <2>1, <4>1, <4>2
    <3>3. CASE x # p /\ y = p
      <4>1. p_pgrp'[x] = p_pgrp[x] /\ t_pgrp' = p_pid[x]
        BY <1>t, <2>1, <2>2, <2>3, <3>3
      <4>2. t_pgrp # 0 /\ t_pgrp = p_pid[x]
        BY <1>0, <1>3, <2>2, <3>3, <4>1 DEF Ttyopen, PidsUnique
      <4>3. CASE t_pgrp \in Groups
        <5>1. PICK z \in Processes : p_pgrp[z] = p_pid[x]
          BY <4>2, <4>3 DEF Groups, Processes
        <5>2. p_pgrp[x] = p_pid[x] \/ p_pid[x] \in revived
          BY <1>0, <5>1 DEF PidsUnique
        <5> QED BY <2>1, <4>1, <5>2
      <4>4. CASE t_pgrp \notin Groups
        BY <1>3, <4>2, <4>4 DEF Ttyopen
      <4> QED BY <4>3, <4>4
    <3> QED BY <3>1, <3>2, <3>3
  <2> QED BY <1>0, <2>1, <2>2, <2>3 DEF PidsUnique
<1>4. ASSUME Rexit(p) PROVE PidsUnique'
  BY <1>0, <1>t, <1>4 DEF PidsUnique, Processes, Free, Rexit, Exiting
<1>5. ASSUME TraceMe(p) PROVE PidsUnique'
  BY <1>0, <1>t, <1>5 DEF PidsUnique, Processes, Free, TraceMe
<1>6. ASSUME NEW c \in Slots, NEW r \in Commands, Ptrace(p, c, r) PROVE PidsUnique'
  <2>1. Command(p, c, r) /\ p_stat[p] = "SRUN" /\ pc[p] = "user"
    BY <1>6 DEF Ptrace
  <2>2. /\ p_stat[c] = "SSTOP" /\ pc[c] = "stop" /\ p_ppid[c] = p_pid[p] /\ c # p
        /\ c # init /\ p_pid[c] \in Pids
    BY <1>6, <2>1, CommandFor DEF Ptrace
  <2> QED BY <1>0, <1>t, <2>1, <2>2 DEF PidsUnique, Processes, Free, Command
<1>7. ASSUME NEW c \in Slots, NEW r \in Commands, PtraceWait(p, c, r) PROVE PidsUnique'
  BY <1>0, <1>t, <1>7 DEF PidsUnique, Processes, Free, PtraceWait, Traceable
<1>8. ASSUME NEW n \in Sigs, Psignal(p, n) PROVE PidsUnique'
  BY <1>0, <1>t, <1>8 DEF PidsUnique, Processes, Free, Psignal, Woken
<1>9. ASSUME WaitDead(p) PROVE PidsUnique'
  <2>1. First(News(p)) \in Slots /\ First(News(p)) \in News(p)
    BY <1>9, FirstIn DEF WaitDead, News, Children
  <2>2. PICK c \in Slots : c = First(News(p))
    BY <2>1
  <2>3. c \in Children(p) /\ p_stat[c] = "SZOMB"
    BY <1>9, <2>1, <2>2 DEF WaitDead, News
  <2>4. /\ p_stat' = [p_stat EXCEPT ![c] = "NULL"] /\ p_pid' = [p_pid EXCEPT ![c] = 0]
        /\ p_ppid' = [p_ppid EXCEPT ![c] = 0] /\ p_pgrp' = [p_pgrp EXCEPT ![c] = 0]
        /\ p_flag' = [p_flag EXCEPT ![c] = {}] /\ p_sig' = [p_sig EXCEPT ![c] = {}]
        /\ pc' = [pc EXCEPT ![p] = "user", ![c] = "user"] /\ p_stat[p] = "SRUN"
        /\ pc[p] \in {"user", "wait"} /\ c # p
        /\ UNCHANGED <<mpid, tty, ip_lock, ip_req, child, req, forks>>
    BY <1>9, <2>2, <2>3 DEF WaitDead, ipc, Scans
  <2>5. pc[c] = "exit" /\ c # init /\ p_ppid[c] = p_pid[p]
    BY <1>t, <2>3 DEF IInv, Base, Places, PlaceAt, InitAlive, Children
  <2> QED BY <1>0, <1>t, <2>3, <2>4, <2>5 DEF PidsUnique, Processes, Free
<1>10. ASSUME WaitStopped(p) PROVE PidsUnique'
  BY <1>0, <1>t, <1>10 DEF PidsUnique, Processes, Free, WaitStopped, Scans, News, Stopped
<1>11. ASSUME WaitSleep(p) PROVE PidsUnique'
  BY <1>0, <1>t, <1>11 DEF PidsUnique, Processes, Free, WaitSleep, Scans
<1>12. ASSUME WaitSignal(p) PROVE PidsUnique'
  BY <1>0, <1>t, <1>12 DEF PidsUnique, Processes, Free, WaitSignal, table
<1>13. ASSUME Exit(p) PROVE PidsUnique'
  <2>1. Dies(p)
    BY <1>13, ExitDies
  <2> QED BY <1>0, <1>t, <2>1 DEF PidsUnique, Processes, Free, Dies
<1>14. ASSUME Psig(p) PROVE PidsUnique'
  BY <1>0, <1>t, <1>14 DEF PidsUnique, Processes, Free, Psig, Exiting
<1>15. ASSUME PsigTraced(p) PROVE PidsUnique'
  <2>1. Halts(p) /\ UNCHANGED ip_req
    BY <1>15, StopHalts
  <2> QED BY <1>0, <1>t, <2>1 DEF PidsUnique, Processes, Free, Halts, Exiting
<1>16. ASSUME StopAgain(p) PROVE PidsUnique'
  <2>1. Halts(p) /\ UNCHANGED ip_req
    BY <1>16, StopHalts
  <2> QED BY <1>0, <1>t, <2>1 DEF PidsUnique, Processes, Free, Halts, Exiting
<1>17. ASSUME PtraceLock(p) PROVE PidsUnique'
  <2>1. PICK c \in Slots : c = child[p] /\ c \in Traceable(p)
    BY <1>17 DEF PtraceLock, IInv, TraceServed, Traceable, Children
  <2>2. PICK r \in Commands : r = req[p]
    BY DEF IInv, Base, TypeOK
  <2>3. Command(p, c, r) /\ p_stat[p] = "SRUN" /\ pc[p] = "ptlock"
    BY <1>17, <2>1, <2>2 DEF PtraceLock
  <2>4. /\ p_stat[c] = "SSTOP" /\ pc[c] = "stop" /\ p_ppid[c] = p_pid[p] /\ c # p
        /\ c # init /\ p_pid[c] \in Pids
    BY <2>1, <2>3, CommandFor
  <2> QED BY <1>0, <1>t, <2>3, <2>4 DEF PidsUnique, Processes, Free, Command
<1>18. ASSUME PtraceAgain(p) PROVE PidsUnique'
  BY <1>0, <1>t, <1>18 DEF PidsUnique, Processes, Free, PtraceAgain, Blocked
<1>19. ASSUME PtraceDone(p) PROVE PidsUnique'
  BY <1>0, <1>t, <1>19 DEF PidsUnique, Processes, Free, PtraceDone, IpcWoken
<1>20. ASSUME ProcxmtAccess(p) PROVE PidsUnique'
  <2>1. Halts(p) /\ ip_req' = "done"
    BY <1>20, AccessHalts
  <2> QED BY <1>0, <1>t, <2>1 DEF PidsUnique, Processes, Free, Halts, Exiting
<1>21. ASSUME ProcxmtContinue(p) PROVE PidsUnique'
  BY <1>0, <1>t, <1>21 DEF PidsUnique, Processes, Free, ProcxmtContinue, Exiting, IpcWoken
<1>22. ASSUME ProcxmtExit(p) PROVE PidsUnique'
  BY <1>0, <1>t, <1>22 DEF PidsUnique, Processes, Free, ProcxmtExit, Exiting, IpcWoken
<1>23. ASSUME Ttyclose(p) PROVE PidsUnique'
  BY <1>0, <1>t, <1>23 DEF PidsUnique, Processes, Free, ipc, table, Ttyclose
<1> QED
  BY <1>1, <1>2, <1>3, <1>4, <1>5, <1>6, <1>7, <1>8, <1>9, <1>10, <1>11, <1>12, <1>13, <1>14, <1>15, <1>16, <1>17, <1>18, <1>19, <1>20, <1>21, <1>22,
     <1>23
     DEF User, Wait, Kernel, Traceable, Children

\* Every step leaves every process with a parent that lives.
LEMMA FamilyStep ==
  ASSUME IInv, NEW p \in Slots, User(p) \/ Wait(p) \/ Kernel(p)
  PROVE  Family'
<1> USE DEF At, Goto, Asleep
<1>0. Family /\ Numbers /\ Places /\ InitAlive
  BY DEF IInv, Base
<1>t. /\ p_stat \in [Slots -> {"NULL", "SRUN", "SSLEEP", "SIDL", "SZOMB", "SSTOP"}]
      /\ p_pid \in [Slots -> Pids \cup {0}] /\ p_ppid \in [Slots -> Pids \cup {0}]
      /\ p_pgrp \in [Slots -> Pids \cup {0}] /\ p_sig \in [Slots -> SUBSET Sigs]
      /\ p_flag \in [Slots -> SUBSET {"STRC", "SWTED"}]
      /\ pc \in [Slots -> {"user", "newproc", "xswap", "wait", "exit", "stop", "ptlock", "ptreq"}]
      /\ child \in [Slots -> Slots \cup {0}] /\ 0 \notin Pids /\ 0 \notin Slots
      /\ init \in Slots /\ 1 \in Pids
  BY TypeFacts
<1>1. ASSUME Fork(p) PROVE Family'
  <2>1. First(Free) \in Slots /\ p_stat[First(Free)] = "NULL"
    BY <1>1, FirstIn DEF Fork, Free
  <2>2. PICK c \in Slots : c = First(Free)
    BY <2>1
  <2>3. NewPid \in Pids /\ NewPid \notin InUse
    BY <1>1, NewPidFree DEF Fork, IInv, Base
  <2>4. /\ p_pid' = [p_pid EXCEPT ![c] = NewPid] /\ p_ppid' = [p_ppid EXCEPT ![c] = p_pid[p]]
        /\ p_stat[c] = "NULL" /\ c # p /\ p_stat[p] = "SRUN" /\ pc[p] = "user"
        /\ p_pgrp' = [p_pgrp EXCEPT ![c] = p_pgrp[p]] /\ p_flag' = [p_flag EXCEPT ![c] = {}]
        /\ UNCHANGED <<p_sig, tty, ip_lock, ip_req, req>>
        /\ \/ /\ p_stat' = [p_stat EXCEPT ![c] = "SRUN"]
              /\ pc' = [pc EXCEPT ![c] = "user"] /\ UNCHANGED child
           \/ /\ p_stat' = [p_stat EXCEPT ![c] = "SSLEEP", ![p] = "SIDL"]
              /\ pc' = [pc EXCEPT ![c] = "xswap", ![p] = "newproc"]
              /\ child' = [child EXCEPT ![p] = c]
    BY <1>1, <2>1, <2>2 DEF Fork, ipc
  <2>5. pc[c] = "user" /\ p_pid[c] = 0 /\ p_ppid[c] = 0 /\ c # init
    BY <1>t, <2>4 DEF IInv, Base, Places, PlaceAt, Numbers, InitAlive
  <2>6. p_pid[p] # 0
    BY <1>t, <2>4 DEF IInv, Base, Numbers
  <2> QED BY <1>0, <1>t, <2>3, <2>4, <2>5, <2>6 DEF Family, Processes, Free, Parents
<1>2. ASSUME Forked(p) PROVE Family'
  <2>1. PICK c \in Slots : c = child[p] /\ pc[c] = "xswap" /\ p_ppid[c] = p_pid[p]
    BY <1>2 DEF Forked, IInv, Base, Copies, Children
  <2>2. /\ p_stat' = [p_stat EXCEPT ![p] = "SRUN", ![c] = "SRUN"]
        /\ pc' = [pc EXCEPT ![p] = "user", ![c] = "user"]
        /\ child' = [child EXCEPT ![p] = 0] /\ c # p /\ pc[p] = "newproc"
        /\ UNCHANGED <<p_pid, p_ppid, p_pgrp, p_flag, p_sig, mpid, tty, ip_lock, ip_req, req, forks>>
    BY <1>2, <2>1 DEF Forked, ipc
  <2>3. p_stat[p] = "SIDL" /\ p_stat[c] = "SSLEEP"
    BY <2>1, <2>2 DEF IInv, Base, Places, PlaceAt
  <2> QED BY <1>0, <1>t, <2>1, <2>2, <2>3 DEF Family, Processes, Free, Parents
<1>3. ASSUME Ttyopen(p) PROVE Family'
  BY <1>0, <1>t, <1>3 DEF Family, Processes, Free, Parents, Ttyopen
<1>4. ASSUME Rexit(p) PROVE Family'
  BY <1>0, <1>t, <1>4 DEF Family, Processes, Free, Parents, Rexit, Exiting
<1>5. ASSUME TraceMe(p) PROVE Family'
  BY <1>0, <1>t, <1>5 DEF Family, Processes, Free, Parents, TraceMe
<1>6. ASSUME NEW c \in Slots, NEW r \in Commands, Ptrace(p, c, r) PROVE Family'
  <2>1. Command(p, c, r) /\ p_stat[p] = "SRUN" /\ pc[p] = "user"
    BY <1>6 DEF Ptrace
  <2>2. /\ p_stat[c] = "SSTOP" /\ pc[c] = "stop" /\ p_ppid[c] = p_pid[p] /\ c # p
        /\ c # init /\ p_pid[c] \in Pids
    BY <1>6, <2>1, CommandFor DEF Ptrace
  <2> QED BY <1>0, <1>t, <2>1, <2>2 DEF Family, Processes, Free, Parents, Command
<1>7. ASSUME NEW c \in Slots, NEW r \in Commands, PtraceWait(p, c, r) PROVE Family'
  BY <1>0, <1>t, <1>7 DEF Family, Processes, Free, Parents, PtraceWait, Traceable
<1>8. ASSUME NEW n \in Sigs, Psignal(p, n) PROVE Family'
  BY <1>0, <1>t, <1>8 DEF Family, Processes, Free, Parents, Psignal, Woken
<1>9. ASSUME WaitDead(p) PROVE Family'
  <2>1. First(News(p)) \in Slots /\ First(News(p)) \in News(p)
    BY <1>9, FirstIn DEF WaitDead, News, Children
  <2>2. PICK c \in Slots : c = First(News(p))
    BY <2>1
  <2>3. c \in Children(p) /\ p_stat[c] = "SZOMB"
    BY <1>9, <2>1, <2>2 DEF WaitDead, News
  <2>4. /\ p_stat' = [p_stat EXCEPT ![c] = "NULL"] /\ p_pid' = [p_pid EXCEPT ![c] = 0]
        /\ p_ppid' = [p_ppid EXCEPT ![c] = 0] /\ p_pgrp' = [p_pgrp EXCEPT ![c] = 0]
        /\ p_flag' = [p_flag EXCEPT ![c] = {}] /\ p_sig' = [p_sig EXCEPT ![c] = {}]
        /\ pc' = [pc EXCEPT ![p] = "user", ![c] = "user"] /\ p_stat[p] = "SRUN"
        /\ pc[p] \in {"user", "wait"} /\ c # p
        /\ UNCHANGED <<mpid, tty, ip_lock, ip_req, child, req, forks>>
    BY <1>9, <2>2, <2>3 DEF WaitDead, ipc, Scans
  <2>5. pc[c] = "exit" /\ c # init /\ p_ppid[c] = p_pid[p]
    BY <1>t, <2>3 DEF IInv, Base, Places, PlaceAt, InitAlive, Children
  <2> QED BY <1>0, <1>t, <2>3, <2>4, <2>5 DEF Family, Processes, Free, Parents
<1>10. ASSUME WaitStopped(p) PROVE Family'
  BY <1>0, <1>t, <1>10 DEF Family, Processes, Free, Parents, WaitStopped, Scans, News, Stopped
<1>11. ASSUME WaitSleep(p) PROVE Family'
  BY <1>0, <1>t, <1>11 DEF Family, Processes, Free, Parents, WaitSleep, Scans
<1>12. ASSUME WaitSignal(p) PROVE Family'
  BY <1>0, <1>t, <1>12 DEF Family, Processes, Free, Parents, WaitSignal, table
<1>13. ASSUME Exit(p) PROVE Family'
  <2>1. Dies(p)
    BY <1>13, ExitDies
  <2>2. ASSUME NEW x \in Slots, x # init, p_stat'[x] # "NULL"
        PROVE  /\ \E q \in Slots : p_pid[q] = p_ppid'[x] /\ p_stat'[q] \notin {"NULL", "SZOMB"}
               /\ p_stat'[x] = "SSTOP" => p_ppid'[x] # 1
    <3>1. CASE x \in Children(p)
      BY <1>0, <1>t, <2>1, <2>2, <3>1 DEF Dies, InitAlive
    <3>2. CASE x \notin Children(p)
      <4>1. p_ppid'[x] = p_ppid[x] /\ p_ppid[x] # p_pid[p] /\ p_stat[x] # "NULL"
        BY <1>t, <2>1, <2>2, <3>2 DEF Dies, Children
      <4>2. PICK q \in Slots : p_pid[q] = p_ppid[x] /\ p_stat[q] \notin {"NULL", "SZOMB"}
        BY <1>0, <2>2, <4>1 DEF Family, Processes, Free, Parents
      <4>3. q # p
        BY <4>1, <4>2
      <4>4. p_stat'[q] \notin {"NULL", "SZOMB"}
        BY <2>1, <4>2, <4>3 DEF Dies
      <4>5. p_stat'[x] = "SSTOP" => p_stat[x] = "SSTOP"
        BY <2>1, <2>2 DEF Dies
      <4>6. p_stat[x] = "SSTOP" => p_ppid[x] # 1
        BY <1>0, <2>2, <4>1 DEF Family, Processes, Free
      <4> QED BY <4>1, <4>2, <4>4, <4>5, <4>6
    <3> QED BY <3>1, <3>2
  <2> QED BY <2>1, <2>2 DEF Family, Processes, Free, Parents, Dies
<1>14. ASSUME Psig(p) PROVE Family'
  BY <1>0, <1>t, <1>14 DEF Family, Processes, Free, Parents, Psig, Exiting
<1>15. ASSUME PsigTraced(p) PROVE Family'
  <2>1. Halts(p) /\ UNCHANGED ip_req
    BY <1>15, StopHalts
  <2> QED BY <1>0, <1>t, <2>1 DEF Family, Processes, Free, Parents, Halts, Exiting
<1>16. ASSUME StopAgain(p) PROVE Family'
  <2>1. Halts(p) /\ UNCHANGED ip_req
    BY <1>16, StopHalts
  <2> QED BY <1>0, <1>t, <2>1 DEF Family, Processes, Free, Parents, Halts, Exiting
<1>17. ASSUME PtraceLock(p) PROVE Family'
  <2>1. PICK c \in Slots : c = child[p] /\ c \in Traceable(p)
    BY <1>17 DEF PtraceLock, IInv, TraceServed, Traceable, Children
  <2>2. PICK r \in Commands : r = req[p]
    BY DEF IInv, Base, TypeOK
  <2>3. Command(p, c, r) /\ p_stat[p] = "SRUN" /\ pc[p] = "ptlock"
    BY <1>17, <2>1, <2>2 DEF PtraceLock
  <2>4. /\ p_stat[c] = "SSTOP" /\ pc[c] = "stop" /\ p_ppid[c] = p_pid[p] /\ c # p
        /\ c # init /\ p_pid[c] \in Pids
    BY <2>1, <2>3, CommandFor
  <2> QED BY <1>0, <1>t, <2>3, <2>4 DEF Family, Processes, Free, Parents, Command
<1>18. ASSUME PtraceAgain(p) PROVE Family'
  BY <1>0, <1>t, <1>18 DEF Family, Processes, Free, Parents, PtraceAgain, Blocked
<1>19. ASSUME PtraceDone(p) PROVE Family'
  BY <1>0, <1>t, <1>19 DEF Family, Processes, Free, Parents, PtraceDone, IpcWoken
<1>20. ASSUME ProcxmtAccess(p) PROVE Family'
  <2>1. Halts(p) /\ ip_req' = "done"
    BY <1>20, AccessHalts
  <2> QED BY <1>0, <1>t, <2>1 DEF Family, Processes, Free, Parents, Halts, Exiting
<1>21. ASSUME ProcxmtContinue(p) PROVE Family'
  BY <1>0, <1>t, <1>21 DEF Family, Processes, Free, Parents, ProcxmtContinue, Exiting, IpcWoken
<1>22. ASSUME ProcxmtExit(p) PROVE Family'
  BY <1>0, <1>t, <1>22 DEF Family, Processes, Free, Parents, ProcxmtExit, Exiting, IpcWoken
<1>23. ASSUME Ttyclose(p) PROVE Family'
  BY <1>0, <1>t, <1>23 DEF Family, Processes, Free, Parents, ipc, table, Ttyclose
<1> QED
  BY <1>1, <1>2, <1>3, <1>4, <1>5, <1>6, <1>7, <1>8, <1>9, <1>10, <1>11, <1>12, <1>13, <1>14, <1>15, <1>16, <1>17, <1>18, <1>19, <1>20, <1>21, <1>22,
     <1>23
     DEF User, Wait, Kernel, Traceable, Children

\* Whoever waits is woken by the death, or the stopping, of a child, and by the gift of one.
LEMMA DeathStep ==
  ASSUME IInv, NEW p \in Slots, User(p) \/ Wait(p) \/ Kernel(p)
  PROVE  NoLostDeath'
<1> USE DEF At, Goto, Asleep
<1>0. NoLostDeath /\ Numbers /\ Places /\ InitAlive
  BY DEF IInv, Base
<1>t. /\ p_stat \in [Slots -> {"NULL", "SRUN", "SSLEEP", "SIDL", "SZOMB", "SSTOP"}]
      /\ p_pid \in [Slots -> Pids \cup {0}] /\ p_ppid \in [Slots -> Pids \cup {0}]
      /\ p_pgrp \in [Slots -> Pids \cup {0}] /\ p_sig \in [Slots -> SUBSET Sigs]
      /\ p_flag \in [Slots -> SUBSET {"STRC", "SWTED"}]
      /\ pc \in [Slots -> {"user", "newproc", "xswap", "wait", "exit", "stop", "ptlock", "ptreq"}]
      /\ child \in [Slots -> Slots \cup {0}] /\ 0 \notin Pids /\ 0 \notin Slots
      /\ init \in Slots /\ 1 \in Pids
  BY TypeFacts
<1>1. ASSUME Fork(p) PROVE NoLostDeath'
  <2>1. First(Free) \in Slots /\ p_stat[First(Free)] = "NULL"
    BY <1>1, FirstIn DEF Fork, Free
  <2>2. PICK c \in Slots : c = First(Free)
    BY <2>1
  <2>3. NewPid \in Pids /\ NewPid \notin InUse
    BY <1>1, NewPidFree DEF Fork, IInv, Base
  <2>4. /\ p_pid' = [p_pid EXCEPT ![c] = NewPid] /\ p_ppid' = [p_ppid EXCEPT ![c] = p_pid[p]]
        /\ p_stat[c] = "NULL" /\ c # p /\ p_stat[p] = "SRUN" /\ pc[p] = "user"
        /\ p_pgrp' = [p_pgrp EXCEPT ![c] = p_pgrp[p]] /\ p_flag' = [p_flag EXCEPT ![c] = {}]
        /\ UNCHANGED <<p_sig, tty, ip_lock, ip_req, req>>
        /\ \/ /\ p_stat' = [p_stat EXCEPT ![c] = "SRUN"]
              /\ pc' = [pc EXCEPT ![c] = "user"] /\ UNCHANGED child
           \/ /\ p_stat' = [p_stat EXCEPT ![c] = "SSLEEP", ![p] = "SIDL"]
              /\ pc' = [pc EXCEPT ![c] = "xswap", ![p] = "newproc"]
              /\ child' = [child EXCEPT ![p] = c]
    BY <1>1, <2>1, <2>2 DEF Fork, ipc
  <2>5. pc[c] = "user" /\ p_pid[c] = 0 /\ p_ppid[c] = 0 /\ c # init
    BY <1>t, <2>4 DEF IInv, Base, Places, PlaceAt, Numbers, InitAlive
  <2>6. p_pid[p] # 0
    BY <1>t, <2>4 DEF IInv, Base, Numbers
  <2>7. ASSUME NEW x \in Slots, Asleep(x, {"wait"})'
        PROVE  Asleep(x, {"wait"}) /\ p_pid'[x] = p_pid[x] /\ p_pid[x] # 0 /\ x # c
    BY <1>0, <1>t, <2>4, <2>5, <2>7 DEF Numbers
  <2>8. ASSUME NEW d \in Slots, d # c
        PROVE  /\ p_ppid'[d] = p_ppid[d] /\ p_flag'[d] = p_flag[d]
               /\ p_stat'[d] \in {"SZOMB", "SSTOP"} => p_stat'[d] = p_stat[d]
    BY <1>t, <2>4, <2>8
  <2>9. p_stat'[c] \notin {"SZOMB", "SSTOP"}
    BY <1>t, <2>4
  <2> QED BY <1>0, <2>5, <2>7, <2>8, <2>9 DEF NoLostDeath, News, Children, Stopped
<1>2. ASSUME Forked(p) PROVE NoLostDeath'
  <2>1. PICK c \in Slots : c = child[p] /\ pc[c] = "xswap" /\ p_ppid[c] = p_pid[p]
    BY <1>2 DEF Forked, IInv, Base, Copies, Children
  <2>2. /\ p_stat' = [p_stat EXCEPT ![p] = "SRUN", ![c] = "SRUN"]
        /\ pc' = [pc EXCEPT ![p] = "user", ![c] = "user"]
        /\ child' = [child EXCEPT ![p] = 0] /\ c # p /\ pc[p] = "newproc"
        /\ UNCHANGED <<p_pid, p_ppid, p_pgrp, p_flag, p_sig, mpid, tty, ip_lock, ip_req, req, forks>>
    BY <1>2, <2>1 DEF Forked, ipc
  <2>3. p_stat[p] = "SIDL" /\ p_stat[c] = "SSLEEP"
    BY <2>1, <2>2 DEF IInv, Base, Places, PlaceAt
  <2> QED BY <1>0, <1>t, <2>1, <2>2, <2>3 DEF NoLostDeath, News, Children, Stopped
<1>3. ASSUME Ttyopen(p) PROVE NoLostDeath'
  BY <1>0, <1>t, <1>3 DEF NoLostDeath, News, Children, Stopped, Ttyopen
<1>4. ASSUME Rexit(p) PROVE NoLostDeath'
  BY <1>0, <1>t, <1>4 DEF NoLostDeath, News, Children, Stopped, Rexit, Exiting
<1>5. ASSUME TraceMe(p) PROVE NoLostDeath'
  BY <1>0, <1>t, <1>5 DEF NoLostDeath, News, Children, Stopped, TraceMe
<1>6. ASSUME NEW c \in Slots, NEW r \in Commands, Ptrace(p, c, r) PROVE NoLostDeath'
  <2>1. Command(p, c, r) /\ p_stat[p] = "SRUN" /\ pc[p] = "user"
    BY <1>6 DEF Ptrace
  <2>2. /\ p_stat[c] = "SSTOP" /\ pc[c] = "stop" /\ p_ppid[c] = p_pid[p] /\ c # p
        /\ c # init /\ p_pid[c] \in Pids
    BY <1>6, <2>1, CommandFor DEF Ptrace
  <2> QED BY <1>0, <1>t, <2>1, <2>2 DEF NoLostDeath, News, Children, Stopped, Command
<1>7. ASSUME NEW c \in Slots, NEW r \in Commands, PtraceWait(p, c, r) PROVE NoLostDeath'
  BY <1>0, <1>t, <1>7 DEF NoLostDeath, News, Children, Stopped, PtraceWait, Traceable
<1>8. ASSUME NEW n \in Sigs, Psignal(p, n) PROVE NoLostDeath'
  BY <1>0, <1>t, <1>8 DEF NoLostDeath, News, Children, Stopped, Psignal, Woken
<1>9. ASSUME WaitDead(p) PROVE NoLostDeath'
  <2>1. First(News(p)) \in Slots /\ First(News(p)) \in News(p)
    BY <1>9, FirstIn DEF WaitDead, News, Children
  <2>2. PICK c \in Slots : c = First(News(p))
    BY <2>1
  <2>3. c \in Children(p) /\ p_stat[c] = "SZOMB"
    BY <1>9, <2>1, <2>2 DEF WaitDead, News
  <2>4. /\ p_stat' = [p_stat EXCEPT ![c] = "NULL"] /\ p_pid' = [p_pid EXCEPT ![c] = 0]
        /\ p_ppid' = [p_ppid EXCEPT ![c] = 0] /\ p_pgrp' = [p_pgrp EXCEPT ![c] = 0]
        /\ p_flag' = [p_flag EXCEPT ![c] = {}] /\ p_sig' = [p_sig EXCEPT ![c] = {}]
        /\ pc' = [pc EXCEPT ![p] = "user", ![c] = "user"] /\ p_stat[p] = "SRUN"
        /\ pc[p] \in {"user", "wait"} /\ c # p
        /\ UNCHANGED <<mpid, tty, ip_lock, ip_req, child, req, forks>>
    BY <1>9, <2>2, <2>3 DEF WaitDead, ipc, Scans
  <2>5. pc[c] = "exit" /\ c # init /\ p_ppid[c] = p_pid[p]
    BY <1>t, <2>3 DEF IInv, Base, Places, PlaceAt, InitAlive, Children
  <2> QED BY <1>0, <1>t, <2>3, <2>4, <2>5 DEF NoLostDeath, News, Children, Stopped
<1>10. ASSUME WaitStopped(p) PROVE NoLostDeath'
  BY <1>0, <1>t, <1>10 DEF NoLostDeath, News, Children, Stopped, WaitStopped, Scans, News, Stopped
<1>11. ASSUME WaitSleep(p) PROVE NoLostDeath'
  BY <1>0, <1>t, <1>11 DEF NoLostDeath, News, Children, Stopped, WaitSleep, Scans
<1>12. ASSUME WaitSignal(p) PROVE NoLostDeath'
  BY <1>0, <1>t, <1>12 DEF NoLostDeath, News, Children, Stopped, WaitSignal, table
<1>13. ASSUME Exit(p) PROVE NoLostDeath'
  <2>1. Dies(p)
    BY <1>13, ExitDies
  <2>2. ASSUME NEW x \in Slots, Asleep(x, {"wait"})'
        PROVE  Children(x)' = Children(x) /\ Asleep(x, {"wait"}) /\ p_pid[x] # p_ppid[p]
    <3>1. x # p /\ Asleep(x, {"wait"}) /\ p_pid[x] # p_ppid[p] /\ ~(x = init /\ Children(p) # {})
      BY <2>1, <2>2 DEF Dies
    <3>2. p_pid[x] # p_pid[p]
      BY <2>1, <3>1, OneNumber DEF Dies
    <3>3. x # init => p_pid[x] # 1
      BY <1>0, <1>t, <3>1, OneNumber DEF InitAlive
    <3> QED BY <2>1, <3>1, <3>2, <3>3 DEF Dies, Children
  <2>3. ASSUME NEW x \in Slots, Asleep(x, {"wait"})', NEW d \in Slots, d \in Children(x)
        PROVE  ~(p_stat'[d] = "SZOMB" \/ Stopped(d)')
    <3>1. ~(p_stat[d] = "SZOMB" \/ Stopped(d)) /\ d # p
      BY <1>0, <2>2, <2>3 DEF NoLostDeath, News, Children
    <3> QED BY <2>1, <3>1 DEF Dies, Stopped
  <2> QED BY <1>0, <2>2, <2>3 DEF NoLostDeath, News, Children
<1>14. ASSUME Psig(p) PROVE NoLostDeath'
  BY <1>0, <1>t, <1>14 DEF NoLostDeath, News, Children, Stopped, Psig, Exiting
<1>15. ASSUME PsigTraced(p) PROVE NoLostDeath'
  <2>1. Halts(p) /\ UNCHANGED ip_req
    BY <1>15, StopHalts
  <2> QED BY <1>0, <1>t, <2>1 DEF NoLostDeath, News, Children, Stopped, Halts, Exiting
<1>16. ASSUME StopAgain(p) PROVE NoLostDeath'
  <2>1. Halts(p) /\ UNCHANGED ip_req
    BY <1>16, StopHalts
  <2> QED BY <1>0, <1>t, <2>1 DEF NoLostDeath, News, Children, Stopped, Halts, Exiting
<1>17. ASSUME PtraceLock(p) PROVE NoLostDeath'
  <2>1. PICK c \in Slots : c = child[p] /\ c \in Traceable(p)
    BY <1>17 DEF PtraceLock, IInv, TraceServed, Traceable, Children
  <2>2. PICK r \in Commands : r = req[p]
    BY DEF IInv, Base, TypeOK
  <2>3. Command(p, c, r) /\ p_stat[p] = "SRUN" /\ pc[p] = "ptlock"
    BY <1>17, <2>1, <2>2 DEF PtraceLock
  <2>4. /\ p_stat[c] = "SSTOP" /\ pc[c] = "stop" /\ p_ppid[c] = p_pid[p] /\ c # p
        /\ c # init /\ p_pid[c] \in Pids
    BY <2>1, <2>3, CommandFor
  <2> QED BY <1>0, <1>t, <2>3, <2>4 DEF NoLostDeath, News, Children, Stopped, Command
<1>18. ASSUME PtraceAgain(p) PROVE NoLostDeath'
  BY <1>0, <1>t, <1>18 DEF NoLostDeath, News, Children, Stopped, PtraceAgain, Blocked
<1>19. ASSUME PtraceDone(p) PROVE NoLostDeath'
  BY <1>0, <1>t, <1>19 DEF NoLostDeath, News, Children, Stopped, PtraceDone, IpcWoken
<1>20. ASSUME ProcxmtAccess(p) PROVE NoLostDeath'
  <2>1. Halts(p) /\ ip_req' = "done"
    BY <1>20, AccessHalts
  <2> QED BY <1>0, <1>t, <2>1 DEF NoLostDeath, News, Children, Stopped, Halts, Exiting
<1>21. ASSUME ProcxmtContinue(p) PROVE NoLostDeath'
  BY <1>0, <1>t, <1>21 DEF NoLostDeath, News, Children, Stopped, ProcxmtContinue, Exiting, IpcWoken
<1>22. ASSUME ProcxmtExit(p) PROVE NoLostDeath'
  BY <1>0, <1>t, <1>22 DEF NoLostDeath, News, Children, Stopped, ProcxmtExit, Exiting, IpcWoken
<1>23. ASSUME Ttyclose(p) PROVE NoLostDeath'
  BY <1>0, <1>t, <1>23 DEF NoLostDeath, News, Children, Stopped, ipc, table, Ttyclose
<1> QED
  BY <1>1, <1>2, <1>3, <1>4, <1>5, <1>6, <1>7, <1>8, <1>9, <1>10, <1>11, <1>12, <1>13, <1>14, <1>15, <1>16, <1>17, <1>18, <1>19, <1>20, <1>21, <1>22,
     <1>23
     DEF User, Wait, Kernel, Traceable, Children

\* A step leaves the tracers alone, but for waking them, and the children they have
\* found.
Kept ==
  /\ UNCHANGED <<p_pid, child, ip_lock>>
  /\ \A x \in Slots : pc[x] \in {"ptreq", "ptlock"} \/ pc'[x] \in {"ptreq", "ptlock"} => pc'[x] = pc[x]
  /\ \A x \in Slots : pc[x] = "ptlock" =>
       /\ p_stat'[child[x]] = "SSTOP" /\ p_ppid'[child[x]] = p_ppid[child[x]]
       /\ p_stat'[x] = "SSLEEP" => p_stat[x] = "SSLEEP"
  /\ \A x \in Slots : pc[x] = "ptreq" =>
       /\ p_stat'[x] = "SSLEEP" => ip_req' \in Commands
       /\ ip_req' \in Commands =>
            /\ ip_req \in Commands /\ p_ppid'[child[x]] = p_ppid[child[x]]
            /\ p_stat'[child[x]] = "SRUN" /\ pc'[child[x]] = "stop"

\* Such a step leaves the command to the child it is for.
LEMMA KeptServes ==
  ASSUME TraceServed, Kept
  PROVE  TraceServed'
<1> USE DEF At, Asleep, Kept, TraceServed
<1>1. Tracers' = Tracers
  BY DEF Tracers
<1>2. ASSUME NEW x \in Tracers
      PROVE  /\ ip_req' \in Commands => At(child[x], "stop")' /\ child[x] \in Children(x)' /\ p_pid'[child[x]] = ip_lock'
             /\ Asleep(x, {"ptreq"})' => ip_req' \in Commands
  <2>1. x \in Slots /\ pc[x] = "ptreq" /\ pc'[x] = "ptreq"
    BY DEF Tracers
  <2> QED BY <2>1 DEF Children
<1>3. ASSUME NEW x \in Slots, pc'[x] = "ptlock"
      PROVE  child[x] \in Traceable(x)' /\ (p_stat'[x] = "SSLEEP" => ip_lock' # 0)
  <2>1. pc[x] = "ptlock" /\ child[x] \in Traceable(x) /\ (p_stat[x] = "SSLEEP" => ip_lock # 0)
    BY <1>3
  <2> QED BY <2>1 DEF Traceable, Children
<1>4. \A x, y \in Tracers' : x = y
  BY <1>1
<1>5. ip_lock' # 0 <=> Tracers' # {}
  BY <1>1
<1>6. child' = child
  OBVIOUS
<1> HIDE DEF At, Asleep, Kept
<1> QED BY <1>1, <1>2, <1>3, <1>4, <1>5, <1>6

\* A command is left for a child that is set running to take it.
LEMMA CommandServes ==
  ASSUME IInv, NEW p \in Slots, NEW c \in Slots, NEW r \in Commands,
         c \in Traceable(p), Command(p, c, r), p_stat[p] = "SRUN"
  PROVE  TraceServed'
<1> USE DEF At, Asleep
<1>t. /\ p_stat \in [Slots -> {"NULL", "SRUN", "SSLEEP", "SIDL", "SZOMB", "SSTOP"}]
      /\ pc \in [Slots -> {"user", "newproc", "xswap", "wait", "exit", "stop", "ptlock", "ptreq"}]
      /\ child \in [Slots -> Slots \cup {0}] /\ 0 \notin Pids /\ 0 \notin Slots
  BY TypeFacts
<1>1. /\ p_stat[c] = "SSTOP" /\ pc[c] = "stop" /\ p_ppid[c] = p_pid[p] /\ c # p
      /\ c # init /\ p_pid[c] \in Pids
  BY CommandFor
<1>2. /\ p_stat' = [p_stat EXCEPT ![c] = "SRUN", ![p] = "SSLEEP"]
      /\ pc' = [pc EXCEPT ![p] = "ptreq"] /\ child' = [child EXCEPT ![p] = c]
      /\ ip_lock = 0 /\ ip_lock' = p_pid[c] /\ ip_req' = r /\ UNCHANGED <<p_pid, p_ppid>>
  BY DEF Command, Goto
<1>3. \A x \in Slots : pc[x] # "ptreq"
  BY <1>2 DEF IInv, TraceServed, Tracers
<1>4. Tracers' = {p}
  BY <1>t, <1>2, <1>3 DEF Tracers
<1>5. /\ At(c, "stop")' /\ c \in Children(p)' /\ p_pid'[c] = ip_lock' /\ ip_req' \in Commands
      /\ child'[p] = c /\ ip_lock' # 0
  BY <1>t, <1>1, <1>2 DEF Children
<1>6. ASSUME NEW x \in Slots, pc'[x] = "ptlock"
      PROVE  child'[x] \in Traceable(x)'
  <2>1. x # p /\ pc[x] = "ptlock" /\ child'[x] = child[x]
    BY <1>t, <1>2, <1>6
  <2>2. child[x] \in Slots /\ p_stat[child[x]] = "SSTOP" /\ p_ppid[child[x]] = p_pid[x]
    BY <2>1 DEF IInv, TraceServed, Traceable, Children
  <2>3. child[x] # c
    BY <1>1, <2>1, <2>2, OneNumber
  <2>4. child[x] # p
    BY <2>2
  <2> QED BY <1>t, <1>2, <2>1, <2>2, <2>3, <2>4 DEF Traceable, Children
<1> HIDE DEF At, Asleep
<1> QED BY <1>4, <1>5, <1>6 DEF TraceServed

\* Every step leaves the command to the child it is for.
LEMMA TraceStep ==
  ASSUME IInv, NEW p \in Slots, User(p) \/ Wait(p) \/ Kernel(p)
  PROVE  TraceServed'
<1> USE DEF At, Goto, Asleep
<1>0. TraceServed /\ Numbers /\ Places
  BY DEF IInv, Base
<1>t. /\ p_stat \in [Slots -> {"NULL", "SRUN", "SSLEEP", "SIDL", "SZOMB", "SSTOP"}]
      /\ p_pid \in [Slots -> Pids \cup {0}] /\ p_ppid \in [Slots -> Pids \cup {0}]
      /\ p_pgrp \in [Slots -> Pids \cup {0}] /\ p_sig \in [Slots -> SUBSET Sigs]
      /\ p_flag \in [Slots -> SUBSET {"STRC", "SWTED"}]
      /\ pc \in [Slots -> {"user", "newproc", "xswap", "wait", "exit", "stop", "ptlock", "ptreq"}]
      /\ child \in [Slots -> Slots \cup {0}] /\ 0 \notin Pids /\ 0 \notin Slots
      /\ init \in Slots /\ 1 \in Pids
  BY TypeFacts
<1>u. /\ \A x \in Slots : pc[x] = "ptlock" =>
           /\ child[x] \in Slots /\ p_stat[child[x]] = "SSTOP" /\ p_ppid[child[x]] = p_pid[x]
           /\ p_stat[x] = "SSLEEP" => ip_lock # 0
      /\ \A x \in Slots : pc[x] = "ptreq" =>
           /\ p_stat[x] = "SSLEEP" => ip_req \in Commands
           /\ ip_req \in Commands =>
                /\ child[x] \in Slots /\ p_ppid[child[x]] = p_pid[x] /\ pc[child[x]] = "stop"
                /\ p_stat[child[x]] = "SRUN" /\ p_pid[child[x]] = ip_lock
      /\ \A x \in Slots : pc[x] \in {"ptlock", "ptreq"} => p_stat[x] # "NULL"
  BY <1>0, <1>t DEF TraceServed, Tracers, Traceable, Children, Places, PlaceAt
<1>1. ASSUME Fork(p) PROVE TraceServed'
  <2>1. First(Free) \in Slots /\ p_stat[First(Free)] = "NULL"
    BY <1>1, FirstIn DEF Fork, Free
  <2>2. PICK c \in Slots : c = First(Free)
    BY <2>1
  <2>3. NewPid \in Pids /\ NewPid \notin InUse
    BY <1>1, NewPidFree DEF Fork, IInv, Base
  <2>4. /\ p_pid' = [p_pid EXCEPT ![c] = NewPid] /\ p_ppid' = [p_ppid EXCEPT ![c] = p_pid[p]]
        /\ p_stat[c] = "NULL" /\ c # p /\ p_stat[p] = "SRUN" /\ pc[p] = "user"
        /\ p_pgrp' = [p_pgrp EXCEPT ![c] = p_pgrp[p]] /\ p_flag' = [p_flag EXCEPT ![c] = {}]
        /\ UNCHANGED <<p_sig, tty, ip_lock, ip_req, req>>
        /\ \/ /\ p_stat' = [p_stat EXCEPT ![c] = "SRUN"]
              /\ pc' = [pc EXCEPT ![c] = "user"] /\ UNCHANGED child
           \/ /\ p_stat' = [p_stat EXCEPT ![c] = "SSLEEP", ![p] = "SIDL"]
              /\ pc' = [pc EXCEPT ![c] = "xswap", ![p] = "newproc"]
              /\ child' = [child EXCEPT ![p] = c]
    BY <1>1, <2>1, <2>2 DEF Fork, ipc
  <2>5. pc[c] = "user" /\ p_pid[c] = 0 /\ p_ppid[c] = 0 /\ c # init
    BY <1>t, <2>4 DEF IInv, Base, Places, PlaceAt, Numbers, InitAlive
  <2>6. p_pid[p] # 0
    BY <1>t, <2>4 DEF IInv, Base, Numbers
  <2> QED BY <1>0, <1>t, <2>3, <2>4, <2>5, <2>6 DEF TraceServed, Tracers, Traceable, Children, ipc
<1>2. ASSUME Forked(p) PROVE TraceServed'
  <2>1. PICK c \in Slots : c = child[p] /\ pc[c] = "xswap" /\ p_ppid[c] = p_pid[p]
    BY <1>2 DEF Forked, IInv, Base, Copies, Children
  <2>2. /\ p_stat' = [p_stat EXCEPT ![p] = "SRUN", ![c] = "SRUN"]
        /\ pc' = [pc EXCEPT ![p] = "user", ![c] = "user"]
        /\ child' = [child EXCEPT ![p] = 0] /\ c # p /\ pc[p] = "newproc"
        /\ UNCHANGED <<p_pid, p_ppid, p_pgrp, p_flag, p_sig, mpid, tty, ip_lock, ip_req, req, forks>>
    BY <1>2, <2>1 DEF Forked, ipc
  <2>3. p_stat[p] = "SIDL" /\ p_stat[c] = "SSLEEP"
    BY <2>1, <2>2 DEF IInv, Base, Places, PlaceAt
  <2> QED BY <1>0, <1>t, <2>1, <2>2, <2>3 DEF TraceServed, Tracers, Traceable, Children, ipc
<1>3. ASSUME Ttyopen(p) PROVE TraceServed'
  BY <1>0, <1>t, <1>3 DEF TraceServed, Tracers, Traceable, Children, ipc, Ttyopen
<1>4. ASSUME Rexit(p) PROVE TraceServed'
  BY <1>0, <1>t, <1>4 DEF TraceServed, Tracers, Traceable, Children, ipc, Rexit, Exiting
<1>5. ASSUME TraceMe(p) PROVE TraceServed'
  BY <1>0, <1>t, <1>5 DEF TraceServed, Tracers, Traceable, Children, ipc, TraceMe
<1>6. ASSUME NEW c \in Slots, NEW r \in Commands, Ptrace(p, c, r) PROVE TraceServed'
  BY <1>6, CommandServes DEF Ptrace
<1>7. ASSUME NEW c \in Slots, NEW r \in Commands, PtraceWait(p, c, r) PROVE TraceServed'
  BY <1>0, <1>t, <1>7 DEF TraceServed, Tracers, Traceable, Children, ipc, PtraceWait, Traceable
<1>8. ASSUME NEW n \in Sigs, Psignal(p, n) PROVE TraceServed'
  BY <1>0, <1>t, <1>8 DEF TraceServed, Tracers, Traceable, Children, ipc, Psignal, Woken
<1>9. ASSUME WaitDead(p) PROVE TraceServed'
  <2>1. First(News(p)) \in Slots /\ First(News(p)) \in News(p)
    BY <1>9, FirstIn DEF WaitDead, News, Children
  <2>2. PICK c \in Slots : c = First(News(p))
    BY <2>1
  <2>3. c \in Children(p) /\ p_stat[c] = "SZOMB"
    BY <1>9, <2>1, <2>2 DEF WaitDead, News
  <2>4. /\ p_stat' = [p_stat EXCEPT ![c] = "NULL"] /\ p_pid' = [p_pid EXCEPT ![c] = 0]
        /\ p_ppid' = [p_ppid EXCEPT ![c] = 0] /\ p_pgrp' = [p_pgrp EXCEPT ![c] = 0]
        /\ p_flag' = [p_flag EXCEPT ![c] = {}] /\ p_sig' = [p_sig EXCEPT ![c] = {}]
        /\ pc' = [pc EXCEPT ![p] = "user", ![c] = "user"] /\ p_stat[p] = "SRUN"
        /\ pc[p] \in {"user", "wait"} /\ c # p
        /\ UNCHANGED <<mpid, tty, ip_lock, ip_req, child, req, forks>>
    BY <1>9, <2>2, <2>3 DEF WaitDead, ipc, Scans
  <2>5. pc[c] = "exit" /\ c # init /\ p_ppid[c] = p_pid[p]
    BY <1>t, <2>3 DEF IInv, Base, Places, PlaceAt, InitAlive, Children
  <2> QED BY <1>0, <1>t, <2>3, <2>4, <2>5, SMTT(30) DEF TraceServed, Tracers, Traceable, Children, ipc
<1>10. ASSUME WaitStopped(p) PROVE TraceServed'
  BY <1>0, <1>t, <1>10 DEF TraceServed, Tracers, Traceable, Children, ipc, WaitStopped, Scans, News, Stopped
<1>11. ASSUME WaitSleep(p) PROVE TraceServed'
  BY <1>0, <1>t, <1>11 DEF TraceServed, Tracers, Traceable, Children, ipc, WaitSleep, Scans
<1>12. ASSUME WaitSignal(p) PROVE TraceServed'
  BY <1>0, <1>t, <1>12 DEF TraceServed, Tracers, Traceable, Children, ipc, WaitSignal, table
<1>13. ASSUME Exit(p) PROVE TraceServed'
  <2>1. Dies(p)
    BY <1>13, ExitDies
  <2>2. \A x \in Slots : pc[x] \in {"ptlock", "ptreq"} => p_pid[x] # p_pid[p]
    BY <1>u, <2>1, OneNumber DEF Dies
  <2>9. Kept
    BY <1>t, <1>u, <2>1, <2>2 DEF Kept, Dies, Children
  <2> QED BY <1>0, KeptServes, <2>9
<1>14. ASSUME Psig(p) PROVE TraceServed'
  BY <1>0, <1>t, <1>14 DEF TraceServed, Tracers, Traceable, Children, ipc, Psig, Exiting
<1>15. ASSUME PsigTraced(p) PROVE TraceServed'
  <2>1. Halts(p) /\ UNCHANGED ip_req /\ (pc[p] = "stop" => ip_lock # p_pid[p])
    BY <1>15, StopHalts DEF PsigTraced, StopAgain
  <2>2. /\ UNCHANGED <<p_pid, p_ppid, child, ip_lock>>
        /\ \A x \in Slots : x # p => pc'[x] = pc[x]
        /\ pc'[p] \in {"stop", "exit"} /\ pc[p] \in {"user", "stop"}
    BY <1>t, <2>1 DEF Halts, Exiting
  <2>3. \A x \in Slots : x # p => \/ p_stat'[x] = p_stat[x]
                                  \/ p_stat[x] = "SSLEEP" /\ p_stat'[x] = "SRUN"
    BY <2>1 DEF Halts
  <2>4. p_stat[p] = "SRUN"
    BY <2>1 DEF Halts
  <2>9. Kept
    BY <1>u, <2>1, <2>2, <2>3, <2>4 DEF Kept
  <2> QED BY <1>0, KeptServes, <2>9
<1>16. ASSUME StopAgain(p) PROVE TraceServed'
  <2>1. Halts(p) /\ UNCHANGED ip_req /\ (pc[p] = "stop" => ip_lock # p_pid[p])
    BY <1>16, StopHalts DEF PsigTraced, StopAgain
  <2>2. /\ UNCHANGED <<p_pid, p_ppid, child, ip_lock>>
        /\ \A x \in Slots : x # p => pc'[x] = pc[x]
        /\ pc'[p] \in {"stop", "exit"} /\ pc[p] \in {"user", "stop"}
    BY <1>t, <2>1 DEF Halts, Exiting
  <2>3. \A x \in Slots : x # p => \/ p_stat'[x] = p_stat[x]
                                  \/ p_stat[x] = "SSLEEP" /\ p_stat'[x] = "SRUN"
    BY <2>1 DEF Halts
  <2>4. p_stat[p] = "SRUN"
    BY <2>1 DEF Halts
  <2>9. Kept
    BY <1>u, <2>1, <2>2, <2>3, <2>4 DEF Kept
  <2> QED BY <1>0, KeptServes, <2>9
<1>17. ASSUME PtraceLock(p) PROVE TraceServed'
  <2>1. PICK c \in Slots : c = child[p] /\ c \in Traceable(p)
    BY <1>17, <1>u DEF PtraceLock, Traceable, Children
  <2>2. PICK r \in Commands : r = req[p]
    BY DEF IInv, Base, TypeOK
  <2> QED BY <1>17, <2>1, <2>2, CommandServes DEF PtraceLock
<1>18. ASSUME PtraceAgain(p) PROVE TraceServed'
  BY <1>0, <1>t, <1>18 DEF TraceServed, Tracers, Traceable, Children, ipc, PtraceAgain, Blocked
<1>19. ASSUME PtraceDone(p) PROVE TraceServed'
  BY <1>0, <1>t, <1>19 DEF TraceServed, Tracers, Traceable, Children, ipc, PtraceDone, IpcWoken
<1>20. ASSUME ProcxmtAccess(p) PROVE TraceServed'
  <2>1. /\ Halts(p) /\ ip_req' = "done"
        /\ \A q \in Slots : p_stat[q] = "SSLEEP" /\ pc[q] \in {"ptlock", "ptreq"} => p_stat'[q] = "SRUN"
    BY <1>20, AccessHalts
  <2>2. /\ UNCHANGED <<p_pid, p_ppid, child, ip_lock>>
        /\ \A x \in Slots : x # p => pc'[x] = pc[x]
        /\ pc'[p] \in {"stop", "exit"} /\ pc[p] \in {"user", "stop"}
    BY <1>t, <2>1 DEF Halts, Exiting
  <2>3. \A x \in Slots : x # p => \/ p_stat'[x] = p_stat[x]
                                  \/ p_stat[x] = "SSLEEP" /\ p_stat'[x] = "SRUN"
    BY <2>1 DEF Halts
  <2>4. p_stat[p] = "SRUN"
    BY <2>1 DEF Halts
  <2>9. Kept
    BY <1>u, <2>1, <2>2, <2>3, <2>4 DEF Kept, Commands
  <2> QED BY <1>0, KeptServes, <2>9
<1>21. ASSUME ProcxmtContinue(p) PROVE TraceServed'
  <2>1. /\ UNCHANGED <<p_pid, p_ppid, child, ip_lock>> /\ ip_req' = "done" /\ p_stat[p] = "SRUN"
        /\ \A x \in Slots : x # p => pc'[x] = pc[x]
        /\ pc'[p] \in {"user", "exit"} /\ pc[p] = "stop"
    BY <1>t, <1>21 DEF ProcxmtContinue, Exiting
  <2>2. \A x \in Slots : p_stat'[x] = IF p_stat[x] = "SSLEEP" /\ pc[x] \in {"ptlock", "ptreq"} THEN "SRUN" ELSE p_stat[x]
    BY <1>t, <1>21 DEF ProcxmtContinue, IpcWoken
  <2>9. Kept
    BY <1>u, <2>1, <2>2 DEF Kept, Commands
  <2> QED BY <1>0, KeptServes, <2>9
<1>22. ASSUME ProcxmtExit(p) PROVE TraceServed'
  <2>1. /\ UNCHANGED <<p_pid, p_ppid, child, ip_lock>> /\ ip_req' = "done" /\ p_stat[p] = "SRUN"
        /\ \A x \in Slots : x # p => pc'[x] = pc[x]
        /\ pc'[p] \in {"user", "exit"} /\ pc[p] = "stop"
    BY <1>t, <1>22 DEF ProcxmtExit, Exiting
  <2>2. \A x \in Slots : p_stat'[x] = IF p_stat[x] = "SSLEEP" /\ pc[x] \in {"ptlock", "ptreq"} THEN "SRUN" ELSE p_stat[x]
    BY <1>t, <1>22 DEF ProcxmtExit, IpcWoken
  <2>9. Kept
    BY <1>u, <2>1, <2>2 DEF Kept, Commands
  <2> QED BY <1>0, KeptServes, <2>9
<1>23. ASSUME Ttyclose(p) PROVE TraceServed'
  BY <1>0, <1>t, <1>23 DEF TraceServed, Tracers, Traceable, Children, ipc, table, Ttyclose
<1> QED
  BY <1>1, <1>2, <1>3, <1>4, <1>5, <1>6, <1>7, <1>8, <1>9, <1>10, <1>11, <1>12, <1>13, <1>14, <1>15, <1>16, <1>17, <1>18, <1>19, <1>20, <1>21, <1>22,
     <1>23
     DEF User, Wait, Kernel, Traceable, Children

\* The invariant holds when init is alone.
LEMMA InitInv == Init => IInv
<1> SUFFICES ASSUME Init PROVE IInv
  OBVIOUS
<1>1. /\ NPROC \in Nat \ {0} /\ MAXPID \in Nat \ {0, 1} /\ LastPid \in 1 .. MAXPID - 1 /\ MaxForks \in Nat
      /\ init \in Slots /\ 1 \in Pids /\ 0 \notin Pids /\ mpid \in Pids /\ forks \in 0 .. MaxForks
  BY ProcAssumption DEF Slots, Pids, init, Init
<1>2. TypeOK
  BY <1>1 DEF Init, TypeOK, Commands
<1>3. \A s \in Slots : /\ p_stat[s] = (IF s = init THEN "SRUN" ELSE "NULL")
                       /\ p_pid[s] = (IF s = init THEN 1 ELSE 0)
                       /\ p_ppid[s] = 0 /\ p_pgrp[s] = 0 /\ p_sig[s] = {} /\ pc[s] = "user"
  BY DEF Init
<1>4. Places /\ Numbers /\ Copies /\ NoLostDeath
  BY <1>3 DEF Places, PlaceAt, Numbers, Copies, NoLostDeath, Asleep
<1>5. InitAlive
  BY <1>1, <1>3 DEF InitAlive
<1>6. PidsUnique /\ Family
  BY <1>3 DEF PidsUnique, Family, Processes, Free
<1>7. TraceServed
  <2>1. Tracers = {} /\ ip_lock = 0
    BY <1>3 DEF Tracers, Init
  <2> QED BY <1>3, <2>1 DEF TraceServed
<1> QED BY <1>2, <1>4, <1>5, <1>6, <1>7 DEF IInv, Base

\* The invariant, of every behaviour of the kernel.
THEOREM Invariance == Spec => []IInv
<1>1. Init => IInv
  BY InitInv
<1>2. IInv /\ [Next]_vars => IInv'
  <2> SUFFICES ASSUME IInv, [Next]_vars PROVE IInv'
    OBVIOUS
  <2>1. CASE Next
    <3>1. PICK p \in Slots : User(p) \/ Wait(p) \/ Kernel(p)
      BY <2>1 DEF Next
    <3>2. TypeOK' /\ Places' /\ Numbers' /\ InitAlive' /\ Copies'
      BY <3>1, TypeStep, PlacesStep, NumbersStep, InitStep, CopiesStep
    <3>3. PidsUnique' /\ Family' /\ NoLostDeath' /\ TraceServed'
      BY <3>1, PidsStep, FamilyStep, DeathStep, TraceStep
    <3> QED BY <3>2, <3>3 DEF IInv, Base
  <2>2. CASE UNCHANGED vars
    BY <2>2 DEF vars, IInv, Base, TypeOK, Places, PlaceAt, Numbers, InitAlive, Copies, PidsUnique,
                Processes, Free, Family, Parents, NoLostDeath, News, Stopped, TraceServed, Tracers,
                Traceable, Children, At, Asleep
  <2> QED BY <2>1, <2>2
<1> QED BY <1>1, <1>2, PTL DEF Spec

\* The fields of the process table, and the area ptrace() and procxmt() share,
\* keep their types; newproc() never gives a number of 30000 or more, nor 0.
THEOREM TypeCorrect == Spec => []TypeOK
<1>1. IInv => TypeOK
  BY DEF IInv, Base
<1> QED BY <1>1, Invariance, PTL

\* newproc() never gives a process the number of another, nor that of a group
\* which has members left.
THEOREM PidsCorrect == Spec => []PidsUnique
<1>1. IInv => PidsUnique
  BY DEF IInv
<1> QED BY <1>1, Invariance, PTL

\* However parents and children exit(), every process has a parent that can
\* wait() for it, and no stopped process is left to init.
THEOREM FamilyCorrect == Spec => []Family
<1>1. IInv => Family
  BY DEF IInv
<1> QED BY <1>1, Invariance, PTL

\* The wakeups of exit() and stop() are enough: nobody sleeps in wait() while
\* there is something to say of a child.
THEOREM DeathCorrect == Spec => []NoLostDeath
<1>1. IInv => NoLostDeath
  BY DEF IInv
<1> QED BY <1>1, Invariance, PTL

\* ptrace() and procxmt() use the shared area one pair at a time, and the child
\* that was found before sleep() on its lock is still stopped after it.
THEOREM TraceCorrect == Spec => []TraceServed
<1>1. IInv => TraceServed
  BY DEF IInv
<1> QED BY <1>1, Invariance, PTL
=============================================================================
