------------------------------ MODULE SlpProofs -----------------------------
(***************************************************************************)
(* Proofs about sleeping, waking and the swapper, for any number of        *)
(* processes, channels and sleep queues.                                   *)
(***************************************************************************)
EXTENDS Slp, FiniteSetTheorems, SequenceTheorems, NaturalsInduction, WellFoundedInduction, TLAPS

(***************************************************************************)
(* The inductive invariant.                                                *)
(***************************************************************************)

\* A call of wakeup() within another takes the swapper off the queue just where
\* the outer one stands.  That happens only when &runout and the outer channel
\* hash to one queue; the kernel does not see to it that it never does: see
\* RunQueueExact in the run slp_shared_queue.
Tears == WakeupMatch /\ Len(wk) = 2 /\ Head(wk).p \in {wk[2].p, wk[2].q}

\* The k-th process of a list of m, NULL past its end.
Nth(m, s, k) == IF k < m THEN s[k] ELSE NULL

\* s lists m processes, which are linked from head on.
Chain(m, s, head, link) ==
  /\ m \in Nat /\ s \in [0 .. m - 1 -> Procs]
  /\ \A j, k \in 0 .. m - 1 : s[j] = s[k] => j = k
  /\ head = Nth(m, s, 0)
  /\ \A k \in 0 .. m - 1 : link[s[k]] = Nth(m, s, k + 1)

Members(m, s) == {s[k] : k \in 0 .. m - 1}

\* A call of wakeup() is at the k-th process of a list, and nobody before it
\* sleeps on its channel any more.
FrameAt(f, m, s, k, wchan) ==
  /\ f.q = (IF k = 0 THEN NULL ELSE s[k - 1])
  /\ f.p = Nth(m, s, k)
  /\ \A j \in 0 .. k - 1 : wchan[s[j]] # f.chan

\* Those that sleep on a channel of queue h.
Sleepers(wchan, h) == {p \in Procs : wchan[p] # NULL /\ Hash[wchan[p]] = h}

\* Queue h is a list of its sleepers, and each call of wakeup() is somewhere in it.
Listed(m, s, head, link, wchan, frames, h) ==
  /\ Chain(m, s, head, link)
  /\ Members(m, s) = Sleepers(wchan, h)
  /\ \A i \in DOMAIN frames :
       Hash[frames[i].chan] = h => \E k \in 0 .. m : FrameAt(frames[i], m, s, k, wchan)

SleepQueue(h) == \E m, s : Listed(m, s, slpque[h], p_link, p_wchan, wk, h)

\* Where a process has given the processor up, or is about to.
GivenUp == {"sleep.runin", "swtch", "swtch.stop", "swtch.runout", "swtch.runin",
            "swtch.swapin", "swtch.swapout"}

\* A process that swtch() may choose.
Runnable(p) == p_stat[p] = "SRUN" /\ (cur = p => pc[p] \in GivenUp)

\* The run queue is a list of runnable processes: of all of them, but for those
\* setrun() is about to add.
Runners(m, s) ==
  \A p \in Procs : /\ Runnable(p) /\ ~InSetrun(p) => p \in Members(m, s)
                   /\ p \in Members(m, s) => Runnable(p)

RunQueue == \E m, s : Chain(m, s, runq, p_link) /\ Runners(m, s)

\* A process sleeps on a channel or on none; the swapper has channels of its own.
Asleep ==
  \A p \in Procs :
    /\ p_stat[p] = "SSLEEP" <=> p_wchan[p] # NULL
    /\ p_wchan[p] # NULL => p_wchan[p] \in (IF p = Sched THEN {Runin, Runout, Swbuf} ELSE Chans)

\* Where a process can be.
UserPlaces == {"body", "sleep.runin", "swtch", "psig", "stop", "swtch.stop", "restarted"}
SchedPlaces == {"loop", "try", "decide", "swapin", "swapout", "swtch.runout", "swtch.runin",
                "swtch.swapin", "swtch.swapout"}

Places ==
  /\ pc \in [Procs -> UserPlaces \cup SchedPlaces]
  /\ \A p \in Procs :
       /\ pc[p] \in (IF p = Sched THEN SchedPlaces ELSE UserPlaces)
       /\ cur = p /\ pc[p] \notin GivenUp => p_stat[p] = "SRUN"
       /\ cur # p => pc[p] \in {"body", "restarted", "loop", "swapin", "swapout"}
  /\ pc[Sched] \in {"try", "swapin", "swapout", "swtch.swapin", "swtch.swapout"} => swp # NULL

\* Where psignal() and setrun() are, and whom they work for.
Calls ==
  /\ spc \in [Contexts -> {"idle", "psignal", "setrun", "setrun.wakeup", "setrun.run",
                           "setrun.setrq", "setrun.runout"}]
  /\ tgt \in [Contexts -> Users \cup {NULL}] /\ w \in [Contexts -> Chans \cup {NULL}]
  /\ \A c \in Contexts :
       /\ spc[c] # "idle" => tgt[c] # NULL
       /\ spc[c] # "idle" /\ c # Intr => cur = c /\ pc[c] = "body"
       /\ spc[c] \in {"setrun", "setrun.run", "setrun.setrq"} /\ tgt[c] = cur => pc[cur] \in GivenUp
       /\ spc[c] = "setrun.wakeup" => w[c] # NULL
       /\ spc[c] = "setrun.run" => p_wchan[tgt[c]] = NULL
       /\ spc[c] = "setrun.setrq" => p_stat[tgt[c]] = "SRUN"

FrameSet == [chan : Channels, p : Procs \cup {NULL}, q : Procs \cup {NULL}]

\* The calls of wakeup(): one within another is for the swapper.
Frames ==
  \/ wk = <<>>
  \/ \E f \in FrameSet : wk = <<f>>
  \/ \E f, g \in FrameSet : wk = <<f, g>> /\ f.chan = Runout /\ g.chan \in Chans

\* wakeup(c) is in progress.
Called(c) == \E i \in DOMAIN wk : wk[i].chan = c

\* The flags the swapper is woken by: it sleeps as long as they are set, and
\* whoever wakes it has cleared them.
Flags ==
  /\ Called(Runout) => ~runout
  /\ Called(Runin) => ~runin
  /\ runout => p_wchan[Sched] = Runout
  /\ runin => p_wchan[Sched] = Runin
  /\ p_wchan[Sched] = Runout => runout \/ Called(Runout)
  /\ p_wchan[Sched] = Runin => runin \/ Called(Runin)
  /\ runout => \A p \in Waiting : \E c \in Contexts : /\ tgt[c] = p
                                                      /\ spc[c] \in {"setrun.setrq", "setrun.runout"}

\* The variables that no other part speaks of.
Types ==
  /\ p_stat \in [Procs -> {"SSLEEP", "SRUN", "SSTOP"}]
  /\ p_pri \in [Procs -> 0 .. PUSER]
  /\ p_wchan \in [Procs -> Channels \cup {NULL}]
  /\ p_link \in [Procs -> Procs \cup {NULL}]
  /\ p_sig \in [Procs -> BOOLEAN]
  /\ load \subseteq Procs /\ Sched \in load
  /\ lock \subseteq Users
  /\ slpque \in [Queues -> Procs \cup {NULL}]
  /\ runq \in Procs \cup {NULL}
  /\ runin \in BOOLEAN /\ runout \in BOOLEAN
  /\ cur \in Procs \cup {NULL}
  /\ swp \in Users \cup {NULL}
  /\ niced \subseteq Users

\* What the control of the processes keeps, whatever the sleep queues are.
Control == Types /\ Places /\ Asleep /\ Calls /\ Frames

\* What the queues keep.
Lists == Flags /\ RunQueue /\ \A h \in Queues : SleepQueue(h)

IInv == Control /\ Lists


-----------------------------------------------------------------------------
(* Lists.                                                                  *)

\* A set of numbers that is not empty has a least member.
LEMMA LeastMember ==
  ASSUME NEW T, T \subseteq Nat, T # {}
  PROVE  \E n \in T : \A m \in T : n <= m
<1> DEFINE R == {xy \in Nat \X Nat : xy[1] < xy[2]}
<1>1. IsWellFoundedOn(R, Nat)
  BY NatLessThanWellFounded DEF OpToRel
<1> HIDE DEF R
<1>2. PICK x \in T : \A y \in T : <<y, x>> \notin R
  BY <1>1, WFMin
<1>3. ASSUME NEW y \in T PROVE x <= y
  <2>1. ~(y < x)
    BY <1>2 DEF R
  <2> QED BY <2>1
<1> QED BY <1>3

\* There are finitely many processes, and NULL is none of them.
LEMMA ProcsFinite == IsFiniteSet(Procs) /\ Cardinality(Procs) \in Nat /\ NULL \notin Procs
<1>1. IsFiniteSet(Procs)
  BY SlpAssumption, FS_AddElement DEF Procs
<1> QED BY <1>1, FS_CardinalityType, SlpAssumption

\* A list is no longer than there are processes.
LEMMA ChainShort ==
  ASSUME NEW m, NEW s, NEW head, NEW link, Chain(m, s, head, link)
  PROVE  m <= Cardinality(Procs)
<1>1. m \in Nat /\ s \in [0 .. m - 1 -> Procs] /\ \A j, k \in 0 .. m - 1 : s[j] = s[k] => j = k
  BY DEF Chain
<1>2. s \in Injection(0 .. m - 1, Procs)
  BY <1>1 DEF Injection, IsInjective
<1>3. Cardinality(0 .. m - 1) <= Cardinality(Procs)
  BY <1>2, ProcsFinite, FS_Injection
<1>4. 0 \in Int /\ m - 1 \in Int
  BY <1>1
<1>5. Cardinality(0 .. m - 1) = IF 0 > m - 1 THEN 0 ELSE (m - 1) - 0 + 1
  BY <1>4, FS_Interval
<1>6. Cardinality(0 .. m - 1) = m
  BY <1>1, <1>5
<1> QED BY <1>3, <1>6

\* Walk is what its definition says.
LEMMA WalkStep ==
  ASSUME NEW head, NEW link
  PROVE  /\ DOMAIN Walk(head, link) = 0 .. Cardinality(Procs)
         /\ Walk(head, link)[0] = head
         /\ \A n \in 1 .. Cardinality(Procs) :
              Walk(head, link)[n] = IF Walk(head, link)[n - 1] = NULL THEN NULL
                                    ELSE link[Walk(head, link)[n - 1]]
<1> DEFINE Step(g, n) == IF n = 0 THEN head ELSE IF g[n - 1] = NULL THEN NULL ELSE link[g[n - 1]]
           Is(g, N) == g = [n \in 0 .. N |-> Step(g, n)]
<1>1. \A N \in Nat : \E g : Is(g, N)
  <2> DEFINE T == {N \in Nat : ~ \E g : Is(g, N)}
  <2> SUFFICES ASSUME T # {} PROVE FALSE
    OBVIOUS
  <2>1. PICK N \in T : \A j \in T : N <= j
    BY LeastMember
  <2>2. CASE N = 0
    <3>1. PICK g : g = [n \in 0 .. 0 |-> head]
      OBVIOUS
    <3>2. \A n \in 0 .. 0 : n = 0
      OBVIOUS
    <3>3. \A n \in 0 .. 0 : Step(g, n) = head
      BY <3>2
    <3>4. Is(g, 0)
      BY <3>1, <3>3
    <3> QED BY <2>1, <2>2, <3>4
  <2>3. CASE N # 0
    <3>1. N - 1 \in Nat /\ N \in Nat /\ ~(N <= N - 1)
      BY <2>1, <2>3
    <3>2. PICK g : Is(g, N - 1)
      BY <2>1, <3>1
    <3>3. PICK h : h = [n \in 0 .. N |-> IF n = N THEN Step(g, n) ELSE g[n]]
      OBVIOUS
    <3>4. ASSUME NEW n \in 0 .. N PROVE h[n] = Step(h, n)
      <4>1. n # 0 => n - 1 \in 0 .. N /\ n - 1 # N
        BY <3>1
      <4>2. n # 0 => h[n - 1] = g[n - 1]
        BY <3>3, <4>1
      <4>3. Step(h, n) = Step(g, n)
        BY <4>2
      <4>4. CASE n = N
        BY <3>3, <4>3, <4>4
      <4>5. CASE n # N
        <5>1. n \in 0 .. N - 1
          BY <3>1, <4>5
        <5>2. g[n] = Step(g, n)
          BY <3>2, <5>1
        <5> QED BY <3>3, <4>3, <4>5, <5>2
      <4> QED BY <4>4, <4>5
    <3>5. Is(h, N)
      BY <3>3, <3>4
    <3> QED BY <2>1, <3>5
  <2> QED BY <2>2, <2>3
<1>2. PICK N \in Nat : N = Cardinality(Procs)
  BY ProcsFinite
<1>3. PICK g : Is(g, N)
  BY <1>1
<1>4. PICK v : v = Walk(head, link)
  OBVIOUS
<1>5. Is(v, N)
  BY <1>2, <1>3, <1>4 DEF Walk
<1>6. DOMAIN v = 0 .. N /\ \A n \in 0 .. N : v[n] = Step(v, n)
  BY <1>5
<1>7. 0 \in 0 .. N /\ \A n \in 1 .. N : n \in 0 .. N /\ n # 0
  BY <1>2
<1> QED BY <1>2, <1>4, <1>6, <1>7

\* It stays among the processes and NULL.
LEMMA WalkType ==
  ASSUME NEW link \in [Procs -> Procs \cup {NULL}], NEW head \in Procs \cup {NULL}
  PROVE  \A n \in 0 .. Cardinality(Procs) : Walk(head, link)[n] \in Procs \cup {NULL}
<1>1. PICK N \in Nat : N = Cardinality(Procs)
  BY ProcsFinite
<1>2. PICK v : v = Walk(head, link)
  OBVIOUS
<1>3. v[0] = head /\ \A n \in 1 .. N : v[n] = IF v[n - 1] = NULL THEN NULL ELSE link[v[n - 1]]
  BY <1>1, <1>2, WalkStep
<1> DEFINE T == {n \in 0 .. N : v[n] \notin Procs \cup {NULL}}
<1>4. ASSUME T # {} PROVE FALSE
  <2>1. T \subseteq Nat
    OBVIOUS
  <2>2. PICK n \in T : \A j \in T : n <= j
    BY <1>4, <2>1, LeastMember
  <2>3. CASE n = 0
    BY <1>3, <2>2, <2>3
  <2>4. CASE n # 0
    <3>1. n - 1 \in 0 .. N /\ n \in 1 .. N /\ ~(n <= n - 1)
      BY <2>2, <2>4
    <3>2. v[n - 1] \in Procs \cup {NULL}
      BY <2>2, <3>1
    <3>3. v[n] = IF v[n - 1] = NULL THEN NULL ELSE link[v[n - 1]]
      BY <1>3, <3>1
    <3>4. v[n] \in Procs \cup {NULL}
      BY <3>2, <3>3
    <3> QED BY <2>2, <3>4
  <2> QED BY <2>3, <2>4
<1> QED BY <1>1, <1>2, <1>4

\* Walk goes along the list, and stays at its end.
LEMMA WalkIs ==
  ASSUME NEW m, NEW s, NEW head, NEW link, Chain(m, s, head, link)
  PROVE  /\ DOMAIN Walk(head, link) = 0 .. Cardinality(Procs)
         /\ \A n \in 0 .. Cardinality(Procs) : Walk(head, link)[n] = Nth(m, s, n)
<1>0. Cardinality(Procs) \in Nat /\ NULL \notin Procs
  BY ProcsFinite
<1>1. /\ m \in Nat /\ s \in [0 .. m - 1 -> Procs] /\ head = Nth(m, s, 0)
      /\ \A k \in 0 .. m - 1 : link[s[k]] = Nth(m, s, k + 1)
  BY DEF Chain
<1>2. PICK N \in Nat : N = Cardinality(Procs)
  BY <1>0
<1>3. PICK v : v = Walk(head, link)
  OBVIOUS
<1>4. /\ DOMAIN v = 0 .. N /\ v[0] = head
      /\ \A n \in 1 .. N : v[n] = IF v[n - 1] = NULL THEN NULL ELSE link[v[n - 1]]
  BY <1>2, <1>3, WalkStep
<1>5. \A n \in 0 .. N : v[n] = Nth(m, s, n)
  <2> DEFINE T == {n \in 0 .. N : v[n] # Nth(m, s, n)}
  <2> SUFFICES ASSUME T # {} PROVE FALSE
    OBVIOUS
  <2>1. T \subseteq Nat
    OBVIOUS
  <2>2. PICK n \in T : \A j \in T : n <= j
    BY <2>1, LeastMember
  <2>3. n \in 0 .. N /\ v[n] # Nth(m, s, n)
    BY <2>2
  <2>4. n # 0
    BY <1>1, <1>4, <2>3
  <2>5. n - 1 \in 0 .. N /\ n - 1 \notin T /\ n \in 1 .. N /\ (n - 1) + 1 = n /\ n \in Nat
    BY <2>2, <2>3, <2>4
  <2>6. v[n - 1] = Nth(m, s, n - 1)
    BY <2>5
  <2>7. v[n] = IF v[n - 1] = NULL THEN NULL ELSE link[v[n - 1]]
    BY <1>4, <2>5
  <2>8. CASE n - 1 < m
    <3>1. n - 1 \in 0 .. m - 1
      BY <1>1, <2>5, <2>8
    <3>2. v[n - 1] = s[n - 1] /\ s[n - 1] \in Procs
      BY <1>1, <2>6, <2>8, <3>1 DEF Nth
    <3>3. link[s[n - 1]] = Nth(m, s, n)
      BY <1>1, <2>5, <3>1
    <3> QED BY <1>0, <2>3, <2>7, <3>2, <3>3
  <2>9. CASE ~(n - 1 < m)
    <3>1. ~(n < m)
      BY <1>1, <2>5, <2>9
    <3> QED BY <2>3, <2>6, <2>7, <2>9, <3>1 DEF Nth
  <2> QED BY <2>8, <2>9
<1> QED BY <1>2, <1>3, <1>4, <1>5

\* So OnQueue and Ends say of a list what they should.
LEMMA ChainWalked ==
  ASSUME NEW m, NEW s, NEW head, NEW link, Chain(m, s, head, link)
  PROVE  /\ Walk(head, link)[Cardinality(Procs)] = NULL
         /\ \A p \in Procs : OnQueue(head, link, p) <=> p \in Members(m, s)
<1>1. /\ Cardinality(Procs) \in Nat /\ NULL \notin Procs /\ m <= Cardinality(Procs)
      /\ m \in Nat
      /\ \A n \in 0 .. Cardinality(Procs) : Walk(head, link)[n] = Nth(m, s, n)
  <2>1. m <= Cardinality(Procs)
    BY ChainShort
  <2>2. \A n \in 0 .. Cardinality(Procs) : Walk(head, link)[n] = Nth(m, s, n)
    BY WalkIs
  <2>3. m \in Nat
    BY DEF Chain
  <2> QED BY <2>1, <2>2, <2>3, ProcsFinite
<1>2. Walk(head, link)[Cardinality(Procs)] = NULL
  <2>1. Cardinality(Procs) \in 0 .. Cardinality(Procs) /\ ~(Cardinality(Procs) < m)
    BY <1>1
  <2> QED BY <1>1, <2>1 DEF Nth
<1>3. ASSUME NEW p \in Procs, OnQueue(head, link, p) PROVE p \in Members(m, s)
  <2>1. PICK n \in 0 .. Cardinality(Procs) : Nth(m, s, n) = p
    BY <1>1, <1>3 DEF OnQueue
  <2>2. n < m /\ s[n] = p
    BY <1>1, <2>1 DEF Nth
  <2>3. n \in 0 .. m - 1
    BY <1>1, <2>2
  <2> QED BY <2>2, <2>3 DEF Members
<1>4. ASSUME NEW p \in Procs, p \in Members(m, s) PROVE OnQueue(head, link, p)
  <2>1. PICK k \in 0 .. m - 1 : s[k] = p
    BY <1>4 DEF Members
  <2>2. k \in 0 .. Cardinality(Procs) /\ k < m
    BY <1>1
  <2>3. Walk(head, link)[k] = p
    BY <1>1, <2>1, <2>2 DEF Nth
  <2> QED BY <2>2, <2>3 DEF OnQueue
<1> QED BY <1>2, <1>3, <1>4

\* A list whose links are left alone stays a list.
LEMMA ChainKeep ==
  ASSUME NEW m, NEW s, NEW head, NEW link, Chain(m, s, head, link),
         NEW link2, \A p \in Members(m, s) : link2[p] = link[p]
  PROVE  Chain(m, s, head, link2)
<1>1. \A k \in 0 .. m - 1 : link2[s[k]] = link[s[k]]
  BY DEF Members
<1> QED BY <1>1 DEF Chain

\* A process is put in front.
LEMMA ChainPush ==
  ASSUME NEW link, NEW m, NEW s, NEW head, Chain(m, s, head, link),
         NEW p \in Procs, p \notin Members(m, s),
         NEW l, l[p] = head, \A q \in Procs : q # p => l[q] = link[q]
  PROVE  \E n, t : Chain(n, t, p, l) /\ Members(n, t) = Members(m, s) \cup {p}
<1>1. /\ m \in Nat /\ s \in [0 .. m - 1 -> Procs] /\ head = Nth(m, s, 0)
      /\ \A k \in 0 .. m - 1 : link[s[k]] = Nth(m, s, k + 1)
      /\ \A j, k \in 0 .. m - 1 : s[j] = s[k] => j = k
  BY DEF Chain
<1>2. PICK t : t = [k \in 0 .. m |-> IF k = 0 THEN p ELSE s[k - 1]]
  OBVIOUS
<1>4. l[p] = head /\ \A q \in Procs : q # p => l[q] = link[q]
  OBVIOUS
<1>5. \A k \in 0 .. m - 1 : s[k] # p /\ s[k] \in Procs
  BY <1>1 DEF Members
<1>6. t[0] = p /\ \A k \in 1 .. m : k - 1 \in 0 .. m - 1 /\ t[k] = s[k - 1] /\ k # 0 /\ k \in 0 .. m
  BY <1>1, <1>2
<1>7. m + 1 \in Nat /\ (m + 1) - 1 = m /\ t \in [0 .. m -> Procs]
  <2>1. \A k \in 0 .. m : k = 0 \/ k \in 1 .. m
    BY <1>1
  <2>2. \A k \in 0 .. m : t[k] \in Procs
    BY <1>5, <1>6, <2>1
  <2> QED BY <1>1, <1>2, <2>2
<1>8. ASSUME NEW j \in 0 .. m, NEW k \in 0 .. m, t[j] = t[k] PROVE j = k
  <2>1. (j = 0 \/ j \in 1 .. m) /\ (k = 0 \/ k \in 1 .. m)
    BY <1>1
  <2>2. CASE j = 0 \/ k = 0
    BY <1>5, <1>6, <1>8, <2>1, <2>2
  <2>3. CASE j \in 1 .. m /\ k \in 1 .. m
    <3>1. j - 1 = k - 1
      BY <1>1, <1>6, <1>8, <2>3
    <3> QED BY <2>3, <3>1
  <2> QED BY <2>1, <2>2, <2>3
<1>9. p = Nth(m + 1, t, 0)
  BY <1>1, <1>6 DEF Nth
<1>10. ASSUME NEW k \in 0 .. m PROVE l[t[k]] = Nth(m + 1, t, k + 1)
  <2>1. CASE k = 0
    <3>1. l[t[0]] = Nth(m, s, 0)
      BY <1>1, <1>4, <1>6
    <3>2. CASE m = 0
      BY <2>1, <3>1, <3>2 DEF Nth
    <3>3. CASE m # 0
      <4>1. 0 < m /\ 1 < m + 1 /\ 1 \in 1 .. m
        BY <1>1, <3>3
      <4>2. t[1] = s[0]
        BY <1>6, <4>1
      <4> QED BY <2>1, <3>1, <4>1, <4>2 DEF Nth
    <3> QED BY <3>2, <3>3
  <2>2. CASE k # 0
    <3>1. k \in 1 .. m /\ k - 1 \in 0 .. m - 1 /\ (k - 1) + 1 = k
      BY <1>1, <2>2
    <3>2. l[t[k]] = link[s[k - 1]] /\ link[s[k - 1]] = Nth(m, s, k)
      BY <1>1, <1>4, <1>5, <1>6, <3>1
    <3>3. CASE k < m
      <4>1. k + 1 < m + 1 /\ k + 1 \in 1 .. m /\ (k + 1) - 1 = k
        BY <1>1, <3>1, <3>3
      <4>2. t[k + 1] = s[k]
        BY <1>6, <4>1
      <4> QED BY <3>2, <3>3, <4>1, <4>2 DEF Nth
    <3>4. CASE ~(k < m)
      <4>1. ~(k + 1 < m + 1)
        BY <1>1, <3>1, <3>4
      <4> QED BY <3>2, <3>4, <4>1 DEF Nth
    <3> QED BY <3>3, <3>4
  <2> QED BY <2>1, <2>2
<1>11. Chain(m + 1, t, p, l)
  BY <1>7, <1>8, <1>9, <1>10 DEF Chain
<1>12. Members(m + 1, t) = Members(m, s) \cup {p}
  <2>1. ASSUME NEW k \in 0 .. m PROVE t[k] \in Members(m, s) \cup {p}
    <3>1. k = 0 \/ k \in 1 .. m
      BY <1>1
    <3> QED BY <1>6, <3>1 DEF Members
  <2>2. ASSUME NEW k \in 0 .. m - 1 PROVE \E j \in 0 .. m : t[j] = s[k]
    <3>1. k + 1 \in 1 .. m /\ (k + 1) - 1 = k /\ k + 1 \in 0 .. m
      BY <1>1
    <3> QED BY <1>6, <3>1
  <2>3. 0 \in 0 .. m
    BY <1>1
  <2>4. Members(m + 1, t) = {t[k] : k \in 0 .. m}
    BY <1>7 DEF Members
  <2>5. p \in Members(m + 1, t)
    BY <1>6, <2>3, <2>4
  <2>6. Members(m, s) \subseteq Members(m + 1, t)
    BY <2>2, <2>4 DEF Members
  <2>7. Members(m + 1, t) \subseteq Members(m, s) \cup {p}
    BY <2>1, <2>4
  <2> QED BY <2>5, <2>6, <2>7
<1> QED BY <1>11, <1>12

\* The list without its k-th process.
Without(m, s, k) == [j \in 0 .. m - 2 |-> IF j < k THEN s[j] ELSE s[j + 1]]

\* The process before it is linked to the one behind it, or the head is.
LEMMA ChainRemove ==
  ASSUME NEW link, NEW m, NEW s, NEW head, Chain(m, s, head, link), NEW k \in 0 .. m - 1,
         NEW head2, head2 = (IF k = 0 THEN link[s[k]] ELSE head),
         NEW link2, \A p \in Procs : link2[p] = IF k # 0 /\ p = s[k - 1] THEN link[s[k]] ELSE link[p]
  PROVE  \E t : /\ t = Without(m, s, k) /\ Chain(m - 1, t, head2, link2)
                /\ Members(m - 1, t) = Members(m, s) \ {s[k]}
<1>1. /\ m \in Nat /\ s \in [0 .. m - 1 -> Procs] /\ head = Nth(m, s, 0)
      /\ \A i \in 0 .. m - 1 : link[s[i]] = Nth(m, s, i + 1)
      /\ \A i, j \in 0 .. m - 1 : s[i] = s[j] => i = j
  BY DEF Chain
<1>2. PICK t : t = Without(m, s, k)
  OBVIOUS
<1>3. \A j \in 0 .. m - 2 : /\ j < k => t[j] = s[j] /\ j \in 0 .. m - 1
                            /\ ~(j < k) => t[j] = s[j + 1] /\ j + 1 \in 0 .. m - 1 /\ j + 1 # k
  BY <1>1, <1>2 DEF Without
<1>4. m - 1 \in Nat /\ (m - 1) - 1 = m - 2 /\ t \in [0 .. m - 2 -> Procs]
  <2>1. \A j \in 0 .. m - 2 : t[j] \in Procs
    BY <1>1, <1>3
  <2> QED BY <1>1, <1>2, <2>1 DEF Without
<1>5. ASSUME NEW i \in 0 .. m - 2, NEW j \in 0 .. m - 2, t[i] = t[j] PROVE i = j
  <2>1. CASE i < k /\ j < k
    BY <1>1, <1>3, <1>5, <2>1
  <2>2. CASE ~(i < k) /\ ~(j < k)
    <3>1. i + 1 = j + 1
      BY <1>1, <1>3, <1>5, <2>2
    <3> QED BY <1>1, <3>1
  <2>3. CASE i < k /\ ~(j < k)
    <3>1. i = j + 1
      BY <1>1, <1>3, <1>5, <2>3
    <3> QED BY <1>1, <2>3, <3>1
  <2>4. CASE ~(i < k) /\ j < k
    <3>1. j = i + 1
      BY <1>1, <1>3, <1>5, <2>4
    <3> QED BY <1>1, <2>4, <3>1
  <2> QED BY <2>1, <2>2, <2>3, <2>4
<1>6. k # 0 => k - 1 \in 0 .. m - 1 /\ (k - 1) + 1 = k /\ head2 = head
  BY <1>1
\* who comes next, for those that stay
<1>7. ASSUME NEW i \in 0 .. m - 1, i # k
      PROVE  link2[s[i]] = IF i + 1 = k THEN Nth(m, s, k + 1) ELSE Nth(m, s, i + 1)
  <2>1. s[i] \in Procs /\ link[s[i]] = Nth(m, s, i + 1) /\ link[s[k]] = Nth(m, s, k + 1)
    BY <1>1
  <2>2. CASE k = 0
    <3>1. i + 1 # k /\ link2[s[i]] = link[s[i]]
      BY <2>1, <2>2
    <3> QED BY <2>1, <3>1
  <2>3. CASE k # 0 /\ i = k - 1
    <3>1. i + 1 = k
      BY <1>6, <2>3
    <3>2. link2[s[i]] = link[s[k]]
      BY <2>1, <2>3
    <3> QED BY <2>1, <3>1, <3>2
  <2>4. CASE k # 0 /\ i # k - 1
    <3>1. i + 1 # k /\ s[i] # s[k - 1]
      BY <1>1, <1>6, <2>4
    <3>2. link2[s[i]] = link[s[i]]
      BY <2>1, <3>1
    <3> QED BY <2>1, <3>1, <3>2
  <2> QED BY <2>2, <2>3, <2>4
<1>8. \A i \in Nat : Nth(m - 1, t, i) = IF i < k THEN s[i] ELSE Nth(m, s, i + 1)
  <2> TAKE i \in Nat
  <2>1. CASE i < m - 1
    <3>1. i \in 0 .. m - 2 /\ i + 1 < m
      BY <1>1, <2>1
    <3> QED BY <1>3, <2>1, <3>1 DEF Nth
  <2>2. CASE ~(i < m - 1)
    <3>1. ~(i < k) /\ ~(i + 1 < m)
      BY <1>1, <2>2
    <3> QED BY <2>2, <3>1 DEF Nth
  <2> QED BY <2>1, <2>2
<1>9. head2 = Nth(m - 1, t, 0)
  <2>1. CASE k = 0
    <3>1. head2 = Nth(m, s, k + 1) /\ ~(0 < k)
      BY <1>1, <2>1
    <3> QED BY <1>8, <2>1, <3>1
  <2>2. CASE k # 0
    <3>1. 0 < k /\ 0 < m
      BY <1>1, <2>2
    <3>2. head2 = s[0]
      BY <1>1, <1>6, <2>2, <3>1 DEF Nth
    <3> QED BY <1>8, <3>1, <3>2
  <2> QED BY <2>1, <2>2
<1>10. ASSUME NEW j \in 0 .. m - 2 PROVE link2[t[j]] = Nth(m - 1, t, j + 1)
  <2>0. j \in Nat /\ j + 1 \in Nat /\ k \in Nat
    BY <1>1
  <2>1. CASE j < k
    <3>1. j \in 0 .. m - 1 /\ j # k /\ t[j] = s[j]
      BY <1>3, <2>0, <2>1
    <3>2. link2[t[j]] = IF j + 1 = k THEN Nth(m, s, k + 1) ELSE Nth(m, s, j + 1)
      BY <1>7, <3>1
    <3>3. CASE j + 1 = k
      <4>1. ~(j + 1 < k)
        BY <2>0, <3>3
      <4> QED BY <1>8, <2>0, <3>2, <3>3, <4>1
    <3>4. CASE j + 1 # k
      <4>1. j + 1 < k /\ j + 1 < m
        BY <1>1, <2>0, <2>1, <3>4
      <4>2. Nth(m - 1, t, j + 1) = s[j + 1]
        BY <1>8, <2>0, <4>1
      <4> QED BY <3>2, <3>4, <4>1, <4>2 DEF Nth
    <3> QED BY <3>3, <3>4
  <2>2. CASE ~(j < k)
    <3>1. j + 1 \in 0 .. m - 1 /\ j + 1 # k /\ t[j] = s[j + 1]
      BY <1>3, <2>2
    <3>2. (j + 1) + 1 # k /\ ~(j + 1 < k)
      BY <2>0, <2>2
    <3>3. link2[t[j]] = Nth(m, s, (j + 1) + 1)
      BY <1>7, <3>1, <3>2
    <3> QED BY <1>8, <2>0, <3>2, <3>3
  <2> QED BY <2>1, <2>2
<1>11. Chain(m - 1, t, head2, link2)
  BY <1>4, <1>5, <1>9, <1>10 DEF Chain
<1>12. Members(m - 1, t) = Members(m, s) \ {s[k]}
  <2>1. ASSUME NEW j \in 0 .. m - 2 PROVE t[j] \in Members(m, s) \ {s[k]}
    <3>1. CASE j < k
      <4>1. j \in 0 .. m - 1 /\ j # k /\ t[j] = s[j]
        BY <1>1, <1>3, <3>1
      <4> QED BY <1>1, <4>1 DEF Members
    <3>2. CASE ~(j < k)
      <4>1. j + 1 \in 0 .. m - 1 /\ j + 1 # k /\ t[j] = s[j + 1]
        BY <1>3, <3>2
      <4> QED BY <1>1, <4>1 DEF Members
    <3> QED BY <3>1, <3>2
  <2>2. ASSUME NEW i \in 0 .. m - 1, s[i] # s[k] PROVE \E j \in 0 .. m - 2 : t[j] = s[i]
    <3>1. CASE i < k
      <4>1. i \in 0 .. m - 2
        BY <1>1, <3>1
      <4> QED BY <1>3, <3>1, <4>1
    <3>2. CASE ~(i < k)
      <4>1. i - 1 \in 0 .. m - 2 /\ ~(i - 1 < k) /\ (i - 1) + 1 = i
        BY <1>1, <2>2, <3>2
      <4> QED BY <1>3, <4>1
    <3> QED BY <3>1, <3>2
  <2>3. Members(m - 1, t) = {t[j] : j \in 0 .. m - 2}
    BY <1>4 DEF Members
  <2>4. Members(m - 1, t) \subseteq Members(m, s) \ {s[k]}
    BY <2>1, <2>3
  <2>5. Members(m, s) \ {s[k]} \subseteq Members(m - 1, t)
    BY <2>2, <2>3 DEF Members
  <2> QED BY <2>4, <2>5
<1> QED BY <1>2, <1>11, <1>12
-----------------------------------------------------------------------------
(* The control of the processes.                                           *)

\* What the constants are assumed to be, as the proofs use it.
LEMMA Constants ==
  /\ Sched \in Procs /\ Users \subseteq Procs /\ Procs = Users \cup {Sched} /\ Sched \notin Users
  /\ Intr \in Contexts /\ Users \subseteq Contexts /\ Contexts = Users \cup {Intr}
  /\ Intr \notin Procs /\ NULL \notin Procs /\ NULL \notin Channels
  /\ Chans \subseteq Channels /\ Waitchan \in Chans
  /\ {Runin, Runout, Swbuf} \subseteq Channels
  /\ Runin \notin Chans /\ Runout \notin Chans /\ Swbuf \notin Chans
  /\ Runin # Runout /\ Runin # Swbuf /\ Runout # Swbuf
  /\ \A c \in Channels : Hash[c] \in Queues
  /\ Pris \subseteq 0 .. PUSER /\ PSWP \in 0 .. PUSER /\ PUSER \in 0 .. PUSER
<1>1. Runin # Runout /\ Runin # Swbuf /\ Runout # Swbuf
  <2>1. ASSUME NEW a, NEW b PROVE IsFiniteSet({a, b}) /\ Cardinality({a, b}) <= 2
    <3>1. IsFiniteSet({a}) /\ Cardinality({a}) = 1
      BY FS_Singleton
    <3>2. {a, b} = {a} \cup {b}
      OBVIOUS
    <3>3. IsFiniteSet({a} \cup {b})
      BY <3>1, FS_AddElement
    <3>4. Cardinality({a} \cup {b}) = IF b \in {a} THEN Cardinality({a}) ELSE Cardinality({a}) + 1
      BY <3>1, FS_AddElement
    <3> QED BY <3>1, <3>2, <3>3, <3>4
  <2>2. Runin = Runout => {Runin, Runout, Swbuf} = {Runout, Swbuf}
    OBVIOUS
  <2>3. Runin = Swbuf => {Runin, Runout, Swbuf} = {Runout, Swbuf}
    OBVIOUS
  <2>4. Runout = Swbuf => {Runin, Runout, Swbuf} = {Runin, Swbuf}
    OBVIOUS
  <2>5. Cardinality({Runin, Runout, Swbuf}) = 3
    BY SlpAssumption
  <2>6. Cardinality({Runout, Swbuf}) # 3 /\ Cardinality({Runin, Swbuf}) # 3
    <3>1. Cardinality({Runout, Swbuf}) \in Nat /\ Cardinality({Runin, Swbuf}) \in Nat
      BY <2>1, FS_CardinalityType
    <3>2. Cardinality({Runout, Swbuf}) <= 2 /\ Cardinality({Runin, Swbuf}) <= 2
      BY <2>1
    <3> QED BY <3>1, <3>2
  <2> QED BY <2>2, <2>3, <2>4, <2>5, <2>6
<1>2. \A c \in Channels : Hash[c] \in Queues
  BY DEF Queues
<1>3. Pris \subseteq 0 .. PUSER /\ PSWP \in 0 .. PUSER /\ PUSER \in 0 .. PUSER
  BY SlpAssumption DEF PSWP, PUSER
<1> QED BY <1>1, <1>2, <1>3, SlpAssumption DEF Procs, Channels, Contexts

\* A step that changes nothing but a p_nice.
Unseen ==
  /\ UNCHANGED <<p_stat, p_pri, p_wchan, p_link, p_sig, load, lock, slpque, runq, runin, runout,
                 cur, pc, wk, spc, tgt, w, out, swp>>
  /\ niced' \subseteq niced \cup Users

\* The steps there are, one by one.
LEMMA StepKinds ==
  ASSUME [Next]_vars
  PROVE  \/ Unseen
         \/ WakeupSkip \/ WakeupMatch \/ WakeupReturn
         \/ \E c \in Contexts, q \in Users : Psignal(c, q)
         \/ \E p \in Users, q \in Users : Ptrace(p, q)
         \/ \E c \in Contexts : PsignalTest(c)
         \/ \E c \in Contexts : SetrunRead(c)
         \/ \E c \in Contexts : SetrunWakeup(c)
         \/ \E c \in Contexts : SetrunRun(c)
         \/ \E c \in Contexts : SetrunSetrq(c)
         \/ \E c \in Contexts : SetrunRunout(c)
         \/ \E p \in Users, c \in Chans, pri \in Pris : Sleep(p, c, pri)
         \/ \E p \in Users, c \in Chans, pri \in Pris : SleepSignalled(p, c, pri)
         \/ \E p \in Users : SleepRunin(p)
         \/ \E p \in Users, c \in Chans : Wakeup(p, c)
         \/ \E p \in Users : TakeSignal(p)
         \/ \E p \in Users : Stop(p)
         \/ \E p \in Users : Restarted(p)
         \/ \E p \in Users : Qswtch(p)
         \/ \E p \in Procs : Swtch(p)
         \/ Dispatch
         \/ SchedIdle \/ SchedPick \/ SchedSwapin \/ SwapinDone
         \/ SchedScan \/ SchedSwapout \/ SwapoutDone \/ SchedWait
         \/ \E c \in Chans \cup {Swbuf} : Interrupt(c)
         \/ Second
<1>1. Intr \in Contexts /\ Users \subseteq Contexts
  BY Constants
<1>2. ASSUME NEW c \in Contexts, SetrunStep(c)
      PROVE  \/ \E d \in Contexts : PsignalTest(d)
             \/ \E d \in Contexts : SetrunRead(d)
             \/ \E d \in Contexts : SetrunWakeup(d)
             \/ \E d \in Contexts : SetrunRun(d)
             \/ \E d \in Contexts : SetrunSetrq(d)
             \/ \E d \in Contexts : SetrunRunout(d)
  BY <1>2 DEF SetrunStep
<1>9. ASSUME NEW p \in Users, Nice(p) PROVE Unseen
  BY <1>9 DEF Nice, Unseen, queueVars, setrunVars
<1>10. CASE UNCHANGED vars
  BY <1>10 DEF Unseen, vars
<1>3. CASE \E p \in Users : Body(p)
  BY <1>1, <1>3, <1>9 DEF Body
<1>4. CASE \E p \in Users : Forced(p)
  BY <1>1, <1>2, <1>4 DEF Forced
<1>5. CASE Swapper
  BY <1>5 DEF Swapper
<1>6. CASE SetrunStep(Intr)
  BY <1>1, <1>2, <1>6
<1>7. CASE \E p \in Users : Psignal(Intr, p)
  BY <1>1, <1>7
<1>8. CASE WakeupStep
  BY <1>8 DEF WakeupStep
<1> QED BY <1>3, <1>4, <1>5, <1>6, <1>7, <1>8, <1>10 DEF Next

\* The call of wakeup() that is in progress.
LEMMA HeadFrame ==
  ASSUME Frames, wk # <<>>
  PROVE  /\ Head(wk) \in FrameSet
         /\ \/ wk = <<Head(wk)>> /\ Tail(wk) = <<>>
            \/ /\ \E g \in FrameSet : wk = <<Head(wk), g>> /\ Tail(wk) = <<g>> /\ g.chan \in Chans
               /\ Head(wk).chan = Runout
<1>1. CASE \E f \in FrameSet : wk = <<f>>
  <2>1. PICK f \in FrameSet : wk = <<f>>
    BY <1>1
  <2>2. Head(wk) = f /\ Tail(wk) = <<>>
    BY <2>1
  <2> QED BY <2>1, <2>2
<1>2. CASE \E f, g \in FrameSet : wk = <<f, g>> /\ f.chan = Runout /\ g.chan \in Chans
  <2>1. PICK f \in FrameSet, g \in FrameSet : wk = <<f, g>> /\ f.chan = Runout /\ g.chan \in Chans
    BY <1>2
  <2>2. Head(wk) = f /\ Tail(wk) = <<g>>
    BY <2>1
  <2> QED BY <2>1, <2>2
<1> QED BY <1>1, <1>2 DEF Frames

\* One call within another.
LEMMA TwoFrames ==
  \A f, g : /\ (<<f>> \o <<g>>) \o <<>> = <<f, g>>
            /\ (<<>> \o <<f>>) \o <<g>> = <<f, g>>
            /\ (<<>> \o <<f>>) \o <<>> = <<f>>
<1> TAKE f, g
<1> DEFINE S == {f, g}
<1>1. /\ <<f>> \in Seq(S) /\ <<g>> \in Seq(S) /\ <<f, g>> \in Seq(S)
      /\ Len(<<f>>) = 1 /\ Len(<<g>>) = 1 /\ Len(<<f, g>>) = 2
  OBVIOUS
<1> HIDE DEF S
<1>2. /\ <<f>> \o <<g>> \in Seq(S) /\ Len(<<f>> \o <<g>>) = 2
      /\ \A i \in 1 .. 2 : (<<f>> \o <<g>>)[i] = IF i <= 1 THEN <<f>>[i] ELSE <<g>>[i - 1]
  BY <1>1, ConcatProperties
<1>3. \A i \in 1 .. 2 : (<<f>> \o <<g>>)[i] = <<f, g>>[i]
  <2>1. (<<f>> \o <<g>>)[1] = f /\ (<<f>> \o <<g>>)[2] = g
    BY <1>2
  <2> QED BY <2>1
<1>4. <<f>> \o <<g>> = <<f, g>>
  BY <1>1, <1>2, <1>3, SeqEqual
<1>5. <<>> \o <<f>> = <<f>> /\ <<f>> \o <<>> = <<f>> /\ <<f, g>> \o <<>> = <<f, g>>
  BY <1>1, ConcatEmptySeq
<1> QED BY <1>4, <1>5

\* Every step keeps the types.
LEMMA TypesStep ==
  ASSUME Control, [Next]_vars
  PROVE  Types'
<1>1. CASE Unseen
  BY <1>1 DEF Unseen, Types, Control
<1>2. CASE WakeupSkip
  BY Constants, <1>2 DEF Types, Control, WakeupSkip, queueVars, swapVars, setrunVars
<1>3. CASE WakeupMatch
  <2>1. Head(wk).p \in Procs /\ Head(wk).q \in Procs \cup {NULL} /\ Head(wk).chan \in Channels
    BY <1>3, HeadFrame DEF Control, WakeupMatch, FrameSet
  <2>2. p_link[Head(wk).p] \in Procs \cup {NULL} /\ Hash[Head(wk).chan] \in Queues
    BY <2>1, Constants DEF Control, Types
  <2>3. p_link' \in [Procs -> Procs \cup {NULL}] /\ runq' \in Procs \cup {NULL}
    BY <1>3, <2>1, <2>2 DEF Types, Control, WakeupMatch, setrq
  <2>4. slpque' \in [Queues -> Procs \cup {NULL}]
    BY <1>3, <2>2 DEF Types, Control, WakeupMatch
  <2>5. /\ p_stat' \in [Procs -> {"SSLEEP", "SRUN", "SSTOP"}]
        /\ p_wchan' \in [Procs -> Channels \cup {NULL}]
    BY <1>3, <2>1 DEF Types, Control, WakeupMatch
  <2>6. runout' \in BOOLEAN
    BY <1>3 DEF WakeupMatch
  <2> QED BY <1>3, <2>3, <2>4, <2>5, <2>6 DEF Types, Control, WakeupMatch, swapVars
<1>4. CASE WakeupReturn
  BY Constants, <1>4 DEF Types, Control, WakeupReturn, queueVars, swapVars, setrunVars
<1>5. ASSUME NEW c \in Contexts, NEW q \in Users, Psignal(c, q) PROVE Types'
  BY Constants, <1>5 DEF Types, Control, Psignal, MayCall, At, Live, Go, queueVars, swapVars,
      setrunVars
<1>6. ASSUME NEW p \in Users, NEW q \in Users, Ptrace(p, q) PROVE Types'
  BY Constants, <1>6 DEF Types, Control, Ptrace, MayCall, At, Live, Go, queueVars, swapVars,
      setrunVars
<1>7. ASSUME NEW c \in Contexts, PsignalTest(c) PROVE Types'
  BY Constants, <1>7 DEF Types, Control, PsignalTest, At, Live, Go, Done, queueVars, swapVars,
      setrunVars
<1>8. ASSUME NEW c \in Contexts, SetrunRead(c) PROVE Types'
  BY Constants, <1>8 DEF Types, Control, SetrunRead, At, Live, Go, queueVars, swapVars, setrunVars
<1>9. ASSUME NEW c \in Contexts, SetrunWakeup(c) PROVE Types'
  BY Constants, <1>9 DEF Types, Control, SetrunWakeup, At, Live, Go, Done, Frame, queueVars,
      swapVars, setrunVars
<1>10. ASSUME NEW c \in Contexts, SetrunRun(c) PROVE Types'
  BY Constants, <1>10 DEF Types, Control, SetrunRun, At, Live, Go, queueVars, swapVars, setrunVars
<1>11. ASSUME NEW c \in Contexts, SetrunSetrq(c) PROVE Types'
  <2>1. tgt[c] \in Users
    BY <1>11, Constants DEF Control, Calls, SetrunSetrq, At
  <2> QED BY Constants, <1>11, <2>1 DEF Types, Control, SetrunSetrq, setrq, swapVars
<1>12. ASSUME NEW c \in Contexts, SetrunRunout(c) PROVE Types'
  BY Constants, <1>12 DEF Types, Control, SetrunRunout, At, Live, Go, Done, Frame, CallsSwapper,
      queueVars, swapVars, setrunVars
<1>13. ASSUME NEW p \in Users, NEW c \in Chans, NEW pri \in Pris, Sleep(p, c, pri) PROVE Types'
  BY Constants, <1>13 DEF Types, Control, Sleep, MayCall, At, Live, Enqueue, queueVars, swapVars,
      setrunVars
<1>14. ASSUME NEW p \in Users, NEW c \in Chans, NEW pri \in Pris, SleepSignalled(p, c, pri) PROVE Types'
  BY Constants, <1>14 DEF Types, Control, SleepSignalled, MayCall, At, Live, queueVars, swapVars,
      setrunVars
<1>15. ASSUME NEW p \in Users, SleepRunin(p) PROVE Types'
  BY Constants, <1>15 DEF Types, Control, SleepRunin, Running, Frame, queueVars, swapVars,
      setrunVars
<1>16. ASSUME NEW p \in Users, NEW c \in Chans, Wakeup(p, c) PROVE Types'
  BY Constants, <1>16 DEF Types, Control, Wakeup, MayCall, At, Live, Frame, queueVars, swapVars,
      setrunVars
<1>17. ASSUME NEW p \in Users, TakeSignal(p) PROVE Types'
  <2>1. p_sig' \in [Procs -> BOOLEAN]
    BY <1>17 DEF Control, Types, TakeSignal
  <2>2. p_pri' \in [Procs -> 0 .. PUSER]
    BY <1>17, Constants DEF Control, Types, TakeSignal
  <2> QED BY <1>17, <2>1, <2>2 DEF Types, Control, TakeSignal, queueVars, swapVars
<1>18. ASSUME NEW p \in Users, Stop(p) PROVE Types'
  BY Constants, <1>18 DEF Types, Control, Stop, Running, queueVars, swapVars, setrunVars
<1>19. ASSUME NEW p \in Users, Restarted(p) PROVE Types'
  <2>1. p_sig' \in [Procs -> BOOLEAN]
    BY <1>19 DEF Control, Types, Restarted
  <2>2. p_pri' \in [Procs -> 0 .. PUSER]
    BY <1>19, Constants DEF Control, Types, Restarted
  <2> QED BY <1>19, <2>1, <2>2 DEF Types, Control, Restarted, queueVars, swapVars
<1>20. ASSUME NEW p \in Users, Qswtch(p) PROVE Types'
  BY Constants, <1>20 DEF Types, Control, Qswtch, MayCall, At, Live, setrq, queueVars, swapVars,
      setrunVars
<1>21. ASSUME NEW p \in Procs, Swtch(p) PROVE Types'
  BY Constants, <1>21 DEF Types, Control, Swtch, Running, Resume, queueVars, swapVars, setrunVars
<1>22. CASE Dispatch
  <2>1. PICK n \in 0 .. Cardinality(Procs) :
          /\ Walk(runq, p_link)[n] # NULL
          /\ runq' = IF n = 0 THEN p_link[Walk(runq, p_link)[n]] ELSE runq
          /\ p_link' = IF n = 0 THEN p_link
                      ELSE [p_link EXCEPT ![Walk(runq, p_link)[n - 1]] = p_link[Walk(runq, p_link)[n]]]
          /\ cur' = Walk(runq, p_link)[n]
    BY <1>22 DEF Dispatch
  <2>2. Walk(runq, p_link)[n] \in Procs
    BY <2>1, WalkType DEF Control, Types
  <2>3. p_link[Walk(runq, p_link)[n]] \in Procs \cup {NULL}
    BY <2>2 DEF Control, Types
  <2> QED BY <1>22, <2>1, <2>2, <2>3 DEF Types, Control, Dispatch, swapVars
<1>23. CASE SchedIdle
  BY Constants, <1>23 DEF Types, Control, SchedIdle, AtSched, Running, SchedSleep, Enqueue,
      queueVars, swapVars, setrunVars
<1>24. CASE SchedPick
  BY Constants, <1>24 DEF Types, Control, SchedPick, AtSched, Running, Waiting, queueVars, swapVars,
      setrunVars
<1>25. CASE SchedSwapin
  BY Constants, <1>25 DEF Types, Control, SchedSwapin, AtSched, Running, SchedSleep, Enqueue,
      queueVars, swapVars, setrunVars
<1>26. CASE SwapinDone
  <2>1. swp \in Users
    BY <1>26 DEF Control, Types, Places, SwapinDone, AtSched
  <2> QED BY Constants, <1>26, <2>1 DEF Types, Control, SwapinDone, queueVars
<1>27. CASE SchedScan
  BY Constants, <1>27 DEF Types, Control, SchedScan, AtSched, Running, Easy, Swappable, queueVars,
      swapVars, setrunVars
<1>28. CASE SchedSwapout
  BY Constants, <1>28 DEF Types, Control, SchedSwapout, AtSched, Running, SchedSleep, Enqueue,
      queueVars, swapVars, setrunVars
<1>29. CASE SwapoutDone
  BY Constants, <1>29 DEF Types, Control, SwapoutDone, AtSched, Running, queueVars, swapVars,
      setrunVars
<1>30. CASE SchedWait
  BY Constants, <1>30 DEF Types, Control, SchedWait, AtSched, Running, SchedSleep, Enqueue,
      queueVars, swapVars, setrunVars
<1>31. ASSUME NEW c \in Chans \cup {Swbuf}, Interrupt(c) PROVE Types'
  BY Constants, <1>31 DEF Types, Control, Interrupt, Frame, queueVars, swapVars, setrunVars
<1>32. CASE Second
  BY Constants, <1>32 DEF Types, Control, Second, Frame, queueVars, swapVars, setrunVars
<1> QED
  BY <1>1, <1>2, <1>3, <1>4, <1>5, <1>6, <1>7, <1>8, <1>9, <1>10, <1>11, <1>12, <1>13, <1>14, <1>15,
      <1>16, <1>17, <1>18, <1>19, <1>20, <1>21, <1>22, <1>23, <1>24, <1>25, <1>26, <1>27, <1>28,
      <1>29, <1>30, <1>31, <1>32, StepKinds

\* Every step keeps it so.
LEMMA AsleepStep ==
  ASSUME Control, [Next]_vars
  PROVE  Asleep'
<1>1. CASE Unseen
  BY <1>1 DEF Unseen, Asleep, Control, Types, Places, Calls
<1>2. CASE WakeupSkip
  BY Constants, <1>2 DEF Asleep, Control, Types, Places, Calls, WakeupSkip, queueVars, swapVars,
      setrunVars
<1>3. CASE WakeupMatch
  <2>1. Head(wk).p \in Procs
    BY <1>3, HeadFrame DEF Control, WakeupMatch, FrameSet
  <2> QED BY Constants, <1>3, <2>1 DEF Asleep, Control, Types, WakeupMatch
<1>4. CASE WakeupReturn
  BY Constants, <1>4 DEF Asleep, Control, Types, Places, Calls, WakeupReturn, queueVars, swapVars,
      setrunVars
<1>5. ASSUME NEW c \in Contexts, NEW q \in Users, Psignal(c, q) PROVE Asleep'
  BY Constants, <1>5 DEF Asleep, Control, Types, Places, Calls, Psignal, MayCall, At, Live, Go,
      queueVars, swapVars, setrunVars
<1>6. ASSUME NEW p \in Users, NEW q \in Users, Ptrace(p, q) PROVE Asleep'
  BY Constants, <1>6 DEF Asleep, Control, Types, Places, Calls, Ptrace, MayCall, At, Live, Go,
      queueVars, swapVars, setrunVars
<1>7. ASSUME NEW c \in Contexts, PsignalTest(c) PROVE Asleep'
  BY Constants, <1>7 DEF Asleep, Control, Types, Places, Calls, PsignalTest, At, Live, Go, Done,
      queueVars, swapVars, setrunVars
<1>8. ASSUME NEW c \in Contexts, SetrunRead(c) PROVE Asleep'
  BY Constants, <1>8 DEF Asleep, Control, Types, Places, Calls, SetrunRead, At, Live, Go, queueVars,
      swapVars, setrunVars
<1>9. ASSUME NEW c \in Contexts, SetrunWakeup(c) PROVE Asleep'
  BY Constants, <1>9 DEF Asleep, Control, Types, Places, Calls, SetrunWakeup, At, Live, Go, Done,
      Frame, queueVars, swapVars, setrunVars
<1>10. ASSUME NEW c \in Contexts, SetrunRun(c) PROVE Asleep'
  BY Constants, <1>10 DEF Asleep, Control, Types, Places, Calls, SetrunRun, At, Live, Go, queueVars,
      swapVars, setrunVars
<1>11. ASSUME NEW c \in Contexts, SetrunSetrq(c) PROVE Asleep'
  BY Constants, <1>11 DEF Asleep, Control, Types, Places, Calls, SetrunSetrq, At, Live, Go, setrq,
      queueVars, swapVars, setrunVars
<1>12. ASSUME NEW c \in Contexts, SetrunRunout(c) PROVE Asleep'
  BY Constants, <1>12 DEF Asleep, Control, Types, Places, Calls, SetrunRunout, At, Live, Go, Done,
      Frame, CallsSwapper, queueVars, swapVars, setrunVars
<1>13. ASSUME NEW p \in Users, NEW c \in Chans, NEW pri \in Pris, Sleep(p, c, pri) PROVE Asleep'
  BY Constants, <1>13 DEF Asleep, Control, Types, Places, Calls, Sleep, MayCall, At, Live, Enqueue,
      queueVars, swapVars, setrunVars
<1>14. ASSUME NEW p \in Users, NEW c \in Chans, NEW pri \in Pris, SleepSignalled(p, c, pri) PROVE Asleep'
  BY Constants, <1>14 DEF Asleep, Control, Types, Places, Calls, SleepSignalled, MayCall, At, Live,
      queueVars, swapVars, setrunVars
<1>15. ASSUME NEW p \in Users, SleepRunin(p) PROVE Asleep'
  BY Constants, <1>15 DEF Asleep, Control, Types, Places, Calls, SleepRunin, Running, Frame,
      queueVars, swapVars, setrunVars
<1>16. ASSUME NEW p \in Users, NEW c \in Chans, Wakeup(p, c) PROVE Asleep'
  BY Constants, <1>16 DEF Asleep, Control, Types, Places, Calls, Wakeup, MayCall, At, Live, Frame,
      queueVars, swapVars, setrunVars
<1>17. ASSUME NEW p \in Users, TakeSignal(p) PROVE Asleep'
  BY Constants, <1>17 DEF Asleep, Control, Types, Places, Calls, TakeSignal, Running, Frame,
      queueVars, swapVars, setrunVars
<1>18. ASSUME NEW p \in Users, Stop(p) PROVE Asleep'
  <2>1. p_stat[p] = "SRUN" /\ p \in Procs
    BY <1>18, Constants DEF Control, Places, Stop, Running, GivenUp
  <2> QED BY Constants, <1>18, <2>1 DEF Asleep, Control, Types, Stop
<1>19. ASSUME NEW p \in Users, Restarted(p) PROVE Asleep'
  BY Constants, <1>19 DEF Asleep, Control, Types, Places, Calls, Restarted, Running, Frame,
      queueVars, swapVars, setrunVars
<1>20. ASSUME NEW p \in Users, Qswtch(p) PROVE Asleep'
  BY Constants, <1>20 DEF Asleep, Control, Types, Places, Calls, Qswtch, MayCall, At, Live, setrq,
      queueVars, swapVars, setrunVars
<1>21. ASSUME NEW p \in Procs, Swtch(p) PROVE Asleep'
  BY Constants, <1>21 DEF Asleep, Control, Types, Places, Calls, Swtch, Running, Resume, queueVars,
      swapVars, setrunVars
<1>22. CASE Dispatch
  BY Constants, <1>22 DEF Asleep, Control, Types, Places, Calls, Dispatch, queueVars, swapVars,
      setrunVars
<1>23. CASE SchedIdle
  BY Constants, <1>23 DEF Asleep, Control, Types, Places, Calls, SchedIdle, AtSched, Running,
      SchedSleep, Enqueue, queueVars, swapVars, setrunVars
<1>24. CASE SchedPick
  BY Constants, <1>24 DEF Asleep, Control, Types, Places, Calls, SchedPick, AtSched, Running,
      Waiting, queueVars, swapVars, setrunVars
<1>25. CASE SchedSwapin
  BY Constants, <1>25 DEF Asleep, Control, Types, Places, Calls, SchedSwapin, AtSched, Running,
      SchedSleep, Enqueue, queueVars, swapVars, setrunVars
<1>26. CASE SwapinDone
  BY Constants, <1>26 DEF Asleep, Control, Types, Places, Calls, SwapinDone, AtSched, Running,
      queueVars, swapVars, setrunVars
<1>27. CASE SchedScan
  BY Constants, <1>27 DEF Asleep, Control, Types, Places, Calls, SchedScan, AtSched, Running, Easy,
      Swappable, queueVars, swapVars, setrunVars
<1>28. CASE SchedSwapout
  BY Constants, <1>28 DEF Asleep, Control, Types, Places, Calls, SchedSwapout, AtSched, Running,
      SchedSleep, Enqueue, queueVars, swapVars, setrunVars
<1>29. CASE SwapoutDone
  BY Constants, <1>29 DEF Asleep, Control, Types, Places, Calls, SwapoutDone, AtSched, Running,
      queueVars, swapVars, setrunVars
<1>30. CASE SchedWait
  BY Constants, <1>30 DEF Asleep, Control, Types, Places, Calls, SchedWait, AtSched, Running,
      SchedSleep, Enqueue, queueVars, swapVars, setrunVars
<1>31. ASSUME NEW c \in Chans \cup {Swbuf}, Interrupt(c) PROVE Asleep'
  BY Constants, <1>31 DEF Asleep, Control, Types, Places, Calls, Interrupt, Frame, queueVars,
      swapVars, setrunVars
<1>32. CASE Second
  BY Constants, <1>32 DEF Asleep, Control, Types, Places, Calls, Second, Frame, queueVars, swapVars,
      setrunVars
<1> QED
  BY <1>1, <1>2, <1>3, <1>4, <1>5, <1>6, <1>7, <1>8, <1>9, <1>10, <1>11, <1>12, <1>13, <1>14, <1>15,
      <1>16, <1>17, <1>18, <1>19, <1>20, <1>21, <1>22, <1>23, <1>24, <1>25, <1>26, <1>27, <1>28,
      <1>29, <1>30, <1>31, <1>32, StepKinds

\* Every step leaves every process where it can be.
LEMMA PlacesStep ==
  ASSUME Control, [Next]_vars
  PROVE  Places'
<1>1. CASE Unseen
  BY <1>1 DEF Unseen, Places, Control, Types, Asleep, Calls, UserPlaces, SchedPlaces, GivenUp
<1>2. CASE WakeupSkip
  BY Constants, <1>2 DEF Places, Control, Types, Asleep, Calls, UserPlaces, SchedPlaces, GivenUp,
      WakeupSkip, queueVars, swapVars, setrunVars
<1>3. CASE WakeupMatch
  <2>1. Head(wk).p \in Procs
    BY <1>3, HeadFrame DEF Control, WakeupMatch, FrameSet
  <2> QED BY Constants, <1>3, <2>1 DEF Places, Control, Types, WakeupMatch, swapVars
<1>4. CASE WakeupReturn
  BY Constants, <1>4 DEF Places, Control, Types, Asleep, Calls, UserPlaces, SchedPlaces, GivenUp,
      WakeupReturn, queueVars, swapVars, setrunVars
<1>5. ASSUME NEW c \in Contexts, NEW q \in Users, Psignal(c, q) PROVE Places'
  BY Constants, <1>5 DEF Places, Control, Types, Asleep, Calls, UserPlaces, SchedPlaces, GivenUp,
      Psignal, MayCall, At, Live, Go, queueVars, swapVars, setrunVars
<1>6. ASSUME NEW p \in Users, NEW q \in Users, Ptrace(p, q) PROVE Places'
  BY Constants, <1>6 DEF Places, Control, Types, Asleep, Calls, UserPlaces, SchedPlaces, GivenUp,
      Ptrace, MayCall, At, Live, Go, queueVars, swapVars, setrunVars
<1>7. ASSUME NEW c \in Contexts, PsignalTest(c) PROVE Places'
  BY Constants, <1>7 DEF Places, Control, Types, Asleep, Calls, UserPlaces, SchedPlaces, GivenUp,
      PsignalTest, At, Live, Go, Done, queueVars, swapVars, setrunVars
<1>8. ASSUME NEW c \in Contexts, SetrunRead(c) PROVE Places'
  BY Constants, <1>8 DEF Places, Control, Types, Asleep, Calls, UserPlaces, SchedPlaces, GivenUp,
      SetrunRead, At, Live, Go, queueVars, swapVars, setrunVars
<1>9. ASSUME NEW c \in Contexts, SetrunWakeup(c) PROVE Places'
  BY Constants, <1>9 DEF Places, Control, Types, Asleep, Calls, UserPlaces, SchedPlaces, GivenUp,
      SetrunWakeup, At, Live, Go, Done, Frame, queueVars, swapVars, setrunVars
<1>10. ASSUME NEW c \in Contexts, SetrunRun(c) PROVE Places'
  BY Constants, <1>10 DEF Places, Control, Types, Asleep, Calls, UserPlaces, SchedPlaces, GivenUp,
      SetrunRun, At, Live, Go, queueVars, swapVars, setrunVars
<1>11. ASSUME NEW c \in Contexts, SetrunSetrq(c) PROVE Places'
  BY Constants, <1>11 DEF Places, Control, Types, Asleep, Calls, UserPlaces, SchedPlaces, GivenUp,
      SetrunSetrq, At, Live, Go, setrq, queueVars, swapVars, setrunVars
<1>12. ASSUME NEW c \in Contexts, SetrunRunout(c) PROVE Places'
  BY Constants, <1>12 DEF Places, Control, Types, Asleep, Calls, UserPlaces, SchedPlaces, GivenUp,
      SetrunRunout, At, Live, Go, Done, Frame, CallsSwapper, queueVars, swapVars, setrunVars
<1>13. ASSUME NEW p \in Users, NEW c \in Chans, NEW pri \in Pris, Sleep(p, c, pri) PROVE Places'
  BY Constants, <1>13 DEF Places, Control, Types, Asleep, Calls, UserPlaces, SchedPlaces, GivenUp,
      Sleep, MayCall, At, Live, Enqueue, queueVars, swapVars, setrunVars
<1>14. ASSUME NEW p \in Users, NEW c \in Chans, NEW pri \in Pris, SleepSignalled(p, c, pri) PROVE Places'
  <2>1. p \in Procs /\ p # Sched /\ p # Intr
    BY Constants
  <2>2. /\ pc' = [pc EXCEPT ![p] = "psig"] /\ cur = p /\ pc[p] = "body"
        /\ cur' = cur /\ p_stat' = p_stat /\ swp' = swp
    BY <1>14, <2>1 DEF SleepSignalled, MayCall, At, Live, swapVars
  <2>3. p_stat[p] = "SRUN"
    BY <2>1, <2>2 DEF Control, Places, GivenUp
  <2> QED BY <2>1, <2>2, <2>3 DEF Control, Places, UserPlaces, SchedPlaces, GivenUp
<1>15. ASSUME NEW p \in Users, SleepRunin(p) PROVE Places'
  BY Constants, <1>15 DEF Places, Control, Types, Asleep, Calls, UserPlaces, SchedPlaces, GivenUp,
      SleepRunin, Running, Frame, queueVars, swapVars, setrunVars
<1>16. ASSUME NEW p \in Users, NEW c \in Chans, Wakeup(p, c) PROVE Places'
  BY Constants, <1>16 DEF Places, Control, Types, Asleep, Calls, UserPlaces, SchedPlaces, GivenUp,
      Wakeup, MayCall, At, Live, Frame, queueVars, swapVars, setrunVars
<1>17. ASSUME NEW p \in Users, TakeSignal(p) PROVE Places'
  <2>1. p \in Procs /\ p # Sched /\ cur = p /\ p_stat[p] = "SRUN"
    BY <1>17, Constants DEF Control, Places, TakeSignal, Running, GivenUp
  <2>2. \/ pc' = [pc EXCEPT ![p] = "stop"]
        \/ pc' = [pc EXCEPT ![p] = "body"]
    BY <1>17 DEF TakeSignal
  <2>3. UNCHANGED <<p_stat, cur, swp>>
    BY <1>17 DEF TakeSignal, queueVars, swapVars
  <2> QED BY Constants, <2>1, <2>2, <2>3 DEF Control, Places, UserPlaces, SchedPlaces, GivenUp
<1>18. ASSUME NEW p \in Users, Stop(p) PROVE Places'
  BY Constants, <1>18 DEF Places, Control, Types, Asleep, Calls, UserPlaces, SchedPlaces, GivenUp,
      Stop, Running, queueVars, swapVars, setrunVars
<1>19. ASSUME NEW p \in Users, Restarted(p) PROVE Places'
  <2>1. p \in Procs /\ p # Sched /\ cur = p /\ p_stat[p] = "SRUN"
    BY <1>19, Constants DEF Control, Places, Restarted, Running, GivenUp
  <2>2. \/ pc' = [pc EXCEPT ![p] = "stop"]
        \/ pc' = [pc EXCEPT ![p] = "body"]
    BY <1>19 DEF Restarted
  <2>3. UNCHANGED <<p_stat, cur, swp>>
    BY <1>19 DEF Restarted, queueVars, swapVars
  <2> QED BY Constants, <2>1, <2>2, <2>3 DEF Control, Places, UserPlaces, SchedPlaces, GivenUp
<1>20. ASSUME NEW p \in Users, Qswtch(p) PROVE Places'
  BY Constants, <1>20 DEF Places, Control, Types, Asleep, Calls, UserPlaces, SchedPlaces, GivenUp,
      Qswtch, MayCall, At, Live, setrq, queueVars, swapVars, setrunVars
<1>21. ASSUME NEW p \in Procs, Swtch(p) PROVE Places'
  BY SMTT(30), Constants, <1>21 DEF Places, Control, Types, Asleep, Calls, UserPlaces, SchedPlaces, GivenUp,
      Swtch, Running, Resume, queueVars, swapVars, setrunVars
<1>22. CASE Dispatch
  BY Constants, <1>22 DEF Places, Control, Types, Asleep, Calls, UserPlaces, SchedPlaces, GivenUp,
      Dispatch, queueVars, swapVars, setrunVars
<1>23. CASE SchedIdle
  BY Constants, <1>23 DEF Places, Control, Types, Asleep, Calls, UserPlaces, SchedPlaces, GivenUp,
      SchedIdle, AtSched, Running, SchedSleep, Enqueue, queueVars, swapVars, setrunVars
<1>24. CASE SchedPick
  BY SMTT(60), Constants, <1>24 DEF Places, Control, Types, Asleep, Calls, UserPlaces, SchedPlaces, GivenUp,
      SchedPick, AtSched, Running, Waiting, queueVars, swapVars, setrunVars
<1>25. CASE SchedSwapin
  BY Constants, <1>25 DEF Places, Control, Types, Asleep, Calls, UserPlaces, SchedPlaces, GivenUp,
      SchedSwapin, AtSched, Running, SchedSleep, Enqueue, queueVars, swapVars, setrunVars
<1>26. CASE SwapinDone
  <2>1. /\ cur = Sched /\ pc[Sched] = "swapin" /\ UNCHANGED <<cur, p_stat>>
        /\ pc' = [pc EXCEPT ![Sched] = "loop"] /\ pc'[Sched] = "loop"
    BY Constants, <1>26 DEF SwapinDone, AtSched, Running, queueVars, Control, Places
  <2>2. p_stat[Sched] = "SRUN" /\ \A p \in Procs : p # Sched => pc'[p] = pc[p]
    BY Constants, <2>1 DEF Control, Places, GivenUp
  <2> QED BY Constants, <2>1, <2>2 DEF Control, Places, SchedPlaces
<1>27. CASE SchedScan
  BY Constants, <1>27 DEF Places, Control, Types, Asleep, Calls, UserPlaces, SchedPlaces, GivenUp,
      SchedScan, AtSched, Running, Easy, Swappable, queueVars, swapVars, setrunVars
<1>28. CASE SchedSwapout
  BY Constants, <1>28 DEF Places, Control, Types, Asleep, Calls, UserPlaces, SchedPlaces, GivenUp,
      SchedSwapout, AtSched, Running, SchedSleep, Enqueue, queueVars, swapVars, setrunVars
<1>29. CASE SwapoutDone
  <2>1. /\ cur = Sched /\ pc[Sched] = "swapout" /\ UNCHANGED <<cur, p_stat>>
        /\ pc' = [pc EXCEPT ![Sched] = "loop"] /\ pc'[Sched] = "loop"
    BY Constants, <1>29 DEF SwapoutDone, AtSched, Running, queueVars, Control, Places
  <2>2. p_stat[Sched] = "SRUN" /\ \A p \in Procs : p # Sched => pc'[p] = pc[p]
    BY Constants, <2>1 DEF Control, Places, GivenUp
  <2> QED BY Constants, <2>1, <2>2 DEF Control, Places, SchedPlaces
<1>30. CASE SchedWait
  BY Constants, <1>30 DEF Places, Control, Types, Asleep, Calls, UserPlaces, SchedPlaces, GivenUp,
      SchedWait, AtSched, Running, SchedSleep, Enqueue, queueVars, swapVars, setrunVars
<1>31. ASSUME NEW c \in Chans \cup {Swbuf}, Interrupt(c) PROVE Places'
  BY Constants, <1>31 DEF Places, Control, Types, Asleep, Calls, UserPlaces, SchedPlaces, GivenUp,
      Interrupt, Frame, queueVars, swapVars, setrunVars
<1>32. CASE Second
  BY Constants, <1>32 DEF Places, Control, Types, Asleep, Calls, UserPlaces, SchedPlaces, GivenUp,
      Second, Frame, queueVars, swapVars, setrunVars
<1> QED
  BY <1>1, <1>2, <1>3, <1>4, <1>5, <1>6, <1>7, <1>8, <1>9, <1>10, <1>11, <1>12, <1>13, <1>14, <1>15,
      <1>16, <1>17, <1>18, <1>19, <1>20, <1>21, <1>22, <1>23, <1>24, <1>25, <1>26, <1>27, <1>28,
      <1>29, <1>30, <1>31, <1>32, StepKinds

\* Every step leaves psignal() and setrun() where they can be.
LEMMA CallsStep ==
  ASSUME Control, [Next]_vars
  PROVE  Calls'
<1>1. CASE Unseen
  BY <1>1 DEF Unseen, Calls, Control, Types, Places, Asleep, GivenUp
<1>2. CASE WakeupSkip
  BY Constants, <1>2 DEF Calls, Control, Types, Places, Asleep, GivenUp, WakeupSkip, queueVars,
      swapVars, setrunVars
<1>3. CASE WakeupMatch
  BY SMTT(30), Constants, <1>3 DEF Calls, Control, Types, Places, Asleep, GivenUp, WakeupMatch, setrq,
      Continue, CallsSwapper, queueVars, swapVars, setrunVars
<1>4. CASE WakeupReturn
  BY Constants, <1>4 DEF Calls, Control, Types, Places, Asleep, GivenUp, WakeupReturn, queueVars,
      swapVars, setrunVars
<1>5. ASSUME NEW c \in Contexts, NEW q \in Users, Psignal(c, q) PROVE Calls'
  BY Constants, <1>5 DEF Calls, Control, Types, Places, Asleep, GivenUp, Psignal, MayCall, At, Live,
      Go, queueVars, swapVars, setrunVars
<1>6. ASSUME NEW p \in Users, NEW q \in Users, Ptrace(p, q) PROVE Calls'
  BY Constants, <1>6 DEF Calls, Control, Types, Places, Asleep, GivenUp, Ptrace, MayCall, At, Live,
      Go, queueVars, swapVars, setrunVars
<1>7. ASSUME NEW c \in Contexts, PsignalTest(c) PROVE Calls'
  <2>1. UNCHANGED <<p_stat, p_wchan, cur, pc>>
    BY <1>7 DEF PsignalTest, queueVars
  <2>2. /\ spc[c] = "psignal" /\ tgt[c] # NULL /\ tgt[c] \in Users
        /\ c # Intr => cur = c /\ pc[c] = "body"
    BY Constants, <1>7 DEF Control, Calls, PsignalTest, At
  <2>3. CASE p_stat[tgt[c]] = "SSLEEP" /\ p_pri[tgt[c]] > PZERO
    <3>1. spc' = [spc EXCEPT ![c] = "setrun"] /\ UNCHANGED <<tgt, w>>
      BY <1>7, <2>3 DEF PsignalTest, Go
    <3>2. tgt[c] = cur => pc[cur] \in GivenUp
      BY Constants, <2>2, <2>3 DEF Control, Places
    <3> QED BY SMTT(30), <2>1, <2>2, <3>1, <3>2 DEF Control, Calls
  <2>4. CASE ~(p_stat[tgt[c]] = "SSLEEP" /\ p_pri[tgt[c]] > PZERO)
    <3>1. /\ spc' = [spc EXCEPT ![c] = "idle"] /\ tgt' = [tgt EXCEPT ![c] = NULL]
          /\ w' = [w EXCEPT ![c] = NULL]
      BY <1>7, <2>4 DEF PsignalTest, Go, Done
    <3> QED BY SMTT(30), <2>1, <3>1 DEF Control, Calls
  <2> QED BY <2>3, <2>4
<1>8. ASSUME NEW c \in Contexts, SetrunRead(c) PROVE Calls'
  BY Constants, <1>8 DEF Calls, Control, Types, Places, Asleep, GivenUp, SetrunRead, At, Live, Go,
      queueVars, swapVars, setrunVars
<1>9. ASSUME NEW c \in Contexts, SetrunWakeup(c) PROVE Calls'
  BY Constants, <1>9 DEF Calls, Control, Types, Places, Asleep, GivenUp, SetrunWakeup, At, Live, Go,
      Done, Frame, queueVars, swapVars, setrunVars
<1>10. ASSUME NEW c \in Contexts, SetrunRun(c) PROVE Calls'
  BY Constants, <1>10 DEF Calls, Control, Types, Places, Asleep, GivenUp, SetrunRun, At, Live, Go,
      queueVars, swapVars, setrunVars
<1>11. ASSUME NEW c \in Contexts, SetrunSetrq(c) PROVE Calls'
  BY Constants, <1>11 DEF Calls, Control, Types, Places, Asleep, GivenUp, SetrunSetrq, At, Live, Go,
      setrq, queueVars, swapVars, setrunVars
<1>12. ASSUME NEW c \in Contexts, SetrunRunout(c) PROVE Calls'
  BY Constants, <1>12 DEF Calls, Control, Types, Places, Asleep, GivenUp, SetrunRunout, At, Live,
      Go, Done, Frame, CallsSwapper, queueVars, swapVars, setrunVars
<1>13. ASSUME NEW p \in Users, NEW c \in Chans, NEW pri \in Pris, Sleep(p, c, pri) PROVE Calls'
  BY Constants, <1>13 DEF Calls, Control, Types, Places, Asleep, GivenUp, Sleep, MayCall, At, Live,
      Enqueue, queueVars, swapVars, setrunVars
<1>14. ASSUME NEW p \in Users, NEW c \in Chans, NEW pri \in Pris, SleepSignalled(p, c, pri) PROVE Calls'
  BY Constants, <1>14 DEF Calls, Control, Types, Places, Asleep, GivenUp, SleepSignalled, MayCall,
      At, Live, queueVars, swapVars, setrunVars
<1>15. ASSUME NEW p \in Users, SleepRunin(p) PROVE Calls'
  BY Constants, <1>15 DEF Calls, Control, Types, Places, Asleep, GivenUp, SleepRunin, Running,
      Frame, queueVars, swapVars, setrunVars
<1>16. ASSUME NEW p \in Users, NEW c \in Chans, Wakeup(p, c) PROVE Calls'
  BY Constants, <1>16 DEF Calls, Control, Types, Places, Asleep, GivenUp, Wakeup, MayCall, At, Live,
      Frame, queueVars, swapVars, setrunVars
<1>17. ASSUME NEW p \in Users, TakeSignal(p) PROVE Calls'
  BY Constants, <1>17 DEF Calls, Control, Types, Places, Asleep, GivenUp, TakeSignal, Running,
      Frame, queueVars, swapVars, setrunVars
<1>18. ASSUME NEW p \in Users, Stop(p) PROVE Calls'
  BY Constants, <1>18 DEF Calls, Control, Types, Places, Asleep, GivenUp, Stop, Running, queueVars,
      swapVars, setrunVars
<1>19. ASSUME NEW p \in Users, Restarted(p) PROVE Calls'
  BY Constants, <1>19 DEF Calls, Control, Types, Places, Asleep, GivenUp, Restarted, Running, Frame,
      queueVars, swapVars, setrunVars
<1>20. ASSUME NEW p \in Users, Qswtch(p) PROVE Calls'
  BY Constants, <1>20 DEF Calls, Control, Types, Places, Asleep, GivenUp, Qswtch, MayCall, At, Live,
      setrq, queueVars, swapVars, setrunVars
<1>21. ASSUME NEW p \in Procs, Swtch(p) PROVE Calls'
  BY Constants, <1>21 DEF Calls, Control, Types, Places, Asleep, GivenUp, Swtch, Running, Resume,
      queueVars, swapVars, setrunVars
<1>22. CASE Dispatch
  BY Constants, <1>22 DEF Calls, Control, Types, Places, Asleep, GivenUp, Dispatch, queueVars,
      swapVars, setrunVars
<1>23. CASE SchedIdle
  BY Constants, <1>23 DEF Calls, Control, Types, Places, Asleep, GivenUp, SchedIdle, AtSched,
      Running, SchedSleep, Enqueue, queueVars, swapVars, setrunVars
<1>24. CASE SchedPick
  BY Constants, <1>24 DEF Calls, Control, Types, Places, Asleep, GivenUp, SchedPick, AtSched,
      Running, Waiting, queueVars, swapVars, setrunVars
<1>25. CASE SchedSwapin
  BY Constants, <1>25 DEF Calls, Control, Types, Places, Asleep, GivenUp, SchedSwapin, AtSched,
      Running, SchedSleep, Enqueue, queueVars, swapVars, setrunVars
<1>26. CASE SwapinDone
  BY Constants, <1>26 DEF Calls, Control, Types, Places, Asleep, GivenUp, SwapinDone, AtSched,
      Running, queueVars, swapVars, setrunVars
<1>27. CASE SchedScan
  BY Constants, <1>27 DEF Calls, Control, Types, Places, Asleep, GivenUp, SchedScan, AtSched,
      Running, Easy, Swappable, queueVars, swapVars, setrunVars
<1>28. CASE SchedSwapout
  BY Constants, <1>28 DEF Calls, Control, Types, Places, Asleep, GivenUp, SchedSwapout, AtSched,
      Running, SchedSleep, Enqueue, queueVars, swapVars, setrunVars
<1>29. CASE SwapoutDone
  BY Constants, <1>29 DEF Calls, Control, Types, Places, Asleep, GivenUp, SwapoutDone, AtSched,
      Running, queueVars, swapVars, setrunVars
<1>30. CASE SchedWait
  BY Constants, <1>30 DEF Calls, Control, Types, Places, Asleep, GivenUp, SchedWait, AtSched,
      Running, SchedSleep, Enqueue, queueVars, swapVars, setrunVars
<1>31. ASSUME NEW c \in Chans \cup {Swbuf}, Interrupt(c) PROVE Calls'
  BY Constants, <1>31 DEF Calls, Control, Types, Places, Asleep, GivenUp, Interrupt, Frame,
      queueVars, swapVars, setrunVars
<1>32. CASE Second
  BY Constants, <1>32 DEF Calls, Control, Types, Places, Asleep, GivenUp, Second, Frame, queueVars,
      swapVars, setrunVars
<1> QED
  BY <1>1, <1>2, <1>3, <1>4, <1>5, <1>6, <1>7, <1>8, <1>9, <1>10, <1>11, <1>12, <1>13, <1>14, <1>15,
      <1>16, <1>17, <1>18, <1>19, <1>20, <1>21, <1>22, <1>23, <1>24, <1>25, <1>26, <1>27, <1>28,
      <1>29, <1>30, <1>31, <1>32, StepKinds

\* What setrun() makes of the calls of wakeup() when one of them has found a process.
LEMMA MatchFrames ==
  ASSUME Control, WakeupMatch
  PROVE  /\ Head(wk).p \in Procs /\ p_wchan[Head(wk).p] = Head(wk).chan
         /\ \/ /\ wk = <<Head(wk)>> /\ CallsSwapper(Head(wk).p) /\ Head(wk).chan \in Chans
               /\ wk' = <<[chan |-> Runout, p |-> slpque'[Hash[Runout]], q |-> NULL],
                          Continue(Head(wk))>>
            \/ wk = <<Head(wk)>> /\ ~CallsSwapper(Head(wk).p) /\ wk' = <<Continue(Head(wk))>>
            \/ /\ \E g \in FrameSet : /\ wk = <<Head(wk), g>> /\ wk' = <<Continue(Head(wk)), g>>
                                      /\ g.chan \in Chans
               /\ ~CallsSwapper(Head(wk).p) /\ Head(wk).chan = Runout
<1> DEFINE f == Head(wk)
           n == [chan |-> Runout, p |-> slpque'[Hash[Runout]], q |-> NULL]
<1>1. f \in FrameSet /\ f.p \in Procs /\ p_wchan[f.p] = f.chan /\ f.chan \in Channels
  BY HeadFrame DEF Control, WakeupMatch, FrameSet
<1>2. wk' = (IF CallsSwapper(f.p) THEN <<n>> ELSE <<>>) \o <<Continue(f)>> \o Tail(wk)
  BY DEF WakeupMatch
<1>3. CallsSwapper(f.p) => f.chan \in Chans
  BY <1>1, Constants DEF CallsSwapper, Control, Types, Asleep
<1>4. PICK x : x = Continue(f)
  OBVIOUS
<1>5. wk # <<>> /\ f = Head(wk)
  BY DEF WakeupMatch
<1> HIDE DEF f, n
<1>6. CASE CallsSwapper(f.p)
  <2>1. Tail(wk) = <<>> /\ wk = <<f>>
    BY <1>3, <1>5, <1>6, HeadFrame, Constants DEF Control
  <2>2. wk' = <<n, Continue(f)>>
    BY <1>2, <1>4, <1>6, <2>1, TwoFrames
  <2> QED BY <1>1, <1>3, <1>6, <2>1, <2>2 DEF f, n
<1>7. CASE ~CallsSwapper(f.p)
  <2>1. CASE Tail(wk) = <<>>
    <3>1. wk' = <<Continue(f)>> /\ wk = <<f>>
      BY <1>2, <1>4, <1>5, <1>7, <2>1, TwoFrames, HeadFrame DEF Control
    <3> QED BY <1>1, <1>7, <3>1 DEF f
  <2>2. CASE Tail(wk) # <<>>
    <3>1. PICK g \in FrameSet : /\ wk = <<f, g>> /\ Tail(wk) = <<g>> /\ g.chan \in Chans
                                /\ f.chan = Runout
      BY <1>5, <2>2, HeadFrame DEF Control
    <3>2. wk' = <<Continue(f), g>>
      BY <1>2, <1>4, <1>7, <3>1, TwoFrames
    <3> QED BY <1>1, <1>7, <3>1, <3>2 DEF f
  <2> QED BY <2>1, <2>2
<1> QED BY <1>6, <1>7

\* Calls of wakeup() nest no deeper.
LEMMA FramesStep ==
  ASSUME Control, [Next]_vars
  PROVE  Frames'
<1>1. CASE Unseen
  BY <1>1 DEF Unseen, Frames, FrameSet, Control, Types, Asleep, Calls
<1>2. CASE WakeupSkip
  BY SMTT(60), Constants, <1>2 DEF Frames, FrameSet, Control, Types, Asleep, Calls, WakeupSkip, queueVars,
      swapVars, setrunVars
<1>3. CASE WakeupMatch
  <2>1. Head(wk) \in FrameSet
    BY <1>3, HeadFrame DEF Control, WakeupMatch
  <2>2. Continue(Head(wk)) \in FrameSet /\ Continue(Head(wk)).chan = Head(wk).chan
    BY <1>3, <2>1 DEF Control, Types, Continue, FrameSet, WakeupMatch
  <2>3. PICK n : n = [chan |-> Runout, p |-> slpque'[Hash[Runout]], q |-> NULL]
    OBVIOUS
  <2>4. n \in FrameSet /\ n.chan = Runout
    BY <2>3, TypesStep, Constants DEF Types, FrameSet
  <2> QED BY <1>3, <2>1, <2>2, <2>3, <2>4, MatchFrames DEF Frames
<1>4. CASE WakeupReturn
  <2>1. wk' = <<>> \/ \E g \in FrameSet : wk' = <<g>>
    BY <1>4, HeadFrame DEF Control, WakeupReturn
  <2> QED BY <2>1 DEF Frames
<1>5. ASSUME NEW c \in Contexts, NEW q \in Users, Psignal(c, q) PROVE Frames'
  BY Constants, <1>5 DEF Frames, FrameSet, Control, Types, Asleep, Calls, Psignal, MayCall, At,
      Live, Go, queueVars, swapVars, setrunVars
<1>6. ASSUME NEW p \in Users, NEW q \in Users, Ptrace(p, q) PROVE Frames'
  BY Constants, <1>6 DEF Frames, FrameSet, Control, Types, Asleep, Calls, Ptrace, MayCall, At, Live,
      Go, queueVars, swapVars, setrunVars
<1>7. ASSUME NEW c \in Contexts, PsignalTest(c) PROVE Frames'
  BY Constants, <1>7 DEF Frames, FrameSet, Control, Types, Asleep, Calls, PsignalTest, At, Live, Go,
      Done, queueVars, swapVars, setrunVars
<1>8. ASSUME NEW c \in Contexts, SetrunRead(c) PROVE Frames'
  BY Constants, <1>8 DEF Frames, FrameSet, Control, Types, Asleep, Calls, SetrunRead, At, Live, Go,
      queueVars, swapVars, setrunVars
<1>9. ASSUME NEW c \in Contexts, SetrunWakeup(c) PROVE Frames'
  BY Constants, <1>9 DEF Frames, FrameSet, Control, Types, Asleep, Calls, SetrunWakeup, At, Live,
      Go, Done, Frame, queueVars, swapVars, setrunVars
<1>10. ASSUME NEW c \in Contexts, SetrunRun(c) PROVE Frames'
  BY Constants, <1>10 DEF Frames, FrameSet, Control, Types, Asleep, Calls, SetrunRun, At, Live, Go,
      queueVars, swapVars, setrunVars
<1>11. ASSUME NEW c \in Contexts, SetrunSetrq(c) PROVE Frames'
  BY Constants, <1>11 DEF Frames, FrameSet, Control, Types, Asleep, Calls, SetrunSetrq, At, Live,
      Go, setrq, queueVars, swapVars, setrunVars
<1>12. ASSUME NEW c \in Contexts, SetrunRunout(c) PROVE Frames'
  BY Constants, <1>12 DEF Frames, FrameSet, Control, Types, Asleep, Calls, SetrunRunout, At, Live,
      Go, Done, Frame, CallsSwapper, queueVars, swapVars, setrunVars
<1>13. ASSUME NEW p \in Users, NEW c \in Chans, NEW pri \in Pris, Sleep(p, c, pri) PROVE Frames'
  BY Constants, <1>13 DEF Frames, FrameSet, Control, Types, Asleep, Calls, Sleep, MayCall, At, Live,
      Enqueue, queueVars, swapVars, setrunVars
<1>14. ASSUME NEW p \in Users, NEW c \in Chans, NEW pri \in Pris, SleepSignalled(p, c, pri) PROVE Frames'
  BY Constants, <1>14 DEF Frames, FrameSet, Control, Types, Asleep, Calls, SleepSignalled, MayCall,
      At, Live, queueVars, swapVars, setrunVars
<1>15. ASSUME NEW p \in Users, SleepRunin(p) PROVE Frames'
  BY Constants, <1>15 DEF Frames, FrameSet, Control, Types, Asleep, Calls, SleepRunin, Running,
      Frame, queueVars, swapVars, setrunVars
<1>16. ASSUME NEW p \in Users, NEW c \in Chans, Wakeup(p, c) PROVE Frames'
  BY Constants, <1>16 DEF Frames, FrameSet, Control, Types, Asleep, Calls, Wakeup, MayCall, At,
      Live, Frame, queueVars, swapVars, setrunVars
<1>17. ASSUME NEW p \in Users, TakeSignal(p) PROVE Frames'
  BY Constants, <1>17 DEF Frames, FrameSet, Control, Types, Asleep, Calls, TakeSignal, Running,
      Frame, queueVars, swapVars, setrunVars
<1>18. ASSUME NEW p \in Users, Stop(p) PROVE Frames'
  BY Constants, <1>18 DEF Frames, FrameSet, Control, Types, Asleep, Calls, Stop, Running, queueVars,
      swapVars, setrunVars
<1>19. ASSUME NEW p \in Users, Restarted(p) PROVE Frames'
  BY Constants, <1>19 DEF Frames, FrameSet, Control, Types, Asleep, Calls, Restarted, Running,
      Frame, queueVars, swapVars, setrunVars
<1>20. ASSUME NEW p \in Users, Qswtch(p) PROVE Frames'
  BY Constants, <1>20 DEF Frames, FrameSet, Control, Types, Asleep, Calls, Qswtch, MayCall, At,
      Live, setrq, queueVars, swapVars, setrunVars
<1>21. ASSUME NEW p \in Procs, Swtch(p) PROVE Frames'
  BY Constants, <1>21 DEF Frames, FrameSet, Control, Types, Asleep, Calls, Swtch, Running, Resume,
      queueVars, swapVars, setrunVars
<1>22. CASE Dispatch
  BY Constants, <1>22 DEF Frames, FrameSet, Control, Types, Asleep, Calls, Dispatch, queueVars,
      swapVars, setrunVars
<1>23. CASE SchedIdle
  BY Constants, <1>23 DEF Frames, FrameSet, Control, Types, Asleep, Calls, SchedIdle, AtSched,
      Running, SchedSleep, Enqueue, queueVars, swapVars, setrunVars
<1>24. CASE SchedPick
  BY Constants, <1>24 DEF Frames, FrameSet, Control, Types, Asleep, Calls, SchedPick, AtSched,
      Running, Waiting, queueVars, swapVars, setrunVars
<1>25. CASE SchedSwapin
  BY Constants, <1>25 DEF Frames, FrameSet, Control, Types, Asleep, Calls, SchedSwapin, AtSched,
      Running, SchedSleep, Enqueue, queueVars, swapVars, setrunVars
<1>26. CASE SwapinDone
  BY Constants, <1>26 DEF Frames, FrameSet, Control, Types, Asleep, Calls, SwapinDone, AtSched,
      Running, queueVars, swapVars, setrunVars
<1>27. CASE SchedScan
  BY Constants, <1>27 DEF Frames, FrameSet, Control, Types, Asleep, Calls, SchedScan, AtSched,
      Running, Easy, Swappable, queueVars, swapVars, setrunVars
<1>28. CASE SchedSwapout
  BY Constants, <1>28 DEF Frames, FrameSet, Control, Types, Asleep, Calls, SchedSwapout, AtSched,
      Running, SchedSleep, Enqueue, queueVars, swapVars, setrunVars
<1>29. CASE SwapoutDone
  BY Constants, <1>29 DEF Frames, FrameSet, Control, Types, Asleep, Calls, SwapoutDone, AtSched,
      Running, queueVars, swapVars, setrunVars
<1>30. CASE SchedWait
  BY Constants, <1>30 DEF Frames, FrameSet, Control, Types, Asleep, Calls, SchedWait, AtSched,
      Running, SchedSleep, Enqueue, queueVars, swapVars, setrunVars
<1>31. ASSUME NEW c \in Chans \cup {Swbuf}, Interrupt(c) PROVE Frames'
  BY Constants, <1>31 DEF Frames, FrameSet, Control, Types, Asleep, Calls, Interrupt, Frame,
      queueVars, swapVars, setrunVars
<1>32. CASE Second
  BY Constants, <1>32 DEF Frames, FrameSet, Control, Types, Asleep, Calls, Second, Frame, queueVars,
      swapVars, setrunVars
<1> QED
  BY <1>1, <1>2, <1>3, <1>4, <1>5, <1>6, <1>7, <1>8, <1>9, <1>10, <1>11, <1>12, <1>13, <1>14, <1>15,
      <1>16, <1>17, <1>18, <1>19, <1>20, <1>21, <1>22, <1>23, <1>24, <1>25, <1>26, <1>27, <1>28,
      <1>29, <1>30, <1>31, <1>32, StepKinds

\* So the control is kept.
LEMMA ControlStep == Control /\ [Next]_vars => Control'
BY TypesStep, PlacesStep, AsleepStep, CallsStep, FramesStep DEF Control

\* At first the run queue is a list of the users' processes.
LEMMA InitQueue ==
  ASSUME Init
  PROVE  /\ \E m, s : Chain(m, s, runq, p_link) /\ Members(m, s) = Users
         /\ p_link \in [Procs -> Procs \cup {NULL}] /\ runq \in Procs
         /\ load \subseteq Procs /\ Sched \in load
<1>1. PICK N : N = Cardinality(Users)
  OBVIOUS
<1>2. N \in Nat /\ N # 0 /\ IsFiniteSet(Users)
  BY <1>1, SlpAssumption, FS_CardinalityType, FS_EmptySet
<1>3. PICK s \in [1 .. N -> Users] :
        /\ \A i, j \in DOMAIN s : s[i] = s[j] => i = j
        /\ runq = s[1]
        /\ p_link = [p \in Procs |->
                       IF \E i \in 2 .. Len(s) : s[i - 1] = p
                       THEN s[(CHOOSE i \in 2 .. Len(s) : s[i - 1] = p)]
                       ELSE NULL]
        /\ load = {Sched} \cup {s[i] : i \in {n \in DOMAIN s : n <= Core}}
  BY <1>1 DEF Init
<1>4. Len(s) = N /\ DOMAIN s = 1 .. N
  <2>1. s \in Seq(Users)
    BY <1>2, <1>3, SeqDef
  <2>2. DOMAIN s = 1 .. N
    BY <1>3
  <2>3. Len(s) \in Nat /\ DOMAIN s = 1 .. Len(s)
    BY <2>1, LenProperties
  <2>4. Len(s) = N
    BY <1>2, <2>2, <2>3
  <2> QED BY <2>2, <2>4
<1>5. /\ \A i, j \in 1 .. N : s[i] = s[j] => i = j
      /\ p_link = [p \in Procs |->
                     IF \E i \in 2 .. N : s[i - 1] = p
                     THEN s[(CHOOSE i \in 2 .. N : s[i - 1] = p)] ELSE NULL]
      /\ load = {Sched} \cup {s[i] : i \in {n \in 1 .. N : n <= Core}}
  BY <1>3, <1>4
<1>6. \A i \in 1 .. N : s[i] \in Users /\ s[i] \in Procs
  BY <1>3, Constants
<1>7. \A u \in Users : \E i \in 1 .. N : s[i] = u
  <2>1. s \in Injection(1 .. N, Users)
    BY <1>3, <1>5 DEF Injection, IsInjective
  <2>2. 1 \in Int /\ N \in Int
    BY <1>2
  <2>3. Cardinality(1 .. N) = IF 1 > N THEN 0 ELSE N - 1 + 1
    BY <2>2, FS_Interval
  <2>4. Cardinality(1 .. N) = Cardinality(Users)
    BY <1>1, <1>2, <2>3
  <2>5. s \in Surjection(1 .. N, Users)
    BY <1>2, <2>1, <2>4, FS_Injection
  <2> QED BY <2>5 DEF Surjection
<1>8. ASSUME NEW i \in 1 .. N PROVE p_link[s[i]] = IF i < N THEN s[i + 1] ELSE NULL
  <2>1. p_link[s[i]] = IF \E k \in 2 .. N : s[k - 1] = s[i]
                       THEN s[(CHOOSE k \in 2 .. N : s[k - 1] = s[i])] ELSE NULL
    BY <1>5, <1>6
  <2>2. ASSUME NEW k \in 2 .. N, s[k - 1] = s[i] PROVE k = i + 1
    <3>1. k - 1 \in 1 .. N
      BY <1>2
    <3>2. k - 1 = i
      BY <1>5, <2>2, <3>1
    <3> QED BY <3>2
  <2>3. CASE i < N
    <3>1. i + 1 \in 2 .. N /\ (i + 1) - 1 = i
      BY <1>2, <2>3
    <3>2. (CHOOSE k \in 2 .. N : s[k - 1] = s[i]) = i + 1
      <4>1. \E k \in 2 .. N : s[k - 1] = s[i]
        BY <3>1
      <4>2. PICK k : k = CHOOSE j \in 2 .. N : s[j - 1] = s[i]
        OBVIOUS
      <4>3. k \in 2 .. N /\ s[k - 1] = s[i]
        BY <4>1, <4>2
      <4>4. k = i + 1
        BY <2>2, <4>3
      <4> QED BY <4>2, <4>4
    <3> QED BY <2>1, <2>3, <3>1, <3>2
  <2>4. CASE ~(i < N)
    <3>1. ~ \E k \in 2 .. N : s[k - 1] = s[i]
      <4> SUFFICES ASSUME NEW k \in 2 .. N, s[k - 1] = s[i] PROVE FALSE
        OBVIOUS
      <4>1. k = i + 1
        BY <2>2
      <4> QED BY <1>2, <2>4, <4>1
    <3> QED BY <2>1, <2>4, <3>1
  <2> QED BY <2>3, <2>4
<1>9. PICK t : t = [k \in 0 .. N - 1 |-> s[k + 1]]
  OBVIOUS
<1>10. \A k \in 0 .. N - 1 : k + 1 \in 1 .. N /\ t[k] = s[k + 1]
  BY <1>2, <1>9
<1>11. Chain(N, t, runq, p_link)
  <2>1. t \in [0 .. N - 1 -> Procs]
    BY <1>6, <1>9, <1>10
  <2>2. ASSUME NEW j \in 0 .. N - 1, NEW k \in 0 .. N - 1, t[j] = t[k] PROVE j = k
    <3>1. j + 1 = k + 1
      BY <1>5, <1>10, <2>2
    <3> QED BY <1>2, <3>1
  <2>3. runq = Nth(N, t, 0)
    <3>1. 0 \in 0 .. N - 1 /\ 0 < N /\ 0 + 1 = 1
      BY <1>2
    <3>2. t[0] = s[1]
      BY <1>10, <3>1
    <3> QED BY <1>3, <3>1, <3>2 DEF Nth
  <2>4. ASSUME NEW k \in 0 .. N - 1 PROVE p_link[t[k]] = Nth(N, t, k + 1)
    <3>1. p_link[t[k]] = IF k + 1 < N THEN s[(k + 1) + 1] ELSE NULL
      BY <1>8, <1>10
    <3>2. CASE k + 1 < N
      <4>1. k + 1 \in 0 .. N - 1
        BY <1>2, <3>2
      <4>2. t[k + 1] = s[(k + 1) + 1]
        BY <1>10, <4>1
      <4> QED BY <3>1, <3>2, <4>2 DEF Nth
    <3>3. CASE ~(k + 1 < N)
      BY <3>1, <3>3 DEF Nth
    <3> QED BY <3>2, <3>3
  <2> QED BY <1>2, <2>1, <2>2, <2>3, <2>4 DEF Chain
<1>12. Members(N, t) = Users
  <2>1. ASSUME NEW u \in Users PROVE \E k \in 0 .. N - 1 : t[k] = u
    <3>1. PICK i \in 1 .. N : s[i] = u
      BY <1>7
    <3>2. i - 1 \in 0 .. N - 1 /\ (i - 1) + 1 = i
      BY <1>2
    <3> QED BY <1>10, <3>1, <3>2
  <2>2. \A k \in 0 .. N - 1 : t[k] \in Users
    BY <1>6, <1>10
  <2> QED BY <2>1, <2>2 DEF Members
<1>13. p_link \in [Procs -> Procs \cup {NULL}]
  <2> SUFFICES ASSUME NEW p \in Procs PROVE p_link[p] \in Procs \cup {NULL}
    BY <1>5
  <2>1. p_link[p] = IF \E k \in 2 .. N : s[k - 1] = p
                    THEN s[(CHOOSE k \in 2 .. N : s[k - 1] = p)] ELSE NULL
    BY <1>5
  <2>2. CASE \E k \in 2 .. N : s[k - 1] = p
    <3>1. PICK k : k = CHOOSE j \in 2 .. N : s[j - 1] = p
      OBVIOUS
    <3>2. k \in 2 .. N
      BY <2>2, <3>1
    <3>3. k \in 1 .. N
      BY <1>2, <3>2
    <3> QED BY <1>6, <2>1, <2>2, <3>1, <3>3
  <2>3. CASE ~ \E k \in 2 .. N : s[k - 1] = p
    BY <2>1, <2>3
  <2> QED BY <2>2, <2>3
<1>14. runq \in Procs
  <2>1. 1 \in 1 .. N
    BY <1>2
  <2> QED BY <1>3, <1>6, <2>1
<1>15. load \subseteq Procs /\ Sched \in load
  BY <1>5, <1>6, Constants
<1> QED BY <1>11, <1>12, <1>13, <1>14, <1>15

\* The control is as it should be at first.
LEMMA InitControl == Init => Control
<1> SUFFICES ASSUME Init PROVE Control
  OBVIOUS
<1>1. Types
  <2>1. p_sig \in [Procs -> BOOLEAN]
    BY DEF Init
  <2>2. runin \in BOOLEAN /\ runout \in BOOLEAN
    BY DEF Init
  <2>3. p_pri \in [Procs -> 0 .. PUSER]
    BY Constants DEF Init
  <2> QED BY <2>1, <2>2, <2>3, InitQueue, Constants DEF Init, Types
<1>2. Places
  BY Constants DEF Init, Places, UserPlaces, SchedPlaces, GivenUp
<1>3. Asleep
  BY Constants DEF Init, Asleep
<1>4. Calls
  BY Constants DEF Init, Calls
<1>5. Frames
  BY DEF Init, Frames
<1> QED BY <1>1, <1>2, <1>3, <1>4, <1>5 DEF Control

\* In every state of every behaviour, whatever HASH() is: what TypeOK says, among
\* it that a call of wakeup() from within a call of wakeup() calls it no more.
THEOREM TypeCorrect == Spec => []TypeOK
<1>1. Control => TypeOK
  <2> SUFFICES ASSUME Control PROVE TypeOK
    OBVIOUS
  <2>1. Len(wk) <= 2 /\ \A i \in DOMAIN wk : wk[i].chan \in Channels
    <3>1. CASE wk = <<>>
      BY <3>1
    <3>2. CASE \E f \in FrameSet : wk = <<f>>
      <4>1. PICK f \in FrameSet : wk = <<f>>
        BY <3>2
      <4> QED BY <4>1 DEF FrameSet
    <3>3. CASE \E f, g \in FrameSet : wk = <<f, g>>
      <4>1. PICK f \in FrameSet, g \in FrameSet : wk = <<f, g>>
        BY <3>3
      <4> QED BY <4>1 DEF FrameSet
    <3> QED BY <3>1, <3>2, <3>3 DEF Control, Frames
  <2>2. \A c \in Contexts : tgt[c] \in Users \cup {NULL} /\ w[c] \in Channels \cup {NULL}
    BY Constants DEF Control, Calls
  <2> QED BY <2>1, <2>2 DEF Control, Types, TypeOK
<1> QED BY <1>1, InitControl, ControlStep, PTL DEF Spec

-----------------------------------------------------------------------------
(* The sleep queues.                                                       *)

\* A call of wakeup() that starts is at the first process of the list.
LEMMA FrameStarts ==
  ASSUME NEW m, NEW s, NEW head, NEW link, NEW wchan, NEW f, Chain(m, s, head, link),
         f.p = head, f.q = NULL
  PROVE  \E k \in 0 .. m : FrameAt(f, m, s, k, wchan)
<1>1. m \in Nat /\ head = Nth(m, s, 0)
  BY DEF Chain
<1>2. 0 \in 0 .. m /\ \A j \in 0 .. 0 - 1 : FALSE
  BY <1>1
<1>3. FrameAt(f, m, s, 0, wchan)
  BY <1>1, <1>2 DEF FrameAt
<1> QED BY <1>2, <1>3

\* A queue stays as it is while its sleepers do; a call of wakeup() may start.
LEMMA QueueKeep ==
  ASSUME NEW h \in Queues, SleepQueue(h), slpque'[h] = slpque[h],
         \A p \in Sleepers(p_wchan, h) : p_link'[p] = p_link[p] /\ p_wchan'[p] = p_wchan[p],
         Sleepers(p_wchan', h) = Sleepers(p_wchan, h),
         \A i \in DOMAIN wk' : Hash[wk'[i].chan] = h =>
            \/ \E j \in DOMAIN wk : wk'[i] = wk[j]
            \/ wk'[i].p = slpque[h] /\ wk'[i].q = NULL
  PROVE  SleepQueue(h)'
<1>1. PICK m, s : Listed(m, s, slpque[h], p_link, p_wchan, wk, h)
  BY DEF SleepQueue
<1>2. /\ Chain(m, s, slpque[h], p_link) /\ Members(m, s) = Sleepers(p_wchan, h)
      /\ \A i \in DOMAIN wk :
           Hash[wk[i].chan] = h => \E k \in 0 .. m : FrameAt(wk[i], m, s, k, p_wchan)
  BY <1>1 DEF Listed
<1>3. Chain(m, s, slpque'[h], p_link')
  BY <1>2, ChainKeep
<1>4. m \in Nat
  BY <1>2 DEF Chain
<1>5. ASSUME NEW i \in DOMAIN wk', Hash[wk'[i].chan] = h
      PROVE  \E k \in 0 .. m : FrameAt(wk'[i], m, s, k, p_wchan')
  <2>1. CASE \E j \in DOMAIN wk : wk'[i] = wk[j]
    <3>1. PICK k \in 0 .. m : FrameAt(wk'[i], m, s, k, p_wchan)
      BY <1>2, <1>5, <2>1
    <3>2. ASSUME NEW j \in 0 .. k - 1 PROVE p_wchan'[s[j]] = p_wchan[s[j]]
      <4>1. j \in 0 .. m - 1
        BY <1>4
      <4>2. s[j] \in Sleepers(p_wchan, h)
        BY <1>2, <4>1 DEF Members
      <4> QED BY <4>2
    <3>3. FrameAt(wk'[i], m, s, k, p_wchan')
      BY <3>1, <3>2 DEF FrameAt
    <3> QED BY <3>3
  <2>2. CASE wk'[i].p = slpque[h] /\ wk'[i].q = NULL
    <3>1. PICK f : f = wk'[i]
      OBVIOUS
    <3>2. PICK v : v = p_wchan'
      OBVIOUS
    <3>3. \E k \in 0 .. m : FrameAt(f, m, s, k, v)
      BY <1>2, <2>2, <3>1, FrameStarts
    <3> QED BY <3>1, <3>2, <3>3
  <2> QED BY <1>5, <2>1, <2>2
<1>6. Listed(m, s, slpque'[h], p_link', p_wchan', wk', h)
  BY <1>2, <1>3, <1>5 DEF Listed
<1> QED BY <1>6 DEF SleepQueue

\* So do all of them when only links of those that do not sleep change.
LEMMA QueuesKeep ==
  ASSUME \A h \in Queues : SleepQueue(h), UNCHANGED <<slpque, p_wchan>>,
         \A p \in Procs : p_wchan[p] # NULL => p_link'[p] = p_link[p],
         \A i \in DOMAIN wk' : \/ \E j \in DOMAIN wk : wk'[i] = wk[j]
                               \/ wk'[i].p = slpque[Hash[wk'[i].chan]] /\ wk'[i].q = NULL
  PROVE  \A h \in Queues : SleepQueue(h)'
<1> TAKE h \in Queues
<1>1. \A p \in Sleepers(p_wchan, h) : p_link'[p] = p_link[p] /\ p_wchan'[p] = p_wchan[p]
  BY DEF Sleepers
<1>2. Sleepers(p_wchan', h) = Sleepers(p_wchan, h) /\ slpque'[h] = slpque[h]
  OBVIOUS
<1>3. ASSUME NEW i \in DOMAIN wk', Hash[wk'[i].chan] = h
      PROVE  \/ \E j \in DOMAIN wk : wk'[i] = wk[j]
             \/ wk'[i].p = slpque[h] /\ wk'[i].q = NULL
  BY <1>3
<1> QED BY <1>1, <1>2, <1>3, QueueKeep

\* A process that goes to sleep is the first of its queue.
LEMMA QueuesEnqueue ==
  ASSUME Control, \A h \in Queues : SleepQueue(h), NEW p \in Procs, NEW c \in Channels, NEW pri,
         Enqueue(p, c, pri), p_wchan[p] = NULL, wk = <<>>, wk' = <<>>
  PROVE  \A h \in Queues : SleepQueue(h)'
<1> TAKE h \in Queues
<1>0. /\ p_link \in [Procs -> Procs \cup {NULL}] /\ p_wchan \in [Procs -> Channels \cup {NULL}]
      /\ slpque \in [Queues -> Procs \cup {NULL}] /\ c # NULL
  BY Constants DEF Control, Types
<1>1. /\ p_wchan' = [p_wchan EXCEPT ![p] = c] /\ p_link' = [p_link EXCEPT ![p] = slpque[Hash[c]]]
      /\ slpque' = [slpque EXCEPT ![Hash[c]] = p]
  BY DEF Enqueue
<1>2. CASE h # Hash[c]
  <2>1. \A q \in Sleepers(p_wchan, h) : p_link'[q] = p_link[q] /\ p_wchan'[q] = p_wchan[q]
    BY <1>0, <1>1 DEF Sleepers
  <2>2. Sleepers(p_wchan', h) = Sleepers(p_wchan, h)
    BY <1>0, <1>1, <1>2 DEF Sleepers
  <2>3. slpque'[h] = slpque[h] /\ \A i \in DOMAIN wk' : FALSE
    BY <1>0, <1>1, <1>2
  <2> QED BY <2>1, <2>2, <2>3, QueueKeep
<1>3. CASE h = Hash[c]
  <2>1. PICK m, s : Listed(m, s, slpque[h], p_link, p_wchan, wk, h)
    BY DEF SleepQueue
  <2>2. Chain(m, s, slpque[h], p_link) /\ Members(m, s) = Sleepers(p_wchan, h)
    BY <2>1 DEF Listed
  <2>3. p \notin Members(m, s)
    BY <2>2 DEF Sleepers
  <2>4. PICK l, hd : l = p_link /\ hd = slpque[h]
    OBVIOUS
  <2>a. PICK l2 : l2 = p_link'
    OBVIOUS
  <2>5. PICK n, t : Chain(n, t, p, l2) /\ Members(n, t) = Members(m, s) \cup {p}
    <3>1. Chain(m, s, hd, l)
      BY <2>2, <2>4
    <3>2. l2[p] = hd /\ \A q \in Procs : q # p => l2[q] = l[q]
      BY <1>0, <1>1, <1>3, <2>4, <2>a
    <3> QED BY <2>3, <3>1, <3>2, ChainPush
  <2>6. Chain(n, t, slpque'[h], p_link')
    BY <1>0, <1>1, <1>3, <2>a, <2>5
  <2>7. Sleepers(p_wchan', h) = Sleepers(p_wchan, h) \cup {p}
    BY <1>0, <1>1, <1>3 DEF Sleepers
  <2>8. Listed(n, t, slpque'[h], p_link', p_wchan', wk', h)
    BY <2>2, <2>5, <2>6, <2>7 DEF Listed
  <2> QED BY <2>8 DEF SleepQueue
<1> QED BY <1>2, <1>3

\* The frames after wakeup() has passed a process over.
LEMMA SkipFrames ==
  ASSUME Control, WakeupSkip
  PROVE  \E f, f2 :
           /\ f = Head(wk) /\ f \in FrameSet /\ f.p # NULL /\ p_wchan[f.p] # f.chan
           /\ f2.chan = f.chan /\ f2.q = f.p /\ f2.p = p_link[f.p]
           /\ \/ wk = <<f>> /\ wk' = <<f2>>
              \/ \E g \in FrameSet : wk = <<f, g>> /\ wk' = <<f2, g>>
<1>1. PICK f : f = Head(wk)
  OBVIOUS
<1>2. f \in FrameSet /\ f.p # NULL /\ p_wchan[f.p] # f.chan
  BY <1>1, HeadFrame DEF Control, WakeupSkip
<1>3. PICK f2 : f2 = [f EXCEPT !.q = f.p, !.p = p_link[f.p]]
  OBVIOUS
<1>4. f2.chan = f.chan /\ f2.q = f.p /\ f2.p = p_link[f.p]
  BY <1>2, <1>3 DEF FrameSet
<1>5. \/ wk = <<f>> /\ wk' = <<f2>>
      \/ \E g \in FrameSet : wk = <<f, g>> /\ wk' = <<f2, g>>
  <2>1. wk' = [wk EXCEPT ![1].q = f.p, ![1].p = p_link[f.p]] /\ wk # <<>>
    BY <1>1 DEF WakeupSkip
  <2>2. PICK x : x = p_link[f.p]
    OBVIOUS
  <2>3. CASE wk = <<f>>
    BY <1>2, <1>3, <2>1, <2>2, <2>3 DEF FrameSet
  <2>4. CASE \E g \in FrameSet : wk = <<f, g>>
    <3>1. PICK g \in FrameSet : wk = <<f, g>>
      BY <2>4
    <3>2. wk' = <<f2, g>>
      BY <1>2, <1>3, <2>1, <2>2, <3>1 DEF FrameSet
    <3> QED BY <3>1, <3>2
  <2> QED BY <1>1, <2>1, <2>3, <2>4, HeadFrame DEF Control
<1> QED BY <1>1, <1>2, <1>4, <1>5

\* wakeup() passes a process over.
LEMMA QueuesSkip ==
  ASSUME Control, \A h \in Queues : SleepQueue(h), WakeupSkip
  PROVE  \A h \in Queues : SleepQueue(h)'
<1> TAKE h \in Queues
<1>1. PICK f, f2 :
        /\ f = Head(wk) /\ f \in FrameSet /\ f.p # NULL /\ p_wchan[f.p] # f.chan
        /\ f2.chan = f.chan /\ f2.q = f.p /\ f2.p = p_link[f.p]
        /\ \/ wk = <<f>> /\ wk' = <<f2>>
           \/ \E g \in FrameSet : wk = <<f, g>> /\ wk' = <<f2, g>>
  BY SkipFrames
<1>2. f \in FrameSet /\ f.p # NULL /\ p_wchan[f.p] # f.chan
  BY <1>1
<1>4. f2.chan = f.chan /\ f2.q = f.p /\ f2.p = p_link[f.p]
  BY <1>1
<1>5. \/ wk = <<f>> /\ wk' = <<f2>>
      \/ \E g \in FrameSet : wk = <<f, g>> /\ wk' = <<f2, g>>
  BY <1>1
<1>6. \A i \in DOMAIN wk' : wk'[i] = f2 \/ \E j \in DOMAIN wk : wk'[i] = wk[j]
  <2>1. CASE wk = <<f>> /\ wk' = <<f2>>
    BY <2>1
  <2>2. CASE \E g \in FrameSet : wk = <<f, g>> /\ wk' = <<f2, g>>
    <3>1. PICK g \in FrameSet : wk = <<f, g>> /\ wk' = <<f2, g>>
      BY <2>2
    <3>2. ASSUME NEW i \in DOMAIN wk' PROVE wk'[i] = f2 \/ (2 \in DOMAIN wk /\ wk'[i] = wk[2])
      BY <3>1
    <3> QED BY <3>2
  <2> QED BY <1>5, <2>1, <2>2
<1>7. 1 \in DOMAIN wk /\ wk[1] = f
  BY <1>5
<1>8. UNCHANGED <<p_wchan, p_link, slpque>>
  BY DEF WakeupSkip, queueVars
<1>9. CASE h # Hash[f.chan]
  <2>1. \A i \in DOMAIN wk' : Hash[wk'[i].chan] = h => \E j \in DOMAIN wk : wk'[i] = wk[j]
    BY <1>4, <1>6, <1>9
  <2>2. /\ \A p \in Sleepers(p_wchan, h) : p_link'[p] = p_link[p] /\ p_wchan'[p] = p_wchan[p]
        /\ Sleepers(p_wchan', h) = Sleepers(p_wchan, h) /\ slpque'[h] = slpque[h]
    BY <1>8
  <2> QED BY <2>1, <2>2, QueueKeep
<1>10. CASE h = Hash[f.chan]
  <2>1. PICK m, s : Listed(m, s, slpque[h], p_link, p_wchan, wk, h)
    BY DEF SleepQueue
  <2>2. /\ Chain(m, s, slpque[h], p_link) /\ Members(m, s) = Sleepers(p_wchan, h)
        /\ \A i \in DOMAIN wk :
             Hash[wk[i].chan] = h => \E k \in 0 .. m : FrameAt(wk[i], m, s, k, p_wchan)
    BY <2>1 DEF Listed
  <2>3. PICK k \in 0 .. m : FrameAt(f, m, s, k, p_wchan)
    BY <1>7, <1>10, <2>2
  <2>4. m \in Nat /\ \A j \in 0 .. m - 1 : p_link[s[j]] = Nth(m, s, j + 1)
    BY <2>2 DEF Chain
  <2>5. k < m /\ f.p = s[k] /\ \A j \in 0 .. k - 1 : p_wchan[s[j]] # f.chan
    BY <1>2, <2>3 DEF FrameAt, Nth
  <2>6. k + 1 \in 0 .. m /\ k \in 0 .. m - 1 /\ (k + 1) - 1 = k /\ k + 1 # 0 /\ k \in Nat
    BY <2>4, <2>5
  <2>7. FrameAt(f2, m, s, k + 1, p_wchan)
    <3>1. f2.q = s[(k + 1) - 1] /\ f2.p = Nth(m, s, k + 1)
      BY <1>4, <2>4, <2>5, <2>6
    <3>2. ASSUME NEW j \in 0 .. k PROVE p_wchan[s[j]] # f2.chan
      <4>1. j = k \/ j \in 0 .. k - 1
        BY <2>6
      <4> QED BY <1>2, <1>4, <2>5, <4>1
    <3> QED BY <2>6, <3>1, <3>2 DEF FrameAt
  <2>8. \A i \in DOMAIN wk' :
          Hash[wk'[i].chan] = h => \E j \in 0 .. m : FrameAt(wk'[i], m, s, j, p_wchan)
    BY <1>6, <2>2, <2>6, <2>7
  <2>9. Listed(m, s, slpque'[h], p_link', p_wchan', wk', h)
    BY <1>8, <2>2, <2>8 DEF Listed
  <2> QED BY <2>9 DEF SleepQueue
<1> QED BY <1>9, <1>10

\* wakeup() takes the k-th process off the list: the call stays at k.
LEMMA ListedMatch ==
  ASSUME NEW link, NEW m, NEW s, NEW head, Chain(m, s, head, link),
         NEW wchan \in [Procs -> Channels \cup {NULL}], NEW h, Members(m, s) = Sleepers(wchan, h),
         NEW f, NEW k \in 0 .. m - 1, FrameAt(f, m, s, k, wchan),
         NEW f2, f2.chan = f.chan, f2.q = f.q, f2.p = link[s[k]], f.chan # NULL,
         NEW wchan2, wchan2[s[k]] = NULL, \A p \in Procs : p # s[k] => wchan2[p] = wchan[p],
         NEW t, t = Without(m, s, k), Members(m - 1, t) = Members(m, s) \ {s[k]}
  PROVE  Members(m - 1, t) = Sleepers(wchan2, h) /\ FrameAt(f2, m - 1, t, k, wchan2)
<1>1. /\ m \in Nat /\ s \in [0 .. m - 1 -> Procs]
      /\ \A i \in 0 .. m - 1 : link[s[i]] = Nth(m, s, i + 1)
      /\ \A i, j \in 0 .. m - 1 : s[i] = s[j] => i = j
  BY DEF Chain
<1>2. s[k] \in Procs /\ wchan2[s[k]] = NULL /\ \A p \in Procs : p # s[k] => wchan2[p] = wchan[p]
  BY <1>1
<1>3. Members(m - 1, t) = Sleepers(wchan2, h)
  BY <1>2 DEF Sleepers
<1>5. \A j \in 0 .. m - 2 : t[j] = IF j < k THEN s[j] ELSE s[j + 1]
  BY DEF Without
<1>6. ASSUME NEW j \in 0 .. k - 1 PROVE t[j] = s[j] /\ j \in 0 .. m - 1 /\ j # k
  <2>1. j \in 0 .. m - 2 /\ j < k
    BY <1>1
  <2> QED BY <1>1, <1>5, <2>1
<1>7. f2.q = (IF k = 0 THEN NULL ELSE t[k - 1])
  <2>1. k # 0 => k - 1 \in 0 .. k - 1
    BY <1>1
  <2> QED BY <1>6, <2>1 DEF FrameAt
<1>8. f2.p = Nth(m - 1, t, k)
  <2>1. f2.p = Nth(m, s, k + 1)
    BY <1>1
  <2>2. CASE k < m - 1
    <3>1. k \in 0 .. m - 2 /\ k + 1 < m /\ ~(k < k)
      BY <1>1, <2>2
    <3> QED BY <1>5, <2>1, <2>2, <3>1 DEF Nth
  <2>3. CASE ~(k < m - 1)
    <3>1. ~(k + 1 < m)
      BY <1>1, <2>3
    <3> QED BY <2>1, <2>3, <3>1 DEF Nth
  <2> QED BY <2>2, <2>3
<1>9. ASSUME NEW j \in 0 .. k - 1 PROVE wchan2[t[j]] # f2.chan
  <2>1. t[j] = s[j] /\ s[j] # s[k] /\ s[j] \in Procs
    BY <1>1, <1>6
  <2>2. wchan[s[j]] # f.chan
    BY DEF FrameAt
  <2> QED BY <1>2, <2>1, <2>2
<1>10. FrameAt(f2, m - 1, t, k, wchan2)
  BY <1>7, <1>8, <1>9 DEF FrameAt
<1> QED BY <1>3, <1>10

\* Another call that stands elsewhere in the list stays where it is.
LEMMA ListedOther ==
  ASSUME NEW link, NEW m, NEW s, NEW head, Chain(m, s, head, link),
         NEW wchan, NEW k \in 0 .. m - 1,
         NEW g, NEW n \in 0 .. m, FrameAt(g, m, s, n, wchan), g.p # s[k], g.q # s[k], g.chan # NULL,
         NEW wchan2, wchan2[s[k]] = NULL, \A p \in Procs : p # s[k] => wchan2[p] = wchan[p],
         NEW t, t = Without(m, s, k)
  PROVE  \E j \in 0 .. m - 1 : FrameAt(g, m - 1, t, j, wchan2)
<1>1. m \in Nat /\ s \in [0 .. m - 1 -> Procs] /\ k \in Nat /\ n \in Nat
  BY DEF Chain
<1>2. \A j \in 0 .. m - 2 : t[j] = IF j < k THEN s[j] ELSE s[j + 1]
  BY DEF Without
<1>3. \A j \in 0 .. m - 1 : wchan2[s[j]] = wchan[s[j]] \/ wchan2[s[j]] = NULL
  BY <1>1
<1>4. n # k /\ n # k + 1
  <2>1. n # k
    BY <1>1 DEF FrameAt, Nth
  <2>2. ASSUME n = k + 1 PROVE FALSE
    <3>1. n # 0 /\ n - 1 = k
      BY <1>1, <2>2
    <3> QED BY <3>1 DEF FrameAt
  <2> QED BY <2>1, <2>2
<1>5. CASE n < k
  <2>1. n \in 0 .. m - 1 /\ n \in 0 .. m - 2 /\ n < m - 1 /\ n < m
    BY <1>1, <1>5
  <2>2. \A j \in 0 .. n : j \in 0 .. m - 2 /\ j \in 0 .. m - 1 /\ j < k
    BY <1>1, <1>5
  <2>3. \A j \in 0 .. n : t[j] = s[j]
    BY <1>2, <2>2
  <2>4. g.q = (IF n = 0 THEN NULL ELSE t[n - 1])
    <3>1. n # 0 => n - 1 \in 0 .. n
      BY <1>1
    <3> QED BY <2>3, <3>1 DEF FrameAt
  <2>5. g.p = Nth(m - 1, t, n)
    <3>1. n \in 0 .. n
      BY <1>1
    <3> QED BY <2>1, <2>3, <3>1 DEF FrameAt, Nth
  <2>6. ASSUME NEW j \in 0 .. n - 1 PROVE wchan2[t[j]] # g.chan
    <3>1. j \in 0 .. n
      BY <1>1
    <3>2. t[j] = s[j] /\ j \in 0 .. m - 1
      BY <2>2, <2>3, <3>1
    <3>3. wchan[s[j]] # g.chan
      BY DEF FrameAt
    <3> QED BY <1>3, <3>2, <3>3
  <2> QED BY <2>1, <2>4, <2>5, <2>6 DEF FrameAt
<1>6. CASE n > k + 1
  <2>1. n - 1 \in 0 .. m - 1 /\ n - 1 # 0 /\ n # 0 /\ n - 1 \in Nat /\ n - 2 \in 0 .. m - 2
    BY <1>1, <1>6
  <2>2. g.q = t[(n - 1) - 1]
    <3>1. ~(n - 2 < k) /\ (n - 2) + 1 = n - 1 /\ (n - 1) - 1 = n - 2
      BY <1>1, <1>6
    <3>2. t[n - 2] = s[n - 1]
      BY <1>2, <2>1, <3>1
    <3> QED BY <2>1, <3>1, <3>2 DEF FrameAt
  <2>3. g.p = Nth(m - 1, t, n - 1)
    <3>1. CASE n < m
      <4>1. n - 1 \in 0 .. m - 2 /\ n - 1 < m - 1 /\ ~(n - 1 < k) /\ (n - 1) + 1 = n
        BY <1>1, <1>6, <3>1
      <4>2. t[n - 1] = s[n]
        BY <1>2, <4>1
      <4> QED BY <3>1, <4>1, <4>2 DEF FrameAt, Nth
    <3>2. CASE ~(n < m)
      <4>1. ~(n - 1 < m - 1)
        BY <1>1, <3>2
      <4> QED BY <3>2, <4>1 DEF FrameAt, Nth
    <3> QED BY <3>1, <3>2
  <2>4. ASSUME NEW j \in 0 .. (n - 1) - 1 PROVE wchan2[t[j]] # g.chan
    <3>1. PICK i \in 0 .. n - 1 : i \in 0 .. m - 1 /\ t[j] = s[i]
      <4>1. j \in 0 .. m - 2
        BY <1>1, <2>1
      <4>2. CASE j < k
        BY <1>1, <1>2, <4>1, <4>2
      <4>3. CASE ~(j < k)
        <5>1. j + 1 \in 0 .. n - 1 /\ j + 1 \in 0 .. m - 1
          BY <1>1, <2>1
        <5> QED BY <1>2, <4>1, <4>3, <5>1
      <4> QED BY <4>2, <4>3
    <3>2. wchan[s[i]] # g.chan
      BY DEF FrameAt
    <3> QED BY <1>3, <3>1, <3>2
  <2>5. FrameAt(g, m - 1, t, n - 1, wchan2)
    BY <2>1, <2>2, <2>3, <2>4 DEF FrameAt
  <2> QED BY <2>1, <2>5
<1> QED BY <1>1, <1>4, <1>5, <1>6

\* Every call of wakeup() is for a channel.
LEMMA FrameChans == ASSUME Control PROVE \A j \in DOMAIN wk : wk[j].chan \in Channels
<1>1. CASE \E f \in FrameSet : wk = <<f>>
  <2>1. PICK f \in FrameSet : wk = <<f>>
    BY <1>1
  <2> QED BY <2>1 DEF FrameSet
<1>2. CASE \E f, g \in FrameSet : wk = <<f, g>>
  <2>1. PICK f \in FrameSet, g \in FrameSet : wk = <<f, g>>
    BY <1>2
  <2> QED BY <2>1 DEF FrameSet
<1>3. CASE wk = <<>>
  BY <1>3
<1> QED BY <1>1, <1>2, <1>3 DEF Control, Frames

\* wakeup() takes a process off its queue and puts it on the run queue.
LEMMA QueuesMatch ==
  ASSUME ~Tears, Control, \A h \in Queues : SleepQueue(h), WakeupMatch
  PROVE  \A h \in Queues : SleepQueue(h)'
<1>0. /\ p_link \in [Procs -> Procs \cup {NULL}] /\ p_wchan \in [Procs -> Channels \cup {NULL}]
      /\ slpque \in [Queues -> Procs \cup {NULL}]
  BY DEF Control, Types
<1>1. PICK f : f = Head(wk)
  OBVIOUS
<1>2. /\ f \in FrameSet /\ f.p \in Procs /\ f.p # NULL /\ p_wchan[f.p] = f.chan
      /\ f.chan \in Channels /\ f.chan # NULL /\ Hash[f.chan] \in Queues /\ wk # <<>>
  BY <1>1, HeadFrame, MatchFrames, Constants DEF Control, WakeupMatch, FrameSet
<1>3. PICK f2 : f2 = Continue(f)
  OBVIOUS
<1>4. f2.chan = f.chan /\ f2.q = f.q /\ f2.p = p_link[f.p]
  BY <1>2, <1>3 DEF FrameSet, Continue
\* the calls of wakeup() after the step
<1>5. \A i \in DOMAIN wk' :
        \/ wk'[i] = f2
        \/ wk'[i].p = slpque'[Hash[wk'[i].chan]] /\ wk'[i].q = NULL
        \/ /\ \E j \in DOMAIN wk : wk'[i] = wk[j]
           /\ f.p \notin {wk'[i].p, wk'[i].q}
  <2>1. PICK n : n = [chan |-> Runout, p |-> slpque'[Hash[Runout]], q |-> NULL]
    OBVIOUS
  <2>2. n.chan = Runout /\ n.p = slpque'[Hash[Runout]] /\ n.q = NULL
    BY <2>1
  <2>3. CASE wk' = <<n, f2>>
    BY <2>2, <2>3
  <2>4. CASE wk' = <<f2>>
    BY <2>4
  <2>5. CASE \E g \in FrameSet : wk = <<f, g>> /\ wk' = <<f2, g>> /\ g.chan \in Chans /\ f.chan = Runout
    <3>1. PICK g \in FrameSet : /\ wk = <<f, g>> /\ wk' = <<f2, g>> /\ g.chan \in Chans
                                /\ f.chan = Runout
      BY <2>5
    <3>2. f.p \notin {g.p, g.q} /\ 2 \in DOMAIN wk /\ wk[2] = g
      <4>1. 2 \in DOMAIN wk /\ wk[2] = g /\ Len(wk) = 2
        BY <3>1
      <4> QED BY <1>1, <4>1 DEF Tears
    <3>3. \A i \in DOMAIN wk' : wk'[i] = f2 \/ wk'[i] = g
      BY <3>1
    <3> QED BY <3>2, <3>3
  <2> QED BY <1>1, <1>3, <2>1, <2>3, <2>4, <2>5, MatchFrames
<1>6. 1 \in DOMAIN wk /\ wk[1] = f
  <2>1. wk = <<f>> \/ \E g \in FrameSet : wk = <<f, g>>
    BY <1>1, MatchFrames
  <2> QED BY <2>1
<1>7. PICK h0 \in Queues : h0 = Hash[f.chan]
  BY <1>2
<1>8. PICK m, s : Listed(m, s, slpque[h0], p_link, p_wchan, wk, h0)
  BY DEF SleepQueue
<1>9. /\ Chain(m, s, slpque[h0], p_link) /\ Members(m, s) = Sleepers(p_wchan, h0)
      /\ \A i \in DOMAIN wk :
           Hash[wk[i].chan] = h0 => \E k \in 0 .. m : FrameAt(wk[i], m, s, k, p_wchan)
  BY <1>8 DEF Listed
<1>10. PICK k \in 0 .. m : FrameAt(f, m, s, k, p_wchan)
  BY <1>6, <1>7, <1>9
<1>11. /\ m \in Nat /\ s \in [0 .. m - 1 -> Procs]
       /\ \A i, j \in 0 .. m - 1 : s[i] = s[j] => i = j
  BY <1>9 DEF Chain
<1>12. k \in 0 .. m - 1 /\ s[k] = f.p
  <2>1. k < m /\ s[k] = f.p
    BY <1>2, <1>10 DEF FrameAt, Nth
  <2> QED BY <1>11, <2>1
<1>13. k # 0 => s[k - 1] \in Procs /\ s[k - 1] \in Members(m, s) /\ s[k - 1] # NULL /\ s[k - 1] # s[k]
  <2>1. k # 0 => k - 1 \in 0 .. m - 1 /\ k - 1 # k
    BY <1>11, <1>12
  <2> QED BY <1>11, <1>12, <2>1, Constants DEF Members
<1>14. (f.q = NULL <=> k = 0) /\ (k # 0 => f.q = s[k - 1])
  BY <1>10, <1>13 DEF FrameAt
<1>15. PICK l2 : l2 = IF k = 0 THEN p_link ELSE [p_link EXCEPT ![s[k - 1]] = p_link[s[k]]]
  OBVIOUS
<1>16. /\ slpque' = (IF k = 0 THEN [slpque EXCEPT ![h0] = p_link[s[k]]] ELSE slpque)
       /\ setrq(f.p, l2) /\ p_wchan' = [p_wchan EXCEPT ![s[k]] = NULL]
  <2>1. /\ slpque' = IF f.q = NULL THEN [slpque EXCEPT ![Hash[f.chan]] = p_link[f.p]] ELSE slpque
        /\ p_wchan' = [p_wchan EXCEPT ![f.p] = NULL]
    BY <1>1 DEF WakeupMatch
  <2>2. l2 = IF f.q = NULL THEN p_link ELSE [p_link EXCEPT ![f.q] = p_link[f.p]]
    BY <1>12, <1>14, <1>15
  <2>3. setrq(f.p, IF f.q = NULL THEN p_link ELSE [p_link EXCEPT ![f.q] = p_link[f.p]])
    BY <1>1 DEF WakeupMatch
  <2> QED BY <1>7, <1>12, <1>14, <2>1, <2>2, <2>3
<1>17. l2 \in [Procs -> Procs \cup {NULL}] /\ \A p \in Procs : p # f.p => p_link'[p] = l2[p]
  <2>1. l2 \in [Procs -> Procs \cup {NULL}]
    BY <1>0, <1>2, <1>12, <1>15
  <2> QED BY <1>16, <2>1 DEF setrq
<1>18. ASSUME NEW h \in Queues PROVE SleepQueue(h)'
  <2>1. CASE h # h0
    <3>1. slpque'[h] = slpque[h]
      BY <1>0, <1>16, <2>1
    <3>2. ASSUME NEW p \in Sleepers(p_wchan, h)
          PROVE  p_link'[p] = p_link[p] /\ p_wchan'[p] = p_wchan[p]
      <4>1. p \in Procs /\ p \notin Sleepers(p_wchan, h0)
        BY <2>1 DEF Sleepers
      <4>2. p # s[k] /\ (k # 0 => p # s[k - 1])
        BY <1>9, <1>12, <1>13, <4>1 DEF Members
      <4>3. l2[p] = p_link[p]
        BY <1>0, <1>15, <4>1, <4>2
      <4> QED BY <1>0, <1>12, <1>16, <1>17, <4>1, <4>2, <4>3
    <3>3. Sleepers(p_wchan', h) = Sleepers(p_wchan, h)
      BY <1>0, <1>2, <1>7, <1>12, <1>16, <2>1 DEF Sleepers
    <3>4. \A i \in DOMAIN wk' : Hash[wk'[i].chan] = h =>
             \/ \E j \in DOMAIN wk : wk'[i] = wk[j]
             \/ wk'[i].p = slpque[h] /\ wk'[i].q = NULL
      BY <1>4, <1>5, <1>7, <2>1, <3>1
    <3> QED BY <3>1, <3>2, <3>3, <3>4, QueueKeep
  <2>2. CASE h = h0
    <3>1. PICK l, v, v2, hd, hd2 : /\ l = p_link /\ v = p_wchan /\ v2 = p_wchan'
                                   /\ hd = slpque[h0] /\ hd2 = slpque'[h0]
      OBVIOUS
    <3>3. /\ Chain(m, s, hd, l) /\ hd2 = (IF k = 0 THEN l[s[k]] ELSE hd)
          /\ \A p \in Procs : l2[p] = IF k # 0 /\ p = s[k - 1] THEN l[s[k]] ELSE l[p]
      BY <1>0, <1>9, <1>15, <1>16, <3>1
    <3>4. PICK t : /\ t = Without(m, s, k) /\ Chain(m - 1, t, hd2, l2)
                   /\ Members(m - 1, t) = Members(m, s) \ {s[k]}
      BY <1>12, <3>3, ChainRemove
    <3>5. /\ v \in [Procs -> Channels \cup {NULL}] /\ Members(m, s) = Sleepers(v, h0)
          /\ FrameAt(f, m, s, k, v) /\ f2.p = l[s[k]]
          /\ v2[s[k]] = NULL /\ \A p \in Procs : p # s[k] => v2[p] = v[p]
      BY <1>0, <1>2, <1>4, <1>9, <1>10, <1>12, <1>16, <3>1
    <3>6. Members(m - 1, t) = Sleepers(v2, h0) /\ FrameAt(f2, m - 1, t, k, v2)
      BY <1>2, <1>4, <1>12, <3>3, <3>4, <3>5, ListedMatch
    <3>7. Chain(m - 1, t, hd2, p_link')
      <4>1. \A p \in Members(m - 1, t) : p_link'[p] = l2[p]
        <5>1. \A p \in Members(m - 1, t) : p \in Procs /\ p # f.p
          BY <1>9, <1>12, <3>4 DEF Sleepers
        <5> QED BY <1>17, <5>1
      <4>2. PICK l3 : l3 = p_link'
        OBVIOUS
      <4>3. Chain(m - 1, t, hd2, l3)
        BY <3>4, <4>1, <4>2, ChainKeep
      <4> QED BY <4>2, <4>3
    <3>8. ASSUME NEW i \in DOMAIN wk', Hash[wk'[i].chan] = h0
          PROVE  \E j \in 0 .. m - 1 : FrameAt(wk'[i], m - 1, t, j, v2)
      <4>1. CASE wk'[i] = f2
        BY <1>12, <3>6, <4>1
      <4>2. CASE wk'[i].p = slpque'[Hash[wk'[i].chan]] /\ wk'[i].q = NULL
        <5>1. PICK g : g = wk'[i]
          OBVIOUS
        <5>2. g.p = hd2 /\ g.q = NULL
          BY <3>1, <3>8, <4>2, <5>1
        <5>3. \E j \in 0 .. m - 1 : FrameAt(g, m - 1, t, j, v2)
          BY <3>4, <5>2, FrameStarts
        <5> QED BY <5>1, <5>3
      <4>3. CASE (\E j \in DOMAIN wk : wk'[i] = wk[j]) /\ f.p \notin {wk'[i].p, wk'[i].q}
        <5>1. PICK g : g = wk'[i]
          OBVIOUS
        <5>2. PICK n \in 0 .. m : FrameAt(g, m, s, n, v)
          BY <1>9, <3>1, <3>8, <4>3, <5>1
        <5>3. g.p # s[k] /\ g.q # s[k]
          BY <1>12, <4>3, <5>1
        <5>4. g.chan # NULL
          <6>1. Hash[g.chan] = h0 /\ \E j \in DOMAIN wk : g = wk[j]
            BY <3>8, <4>3, <5>1
          <6> QED BY <6>1, FrameChans, Constants
        <5>5. \E j \in 0 .. m - 1 : FrameAt(g, m - 1, t, j, v2)
          BY <1>12, <3>3, <3>4, <3>5, <5>2, <5>3, <5>4, ListedOther
        <5> QED BY <5>1, <5>5
      <4> QED BY <1>5, <4>1, <4>2, <4>3
    <3>9. Listed(m - 1, t, slpque'[h0], p_link', p_wchan', wk', h0)
      BY <3>1, <3>6, <3>7, <3>8 DEF Listed
    <3> QED BY <2>2, <3>9 DEF SleepQueue
  <2> QED BY <2>1, <2>2
<1> QED BY <1>18

-----------------------------------------------------------------------------
(* The run queue.                                                          *)

\* The run queue stays as it is while those on it do.
LEMMA RunKeep ==
  ASSUME RunQueue, runq' = runq,
         \A p \in Procs : Runnable(p) => Runnable(p)' /\ p_link'[p] = p_link[p],
         \A p \in Procs : Runnable(p)' /\ ~InSetrun(p)' => Runnable(p) /\ ~InSetrun(p)
  PROVE  RunQueue'
<1>1. PICK m, s : Chain(m, s, runq, p_link) /\ Runners(m, s)
  BY DEF RunQueue
<1>2. Members(m, s) \subseteq Procs
  BY <1>1 DEF Chain, Members
<1>3. \A p \in Members(m, s) : Runnable(p) /\ p_link'[p] = p_link[p]
  BY <1>1, <1>2 DEF Runners
<1>4. PICK l, l2, hd : l = p_link /\ l2 = p_link' /\ hd = runq
  OBVIOUS
<1>5. Chain(m, s, hd, l2)
  BY <1>1, <1>3, <1>4, ChainKeep
<1>6. Runners(m, s)'
  BY <1>1, <1>2, <1>3 DEF Runners
<1> QED BY <1>4, <1>5, <1>6 DEF RunQueue

\* setrq(q) puts q on it, unless it is there.
LEMMA RunSetrq ==
  ASSUME RunQueue, NEW q \in Procs, NEW link \in [Procs -> Procs \cup {NULL}], setrq(q, link),
         \A p \in Procs : Runnable(p) => Runnable(p)' /\ link[p] = p_link[p],
         Runnable(q)',
         \A p \in Procs : p # q /\ Runnable(p)' /\ ~InSetrun(p)' => Runnable(p) /\ ~InSetrun(p)
  PROVE  RunQueue'
<1>1. PICK m, s : Chain(m, s, runq, p_link) /\ Runners(m, s)
  BY DEF RunQueue
<1>2. Members(m, s) \subseteq Procs
  BY <1>1 DEF Chain, Members
<1>3. \A p \in Members(m, s) : Runnable(p) /\ link[p] = p_link[p]
  BY <1>1, <1>2 DEF Runners
<1>4. PICK l, hd : l = p_link /\ hd = runq
  OBVIOUS
<1>5. Chain(m, s, hd, link)
  BY <1>1, <1>3, <1>4, ChainKeep
<1>6. OnQueue(hd, link, q) <=> q \in Members(m, s)
  BY <1>5, ChainWalked
<1>7. CASE q \in Members(m, s)
  <2>1. p_link' = link /\ runq' = hd
    BY <1>4, <1>6, <1>7 DEF setrq
  <2>2. Runners(m, s)'
    BY <1>1, <1>2, <1>3, <1>7 DEF Runners
  <2> QED BY <1>5, <2>1, <2>2 DEF RunQueue
<1>8. CASE q \notin Members(m, s)
  <2>1. p_link' = [link EXCEPT ![q] = hd] /\ runq' = q
    BY <1>4, <1>6, <1>8 DEF setrq
  <2>2. PICK l2 : l2 = p_link'
    OBVIOUS
  <2>3. l2[q] = hd /\ \A p \in Procs : p # q => l2[p] = link[p]
    BY <2>1, <2>2
  <2>4. PICK n, t : Chain(n, t, q, l2) /\ Members(n, t) = Members(m, s) \cup {q}
    BY <1>5, <1>8, <2>3, ChainPush
  <2>5. Runners(n, t)'
    BY <1>1, <1>2, <1>3, <2>4 DEF Runners
  <2> QED BY <2>1, <2>2, <2>4, <2>5 DEF RunQueue
<1> QED BY <1>7, <1>8

\* swtch() takes the process it chooses off it.
LEMMA RunDispatch ==
  ASSUME Control, RunQueue, Dispatch
  PROVE  /\ RunQueue'
         /\ \A p \in Procs : p_stat[p] # "SRUN" => p_link'[p] = p_link[p]
<1>0. /\ p_link \in [Procs -> Procs \cup {NULL}] /\ runq \in Procs \cup {NULL} /\ cur = NULL
  BY DEF Control, Types, Dispatch
<1>1. PICK m, s : Chain(m, s, runq, p_link) /\ Runners(m, s)
  BY DEF RunQueue
<1>2. PICK k \in 0 .. Cardinality(Procs) :
        /\ Walk(runq, p_link)[k] # NULL
        /\ runq' = (IF k = 0 THEN p_link[Walk(runq, p_link)[k]] ELSE runq)
        /\ p_link' = IF k = 0 THEN p_link
                     ELSE [p_link EXCEPT ![Walk(runq, p_link)[k - 1]] = p_link[Walk(runq, p_link)[k]]]
        /\ cur' = Walk(runq, p_link)[k]
  BY DEF Dispatch
<1>3. PICK l, hd : l = p_link /\ hd = runq
  OBVIOUS
<1>4. Chain(m, s, hd, l)
  BY <1>1, <1>3
<1>5. \A n \in 0 .. Cardinality(Procs) : Walk(hd, l)[n] = Nth(m, s, n)
  BY <1>4, WalkIs
<1>6. /\ m \in Nat /\ s \in [0 .. m - 1 -> Procs] /\ \A i, j \in 0 .. m - 1 : s[i] = s[j] => i = j
  BY <1>4 DEF Chain
<1>7. k \in 0 .. m - 1 /\ Walk(runq, p_link)[k] = s[k]
  <2>1. Nth(m, s, k) # NULL /\ Walk(runq, p_link)[k] = Nth(m, s, k)
    BY <1>2, <1>3, <1>5
  <2>2. k < m /\ Walk(runq, p_link)[k] = s[k]
    BY <2>1 DEF Nth
  <2> QED BY <1>6, <2>2
<1>8. k # 0 => Walk(runq, p_link)[k - 1] = s[k - 1] /\ k - 1 \in 0 .. m - 1
  <2> SUFFICES ASSUME k # 0 PROVE Walk(runq, p_link)[k - 1] = s[k - 1] /\ k - 1 \in 0 .. m - 1
    OBVIOUS
  <2>1. k - 1 \in 0 .. Cardinality(Procs) /\ k - 1 < m /\ k - 1 \in 0 .. m - 1
    BY <1>6, <1>7, ProcsFinite
  <2> QED BY <1>3, <1>5, <2>1 DEF Nth
<1>9. PICK l2, hd2 : l2 = p_link' /\ hd2 = runq'
  OBVIOUS
<1>10. \A p \in Procs : l2[p] = IF k # 0 /\ p = s[k - 1] THEN l[s[k]] ELSE l[p]
  BY <1>0, <1>2, <1>3, <1>7, <1>8, <1>9
<1>11. hd2 = IF k = 0 THEN l[s[k]] ELSE hd
  BY <1>2, <1>3, <1>7, <1>9
<1>12. PICK t : /\ t = Without(m, s, k) /\ Chain(m - 1, t, hd2, l2)
                /\ Members(m - 1, t) = Members(m, s) \ {s[k]}
  BY <1>4, <1>7, <1>10, <1>11, ChainRemove
<1>13. Members(m, s) \subseteq Procs /\ s[k] \in Members(m, s) /\ cur' = s[k]
  BY <1>2, <1>6, <1>7 DEF Members
<1>14. UNCHANGED <<p_stat, pc, spc, tgt>>
  BY DEF Dispatch, setrunVars
<1>15. pc[s[k]] \notin GivenUp
  BY <1>0, <1>13, Constants DEF Control, Places, GivenUp
<1>16. \A p \in Procs : InSetrun(p)' <=> InSetrun(p)
  BY <1>14 DEF InSetrun
<1>17. \A p \in Procs : p # s[k] => (Runnable(p)' <=> Runnable(p))
  BY <1>0, <1>13, <1>14, Constants DEF Runnable
<1>18. ~Runnable(s[k])'
  BY <1>13, <1>14, <1>15 DEF Runnable
<1>19. Runners(m - 1, t)'
  BY <1>1, <1>12, <1>13, <1>16, <1>17, <1>18 DEF Runners
<1>20. RunQueue'
  BY <1>9, <1>12, <1>19 DEF RunQueue
<1>21. ASSUME NEW p \in Procs, p_stat[p] # "SRUN" PROVE p_link'[p] = p_link[p]
  <2>1. k # 0 => p # s[k - 1]
    BY <1>1, <1>8, <1>21 DEF Runners, Members, Runnable
  <2> QED BY <1>3, <1>9, <1>10, <2>1
<1> QED BY <1>20, <1>21

-----------------------------------------------------------------------------
(* The steps.                                                              *)

\* The calls of wakeup() after a step are calls before it, or have just started.
FramesKept ==
  \A i \in DOMAIN wk' : \/ \E j \in DOMAIN wk : wk'[i] = wk[j]
                        \/ wk'[i].p = slpque[Hash[wk'[i].chan]] /\ wk'[i].q = NULL

\* So it is when the calls stay, return, or one starts.
LEMMA FramesKeep ==
  ASSUME Control,
         \/ wk' = wk \/ wk' = <<>>
         \/ wk # <<>> /\ wk' = Tail(wk)
         \/ \E c \in Channels : wk' = <<Frame(c)>>
  PROVE  FramesKept
<1>1. CASE wk' = wk \/ wk' = <<>>
  BY <1>1 DEF FramesKept
<1>2. CASE wk # <<>> /\ wk' = Tail(wk)
  <2>1. CASE Tail(wk) = <<>>
    BY <1>2, <2>1 DEF FramesKept
  <2>2. CASE Tail(wk) # <<>>
    <3>1. PICK f, g : wk = <<f, g>> /\ wk' = <<g>>
      BY <1>2, <2>2, HeadFrame DEF Control
    <3>2. 2 \in DOMAIN wk /\ wk[2] = g /\ \A i \in DOMAIN wk' : wk'[i] = g
      BY <3>1
    <3> QED BY <3>2 DEF FramesKept
  <2> QED BY <2>1, <2>2
<1>3. CASE \E c \in Channels : wk' = <<Frame(c)>>
  <2>1. PICK c \in Channels : wk' = <<Frame(c)>>
    BY <1>3
  <2>2. PICK f : f = Frame(c)
    OBVIOUS
  <2>3. f.p = slpque[Hash[f.chan]] /\ f.q = NULL
    BY <2>2 DEF Frame
  <2>4. \A i \in DOMAIN wk' : wk'[i] = f
    BY <2>1, <2>2
  <2> QED BY <2>3, <2>4 DEF FramesKept
<1> QED BY <1>1, <1>2, <1>3

\* Every step keeps the sleep queues.
LEMMA SleepQueuesStep ==
  ASSUME ~Tears \/ UNCHANGED vars, Control, Lists, [Next]_vars
  PROVE  (\A h \in Queues : SleepQueue(h))'
<1>1. CASE Unseen
  BY <1>1, QueuesKeep, FramesKeep DEF Unseen, Lists, FramesKept
<1>2. CASE WakeupSkip
  BY <1>2, QueuesSkip DEF Lists
<1>3. CASE WakeupMatch
  <2>1. CASE ~Tears
    BY <1>3, <2>1, QueuesMatch DEF Lists
  <2>2. CASE UNCHANGED vars
    BY <1>1, <2>2 DEF Unseen, vars
  <2> QED BY <2>1, <2>2
<1>4. CASE WakeupReturn
  <2>1. UNCHANGED <<slpque, p_wchan, p_link>>
    BY <1>4 DEF WakeupReturn, queueVars
  <2>2. FramesKept
    BY Constants, <1>4, FramesKeep DEF Control, Calls, WakeupReturn
  <2> QED BY <2>1, <2>2, QueuesKeep DEF Lists, FramesKept
<1>5. ASSUME NEW c \in Contexts, NEW q \in Users, Psignal(c, q) PROVE (\A h \in Queues : SleepQueue(h))'
  <2>1. UNCHANGED <<slpque, p_wchan, p_link>>
    BY <1>5 DEF Psignal, queueVars
  <2>2. FramesKept
    BY Constants, <1>5, FramesKeep DEF Control, Calls, Psignal, MayCall, At, Live, Go
  <2> QED BY <2>1, <2>2, QueuesKeep DEF Lists, FramesKept
<1>6. ASSUME NEW p \in Users, NEW q \in Users, Ptrace(p, q) PROVE (\A h \in Queues : SleepQueue(h))'
  <2>1. UNCHANGED <<slpque, p_wchan, p_link>>
    BY <1>6 DEF Ptrace, queueVars
  <2>2. FramesKept
    BY Constants, <1>6, FramesKeep DEF Control, Calls, Ptrace, MayCall, At, Live, Go
  <2> QED BY <2>1, <2>2, QueuesKeep DEF Lists, FramesKept
<1>7. ASSUME NEW c \in Contexts, PsignalTest(c) PROVE (\A h \in Queues : SleepQueue(h))'
  <2>1. UNCHANGED <<slpque, p_wchan, p_link>>
    BY <1>7 DEF PsignalTest, queueVars
  <2>2. FramesKept
    BY Constants, <1>7, FramesKeep DEF Control, Calls, PsignalTest, At, Live, Go, Done
  <2> QED BY <2>1, <2>2, QueuesKeep DEF Lists, FramesKept
<1>8. ASSUME NEW c \in Contexts, SetrunRead(c) PROVE (\A h \in Queues : SleepQueue(h))'
  <2>1. UNCHANGED <<slpque, p_wchan, p_link>>
    BY <1>8 DEF SetrunRead, queueVars
  <2>2. FramesKept
    BY Constants, <1>8, FramesKeep DEF Control, Calls, SetrunRead, At, Live, Go
  <2> QED BY <2>1, <2>2, QueuesKeep DEF Lists, FramesKept
<1>9. ASSUME NEW c \in Contexts, SetrunWakeup(c) PROVE (\A h \in Queues : SleepQueue(h))'
  <2>1. UNCHANGED <<slpque, p_wchan, p_link>>
    BY <1>9 DEF SetrunWakeup, queueVars
  <2>2. FramesKept
    BY Constants, <1>9, FramesKeep DEF Control, Calls, SetrunWakeup, At, Live, Go, Done, Frame
  <2> QED BY <2>1, <2>2, QueuesKeep DEF Lists, FramesKept
<1>10. ASSUME NEW c \in Contexts, SetrunRun(c) PROVE (\A h \in Queues : SleepQueue(h))'
  <2>1. UNCHANGED <<slpque, p_wchan, p_link>>
    BY <1>10 DEF SetrunRun, queueVars
  <2>2. FramesKept
    BY Constants, <1>10, FramesKeep DEF Control, Calls, SetrunRun, At, Live, Go
  <2> QED BY <2>1, <2>2, QueuesKeep DEF Lists, FramesKept
<1>11. ASSUME NEW c \in Contexts, SetrunSetrq(c) PROVE (\A h \in Queues : SleepQueue(h))'
  <2>1. tgt[c] \in Procs /\ p_wchan[tgt[c]] = NULL
    BY Constants, <1>11 DEF Control, Calls, Asleep, SetrunSetrq, At
  <2>2. /\ UNCHANGED <<slpque, p_wchan>> /\ wk' = wk
        /\ \A q \in Procs : p_wchan[q] # NULL => p_link'[q] = p_link[q]
    BY <1>11, <2>1 DEF Control, Types, SetrunSetrq, setrq
  <2>3. FramesKept
    BY <2>2, FramesKeep
  <2> QED BY <2>2, <2>3, QueuesKeep DEF Lists, FramesKept
<1>12. ASSUME NEW c \in Contexts, SetrunRunout(c) PROVE (\A h \in Queues : SleepQueue(h))'
  <2>1. UNCHANGED <<slpque, p_wchan, p_link>>
    BY <1>12 DEF SetrunRunout, queueVars
  <2>2. FramesKept
    BY Constants, <1>12, FramesKeep DEF Control, Calls, SetrunRunout, At, Live, Go, Done, Frame,
        CallsSwapper
  <2> QED BY <2>1, <2>2, QueuesKeep DEF Lists, FramesKept
<1>13. ASSUME NEW p \in Users, NEW c \in Chans, NEW pri \in Pris, Sleep(p, c, pri) PROVE (\A h \in Queues : SleepQueue(h))'
  <2>1. p \in Procs /\ p_wchan[p] = NULL
    BY Constants, <1>13 DEF Control, Places, Asleep, Sleep, MayCall, At, Live, GivenUp
  <2>2. Enqueue(p, c, pri) /\ c \in Channels /\ wk = <<>> /\ wk' = <<>>
    BY Constants, <1>13 DEF Sleep, MayCall, At, Live
  <2> QED BY <2>1, <2>2, QueuesEnqueue DEF Lists
<1>14. ASSUME NEW p \in Users, NEW c \in Chans, NEW pri \in Pris, SleepSignalled(p, c, pri) PROVE (\A h \in Queues : SleepQueue(h))'
  <2>1. p \in Procs /\ p_wchan[p] = NULL
    BY Constants, <1>14 DEF Control, Places, Asleep, SleepSignalled, MayCall, At, Live, GivenUp
  <2>2. /\ UNCHANGED <<slpque, p_wchan>> /\ wk' = wk
        /\ \A q \in Procs : p_wchan[q] # NULL => p_link'[q] = p_link[q]
    BY <1>14, <2>1 DEF Control, Types, SleepSignalled
  <2>3. FramesKept
    BY <2>2, FramesKeep
  <2> QED BY <2>2, <2>3, QueuesKeep DEF Lists, FramesKept
<1>15. ASSUME NEW p \in Users, SleepRunin(p) PROVE (\A h \in Queues : SleepQueue(h))'
  <2>1. UNCHANGED <<slpque, p_wchan, p_link>>
    BY <1>15 DEF SleepRunin, queueVars
  <2>2. FramesKept
    BY Constants, <1>15, FramesKeep DEF Control, Calls, SleepRunin, Running, Frame
  <2> QED BY <2>1, <2>2, QueuesKeep DEF Lists, FramesKept
<1>16. ASSUME NEW p \in Users, NEW c \in Chans, Wakeup(p, c) PROVE (\A h \in Queues : SleepQueue(h))'
  <2>1. UNCHANGED <<slpque, p_wchan, p_link>>
    BY <1>16 DEF Wakeup, queueVars
  <2>2. FramesKept
    BY Constants, <1>16, FramesKeep DEF Control, Calls, Wakeup, MayCall, At, Live, Frame
  <2> QED BY <2>1, <2>2, QueuesKeep DEF Lists, FramesKept
<1>17. ASSUME NEW p \in Users, TakeSignal(p) PROVE (\A h \in Queues : SleepQueue(h))'
  <2>1. UNCHANGED <<slpque, p_wchan, p_link>>
    BY <1>17 DEF TakeSignal, queueVars
  <2>2. FramesKept
    BY Constants, <1>17, FramesKeep DEF Control, Calls, TakeSignal, Running, Frame
  <2> QED BY <2>1, <2>2, QueuesKeep DEF Lists, FramesKept
<1>18. ASSUME NEW p \in Users, Stop(p) PROVE (\A h \in Queues : SleepQueue(h))'
  <2>1. UNCHANGED <<slpque, p_wchan, p_link>>
    BY <1>18 DEF Stop, queueVars
  <2>2. FramesKept
    BY Constants, <1>18, FramesKeep DEF Control, Calls, Stop, Running
  <2> QED BY <2>1, <2>2, QueuesKeep DEF Lists, FramesKept
<1>19. ASSUME NEW p \in Users, Restarted(p) PROVE (\A h \in Queues : SleepQueue(h))'
  <2>1. UNCHANGED <<slpque, p_wchan, p_link>>
    BY <1>19 DEF Restarted, queueVars
  <2>2. FramesKept
    BY Constants, <1>19, FramesKeep DEF Control, Calls, Restarted, Running, Frame
  <2> QED BY <2>1, <2>2, QueuesKeep DEF Lists, FramesKept
<1>20. ASSUME NEW p \in Users, Qswtch(p) PROVE (\A h \in Queues : SleepQueue(h))'
  <2>1. p \in Procs /\ p_wchan[p] = NULL
    BY Constants, <1>20 DEF Control, Places, Asleep, Qswtch, MayCall, At, Live, GivenUp
  <2>2. /\ UNCHANGED <<slpque, p_wchan>> /\ wk' = wk
        /\ \A q \in Procs : p_wchan[q] # NULL => p_link'[q] = p_link[q]
    BY <1>20, <2>1 DEF Control, Types, Qswtch, setrq
  <2>3. FramesKept
    BY <2>2, FramesKeep
  <2> QED BY <2>2, <2>3, QueuesKeep DEF Lists, FramesKept
<1>21. ASSUME NEW p \in Procs, Swtch(p) PROVE (\A h \in Queues : SleepQueue(h))'
  <2>1. UNCHANGED <<slpque, p_wchan, p_link>>
    BY <1>21 DEF Swtch, queueVars
  <2>2. FramesKept
    BY Constants, <1>21, FramesKeep DEF Control, Calls, Swtch, Running, Resume
  <2> QED BY <2>1, <2>2, QueuesKeep DEF Lists, FramesKept
<1>22. CASE Dispatch
  <2>1. /\ UNCHANGED <<slpque, p_wchan>> /\ wk' = wk
        /\ \A q \in Procs : p_wchan[q] # NULL => p_link'[q] = p_link[q]
    BY <1>22, RunDispatch DEF Control, Asleep, Dispatch, Lists
  <2>2. FramesKept
    BY <2>1, FramesKeep
  <2> QED BY <2>1, <2>2, QueuesKeep DEF Lists, FramesKept
<1>23. CASE SchedIdle
  <2>1. Sched \in Procs /\ p_wchan[Sched] = NULL
    BY Constants, <1>23 DEF Control, Places, Asleep, SchedIdle, AtSched, Running, GivenUp
  <2>2. Enqueue(Sched, Runout, PSWP) /\ Runout \in Channels /\ wk = <<>> /\ wk' = <<>>
    BY Constants, <1>23 DEF SchedIdle, AtSched, Running, SchedSleep
  <2> QED BY <2>1, <2>2, QueuesEnqueue DEF Lists
<1>24. CASE SchedPick
  <2>1. UNCHANGED <<slpque, p_wchan, p_link>>
    BY <1>24 DEF SchedPick, queueVars
  <2>2. FramesKept
    BY Constants, <1>24, FramesKeep DEF Control, Calls, SchedPick, AtSched, Running, Waiting
  <2> QED BY <2>1, <2>2, QueuesKeep DEF Lists, FramesKept
<1>25. CASE SchedSwapin
  <2>1. Sched \in Procs /\ p_wchan[Sched] = NULL
    BY Constants, <1>25 DEF Control, Places, Asleep, SchedSwapin, AtSched, Running, GivenUp
  <2>2. Enqueue(Sched, Swbuf, PSWP) /\ Swbuf \in Channels /\ wk = <<>> /\ wk' = <<>>
    BY Constants, <1>25 DEF SchedSwapin, AtSched, Running, SchedSleep
  <2> QED BY <2>1, <2>2, QueuesEnqueue DEF Lists
<1>26. CASE SwapinDone
  <2>1. UNCHANGED <<slpque, p_wchan, p_link>>
    BY <1>26 DEF SwapinDone, queueVars
  <2>2. FramesKept
    BY Constants, <1>26, FramesKeep DEF Control, Calls, SwapinDone, AtSched, Running
  <2> QED BY <2>1, <2>2, QueuesKeep DEF Lists, FramesKept
<1>27. CASE SchedScan
  <2>1. UNCHANGED <<slpque, p_wchan, p_link>>
    BY <1>27 DEF SchedScan, queueVars
  <2>2. FramesKept
    BY Constants, <1>27, FramesKeep DEF Control, Calls, SchedScan, AtSched, Running, Easy, Swappable
  <2> QED BY <2>1, <2>2, QueuesKeep DEF Lists, FramesKept
<1>28. CASE SchedSwapout
  <2>1. Sched \in Procs /\ p_wchan[Sched] = NULL
    BY Constants, <1>28 DEF Control, Places, Asleep, SchedSwapout, AtSched, Running, GivenUp
  <2>2. Enqueue(Sched, Swbuf, PSWP) /\ Swbuf \in Channels /\ wk = <<>> /\ wk' = <<>>
    BY Constants, <1>28 DEF SchedSwapout, AtSched, Running, SchedSleep
  <2> QED BY <2>1, <2>2, QueuesEnqueue DEF Lists
<1>29. CASE SwapoutDone
  <2>1. UNCHANGED <<slpque, p_wchan, p_link>>
    BY <1>29 DEF SwapoutDone, queueVars
  <2>2. FramesKept
    BY Constants, <1>29, FramesKeep DEF Control, Calls, SwapoutDone, AtSched, Running
  <2> QED BY <2>1, <2>2, QueuesKeep DEF Lists, FramesKept
<1>30. CASE SchedWait
  <2>1. Sched \in Procs /\ p_wchan[Sched] = NULL
    BY Constants, <1>30 DEF Control, Places, Asleep, SchedWait, AtSched, Running, GivenUp
  <2>2. Enqueue(Sched, Runin, PSWP) /\ Runin \in Channels /\ wk = <<>> /\ wk' = <<>>
    BY Constants, <1>30 DEF SchedWait, AtSched, Running, SchedSleep
  <2> QED BY <2>1, <2>2, QueuesEnqueue DEF Lists
<1>31. ASSUME NEW c \in Chans \cup {Swbuf}, Interrupt(c) PROVE (\A h \in Queues : SleepQueue(h))'
  <2>1. UNCHANGED <<slpque, p_wchan, p_link>>
    BY <1>31 DEF Interrupt, queueVars
  <2>2. FramesKept
    BY Constants, <1>31, FramesKeep DEF Control, Calls, Interrupt, Frame
  <2> QED BY <2>1, <2>2, QueuesKeep DEF Lists, FramesKept
<1>32. CASE Second
  <2>1. UNCHANGED <<slpque, p_wchan, p_link>>
    BY <1>32 DEF Second, queueVars
  <2>2. FramesKept
    BY Constants, <1>32, FramesKeep DEF Control, Calls, Second, Frame
  <2> QED BY <2>1, <2>2, QueuesKeep DEF Lists, FramesKept
<1> QED
  BY <1>1, <1>2, <1>3, <1>4, <1>5, <1>6, <1>7, <1>8, <1>9, <1>10, <1>11, <1>12, <1>13, <1>14, <1>15,
      <1>16, <1>17, <1>18, <1>19, <1>20, <1>21, <1>22, <1>23, <1>24, <1>25, <1>26, <1>27, <1>28,
      <1>29, <1>30, <1>31, <1>32, StepKinds

\* Every step keeps the run queue.
LEMMA RunQueueStep ==
  ASSUME Control, Lists, [Next]_vars
  PROVE  RunQueue'
<1>1. CASE Unseen
  <2>1. /\ runq' = runq
        /\ \A q \in Procs : Runnable(q) => Runnable(q)' /\ p_link'[q] = p_link[q]
    BY <1>1 DEF Unseen, Runnable
  <2>2. \A q \in Procs : Runnable(q)' /\ ~InSetrun(q)' => Runnable(q) /\ ~InSetrun(q)
    BY <1>1 DEF Unseen, Runnable, InSetrun
  <2> QED BY <2>1, <2>2, RunKeep DEF Lists
<1>2. CASE WakeupSkip
  <2>1. /\ runq' = runq
        /\ \A r \in Procs : Runnable(r) => Runnable(r)' /\ p_link'[r] = p_link[r]
    BY Constants, <1>2 DEF Control, Types, Places, Calls, Runnable, GivenUp, queueVars, WakeupSkip
  <2>2. \A r \in Procs : Runnable(r)' /\ ~InSetrun(r)' => Runnable(r) /\ ~InSetrun(r)
    BY Constants, <1>2 DEF Control, Types, Places, Asleep, Calls, Runnable, InSetrun, GivenUp,
        queueVars, setrunVars, WakeupSkip
  <2> QED BY <2>1, <2>2, RunKeep DEF Lists
<1>3. CASE WakeupMatch
  <2>1. PICK f : f = Head(wk)
    OBVIOUS
  <2>2. /\ f \in FrameSet /\ f.p \in Procs /\ p_wchan[f.p] = f.chan /\ f.chan \in Channels
        /\ f.q \in Procs \cup {NULL}
    BY <1>3, <2>1, HeadFrame, MatchFrames DEF Control, WakeupMatch, FrameSet
  <2>3. p_stat[f.p] = "SSLEEP"
    BY <2>2, Constants DEF Control, Asleep
  <2>4. f.q # NULL => p_stat[f.q] = "SSLEEP"
    <3>1. PICK h \in Queues : h = Hash[f.chan]
      BY <2>2, Constants
    <3>2. PICK m, s : Listed(m, s, slpque[h], p_link, p_wchan, wk, h)
      BY DEF Lists, SleepQueue
    <3>3. 1 \in DOMAIN wk /\ wk[1] = f
      <4>1. wk = <<f>> \/ \E g \in FrameSet : wk = <<f, g>>
        BY <1>3, <2>1, MatchFrames
      <4> QED BY <4>1
    <3>4. PICK k \in 0 .. m : FrameAt(f, m, s, k, p_wchan)
      BY <3>1, <3>2, <3>3 DEF Listed
    <3>5. m \in Nat /\ Members(m, s) = Sleepers(p_wchan, h)
      BY <3>2 DEF Listed, Chain
    <3>6. f.q # NULL => k # 0 /\ f.q = s[k - 1]
      BY <3>4 DEF FrameAt
    <3>7. k # 0 => k - 1 \in 0 .. m - 1
      BY <3>5
    <3>8. f.q # NULL => f.q \in Sleepers(p_wchan, h)
      BY <3>5, <3>6, <3>7 DEF Members
    <3> QED BY <3>8 DEF Sleepers, Control, Asleep
  <2>5. PICK l : l = IF f.q = NULL THEN p_link ELSE [p_link EXCEPT ![f.q] = p_link[f.p]]
    OBVIOUS
  <2>6. l \in [Procs -> Procs \cup {NULL}] /\ setrq(f.p, l)
    <3>1. setrq(f.p, IF f.q = NULL THEN p_link ELSE [p_link EXCEPT ![f.q] = p_link[f.p]])
      BY <1>3, <2>1 DEF WakeupMatch
    <3>2. l \in [Procs -> Procs \cup {NULL}]
      BY <2>2, <2>5 DEF Control, Types
    <3> QED BY <2>5, <3>1, <3>2
  <2>7. p_stat' = [p_stat EXCEPT ![f.p] = "SRUN"] /\ UNCHANGED <<cur, pc, spc, tgt>>
    BY <1>3, <2>1 DEF WakeupMatch, setrunVars
  <2>8. \A q \in Procs : Runnable(q) => Runnable(q)' /\ l[q] = p_link[q]
    BY <2>2, <2>3, <2>4, <2>5, <2>7 DEF Control, Types, Runnable
  <2>9. Runnable(f.p)'
    BY <2>2, <2>3, <2>7 DEF Control, Types, Places, Runnable
  <2>10. \A q \in Procs : q # f.p /\ Runnable(q)' /\ ~InSetrun(q)' => Runnable(q) /\ ~InSetrun(q)
    BY <2>2, <2>7 DEF Control, Types, Runnable, InSetrun
  <2> QED BY <2>2, <2>6, <2>8, <2>9, <2>10, RunSetrq DEF Lists
<1>4. CASE WakeupReturn
  <2>1. /\ runq' = runq
        /\ \A r \in Procs : Runnable(r) => Runnable(r)' /\ p_link'[r] = p_link[r]
    BY Constants, <1>4 DEF Control, Types, Places, Calls, Runnable, GivenUp, queueVars, WakeupReturn
  <2>2. \A r \in Procs : Runnable(r)' /\ ~InSetrun(r)' => Runnable(r) /\ ~InSetrun(r)
    BY Constants, <1>4 DEF Control, Types, Places, Asleep, Calls, Runnable, InSetrun, GivenUp,
        queueVars, setrunVars, WakeupReturn
  <2> QED BY <2>1, <2>2, RunKeep DEF Lists
<1>5. ASSUME NEW c \in Contexts, NEW q \in Users, Psignal(c, q) PROVE RunQueue'
  <2>1. /\ runq' = runq
        /\ \A r \in Procs : Runnable(r) => Runnable(r)' /\ p_link'[r] = p_link[r]
    BY Constants, <1>5 DEF Control, Types, Places, Calls, Runnable, GivenUp, queueVars, Psignal,
        MayCall, At, Live, Go
  <2>2. \A r \in Procs : Runnable(r)' /\ ~InSetrun(r)' => Runnable(r) /\ ~InSetrun(r)
    BY Constants, <1>5 DEF Control, Types, Places, Asleep, Calls, Runnable, InSetrun, GivenUp,
        queueVars, setrunVars, Psignal, MayCall, At, Live, Go
  <2> QED BY <2>1, <2>2, RunKeep DEF Lists
<1>6. ASSUME NEW p \in Users, NEW q \in Users, Ptrace(p, q) PROVE RunQueue'
  <2>1. /\ runq' = runq
        /\ \A r \in Procs : Runnable(r) => Runnable(r)' /\ p_link'[r] = p_link[r]
    BY Constants, <1>6 DEF Control, Types, Places, Calls, Runnable, GivenUp, queueVars, Ptrace,
        MayCall, At, Live, Go
  <2>2. \A r \in Procs : Runnable(r)' /\ ~InSetrun(r)' => Runnable(r) /\ ~InSetrun(r)
    BY Constants, <1>6 DEF Control, Types, Places, Asleep, Calls, Runnable, InSetrun, GivenUp,
        queueVars, setrunVars, Ptrace, MayCall, At, Live, Go
  <2> QED BY <2>1, <2>2, RunKeep DEF Lists
<1>7. ASSUME NEW c \in Contexts, PsignalTest(c) PROVE RunQueue'
  <2>1. /\ runq' = runq
        /\ \A r \in Procs : Runnable(r) => Runnable(r)' /\ p_link'[r] = p_link[r]
    BY Constants, <1>7 DEF Control, Types, Places, Calls, Runnable, GivenUp, queueVars, PsignalTest,
        At, Live, Go, Done
  <2>2. \A r \in Procs : Runnable(r)' /\ ~InSetrun(r)' => Runnable(r) /\ ~InSetrun(r)
    <3>1. /\ UNCHANGED <<p_stat, cur, pc>> /\ spc[c] = "psignal" /\ c \in Contexts
          /\ \A d \in Contexts : d # c => spc'[d] = spc[d] /\ tgt'[d] = tgt[d]
      BY SMTT(30), <1>7 DEF Control, Calls, queueVars, PsignalTest, At, Go, Done
    <3>2. \A r \in Procs : Runnable(r)' => Runnable(r)
      BY <3>1 DEF Runnable
    <3>3. \A r \in Procs : InSetrun(r) => InSetrun(r)'
      BY <3>1 DEF InSetrun
    <3> QED BY <3>2, <3>3
  <2> QED BY <2>1, <2>2, RunKeep DEF Lists
<1>8. ASSUME NEW c \in Contexts, SetrunRead(c) PROVE RunQueue'
  <2>1. /\ runq' = runq
        /\ \A r \in Procs : Runnable(r) => Runnable(r)' /\ p_link'[r] = p_link[r]
    BY Constants, <1>8 DEF Control, Types, Places, Calls, Runnable, GivenUp, queueVars, SetrunRead,
        At, Live, Go
  <2>2. \A r \in Procs : Runnable(r)' /\ ~InSetrun(r)' => Runnable(r) /\ ~InSetrun(r)
    BY Constants, <1>8 DEF Control, Types, Places, Asleep, Calls, Runnable, InSetrun, GivenUp,
        queueVars, setrunVars, SetrunRead, At, Live, Go
  <2> QED BY <2>1, <2>2, RunKeep DEF Lists
<1>9. ASSUME NEW c \in Contexts, SetrunWakeup(c) PROVE RunQueue'
  <2>1. /\ runq' = runq
        /\ \A r \in Procs : Runnable(r) => Runnable(r)' /\ p_link'[r] = p_link[r]
    BY Constants, <1>9 DEF Control, Types, Places, Calls, Runnable, GivenUp, queueVars,
        SetrunWakeup, At, Live, Go, Done, Frame
  <2>2. \A r \in Procs : Runnable(r)' /\ ~InSetrun(r)' => Runnable(r) /\ ~InSetrun(r)
    BY Constants, <1>9 DEF Control, Types, Places, Asleep, Calls, Runnable, InSetrun, GivenUp,
        queueVars, setrunVars, SetrunWakeup, At, Live, Go, Done, Frame
  <2> QED BY <2>1, <2>2, RunKeep DEF Lists
<1>10. ASSUME NEW c \in Contexts, SetrunRun(c) PROVE RunQueue'
  <2>1. /\ runq' = runq
        /\ \A r \in Procs : Runnable(r) => Runnable(r)' /\ p_link'[r] = p_link[r]
    BY Constants, <1>10 DEF Control, Types, Places, Calls, Runnable, GivenUp, queueVars, SetrunRun,
        At, Live, Go
  <2>2. \A r \in Procs : Runnable(r)' /\ ~InSetrun(r)' => Runnable(r) /\ ~InSetrun(r)
    BY Constants, <1>10 DEF Control, Types, Places, Asleep, Calls, Runnable, InSetrun, GivenUp,
        queueVars, setrunVars, SetrunRun, At, Live, Go
  <2> QED BY <2>1, <2>2, RunKeep DEF Lists
<1>11. ASSUME NEW c \in Contexts, SetrunSetrq(c) PROVE RunQueue'
  <2>1. /\ tgt[c] \in Procs /\ p_stat[tgt[c]] = "SRUN" /\ (cur = tgt[c] => pc[cur] \in GivenUp)
        /\ spc' = [spc EXCEPT ![c] = "setrun.runout"] /\ UNCHANGED <<p_stat, cur, pc, tgt>>
    BY Constants, <1>11 DEF Control, Calls, SetrunSetrq, At, Go
  <2>2. PICK l, q : l = p_link /\ q = tgt[c]
    OBVIOUS
  <2>3. l \in [Procs -> Procs \cup {NULL}] /\ setrq(q, l) /\ q \in Procs
    BY <1>11, <2>1, <2>2 DEF Control, Types, SetrunSetrq
  <2>4. \A p \in Procs : Runnable(p) => Runnable(p)' /\ l[p] = p_link[p]
    BY <2>1, <2>2 DEF Runnable
  <2>5. Runnable(q)'
    BY <2>1, <2>2 DEF Runnable
  <2>6. \A p \in Procs : p # q /\ Runnable(p)' /\ ~InSetrun(p)' => Runnable(p) /\ ~InSetrun(p)
    BY <2>1, <2>2 DEF Runnable, InSetrun, Control, Calls
  <2> QED BY <2>3, <2>4, <2>5, <2>6, RunSetrq DEF Lists
<1>12. ASSUME NEW c \in Contexts, SetrunRunout(c) PROVE RunQueue'
  <2>1. /\ runq' = runq
        /\ \A r \in Procs : Runnable(r) => Runnable(r)' /\ p_link'[r] = p_link[r]
    BY Constants, <1>12 DEF Control, Types, Places, Calls, Runnable, GivenUp, queueVars,
        SetrunRunout, At, Live, Go, Done, Frame, CallsSwapper
  <2>2. \A r \in Procs : Runnable(r)' /\ ~InSetrun(r)' => Runnable(r) /\ ~InSetrun(r)
    BY Constants, <1>12 DEF Control, Types, Places, Asleep, Calls, Runnable, InSetrun, GivenUp,
        queueVars, setrunVars, SetrunRunout, At, Live, Go, Done, Frame, CallsSwapper
  <2> QED BY <2>1, <2>2, RunKeep DEF Lists
<1>13. ASSUME NEW p \in Users, NEW c \in Chans, NEW pri \in Pris, Sleep(p, c, pri) PROVE RunQueue'
  <2>1. /\ runq' = runq
        /\ \A r \in Procs : Runnable(r) => Runnable(r)' /\ p_link'[r] = p_link[r]
    BY Constants, <1>13 DEF Control, Types, Places, Calls, Runnable, GivenUp, queueVars, Sleep,
        MayCall, At, Live, Enqueue
  <2>2. \A r \in Procs : Runnable(r)' /\ ~InSetrun(r)' => Runnable(r) /\ ~InSetrun(r)
    BY Constants, <1>13 DEF Control, Types, Places, Asleep, Calls, Runnable, InSetrun, GivenUp,
        queueVars, setrunVars, Sleep, MayCall, At, Live, Enqueue
  <2> QED BY <2>1, <2>2, RunKeep DEF Lists
<1>14. ASSUME NEW p \in Users, NEW c \in Chans, NEW pri \in Pris, SleepSignalled(p, c, pri) PROVE RunQueue'
  <2>1. /\ runq' = runq
        /\ \A r \in Procs : Runnable(r) => Runnable(r)' /\ p_link'[r] = p_link[r]
    BY Constants, <1>14 DEF Control, Types, Places, Calls, Runnable, GivenUp, queueVars,
        SleepSignalled, MayCall, At, Live
  <2>2. \A r \in Procs : Runnable(r)' /\ ~InSetrun(r)' => Runnable(r) /\ ~InSetrun(r)
    BY Constants, <1>14 DEF Control, Types, Places, Asleep, Calls, Runnable, InSetrun, GivenUp,
        queueVars, setrunVars, SleepSignalled, MayCall, At, Live
  <2> QED BY <2>1, <2>2, RunKeep DEF Lists
<1>15. ASSUME NEW p \in Users, SleepRunin(p) PROVE RunQueue'
  <2>1. /\ runq' = runq
        /\ \A r \in Procs : Runnable(r) => Runnable(r)' /\ p_link'[r] = p_link[r]
    BY Constants, <1>15 DEF Control, Types, Places, Calls, Runnable, GivenUp, queueVars, SleepRunin,
        Running, Frame
  <2>2. \A r \in Procs : Runnable(r)' /\ ~InSetrun(r)' => Runnable(r) /\ ~InSetrun(r)
    BY Constants, <1>15 DEF Control, Types, Places, Asleep, Calls, Runnable, InSetrun, GivenUp,
        queueVars, setrunVars, SleepRunin, Running, Frame
  <2> QED BY <2>1, <2>2, RunKeep DEF Lists
<1>16. ASSUME NEW p \in Users, NEW c \in Chans, Wakeup(p, c) PROVE RunQueue'
  <2>1. /\ runq' = runq
        /\ \A r \in Procs : Runnable(r) => Runnable(r)' /\ p_link'[r] = p_link[r]
    BY Constants, <1>16 DEF Control, Types, Places, Calls, Runnable, GivenUp, queueVars, Wakeup,
        MayCall, At, Live, Frame
  <2>2. \A r \in Procs : Runnable(r)' /\ ~InSetrun(r)' => Runnable(r) /\ ~InSetrun(r)
    BY Constants, <1>16 DEF Control, Types, Places, Asleep, Calls, Runnable, InSetrun, GivenUp,
        queueVars, setrunVars, Wakeup, MayCall, At, Live, Frame
  <2> QED BY <2>1, <2>2, RunKeep DEF Lists
<1>17. ASSUME NEW p \in Users, TakeSignal(p) PROVE RunQueue'
  <2>1. /\ runq' = runq
        /\ \A r \in Procs : Runnable(r) => Runnable(r)' /\ p_link'[r] = p_link[r]
    BY Constants, <1>17 DEF Control, Types, Places, Calls, Runnable, GivenUp, queueVars, TakeSignal,
        Running, Frame
  <2>2. \A r \in Procs : Runnable(r)' /\ ~InSetrun(r)' => Runnable(r) /\ ~InSetrun(r)
    BY Constants, <1>17 DEF Control, Types, Places, Asleep, Calls, Runnable, InSetrun, GivenUp,
        queueVars, setrunVars, TakeSignal, Running, Frame
  <2> QED BY <2>1, <2>2, RunKeep DEF Lists
<1>18. ASSUME NEW p \in Users, Stop(p) PROVE RunQueue'
  <2>1. /\ runq' = runq
        /\ \A r \in Procs : Runnable(r) => Runnable(r)' /\ p_link'[r] = p_link[r]
    BY Constants, <1>18 DEF Control, Types, Places, Calls, Runnable, GivenUp, queueVars, Stop,
        Running
  <2>2. \A r \in Procs : Runnable(r)' /\ ~InSetrun(r)' => Runnable(r) /\ ~InSetrun(r)
    BY Constants, <1>18 DEF Control, Types, Places, Asleep, Calls, Runnable, InSetrun, GivenUp,
        queueVars, setrunVars, Stop, Running
  <2> QED BY <2>1, <2>2, RunKeep DEF Lists
<1>19. ASSUME NEW p \in Users, Restarted(p) PROVE RunQueue'
  <2>1. /\ runq' = runq
        /\ \A r \in Procs : Runnable(r) => Runnable(r)' /\ p_link'[r] = p_link[r]
    BY Constants, <1>19 DEF Control, Types, Places, Calls, Runnable, GivenUp, queueVars, Restarted,
        Running, Frame
  <2>2. \A r \in Procs : Runnable(r)' /\ ~InSetrun(r)' => Runnable(r) /\ ~InSetrun(r)
    BY Constants, <1>19 DEF Control, Types, Places, Asleep, Calls, Runnable, InSetrun, GivenUp,
        queueVars, setrunVars, Restarted, Running, Frame
  <2> QED BY <2>1, <2>2, RunKeep DEF Lists
<1>20. ASSUME NEW p \in Users, Qswtch(p) PROVE RunQueue'
  <2>1. /\ p \in Procs /\ p_stat[p] = "SRUN" /\ cur = p /\ cur' = p /\ UNCHANGED <<p_stat, spc, tgt>>
        /\ pc' = [pc EXCEPT ![p] = "swtch"] /\ setrq(p, p_link)
    BY Constants, <1>20 DEF Control, Places, Qswtch, MayCall, At, Live, GivenUp, setrunVars
  <2>2. PICK l : l = p_link
    OBVIOUS
  <2>3. l \in [Procs -> Procs \cup {NULL}] /\ setrq(p, l)
    BY <2>1, <2>2 DEF Control, Types
  <2>4. \A q \in Procs : Runnable(q) => Runnable(q)' /\ l[q] = p_link[q]
    BY <2>1, <2>2 DEF Control, Places, Runnable, GivenUp
  <2>5. Runnable(p)'
    BY <2>1 DEF Control, Places, Runnable, GivenUp
  <2>6. \A q \in Procs : q # p /\ Runnable(q)' /\ ~InSetrun(q)' => Runnable(q) /\ ~InSetrun(q)
    BY <2>1 DEF Runnable, InSetrun
  <2> QED BY <2>1, <2>3, <2>4, <2>5, <2>6, RunSetrq DEF Lists
<1>21. ASSUME NEW p \in Procs, Swtch(p) PROVE RunQueue'
  <2>1. /\ runq' = runq
        /\ \A r \in Procs : Runnable(r) => Runnable(r)' /\ p_link'[r] = p_link[r]
    BY Constants, <1>21 DEF Control, Types, Places, Calls, Runnable, GivenUp, queueVars, Swtch,
        Running, Resume
  <2>2. \A r \in Procs : Runnable(r)' /\ ~InSetrun(r)' => Runnable(r) /\ ~InSetrun(r)
    BY Constants, <1>21 DEF Control, Types, Places, Asleep, Calls, Runnable, InSetrun, GivenUp,
        queueVars, setrunVars, Swtch, Running, Resume
  <2> QED BY <2>1, <2>2, RunKeep DEF Lists
<1>22. CASE Dispatch
  BY <1>22, RunDispatch DEF Lists
<1>23. CASE SchedIdle
  <2>1. /\ runq' = runq
        /\ \A r \in Procs : Runnable(r) => Runnable(r)' /\ p_link'[r] = p_link[r]
    BY Constants, <1>23 DEF Control, Types, Places, Calls, Runnable, GivenUp, queueVars, SchedIdle,
        AtSched, Running, SchedSleep, Enqueue
  <2>2. \A r \in Procs : Runnable(r)' /\ ~InSetrun(r)' => Runnable(r) /\ ~InSetrun(r)
    BY Constants, <1>23 DEF Control, Types, Places, Asleep, Calls, Runnable, InSetrun, GivenUp,
        queueVars, setrunVars, SchedIdle, AtSched, Running, SchedSleep, Enqueue
  <2> QED BY <2>1, <2>2, RunKeep DEF Lists
<1>24. CASE SchedPick
  <2>1. /\ runq' = runq
        /\ \A r \in Procs : Runnable(r) => Runnable(r)' /\ p_link'[r] = p_link[r]
    BY Constants, <1>24 DEF Control, Types, Places, Calls, Runnable, GivenUp, queueVars, SchedPick,
        AtSched, Running, Waiting
  <2>2. \A r \in Procs : Runnable(r)' /\ ~InSetrun(r)' => Runnable(r) /\ ~InSetrun(r)
    BY Constants, <1>24 DEF Control, Types, Places, Asleep, Calls, Runnable, InSetrun, GivenUp,
        queueVars, setrunVars, SchedPick, AtSched, Running, Waiting
  <2> QED BY <2>1, <2>2, RunKeep DEF Lists
<1>25. CASE SchedSwapin
  <2>1. /\ runq' = runq
        /\ \A r \in Procs : Runnable(r) => Runnable(r)' /\ p_link'[r] = p_link[r]
    BY Constants, <1>25 DEF Control, Types, Places, Calls, Runnable, GivenUp, queueVars,
        SchedSwapin, AtSched, Running, SchedSleep, Enqueue
  <2>2. \A r \in Procs : Runnable(r)' /\ ~InSetrun(r)' => Runnable(r) /\ ~InSetrun(r)
    BY Constants, <1>25 DEF Control, Types, Places, Asleep, Calls, Runnable, InSetrun, GivenUp,
        queueVars, setrunVars, SchedSwapin, AtSched, Running, SchedSleep, Enqueue
  <2> QED BY <2>1, <2>2, RunKeep DEF Lists
<1>26. CASE SwapinDone
  <2>1. /\ runq' = runq
        /\ \A r \in Procs : Runnable(r) => Runnable(r)' /\ p_link'[r] = p_link[r]
    BY Constants, <1>26 DEF Control, Types, Places, Calls, Runnable, GivenUp, queueVars, SwapinDone,
        AtSched, Running
  <2>2. \A r \in Procs : Runnable(r)' /\ ~InSetrun(r)' => Runnable(r) /\ ~InSetrun(r)
    BY Constants, <1>26 DEF Control, Types, Places, Asleep, Calls, Runnable, InSetrun, GivenUp,
        queueVars, setrunVars, SwapinDone, AtSched, Running
  <2> QED BY <2>1, <2>2, RunKeep DEF Lists
<1>27. CASE SchedScan
  <2>1. /\ runq' = runq
        /\ \A r \in Procs : Runnable(r) => Runnable(r)' /\ p_link'[r] = p_link[r]
    BY Constants, <1>27 DEF Control, Types, Places, Calls, Runnable, GivenUp, queueVars, SchedScan,
        AtSched, Running, Easy, Swappable
  <2>2. \A r \in Procs : Runnable(r)' /\ ~InSetrun(r)' => Runnable(r) /\ ~InSetrun(r)
    BY Constants, <1>27 DEF Control, Types, Places, Asleep, Calls, Runnable, InSetrun, GivenUp,
        queueVars, setrunVars, SchedScan, AtSched, Running, Easy, Swappable
  <2> QED BY <2>1, <2>2, RunKeep DEF Lists
<1>28. CASE SchedSwapout
  <2>1. /\ runq' = runq
        /\ \A r \in Procs : Runnable(r) => Runnable(r)' /\ p_link'[r] = p_link[r]
    BY Constants, <1>28 DEF Control, Types, Places, Calls, Runnable, GivenUp, queueVars,
        SchedSwapout, AtSched, Running, SchedSleep, Enqueue
  <2>2. \A r \in Procs : Runnable(r)' /\ ~InSetrun(r)' => Runnable(r) /\ ~InSetrun(r)
    BY Constants, <1>28 DEF Control, Types, Places, Asleep, Calls, Runnable, InSetrun, GivenUp,
        queueVars, setrunVars, SchedSwapout, AtSched, Running, SchedSleep, Enqueue
  <2> QED BY <2>1, <2>2, RunKeep DEF Lists
<1>29. CASE SwapoutDone
  <2>1. /\ runq' = runq
        /\ \A r \in Procs : Runnable(r) => Runnable(r)' /\ p_link'[r] = p_link[r]
    BY Constants, <1>29 DEF Control, Types, Places, Calls, Runnable, GivenUp, queueVars,
        SwapoutDone, AtSched, Running
  <2>2. \A r \in Procs : Runnable(r)' /\ ~InSetrun(r)' => Runnable(r) /\ ~InSetrun(r)
    BY Constants, <1>29 DEF Control, Types, Places, Asleep, Calls, Runnable, InSetrun, GivenUp,
        queueVars, setrunVars, SwapoutDone, AtSched, Running
  <2> QED BY <2>1, <2>2, RunKeep DEF Lists
<1>30. CASE SchedWait
  <2>1. /\ runq' = runq
        /\ \A r \in Procs : Runnable(r) => Runnable(r)' /\ p_link'[r] = p_link[r]
    BY Constants, <1>30 DEF Control, Types, Places, Calls, Runnable, GivenUp, queueVars, SchedWait,
        AtSched, Running, SchedSleep, Enqueue
  <2>2. \A r \in Procs : Runnable(r)' /\ ~InSetrun(r)' => Runnable(r) /\ ~InSetrun(r)
    BY Constants, <1>30 DEF Control, Types, Places, Asleep, Calls, Runnable, InSetrun, GivenUp,
        queueVars, setrunVars, SchedWait, AtSched, Running, SchedSleep, Enqueue
  <2> QED BY <2>1, <2>2, RunKeep DEF Lists
<1>31. ASSUME NEW c \in Chans \cup {Swbuf}, Interrupt(c) PROVE RunQueue'
  <2>1. /\ runq' = runq
        /\ \A r \in Procs : Runnable(r) => Runnable(r)' /\ p_link'[r] = p_link[r]
    BY Constants, <1>31 DEF Control, Types, Places, Calls, Runnable, GivenUp, queueVars, Interrupt,
        Frame
  <2>2. \A r \in Procs : Runnable(r)' /\ ~InSetrun(r)' => Runnable(r) /\ ~InSetrun(r)
    BY Constants, <1>31 DEF Control, Types, Places, Asleep, Calls, Runnable, InSetrun, GivenUp,
        queueVars, setrunVars, Interrupt, Frame
  <2> QED BY <2>1, <2>2, RunKeep DEF Lists
<1>32. CASE Second
  <2>1. /\ runq' = runq
        /\ \A r \in Procs : Runnable(r) => Runnable(r)' /\ p_link'[r] = p_link[r]
    BY Constants, <1>32 DEF Control, Types, Places, Calls, Runnable, GivenUp, queueVars, Second,
        Frame
  <2>2. \A r \in Procs : Runnable(r)' /\ ~InSetrun(r)' => Runnable(r) /\ ~InSetrun(r)
    BY Constants, <1>32 DEF Control, Types, Places, Asleep, Calls, Runnable, InSetrun, GivenUp,
        queueVars, setrunVars, Second, Frame
  <2> QED BY <2>1, <2>2, RunKeep DEF Lists
<1> QED
  BY <1>1, <1>2, <1>3, <1>4, <1>5, <1>6, <1>7, <1>8, <1>9, <1>10, <1>11, <1>12, <1>13, <1>14, <1>15,
      <1>16, <1>17, <1>18, <1>19, <1>20, <1>21, <1>22, <1>23, <1>24, <1>25, <1>26, <1>27, <1>28,
      <1>29, <1>30, <1>31, <1>32, StepKinds

\* When wakeup() returns nobody sleeps on its channel.
LEMMA Wakes == Control /\ Lists => WakesAll
<1> SUFFICES ASSUME Control, Lists, wk # <<>>, Head(wk).p = NULL, NEW p \in Procs,
                    p_wchan[p] = Head(wk).chan
             PROVE  FALSE
  BY DEF WakesAll, Awaited
<1>1. PICK f : f = Head(wk)
  OBVIOUS
<1>2. /\ f \in FrameSet /\ f.chan \in Channels /\ f.chan # NULL /\ Hash[f.chan] \in Queues
  BY <1>1, HeadFrame, Constants DEF Control, FrameSet
<1>3. 1 \in DOMAIN wk /\ wk[1] = f
  <2>1. wk = <<f>> \/ \E g \in FrameSet : wk = <<f, g>>
    BY <1>1, HeadFrame DEF Control
  <2> QED BY <2>1
<1>4. PICK h \in Queues : h = Hash[f.chan]
  BY <1>2
<1>5. PICK m, s : Listed(m, s, slpque[h], p_link, p_wchan, wk, h)
  BY DEF Lists, SleepQueue
<1>6. PICK k \in 0 .. m : FrameAt(f, m, s, k, p_wchan)
  BY <1>3, <1>4, <1>5 DEF Listed
<1>7. m \in Nat /\ s \in [0 .. m - 1 -> Procs] /\ Members(m, s) = Sleepers(p_wchan, h)
  BY <1>5 DEF Listed, Chain
<1>8. Nth(m, s, k) = NULL /\ \A j \in 0 .. k - 1 : p_wchan[s[j]] # f.chan
  BY <1>1, <1>6 DEF FrameAt
<1>9. k = m
  <2>1. ~(k < m)
    <3> SUFFICES ASSUME k < m PROVE FALSE
      OBVIOUS
    <3>1. s[k] \in Procs /\ Nth(m, s, k) = s[k]
      BY <1>7 DEF Nth
    <3> QED BY <1>8, <3>1, Constants
  <2> QED BY <1>7, <2>1
<1>10. p \in Members(m, s)
  BY <1>1, <1>2, <1>4, <1>7 DEF Sleepers
<1>11. PICK j \in 0 .. m - 1 : s[j] = p
  BY <1>10 DEF Members
<1> QED BY <1>1, <1>8, <1>9, <1>11

\* One call of wakeup().
LEMMA OneCall ==
  ASSUME NEW f, NEW c
  PROVE  (\E i \in DOMAIN <<f>> : <<f>>[i].chan = c) <=> f.chan = c
<1>1. DOMAIN <<f>> = {1} /\ <<f>>[1] = f
  OBVIOUS
<1> QED BY <1>1

\* The channels wakeup() is called for.
LEMMA CalledKeep ==
  /\ wk' = wk => \A c : Called(c)' <=> Called(c)
  /\ wk' = <<>> => \A c : ~Called(c)'
  /\ \A d : wk' = <<Frame(d)>> => \A c : Called(c)' <=> c = d
<1>1. ASSUME NEW d, wk' = <<Frame(d)>>, NEW c PROVE Called(c)' <=> c = d
  <2>1. PICK f : f = Frame(d)
    OBVIOUS
  <2>2. f.chan = d /\ wk' = <<f>>
    BY <1>1, <2>1 DEF Frame
  <2> QED BY <2>2 DEF Called
<1> QED BY <1>1 DEF Called

\* The same, for the steps of wakeup() itself.
LEMMA CalledStep ==
  ASSUME Control
  PROVE  /\ WakeupSkip => \A c : Called(c)' <=> Called(c)
         /\ WakeupMatch => \A c : Called(c)' <=> Called(c) \/ (CallsSwapper(Head(wk).p) /\ c = Runout)
         /\ WakeupReturn => \A c : /\ Called(c)' => Called(c)
                                   /\ Called(c) => Called(c)' \/ c = Head(wk).chan
<1>1. ASSUME WakeupSkip, NEW c PROVE Called(c)' <=> Called(c)
  <2>1. PICK f, f2 : /\ f2.chan = f.chan
                     /\ \/ wk = <<f>> /\ wk' = <<f2>>
                        \/ \E g \in FrameSet : wk = <<f, g>> /\ wk' = <<f2, g>>
    BY <1>1, SkipFrames
  <2>2. CASE wk = <<f>> /\ wk' = <<f2>>
    <3>1. (Called(c) <=> f.chan = c) /\ (Called(c)' <=> f2.chan = c)
      BY <2>2, OneCall DEF Called
    <3> QED BY <2>1, <3>1
  <2>3. CASE \E g \in FrameSet : wk = <<f, g>> /\ wk' = <<f2, g>>
    <3>1. PICK g \in FrameSet : wk = <<f, g>> /\ wk' = <<f2, g>>
      BY <2>3
    <3>2. (Called(c) <=> f.chan = c \/ g.chan = c) /\ (Called(c)' <=> f2.chan = c \/ g.chan = c)
      BY <3>1 DEF Called
    <3> QED BY <2>1, <3>2
  <2> QED BY <2>1, <2>2, <2>3
<1>2. ASSUME WakeupMatch, NEW c
      PROVE  Called(c)' <=> Called(c) \/ (CallsSwapper(Head(wk).p) /\ c = Runout)
  <2>1. PICK f, f2, n : /\ f = Head(wk) /\ f2 = Continue(f)
                        /\ n = [chan |-> Runout, p |-> slpque'[Hash[Runout]], q |-> NULL]
    OBVIOUS
  <2>2. f \in FrameSet /\ f2.chan = f.chan /\ n.chan = Runout
    BY <1>2, <2>1, HeadFrame DEF Control, WakeupMatch, FrameSet, Continue
  <2>3. CASE wk = <<f>> /\ wk' = <<n, f2>> /\ CallsSwapper(f.p)
    <3>1. (Called(c) <=> f.chan = c) /\ (Called(c)' <=> n.chan = c \/ f2.chan = c)
      BY <2>3 DEF Called
    <3> QED BY <2>1, <2>2, <2>3, <3>1
  <2>4. CASE wk = <<f>> /\ wk' = <<f2>> /\ ~CallsSwapper(f.p)
    <3>1. (Called(c) <=> f.chan = c) /\ (Called(c)' <=> f2.chan = c)
      BY <2>4, OneCall DEF Called
    <3> QED BY <2>1, <2>2, <2>4, <3>1
  <2>5. CASE (\E g \in FrameSet : wk = <<f, g>> /\ wk' = <<f2, g>>) /\ ~CallsSwapper(f.p)
    <3>1. PICK g \in FrameSet : wk = <<f, g>> /\ wk' = <<f2, g>>
      BY <2>5
    <3>2. (Called(c) <=> f.chan = c \/ g.chan = c) /\ (Called(c)' <=> f2.chan = c \/ g.chan = c)
      BY <3>1 DEF Called
    <3> QED BY <2>1, <2>2, <2>5, <3>2
  <2> QED BY <1>2, <2>1, <2>3, <2>4, <2>5, MatchFrames
<1>3. ASSUME WakeupReturn, NEW c
      PROVE  (Called(c)' => Called(c)) /\ (Called(c) => Called(c)' \/ c = Head(wk).chan)
  <2>1. PICK f : f = Head(wk)
    OBVIOUS
  <2>2. CASE wk = <<f>> /\ wk' = <<>>
    BY <2>1, <2>2 DEF Called
  <2>3. CASE \E g \in FrameSet : wk = <<f, g>> /\ wk' = <<g>>
    <3>1. PICK g \in FrameSet : wk = <<f, g>> /\ wk' = <<g>>
      BY <2>3
    <3>2. (Called(c) <=> f.chan = c \/ g.chan = c) /\ (Called(c)' <=> g.chan = c)
      BY <3>1 DEF Called
    <3> QED BY <2>1, <3>2
  <2> QED BY <1>3, <2>1, <2>2, <2>3, HeadFrame DEF Control, WakeupReturn
<1> QED BY <1>1, <1>2, <1>3

\* A step that leaves the flags and the swapper alone, and whose new calls of
\* wakeup() are for others.
LEMMA FlagsKeep ==
  ASSUME Flags, UNCHANGED <<p_wchan, runin, runout>>, Waiting' \subseteq Waiting,
         \A c : Called(c) => Called(c)',
         \A c \in {Runin, Runout} : Called(c)' => Called(c),
         \A c \in Contexts : spc[c] \in {"setrun.setrq", "setrun.runout"} =>
                              spc'[c] = spc[c] /\ tgt'[c] = tgt[c]
  PROVE  Flags'
<1>1. ASSUME runout', NEW p \in Waiting'
      PROVE  \E c \in Contexts : tgt'[c] = p /\ spc'[c] \in {"setrun.setrq", "setrun.runout"}
  BY <1>1 DEF Flags
<1> QED BY <1>1 DEF Flags

\* Every step keeps the flags.
LEMMA FlagsStep ==
  ASSUME Control, Lists, [Next]_vars
  PROVE  Flags'
<1>1. CASE Unseen
  BY <1>1, CalledKeep DEF Unseen, Lists, Flags, Waiting
<1>2. CASE WakeupSkip
  BY <1>2, CalledStep DEF WakeupSkip, queueVars, swapVars, setrunVars, Lists, Flags, Waiting
<1>3. CASE WakeupMatch
  <2>1. PICK f : f = Head(wk)
    OBVIOUS
  <2>2. /\ f.p \in Procs /\ p_wchan[f.p] = f.chan
        /\ \A c : Called(c)' <=> Called(c) \/ (CallsSwapper(f.p) /\ c = Runout)
        /\ Called(f.chan)
    <3>1. 1 \in DOMAIN wk /\ wk[1] = f
      <4>1. wk = <<f>> \/ \E g \in FrameSet : wk = <<f, g>>
        BY <1>3, <2>1, MatchFrames
      <4> QED BY <4>1
    <3>2. Called(f.chan)
      BY <3>1 DEF Called
    <3> QED BY <1>3, <2>1, <3>2, MatchFrames, CalledStep
  <2>3. /\ p_wchan' = [p_wchan EXCEPT ![f.p] = NULL] /\ p_stat' = [p_stat EXCEPT ![f.p] = "SRUN"]
        /\ runout' = (runout /\ ~CallsSwapper(f.p)) /\ UNCHANGED <<load, runin, tgt, spc>>
    BY <1>3, <2>1 DEF WakeupMatch, swapVars, setrunVars
  <2>4. p_wchan'[Sched] = IF f.p = Sched THEN NULL ELSE p_wchan[Sched]
    BY <2>3, Constants DEF Control, Types
  <2>5. f.p = Sched => ~CallsSwapper(f.p) /\ (f.chan = Runout => ~runout) /\ (f.chan = Runin => ~runin)
    BY <2>2 DEF Control, Types, CallsSwapper, Lists, Flags
  <2>6. /\ Called(Runout)' => ~runout'
        /\ Called(Runin)' => ~runin'
        /\ runout' => p_wchan'[Sched] = Runout
        /\ runin' => p_wchan'[Sched] = Runin
        /\ p_wchan'[Sched] = Runout => runout' \/ Called(Runout)'
        /\ p_wchan'[Sched] = Runin => runin' \/ Called(Runin)'
    BY <2>2, <2>3, <2>4, <2>5, Constants DEF Lists, Flags
  <2>7. ASSUME runout', NEW p \in Waiting'
        PROVE  \E c \in Contexts : tgt'[c] = p /\ spc'[c] \in {"setrun.setrq", "setrun.runout"}
    <3>1. runout /\ f.p \in load /\ p \notin load /\ p \in Users
      BY <2>3, <2>7 DEF CallsSwapper, Waiting
    <3>2. p \in Waiting
      BY <2>3, <2>7, <3>1, Constants DEF Waiting, Control, Types
    <3> QED BY <2>3, <3>1, <3>2 DEF Lists, Flags
  <2> QED BY <2>6, <2>7 DEF Flags
<1>4. CASE WakeupReturn
  <2>1. p_wchan[Sched] # Head(wk).chan
    BY <1>4, Wakes, Constants DEF WakesAll, Awaited, WakeupReturn
  <2> QED BY <1>4, <2>1, CalledStep DEF WakeupReturn, queueVars, swapVars, setrunVars, Lists, Flags,
      Waiting
<1>5. ASSUME NEW c \in Contexts, NEW q \in Users, Psignal(c, q) PROVE Flags'
  <2>1. UNCHANGED <<p_wchan, runin, runout, p_stat, load>>
    BY <1>5 DEF Psignal, queueVars, swapVars
  <2>2. Waiting' \subseteq Waiting
    BY <2>1 DEF Waiting
  <2>3. /\ \A x : Called(x) => Called(x)'
        /\ \A x \in {Runin, Runout} : Called(x)' => Called(x)
    BY <1>5, CalledKeep DEF Psignal
  <2>4. \A x \in Contexts : spc[x] \in {"setrun.setrq", "setrun.runout"} =>
                              spc'[x] = spc[x] /\ tgt'[x] = tgt[x]
    BY <1>5 DEF Psignal, MayCall, At, Live, Go, Control, Calls
  <2> QED BY <2>1, <2>2, <2>3, <2>4, FlagsKeep DEF Lists
<1>6. ASSUME NEW p \in Users, NEW q \in Users, Ptrace(p, q) PROVE Flags'
  BY Constants, <1>6, CalledKeep DEF Control, Types, Places, Asleep, Calls, Lists, Flags, Waiting,
      GivenUp, queueVars, swapVars, setrunVars, Ptrace, MayCall, At, Live, Go
<1>7. ASSUME NEW c \in Contexts, PsignalTest(c) PROVE Flags'
  <2>1. UNCHANGED <<p_wchan, runin, runout, p_stat, load>>
    BY <1>7 DEF PsignalTest, queueVars, swapVars
  <2>2. Waiting' \subseteq Waiting
    BY <2>1 DEF Waiting
  <2>3. /\ \A x : Called(x) => Called(x)'
        /\ \A x \in {Runin, Runout} : Called(x)' => Called(x)
    BY <1>7, CalledKeep DEF PsignalTest
  <2>4. \A x \in Contexts : spc[x] \in {"setrun.setrq", "setrun.runout"} =>
                              spc'[x] = spc[x] /\ tgt'[x] = tgt[x]
    BY <1>7 DEF PsignalTest, At, Live, Go, Done, setrunVars, Control, Calls
  <2> QED BY <2>1, <2>2, <2>3, <2>4, FlagsKeep DEF Lists
<1>8. ASSUME NEW c \in Contexts, SetrunRead(c) PROVE Flags'
  BY Constants, <1>8, CalledKeep DEF Control, Types, Places, Asleep, Calls, Lists, Flags, Waiting,
      GivenUp, queueVars, swapVars, setrunVars, SetrunRead, At, Live, Go
<1>9. ASSUME NEW c \in Contexts, SetrunWakeup(c) PROVE Flags'
  <2>1. UNCHANGED <<p_wchan, runin, runout, p_stat, load>>
    BY <1>9 DEF SetrunWakeup, queueVars, swapVars
  <2>2. Waiting' \subseteq Waiting
    BY <2>1 DEF Waiting
  <2>3. /\ \A x : Called(x) => Called(x)'
        /\ \A x \in {Runin, Runout} : Called(x)' => Called(x)
    <3>1. CASE wk' = wk
      BY <3>1, CalledKeep
    <3>2. CASE wk = <<>> /\ wk' = <<Frame(w[c])>>
      <4>1. w[c] # Runin /\ w[c] # Runout
        BY Constants, <1>9 DEF Control, Calls, SetrunWakeup, At
      <4> QED BY <3>2, <4>1, CalledKeep DEF Called
    <3> QED BY <1>9, <3>1, <3>2 DEF SetrunWakeup, At, Live, Go, Done
  <2>4. \A x \in Contexts : spc[x] \in {"setrun.setrq", "setrun.runout"} =>
                              spc'[x] = spc[x] /\ tgt'[x] = tgt[x]
    BY <1>9 DEF SetrunWakeup, At, Live, Go, Done, setrunVars, Control, Calls
  <2> QED BY <2>1, <2>2, <2>3, <2>4, FlagsKeep DEF Lists
<1>10. ASSUME NEW c \in Contexts, SetrunRun(c) PROVE Flags'
  BY Constants, <1>10, CalledKeep DEF Control, Types, Places, Asleep, Calls, Lists, Flags, Waiting,
      GivenUp, queueVars, swapVars, setrunVars, SetrunRun, At, Live, Go
<1>11. ASSUME NEW c \in Contexts, SetrunSetrq(c) PROVE Flags'
  BY Constants, <1>11, CalledKeep DEF Control, Types, Places, Asleep, Calls, Lists, Flags, Waiting,
      GivenUp, queueVars, swapVars, setrunVars, SetrunSetrq, At, Live, Go, setrq
<1>12. ASSUME NEW c \in Contexts, SetrunRunout(c) PROVE Flags'
  BY Constants, <1>12, CalledKeep DEF Control, Types, Places, Asleep, Calls, Lists, Flags, Waiting,
      GivenUp, queueVars, swapVars, setrunVars, SetrunRunout, At, Live, Go, Done, CallsSwapper
<1>13. ASSUME NEW p \in Users, NEW c \in Chans, NEW pri \in Pris, Sleep(p, c, pri) PROVE Flags'
  BY Constants, <1>13, CalledKeep DEF Control, Types, Places, Asleep, Calls, Lists, Flags, Waiting,
      GivenUp, queueVars, swapVars, setrunVars, Sleep, MayCall, At, Live, Enqueue
<1>14. ASSUME NEW p \in Users, NEW c \in Chans, NEW pri \in Pris, SleepSignalled(p, c, pri) PROVE Flags'
  BY Constants, <1>14, CalledKeep DEF Control, Types, Places, Asleep, Calls, Lists, Flags, Waiting,
      GivenUp, queueVars, swapVars, setrunVars, SleepSignalled, MayCall, At, Live
<1>15. ASSUME NEW p \in Users, SleepRunin(p) PROVE Flags'
  BY Constants, <1>15, CalledKeep DEF Control, Types, Places, Asleep, Calls, Lists, Flags, Waiting,
      GivenUp, queueVars, swapVars, setrunVars, SleepRunin, Running
<1>16. ASSUME NEW p \in Users, NEW c \in Chans, Wakeup(p, c) PROVE Flags'
  <2>1. UNCHANGED <<p_wchan, runin, runout, p_stat, load>>
    BY <1>16 DEF Wakeup, queueVars, swapVars
  <2>2. Waiting' \subseteq Waiting
    BY <2>1 DEF Waiting
  <2>3. /\ \A x : Called(x) => Called(x)'
        /\ \A x \in {Runin, Runout} : Called(x)' => Called(x)
    <3>1. CASE wk' = wk
      BY <3>1, CalledKeep
    <3>2. CASE wk = <<>> /\ wk' = <<Frame(c)>>
      <4>1. c # Runin /\ c # Runout
        BY Constants, <1>16
      <4> QED BY <3>2, <4>1, CalledKeep DEF Called
    <3> QED BY <1>16, <3>1, <3>2 DEF Wakeup, MayCall, At, Live
  <2>4. \A x \in Contexts : spc[x] \in {"setrun.setrq", "setrun.runout"} =>
                              spc'[x] = spc[x] /\ tgt'[x] = tgt[x]
    BY <1>16 DEF Wakeup, MayCall, At, Live, setrunVars, Control, Calls
  <2> QED BY <2>1, <2>2, <2>3, <2>4, FlagsKeep DEF Lists
<1>17. ASSUME NEW p \in Users, TakeSignal(p) PROVE Flags'
  <2>1. UNCHANGED <<p_wchan, runin, runout, p_stat, load>>
    BY <1>17 DEF TakeSignal, queueVars, swapVars
  <2>2. Waiting' \subseteq Waiting
    BY <2>1 DEF Waiting
  <2>3. /\ \A x : Called(x) => Called(x)'
        /\ \A x \in {Runin, Runout} : Called(x)' => Called(x)
    <3>1. CASE wk' = wk
      BY <3>1, CalledKeep
    <3>2. CASE wk = <<>> /\ wk' = <<Frame(Waitchan)>>
      <4>1. Waitchan # Runin /\ Waitchan # Runout
        BY Constants, <1>17
      <4> QED BY <3>2, <4>1, CalledKeep DEF Called
    <3> QED BY <1>17, <3>1, <3>2 DEF TakeSignal, Running
  <2>4. \A x \in Contexts : spc[x] \in {"setrun.setrq", "setrun.runout"} =>
                              spc'[x] = spc[x] /\ tgt'[x] = tgt[x]
    BY <1>17 DEF TakeSignal, Running, setrunVars, Control, Calls
  <2> QED BY <2>1, <2>2, <2>3, <2>4, FlagsKeep DEF Lists
<1>18. ASSUME NEW p \in Users, Stop(p) PROVE Flags'
  BY Constants, <1>18, CalledKeep DEF Control, Types, Places, Asleep, Calls, Lists, Flags, Waiting,
      GivenUp, queueVars, swapVars, setrunVars, Stop, Running
<1>19. ASSUME NEW p \in Users, Restarted(p) PROVE Flags'
  <2>1. UNCHANGED <<p_wchan, runin, runout, p_stat, load>>
    BY <1>19 DEF Restarted, queueVars, swapVars
  <2>2. Waiting' \subseteq Waiting
    BY <2>1 DEF Waiting
  <2>3. /\ \A x : Called(x) => Called(x)'
        /\ \A x \in {Runin, Runout} : Called(x)' => Called(x)
    <3>1. CASE wk' = wk
      BY <3>1, CalledKeep
    <3>2. CASE wk = <<>> /\ wk' = <<Frame(Waitchan)>>
      <4>1. Waitchan # Runin /\ Waitchan # Runout
        BY Constants, <1>19
      <4> QED BY <3>2, <4>1, CalledKeep DEF Called
    <3> QED BY <1>19, <3>1, <3>2 DEF Restarted, Running
  <2>4. \A x \in Contexts : spc[x] \in {"setrun.setrq", "setrun.runout"} =>
                              spc'[x] = spc[x] /\ tgt'[x] = tgt[x]
    BY <1>19 DEF Restarted, Running, setrunVars, Control, Calls
  <2> QED BY <2>1, <2>2, <2>3, <2>4, FlagsKeep DEF Lists
<1>20. ASSUME NEW p \in Users, Qswtch(p) PROVE Flags'
  BY Constants, <1>20, CalledKeep DEF Control, Types, Places, Asleep, Calls, Lists, Flags, Waiting,
      GivenUp, queueVars, swapVars, setrunVars, Qswtch, MayCall, At, Live, setrq
<1>21. ASSUME NEW p \in Procs, Swtch(p) PROVE Flags'
  BY Constants, <1>21, CalledKeep DEF Control, Types, Places, Asleep, Calls, Lists, Flags, Waiting,
      GivenUp, queueVars, swapVars, setrunVars, Swtch, Running, Resume
<1>22. CASE Dispatch
  BY Constants, <1>22, CalledKeep DEF Control, Types, Places, Asleep, Calls, Lists, Flags, Waiting,
      GivenUp, queueVars, swapVars, setrunVars, Dispatch
<1>23. CASE SchedIdle
  <2>1. p_wchan[Sched] = NULL /\ ~runin /\ ~runout /\ wk = <<>> /\ wk' = wk
    <3>1. cur = Sched /\ pc[Sched] \notin GivenUp /\ wk = <<>> /\ wk' = wk
      BY <1>23 DEF SchedIdle, AtSched, Running, GivenUp
    <3>2. p_stat[Sched] = "SRUN"
      BY <3>1, Constants DEF Control, Places
    <3>3. p_wchan[Sched] = NULL
      BY <3>2, Constants DEF Control, Asleep
    <3> QED BY <3>1, <3>3, Constants DEF Lists, Flags
  <2>2. \A x : ~Called(x)'
    BY <2>1, CalledKeep DEF Called
  <2>3. p_wchan'[Sched] = Runout
    BY <1>23, Constants DEF SchedIdle, SchedSleep, Enqueue, Control, Types
  <2> QED BY <1>23, <2>1, <2>2, <2>3, Constants DEF SchedIdle, Flags, Waiting, SchedSleep, Enqueue,
      Control, Types, swapVars
<1>24. CASE SchedPick
  BY Constants, <1>24, CalledKeep DEF Control, Types, Places, Asleep, Calls, Lists, Flags, Waiting,
      GivenUp, queueVars, swapVars, setrunVars, SchedPick, AtSched, Running
<1>25. CASE SchedSwapin
  <2>1. p_wchan[Sched] = NULL /\ ~runin /\ ~runout /\ wk = <<>> /\ wk' = wk
    <3>1. cur = Sched /\ pc[Sched] \notin GivenUp /\ wk = <<>> /\ wk' = wk
      BY <1>25 DEF SchedSwapin, AtSched, Running, GivenUp
    <3>2. p_stat[Sched] = "SRUN"
      BY <3>1, Constants DEF Control, Places
    <3>3. p_wchan[Sched] = NULL
      BY <3>2, Constants DEF Control, Asleep
    <3> QED BY <3>1, <3>3, Constants DEF Lists, Flags
  <2>2. \A x : ~Called(x)'
    BY <2>1, CalledKeep DEF Called
  <2>3. p_wchan'[Sched] = Swbuf
    BY <1>25, Constants DEF SchedSwapin, SchedSleep, Enqueue, Control, Types
  <2> QED BY <1>25, <2>1, <2>2, <2>3, Constants DEF SchedSwapin, Flags
<1>26. CASE SwapinDone
  BY Constants, <1>26, CalledKeep DEF Control, Types, Places, Asleep, Calls, Lists, Flags, Waiting,
      GivenUp, queueVars, swapVars, setrunVars, SwapinDone, AtSched, Running
<1>27. CASE SchedScan
  BY Constants, <1>27, CalledKeep DEF Control, Types, Places, Asleep, Calls, Lists, Flags, Waiting,
      GivenUp, queueVars, swapVars, setrunVars, SchedScan, AtSched, Running, Easy, Swappable
<1>28. CASE SchedSwapout
  <2>1. p_wchan[Sched] = NULL /\ ~runin /\ ~runout /\ wk = <<>> /\ wk' = wk
    <3>1. cur = Sched /\ pc[Sched] \notin GivenUp /\ wk = <<>> /\ wk' = wk
      BY <1>28 DEF SchedSwapout, AtSched, Running, GivenUp
    <3>2. p_stat[Sched] = "SRUN"
      BY <3>1, Constants DEF Control, Places
    <3>3. p_wchan[Sched] = NULL
      BY <3>2, Constants DEF Control, Asleep
    <3> QED BY <3>1, <3>3, Constants DEF Lists, Flags
  <2>2. \A x : ~Called(x)'
    BY <2>1, CalledKeep DEF Called
  <2>3. p_wchan'[Sched] = Swbuf
    BY <1>28, Constants DEF SchedSwapout, SchedSleep, Enqueue, Control, Types
  <2> QED BY <1>28, <2>1, <2>2, <2>3, Constants DEF SchedSwapout, Flags
<1>29. CASE SwapoutDone
  BY Constants, <1>29, CalledKeep DEF Control, Types, Places, Asleep, Calls, Lists, Flags, Waiting,
      GivenUp, queueVars, swapVars, setrunVars, SwapoutDone, AtSched, Running
<1>30. CASE SchedWait
  <2>1. p_wchan[Sched] = NULL /\ ~runin /\ ~runout /\ wk = <<>> /\ wk' = wk
    <3>1. cur = Sched /\ pc[Sched] \notin GivenUp /\ wk = <<>> /\ wk' = wk
      BY <1>30 DEF SchedWait, AtSched, Running, GivenUp
    <3>2. p_stat[Sched] = "SRUN"
      BY <3>1, Constants DEF Control, Places
    <3>3. p_wchan[Sched] = NULL
      BY <3>2, Constants DEF Control, Asleep
    <3> QED BY <3>1, <3>3, Constants DEF Lists, Flags
  <2>2. \A x : ~Called(x)'
    BY <2>1, CalledKeep DEF Called
  <2>3. p_wchan'[Sched] = Runin
    BY <1>30, Constants DEF SchedWait, SchedSleep, Enqueue, Control, Types
  <2> QED BY <1>30, <2>1, <2>2, <2>3, Constants DEF SchedWait, Flags
<1>31. ASSUME NEW c \in Chans \cup {Swbuf}, Interrupt(c) PROVE Flags'
  <2>1. UNCHANGED <<p_wchan, runin, runout, p_stat, load>>
    BY <1>31 DEF Interrupt, queueVars, swapVars
  <2>2. Waiting' \subseteq Waiting
    BY <2>1 DEF Waiting
  <2>3. /\ \A x : Called(x) => Called(x)'
        /\ \A x \in {Runin, Runout} : Called(x)' => Called(x)
    <3>1. CASE wk' = wk
      BY <3>1, CalledKeep
    <3>2. CASE wk = <<>> /\ wk' = <<Frame(c)>>
      <4>1. c # Runin /\ c # Runout
        BY Constants, <1>31
      <4> QED BY <3>2, <4>1, CalledKeep DEF Called
    <3> QED BY <1>31, <3>1, <3>2 DEF Interrupt, queueVars
  <2>4. \A x \in Contexts : spc[x] \in {"setrun.setrq", "setrun.runout"} =>
                              spc'[x] = spc[x] /\ tgt'[x] = tgt[x]
    BY <1>31 DEF Interrupt, queueVars, setrunVars, Control, Calls
  <2> QED BY <2>1, <2>2, <2>3, <2>4, FlagsKeep DEF Lists
<1>32. CASE Second
  BY Constants, <1>32, CalledKeep DEF Control, Types, Places, Asleep, Calls, Lists, Flags, Waiting,
      GivenUp, queueVars, swapVars, setrunVars, Second
<1> QED
  BY <1>1, <1>2, <1>3, <1>4, <1>5, <1>6, <1>7, <1>8, <1>9, <1>10, <1>11, <1>12, <1>13, <1>14, <1>15,
      <1>16, <1>17, <1>18, <1>19, <1>20, <1>21, <1>22, <1>23, <1>24, <1>25, <1>26, <1>27, <1>28,
      <1>29, <1>30, <1>31, <1>32, StepKinds

\* The queues and the flags are as they should be at first.
LEMMA InitLists == Init => Lists
<1> SUFFICES ASSUME Init PROVE Lists
  OBVIOUS
<1>1. Flags
  BY Constants DEF Init, Flags, Called
<1>2. RunQueue
  <2>1. PICK m, s : Chain(m, s, runq, p_link) /\ Members(m, s) = Users
    BY InitQueue
  <2>2. \A p \in Procs : Runnable(p) <=> p \in Users
    BY Constants DEF Init, Runnable, GivenUp
  <2>3. Runners(m, s)
    BY <2>1, <2>2 DEF Runners
  <2> QED BY <2>1, <2>3 DEF RunQueue
<1>3. ASSUME NEW h \in Queues PROVE SleepQueue(h)
  <2>1. PICK s : s = [k \in 0 .. 0 - 1 |-> Sched]
    OBVIOUS
  <2>2. 0 .. 0 - 1 = {}
    OBVIOUS
  <2>3. slpque[h] = NULL /\ wk = <<>> /\ Sleepers(p_wchan, h) = {}
    BY <1>3 DEF Init, Sleepers
  <2>4. Chain(0, s, slpque[h], p_link)
    BY <2>1, <2>2, <2>3 DEF Chain, Nth
  <2>5. Members(0, s) = {}
    BY <2>2 DEF Members
  <2>6. Listed(0, s, slpque[h], p_link, p_wchan, wk, h)
    BY <2>3, <2>4, <2>5 DEF Listed
  <2> QED BY <2>6 DEF SleepQueue
<1> QED BY <1>1, <1>2, <1>3 DEF Lists

\* Every behaviour keeps it, whatever HASH() is, as long as no call of wakeup() for
\* &runout tears the queue where another call stands.
THEOREM Invariance == Spec /\ [][~Tears]_vars => []IInv
<1>1. Init => IInv
  BY InitControl, InitLists DEF IInv
<1>2. IInv /\ [Next]_vars /\ [~Tears]_vars => IInv'
  <2> SUFFICES ASSUME IInv, [Next]_vars, [~Tears]_vars PROVE IInv'
    OBVIOUS
  <2>1. Control /\ Lists
    BY DEF IInv
  <2>2. Control'
    BY <2>1, ControlStep
  <2>3. Flags'
    BY <2>1, FlagsStep
  <2>4. RunQueue'
    BY <2>1, RunQueueStep
  <2>5. (\A h \in Queues : SleepQueue(h))'
    BY <2>1, SleepQueuesStep
  <2> QED BY <2>2, <2>3, <2>4, <2>5 DEF IInv, Lists
<1> QED BY <1>1, <1>2, PTL DEF Spec

-----------------------------------------------------------------------------
(* What the invariant says of the queues and of the swapper                *)

\* While wakeup() is not at work the sleep queues hold exactly the sleepers.
LEMMA SleepExact == IInv => SleepQueuesExact
<1> SUFFICES ASSUME IInv, Quiet, NEW h \in Queues
             PROVE  /\ Ends(slpque[h])
                    /\ \A p \in Procs :
                         OnQueue(slpque[h], p_link, p)
                           <=> p_stat[p] = "SSLEEP" /\ p_wchan[p] # NULL /\ Hash[p_wchan[p]] = h
  BY DEF SleepQueuesExact
<1>1. PICK m, s : /\ Chain(m, s, slpque[h], p_link) /\ Members(m, s) = Sleepers(p_wchan, h)
  BY DEF IInv, Lists, SleepQueue, Listed
<1>2. Ends(slpque[h]) /\ \A p \in Procs : OnQueue(slpque[h], p_link, p) <=> p \in Members(m, s)
  BY <1>1, ChainWalked DEF Ends
<1>3. \A p \in Procs : p \in Sleepers(p_wchan, h) <=>
                         p_stat[p] = "SSLEEP" /\ p_wchan[p] # NULL /\ Hash[p_wchan[p]] = h
  BY DEF Sleepers, IInv, Control, Asleep
<1> QED BY <1>1, <1>2, <1>3

\* The run queue holds exactly those that swtch() may choose.
LEMMA RunExact == IInv => RunQueueExact
<1> SUFFICES ASSUME IInv, Quiet
             PROVE  /\ Ends(runq)
                    /\ \A p \in Procs :
                         /\ p_stat[p] = "SRUN" /\ cur # p /\ ~InSetrun(p) => OnQueue(runq, p_link, p)
                         /\ OnQueue(runq, p_link, p) => p_stat[p] = "SRUN"
                         /\ OnQueue(runq, p_link, p) /\ cur = p => pc[p] \in GivenUp
  BY DEF RunQueueExact, GivenUp
<1>1. PICK m, s : Chain(m, s, runq, p_link) /\ Runners(m, s)
  BY DEF IInv, Lists, RunQueue
<1>2. Ends(runq) /\ \A p \in Procs : OnQueue(runq, p_link, p) <=> p \in Members(m, s)
  BY <1>1, ChainWalked DEF Ends
<1> QED BY <1>1, <1>2 DEF Runners, Runnable

\* sleep(), wakeup(), setrq() and swtch() share p_link, and still no process is lost
\* or on two queues (slp.c): while wakeup() is not at work, the sleep queues hold
\* exactly the sleepers and the run queue the runnable processes.
THEOREM QueuesCorrect == Spec /\ [][~Tears]_vars => []QueuesExact
<1>1. IInv => QueuesExact
  BY SleepExact, RunExact DEF QueuesExact
<1> QED BY <1>1, Invariance, PTL

\* When wakeup(chan) has come to the end of the queue nobody sleeps on chan, even
\* when setrun() has called wakeup() in the middle of it (slp.c:79-110).
THEOREM WakesCorrect == Spec /\ [][~Tears]_vars => []WakesAll
<1>1. IInv => WakesAll
  BY Wakes DEF IInv
<1> QED BY <1>1, Invariance, PTL

\* runin and runout tell exactly whether the swapper sleeps on them, and it does not
\* sleep on runout while a runnable process is out of core, unless setrun() is about
\* to test runout for that process (slp.c:140-163, 188-285).
THEOREM AwakeCorrect == Spec /\ [][~Tears]_vars => []SchedAwake
<1>1. IInv => SchedAwake
  <2> SUFFICES ASSUME IInv, Quiet
               PROVE  /\ runout <=> p_wchan[Sched] = Runout
                      /\ runin <=> p_wchan[Sched] = Runin
                      /\ p_wchan[Sched] = Runout =>
                           \A p \in Waiting :
                             \E c \in Contexts : /\ tgt[c] = p
                                                 /\ spc[c] \in {"setrun.setrq", "setrun.runout"}
    BY DEF SchedAwake
  <2>1. \A c : ~Called(c)
    BY DEF Quiet, Called
  <2> QED BY <2>1 DEF IInv, Lists, Flags, Control, Types
<1> QED BY <1>1, Invariance, PTL
====
