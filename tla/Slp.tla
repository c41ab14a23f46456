-------------------------------- MODULE Slp --------------------------------
(***************************************************************************)
(* Sleeping, waking and choosing who runs (sys/slp.c, with psignal() and   *)
(* stop() of sys/sig.c and the second's work of sys/clock.c).              *)
(*                                                                         *)
(* A process is linked through p_link, the one link field it has, into the *)
(* sleep queue its channel hashes to or into the run queue.  wakeup() runs *)
(* at spl6: while a frame is on `wk` nothing else moves.  Everything that  *)
(* runs at spl0 can be cut by an interrupt, and an interrupt that runs at  *)
(* a low priority (the clock's psignal() runs at spl1) by another one.     *)
(***************************************************************************)
EXTENDS Naturals, Sequences, FiniteSets

CONSTANTS
  Users,     \* the processes other than process 0
  Sched,     \* process 0: the swapper, always in core
  Intr,      \* the context of an interrupt that can itself be interrupted
  Chans,     \* channels the rest of the kernel sleeps on
  Waitchan,  \* the one among them on which the parent of a traced process waits
  Runin,     \* &runin
  Runout,    \* &runout
  Swbuf,     \* the swap buffer
  Hash,      \* HASH(): channel -> sleep queue
  Pris,      \* priorities at which the kernel sleeps
  Traced,    \* the processes with STRC
  Core,      \* how many images fit in core
  NULL       \* the null pointer, and channel 0

PSWP == 0
PZERO == 25
PUSER == 50

Procs == Users \cup {Sched}
Channels == Chans \cup {Runin, Runout, Swbuf}
Queues == {Hash[c] : c \in Channels}
Contexts == Users \cup {Intr}

ASSUME SlpAssumption ==
  /\ IsFiniteSet(Users) /\ Users # {} /\ Sched \notin Users /\ Intr \notin Procs
  /\ NULL \notin Procs \cup Channels
  /\ Cardinality({Runin, Runout, Swbuf}) = 3
  /\ {Runin, Runout, Swbuf} \cap Chans = {}
  /\ Waitchan \in Chans
  /\ DOMAIN Hash = Channels
  /\ Pris \subseteq 0 .. PUSER
  /\ Traced \subseteq Users
  /\ Core \in Nat \ {0}

VARIABLES
  p_stat, p_pri, p_wchan, p_link,  \* process -> the fields of struct proc
  p_sig,     \* process -> a signal is pending
  load,      \* the processes with SLOAD
  lock,      \* the processes with SLOCK
  slpque,    \* sleep queue -> its head
  runq,      \* the head of the run queue
  runin, runout,
  cur,       \* the process that has the processor, or NULL in swtch()'s loop
  pc,        \* process -> where it is, or where it resumes
  wk,        \* the calls of wakeup() in progress, the innermost first
  spc,       \* context -> where it is in psignal() or setrun(), or "idle"
  tgt,       \* context -> the process psignal() or setrun() was called for
  w,         \* context -> setrun()'s w
  out,       \* the swapped-out processes, the one out longest first
  swp,       \* the process the swapper is working on
  niced      \* the processes with a p_nice of 36 or more; the others have NZERO

queueVars == <<p_stat, p_wchan, p_link, slpque, runq>>
swapVars  == <<load, lock, out, swp, niced>>
setrunVars == <<spc, tgt, w>>
vars == <<p_stat, p_pri, p_wchan, p_link, p_sig, load, lock, slpque, runq, runin, runout,
          cur, pc, wk, spc, tgt, w, out, swp, niced>>

\* The users' processes are runnable, as many in core as fit, and the swapper
\* is about to look for work.
Init ==
  /\ p_stat = [p \in Procs |-> "SRUN"]
  /\ p_pri = [p \in Procs |-> IF p = Sched THEN PSWP ELSE PUSER]
  /\ p_wchan = [p \in Procs |-> NULL]
  /\ \E s \in [1 .. Cardinality(Users) -> Users] :
       /\ \A i, j \in DOMAIN s : s[i] = s[j] => i = j
       /\ runq = s[1]
       /\ p_link = [p \in Procs |->
                      IF \E i \in 2 .. Len(s) : s[i - 1] = p
                      THEN s[(CHOOSE i \in 2 .. Len(s) : s[i - 1] = p)]
                      ELSE NULL]
       /\ load = {Sched} \cup {s[i] : i \in {n \in DOMAIN s : n <= Core}}
       /\ out = SubSeq(s, Core + 1, Len(s))
  /\ p_sig = [p \in Procs |-> FALSE]
  /\ lock = {}
  /\ slpque = [h \in Queues |-> NULL]
  /\ runin = FALSE /\ runout = FALSE
  /\ cur = Sched
  /\ pc = [p \in Procs |-> IF p = Sched THEN "loop" ELSE "body"]
  /\ wk = <<>>
  /\ spc = [c \in Contexts |-> "idle"]
  /\ tgt = [c \in Contexts |-> NULL] /\ w = tgt
  /\ swp = NULL /\ niced = {}

-----------------------------------------------------------------------------
(* Queues                                                                  *)

\* The n-th process of the list that starts at head, NULL past its end.
Walk(head, link) ==
  LET f[n \in 0 .. Cardinality(Procs)] ==
        IF n = 0 THEN head
        ELSE IF f[n - 1] = NULL THEN NULL ELSE link[f[n - 1]]
  IN f

OnQueue(head, link, p) == \E n \in 0 .. Cardinality(Procs) : Walk(head, link)[n] = p

\* Mutant: setrq() without its diagnostic loop.
setrq_NoCheck(p, link) ==
  /\ p_link' = [link EXCEPT ![p] = runq]
  /\ runq' = p

\* setrq(p), called with link in the p_link fields.
setrq(p, link) ==
  IF OnQueue(runq, link, p)
  THEN p_link' = link /\ UNCHANGED runq
  ELSE p_link' = [link EXCEPT ![p] = runq] /\ runq' = p

\* The start of wakeup(c).
Frame(c) == [chan |-> c, p |-> slpque[Hash[c]], q |-> NULL]

\* p goes on its channel's sleep queue.
Enqueue(p, c, pri) ==
  /\ p_stat' = [p_stat EXCEPT ![p] = "SSLEEP"]
  /\ p_wchan' = [p_wchan EXCEPT ![p] = c]
  /\ p_pri' = [p_pri EXCEPT ![p] = pri]
  /\ p_link' = [p_link EXCEPT ![p] = slpque[Hash[c]]]
  /\ slpque' = [slpque EXCEPT ![Hash[c]] = p]

-----------------------------------------------------------------------------
(* wakeup: one step of its loop at a time, with interrupts shut out        *)

\* A process that sleeps on another channel of the same queue is passed over.
WakeupSkip ==
  /\ wk # <<>> /\ Head(wk).p # NULL
  /\ p_wchan[Head(wk).p] # Head(wk).chan
  /\ wk' = [wk EXCEPT ![1].q = Head(wk).p, ![1].p = p_link[Head(wk).p]]
  /\ UNCHANGED <<queueVars, p_pri, p_sig, swapVars, runin, runout, cur, pc, setrunVars>>

\* Mutant: wakeup() stops at the first process it wakes.
Continue_First(f) == [f EXCEPT !.p = NULL]

\* The rest of the queue is still to be looked at; q stays.
Continue(f) == [f EXCEPT !.p = p_link[f.p]]

\* Mutant: setrun() forgets the swapper.
CallsSwapper_Never(p) == FALSE

\* setrun(p) wakes the swapper for a process that is not in core.
CallsSwapper(p) == runout /\ p \notin load

\* The process is unlinked and set running; setrun() may call wakeup() again.
WakeupMatch ==
  /\ wk # <<>> /\ Head(wk).p # NULL
  /\ LET f == Head(wk)
         h == Hash[f.chan]
     IN /\ p_wchan[f.p] = f.chan
        /\ slpque' = IF f.q = NULL THEN [slpque EXCEPT ![h] = p_link[f.p]] ELSE slpque
        /\ setrq(f.p, IF f.q = NULL THEN p_link
                      ELSE [p_link EXCEPT ![f.q] = p_link[f.p]])
        /\ p_wchan' = [p_wchan EXCEPT ![f.p] = NULL]
        /\ p_stat' = [p_stat EXCEPT ![f.p] = "SRUN"]
        /\ runout' = (runout /\ ~CallsSwapper(f.p))
        /\ wk' = (IF CallsSwapper(f.p)
                  THEN <<[chan |-> Runout, p |-> slpque'[Hash[Runout]], q |-> NULL]>>
                  ELSE <<>>)
                 \o <<Continue(f)>> \o Tail(wk)
  /\ UNCHANGED <<p_pri, p_sig, swapVars, runin, cur, pc, setrunVars>>

WakeupReturn ==
  /\ wk # <<>> /\ Head(wk).p = NULL
  /\ wk' = Tail(wk)
  /\ UNCHANGED <<queueVars, p_pri, p_sig, swapVars, runin, runout, cur, pc, setrunVars>>

\* No interrupt is being served at spl6; p has the processor.
Running(p) == cur = p /\ wk = <<>> /\ spc[Intr] = "idle"

-----------------------------------------------------------------------------
(* psignal and setrun, from a process or from a low-priority interrupt     *)

\* Context c can take its next step.
Live(c) == wk = <<>> /\ (c = Intr \/ (cur = c /\ spc[Intr] = "idle"))

At(c, place) == Live(c) /\ spc[c] = place

Go(c, place) == spc' = [spc EXCEPT ![c] = place]

\* c is done with psignal() or setrun(), and their variables are gone.
Done(c) ==
  /\ Go(c, "idle")
  /\ tgt' = [tgt EXCEPT ![c] = NULL]
  /\ w' = [w EXCEPT ![c] = NULL]

\* Only a process in the body of a system call makes a call.
MayCall(c) == At(c, "idle") /\ (c \in Users => pc[c] = "body")

Psignal(c, p) ==
  /\ MayCall(c)
  /\ ~p_sig[p]
  /\ p_sig' = [p_sig EXCEPT ![p] = TRUE]
  /\ tgt' = [tgt EXCEPT ![c] = p]
  /\ Go(c, "psignal")
  /\ UNCHANGED <<queueVars, p_pri, swapVars, runin, runout, cur, pc, wk, w>>

\* ptrace() sets a stopped process running.
Ptrace(c, p) ==
  /\ MayCall(c) /\ c \in Users
  /\ p_stat[p] = "SSTOP"
  /\ tgt' = [tgt EXCEPT ![c] = p]
  /\ Go(c, "setrun")
  /\ UNCHANGED <<queueVars, p_pri, p_sig, swapVars, runin, runout, cur, pc, wk, w>>

\* if(p->p_stat == SSLEEP && p->p_pri > PZERO)
PsignalTest(c) ==
  /\ At(c, "psignal")
  /\ IF p_stat[tgt[c]] = "SSLEEP" /\ p_pri[tgt[c]] > PZERO
     THEN Go(c, "setrun") /\ UNCHANGED <<tgt, w>>
     ELSE Done(c)
  /\ UNCHANGED <<queueVars, p_pri, p_sig, swapVars, runin, runout, cur, pc, wk>>

\* "The assignment to w is necessary because of race conditions."
SetrunRead(c) ==
  /\ At(c, "setrun")
  /\ w' = [w EXCEPT ![c] = p_wchan[tgt[c]]]
  /\ Go(c, IF p_wchan[tgt[c]] # NULL THEN "setrun.wakeup" ELSE "setrun.run")
  /\ UNCHANGED <<queueVars, p_pri, p_sig, swapVars, runin, runout, cur, pc, wk, tgt>>

SetrunWakeup(c) ==
  /\ At(c, "setrun.wakeup")
  /\ wk' = <<Frame(w[c])>>
  /\ Done(c)
  /\ UNCHANGED <<queueVars, p_pri, p_sig, swapVars, runin, runout, cur, pc>>

SetrunRun(c) ==
  /\ At(c, "setrun.run")
  /\ p_stat' = [p_stat EXCEPT ![tgt[c]] = "SRUN"]
  /\ Go(c, "setrun.setrq")
  /\ UNCHANGED <<p_wchan, p_link, slpque, runq, p_pri, p_sig, swapVars, runin, runout, cur,
                 pc, wk, tgt, w>>

SetrunSetrq(c) ==
  /\ At(c, "setrun.setrq")
  /\ setrq(tgt[c], p_link)
  /\ Go(c, "setrun.runout")
  /\ UNCHANGED <<p_stat, p_wchan, slpque, p_pri, p_sig, swapVars, runin, runout, cur, pc, wk,
                 tgt, w>>

SetrunRunout(c) ==
  /\ At(c, "setrun.runout")
  /\ runout' = (runout /\ ~CallsSwapper(tgt[c]))
  /\ wk' = IF CallsSwapper(tgt[c]) THEN <<Frame(Runout)>> ELSE <<>>
  /\ Done(c)
  /\ UNCHANGED <<queueVars, p_pri, p_sig, swapVars, runin, cur, pc>>

-----------------------------------------------------------------------------
(* A process in the kernel                                                 *)

\* sleep(c, pri), up to the spl0() before swtch().
Sleep(p, c, pri) ==
  /\ MayCall(p)
  /\ ~(pri > PZERO /\ p_sig[p])
  /\ Enqueue(p, c, pri)
  /\ pc' = [pc EXCEPT ![p] = IF pri > PZERO THEN "sleep.runin" ELSE "swtch"]
  /\ UNCHANGED <<runq, p_sig, swapVars, runin, runout, cur, wk, setrunVars>>

\* A signal is pending: the process, still first on its queue, leaves it and
\* goes to the system call's exit.
SleepSignalled(p, c, pri) ==
  /\ MayCall(p)
  /\ pri > PZERO /\ p_sig[p]
  /\ p_pri' = [p_pri EXCEPT ![p] = pri]
  /\ p_link' = [p_link EXCEPT ![p] = slpque[Hash[c]]]
  /\ pc' = [pc EXCEPT ![p] = "psig"]
  /\ UNCHANGED <<p_stat, p_wchan, slpque, runq, p_sig, swapVars, runin, runout, cur, wk,
                 setrunVars>>

SleepRunin(p) ==
  /\ Running(p) /\ pc[p] = "sleep.runin"
  /\ runin' = FALSE
  /\ wk' = IF runin THEN <<Frame(Runin)>> ELSE <<>>
  /\ pc' = [pc EXCEPT ![p] = "swtch"]
  /\ UNCHANGED <<queueVars, p_pri, p_sig, swapVars, runout, cur, setrunVars>>

\* Somebody sleeps on c; a wakeup() nobody waits for changes nothing.
Awaited(c) == \E p \in Procs : p_wchan[p] = c

Wakeup(p, c) ==
  /\ MayCall(p) /\ Awaited(c)
  /\ wk' = <<Frame(c)>>
  /\ UNCHANGED <<queueVars, p_pri, p_sig, swapVars, runin, runout, cur, pc, setrunVars>>

\* The way out of a system call: issig(), psig() and setpri().
TakeSignal(p) ==
  /\ Running(p) /\ spc[p] = "idle" /\ pc[p] \in {"body", "psig"} /\ p_sig[p]
  /\ \/ /\ p \in Traced
        /\ wk' = <<Frame(Waitchan)>>
        /\ pc' = [pc EXCEPT ![p] = "stop"]
        /\ UNCHANGED <<p_sig, p_pri>>
     \/ /\ p \notin Traced
        /\ p_sig' = [p_sig EXCEPT ![p] = FALSE]
        /\ p_pri' = [p_pri EXCEPT ![p] = PUSER]
        /\ pc' = [pc EXCEPT ![p] = "body"]
        /\ UNCHANGED wk
  /\ UNCHANGED <<queueVars, swapVars, runin, runout, cur, setrunVars>>

Stop(p) ==
  /\ Running(p) /\ pc[p] = "stop"
  /\ p_stat' = [p_stat EXCEPT ![p] = "SSTOP"]
  /\ pc' = [pc EXCEPT ![p] = "swtch.stop"]
  /\ UNCHANGED <<p_wchan, p_link, slpque, runq, p_pri, p_sig, swapVars, runin, runout, cur, wk,
                 setrunVars>>

\* procxmt(): the command lets the process go on, or leaves it stopped.
Restarted(p) ==
  /\ Running(p) /\ pc[p] = "restarted"
  /\ \/ /\ p_sig' = [p_sig EXCEPT ![p] = FALSE]
        /\ p_pri' = [p_pri EXCEPT ![p] = PUSER]
        /\ pc' = [pc EXCEPT ![p] = "body"]
        /\ UNCHANGED wk
     \/ /\ wk' = <<Frame(Waitchan)>>
        /\ pc' = [pc EXCEPT ![p] = "stop"]
        /\ UNCHANGED <<p_sig, p_pri>>
  /\ UNCHANGED <<queueVars, swapVars, runin, runout, cur, setrunVars>>

\* nice(): up to 39, and down again for the super-user.
Nice(p) ==
  /\ MayCall(p)
  /\ \/ niced' = niced \cup {p}
     \/ niced' = niced \ {p}
  /\ UNCHANGED <<queueVars, p_pri, p_sig, load, lock, out, swp, runin, runout, cur, pc, wk,
                 setrunVars>>

\* setpri() and qswtch(), when the clock has set runrun.
Qswtch(p) ==
  /\ MayCall(p) /\ p \in Users /\ ~p_sig[p]
  /\ p_pri' = [p_pri EXCEPT ![p] = PUSER]
  /\ setrq(p, p_link)
  /\ pc' = [pc EXCEPT ![p] = "swtch"]
  /\ UNCHANGED <<p_stat, p_wchan, slpque, p_sig, swapVars, runin, runout, cur, wk, setrunVars>>

\* Where a process goes on when swtch() returns to it.
Resume(p) ==
  CASE pc[p] = "swtch.stop"    -> "restarted"
    [] pc[p] = "swtch.runout"  -> "loop"
    [] pc[p] = "swtch.runin"   -> "loop"
    [] pc[p] = "swtch.swapin"  -> "swapin"
    [] pc[p] = "swtch.swapout" -> "swapout"
    [] OTHER                   -> "body"

\* swtch(): p gives the processor up.
Swtch(p) ==
  /\ Running(p)
  /\ pc[p] \in {"swtch", "swtch.stop", "swtch.runout", "swtch.runin", "swtch.swapin",
                "swtch.swapout"}
  /\ cur' = NULL
  /\ pc' = [pc EXCEPT ![p] = Resume(p)]
  /\ UNCHANGED <<queueVars, p_pri, p_sig, swapVars, runin, runout, wk, setrunVars>>

\* The search for the runnable process in core with the best priority.
Dispatch ==
  /\ cur = NULL /\ wk = <<>> /\ spc[Intr] = "idle"
  /\ \E n \in 0 .. Cardinality(Procs) :
       LET q == Walk(runq, p_link)
           Candidate(m) == q[m] # NULL /\ p_stat[q[m]] = "SRUN" /\ q[m] \in load
       IN /\ Candidate(n)
          /\ \A m \in DOMAIN q :
               Candidate(m) => p_pri[q[n]] < p_pri[q[m]] \/ (p_pri[q[n]] = p_pri[q[m]] /\ n <= m)
          /\ runq' = IF n = 0 THEN p_link[q[n]] ELSE runq
          /\ p_link' = IF n = 0 THEN p_link ELSE [p_link EXCEPT ![q[n - 1]] = p_link[q[n]]]
          /\ cur' = q[n]
  /\ UNCHANGED <<p_stat, p_wchan, slpque, p_pri, p_sig, swapVars, runin, runout, pc, wk,
                 setrunVars>>

-----------------------------------------------------------------------------
(* sched(), process 0                                                      *)

Waiting == {p \in Users : p_stat[p] = "SRUN" /\ p \notin load}

AtSched(place) == Running(Sched) /\ pc[Sched] = place

\* The swapper sleeps; the transfer or the reason for the sleep is under way
\* before an interrupt can come.
SchedSleep(c, place) ==
  /\ Enqueue(Sched, c, PSWP)
  /\ pc' = [pc EXCEPT ![Sched] = place]

SchedIdle ==
  /\ AtSched("loop")
  /\ Waiting = {}
  /\ runout' = TRUE
  /\ SchedSleep(Runout, "swtch.runout")
  /\ UNCHANGED <<runq, p_sig, swapVars, runin, cur, wk, setrunVars>>

\* out[i] scores more than out[j] by p_time - (p_nice - NZERO) * 8.  p_time stops
\* at 127, so a niced process, at less than 0, loses to every other one.
Before(i, j) ==
  IF out[i] \in niced <=> out[j] \in niced THEN i < j ELSE out[j] \in niced

\* Of the processes that are ready, the one out longest, the niced ones last.
SchedPick ==
  /\ AtSched("loop")
  /\ \E i \in DOMAIN out :
       /\ out[i] \in Waiting
       /\ \A j \in DOMAIN out \ {i} : out[j] \in Waiting => Before(i, j)
       /\ swp' = out[i]
  /\ pc' = [pc EXCEPT ![Sched] = "try"]
  /\ UNCHANGED <<queueVars, p_pri, p_sig, load, lock, out, niced, runin, runout, cur, wk,
                 setrunVars>>

CoreFree == Cardinality(Users) - Len(out) < Core

\* swapin(p): there is core, and the transfer starts.
SchedSwapin ==
  /\ AtSched("try") /\ CoreFree
  /\ SchedSleep(Swbuf, "swtch.swapin")
  /\ UNCHANGED <<runq, p_sig, swapVars, runin, runout, cur, wk, setrunVars>>

SwapinDone ==
  /\ AtSched("swapin")
  /\ load' = load \cup {swp}
  /\ out' = SelectSeq(out, LAMBDA p : p # swp)
  /\ swp' = NULL
  /\ pc' = [pc EXCEPT ![Sched] = "loop"]
  /\ UNCHANGED <<queueVars, p_pri, p_sig, lock, niced, runin, runout, cur, wk, setrunVars>>

\* Mutant: sched() does not test SSYS and SLOCK.
Swappable_Any == load

\* SLOAD, and none of SSYS, SLOCK and SULOCK.
Swappable == load \ ({Sched} \cup lock)

\* Those asleep at a bad priority, and those stopped, go at once.
Easy == {p \in Swappable : \/ p_stat[p] = "SSLEEP" /\ p_pri[p] >= PZERO
                           \/ p_stat[p] = "SSTOP"}

\* The choice is made at spl6 and used at spl0.  The others go only when they,
\* and the process that waits, have had their time; that is left open.  A niced
\* process never has: its outage does not reach 3.
SchedScan ==
  /\ AtSched("try") /\ ~CoreFree
  /\ \/ swp' \in Easy
     \/ Easy = {} /\ swp \notin niced /\ swp' \in Swappable
     \/ Easy = {} /\ swp' = NULL
  /\ pc' = [pc EXCEPT ![Sched] = "decide"]
  /\ UNCHANGED <<queueVars, p_pri, p_sig, load, lock, out, niced, runin, runout, cur, wk,
                 setrunVars>>

\* xswap(p, 1, 0)
SchedSwapout ==
  /\ AtSched("decide") /\ swp # NULL
  /\ load' = load \ {swp}
  /\ lock' = lock \cup {swp}
  /\ SchedSleep(Swbuf, "swtch.swapout")
  /\ UNCHANGED <<runq, p_sig, out, swp, niced, runin, runout, cur, wk, setrunVars>>

\* mfree() and xswap() find runin and runout clear: the swapper is not asleep.
SwapoutDone ==
  /\ AtSched("swapout")
  /\ lock' = lock \ {swp}
  /\ out' = Append(out, swp)
  /\ swp' = NULL
  /\ pc' = [pc EXCEPT ![Sched] = "loop"]
  /\ UNCHANGED <<queueVars, p_pri, p_sig, load, niced, runin, runout, cur, wk, setrunVars>>

SchedWait ==
  /\ AtSched("decide") /\ swp = NULL
  /\ runin' = TRUE
  /\ SchedSleep(Runin, "swtch.runin")
  /\ UNCHANGED <<runq, p_sig, swapVars, runout, cur, wk, setrunVars>>

-----------------------------------------------------------------------------
(* Interrupts                                                              *)

\* A device wakes those who wait for it.
Interrupt(c) ==
  /\ wk = <<>> /\ Awaited(c)
  /\ wk' = <<Frame(c)>>
  /\ UNCHANGED <<queueVars, p_pri, p_sig, swapVars, runin, runout, cur, pc, setrunVars>>

\* Mutant: the clock does not wake the swapper every second.
Second_Idle == runin /\ wk = <<>> /\ spc[Intr] = "idle" /\ UNCHANGED vars

\* Once a second the clock wakes the swapper that looks for core.
Second ==
  /\ wk = <<>> /\ spc[Intr] = "idle"
  /\ runin
  /\ runin' = FALSE
  /\ wk' = <<Frame(Runin)>>
  /\ UNCHANGED <<queueVars, p_pri, p_sig, swapVars, runout, cur, pc, setrunVars>>

-----------------------------------------------------------------------------
WakeupStep == WakeupSkip \/ WakeupMatch \/ WakeupReturn

SetrunStep(c) ==
  \/ PsignalTest(c) \/ SetrunRead(c) \/ SetrunWakeup(c)
  \/ SetrunRun(c) \/ SetrunSetrq(c) \/ SetrunRunout(c)

\* What a process does of its own accord.
Body(p) ==
  \/ \E c \in Chans, pri \in Pris : Sleep(p, c, pri) \/ SleepSignalled(p, c, pri)
  \/ \E c \in Chans : Wakeup(p, c)
  \/ \E q \in Users : Psignal(p, q) \/ Ptrace(p, q)
  \/ Nice(p)

\* What it cannot put off.
Forced(p) ==
  \/ SetrunStep(p) \/ SleepRunin(p) \/ TakeSignal(p) \/ Stop(p) \/ Restarted(p)

Swapper ==
  \/ SchedIdle \/ SchedPick \/ SchedSwapin \/ SwapinDone
  \/ SchedScan \/ SchedSwapout \/ SwapoutDone \/ SchedWait

Next ==
  \/ WakeupStep
  \/ \E p \in Users : Body(p) \/ Forced(p) \/ Qswtch(p)
  \/ \E p \in Procs : Swtch(p)
  \/ Dispatch
  \/ Swapper
  \/ SetrunStep(Intr)
  \/ \E p \in Users : Psignal(Intr, p)
  \/ \E c \in Chans \cup {Swbuf} : Interrupt(c)
  \/ Second

Spec == Init /\ [][Next]_vars

-----------------------------------------------------------------------------
(* Properties                                                              *)

\* Every field has its type, and wakeup() nests at most twice: setrun() calls
\* it for the swapper and the swapper is in core.
TypeOK ==
  /\ p_stat \in [Procs -> {"SSLEEP", "SRUN", "SSTOP"}]
  /\ p_pri \in [Procs -> 0 .. PUSER]
  /\ p_wchan \in [Procs -> Channels \cup {NULL}]
  /\ p_link \in [Procs -> Procs \cup {NULL}]
  /\ p_sig \in [Procs -> BOOLEAN]
  /\ load \subseteq Procs /\ Sched \in load
  /\ lock \subseteq Users
  /\ slpque \in [Queues -> Procs \cup {NULL}]
  /\ runq \in Procs \cup {NULL}
  /\ runin \in BOOLEAN /\ runout \in BOOLEAN
  /\ cur \in Procs \cup {NULL}
  /\ Len(wk) <= 2
  /\ \A i \in DOMAIN wk : wk[i].chan \in Channels
  /\ \A c \in Contexts : tgt[c] \in Users \cup {NULL} /\ w[c] \in Channels \cup {NULL}
  /\ swp \in Users \cup {NULL}
  /\ niced \subseteq Users

Quiet == wk = <<>>

\* The list that starts at head ends.
Ends(head) == Walk(head, p_link)[Cardinality(Procs)] = NULL

\* A process is on the sleep queue its channel hashes to while it sleeps, on
\* no other, and every queue ends: although sleep(), wakeup() and setrq() link
\* it through one field.
SleepQueuesExact ==
  Quiet => \A h \in Queues :
    /\ Ends(slpque[h])
    /\ \A p \in Procs :
         OnQueue(slpque[h], p_link, p)
           <=> p_stat[p] = "SSLEEP" /\ p_wchan[p] # NULL /\ Hash[p_wchan[p]] = h

InSetrun(p) ==
  \E c \in Contexts : spc[c] \in {"setrun", "setrun.run", "setrun.setrq"} /\ tgt[c] = p

\* No process is lost: one that is runnable and does not have the processor is
\* on the run queue, once, unless setrun() is about to put it there; and the
\* run queue holds nobody else.
RunQueueExact ==
  Quiet =>
    /\ Ends(runq)
    /\ \A p \in Procs :
         /\ p_stat[p] = "SRUN" /\ cur # p /\ ~InSetrun(p) => OnQueue(runq, p_link, p)
         /\ OnQueue(runq, p_link, p) => p_stat[p] = "SRUN"
         /\ OnQueue(runq, p_link, p) /\ cur = p =>
              pc[p] \in {"sleep.runin", "swtch", "swtch.stop", "swtch.runout", "swtch.runin",
                         "swtch.swapin", "swtch.swapout"}

\* The lists that share the field p_link are exact, both of them.
QueuesExact == SleepQueuesExact /\ RunQueueExact

\* "Wake up all processes sleeping on chan." (slp.c:80): when wakeup() returns
\* nobody sleeps on its channel any more.
WakesAll ==
  wk # <<>> /\ Head(wk).p = NULL => ~Awaited(Head(wk).chan)

\* The swapper never sleeps on runout while a runnable process is out of core
\* and nobody is about to wake it; runout and runin are set exactly while it
\* sleeps on them, so no test of a flag misses it.
SchedAwake ==
  Quiet =>
    /\ runout <=> p_wchan[Sched] = Runout
    /\ runin <=> p_wchan[Sched] = Runin
    /\ p_wchan[Sched] = Runout =>
         \A p \in Waiting :
           \E c \in Contexts : /\ tgt[c] = p
                               /\ spc[c] \in {"setrun.setrq", "setrun.runout"}

\* The processor goes on, and swtch() finds the next process.
Processor ==
  \/ \E p \in Users : Forced(p)
  \/ \E p \in Procs : Swtch(p)
  \/ Dispatch \/ Swapper \/ SetrunStep(Intr)

(***************************************************************************)
(* Fairness: wakeup() ends and the processor goes on; the clock sets runrun *)
(* every second, so a process that keeps leaving its system calls gives     *)
(* way; devices finish their transfers.  While a process that is not niced  *)
(* waits, p_time grows every second, so the swapper sooner or later finds   *)
(* outage >= 3 and an inage >= 2; nothing is assumed while it works for a   *)
(* niced one and nobody is easy to swap out.                                *)
(***************************************************************************)
FairSpec ==
  /\ Spec
  /\ WF_vars(WakeupStep)
  /\ WF_vars(Processor)
  /\ SF_vars(\E p \in Users : Qswtch(p))
  /\ SF_vars(Interrupt(Swbuf))
  /\ SF_vars(Second)
  /\ SF_vars(SchedScan /\ swp' # NULL)

\* "Of users ready, select one out longest" (slp.c:210): a runnable process that
\* is out of core is brought in, whoever else comes and goes, nices itself or
\* is woken; unless it is niced: the swapper may pass over such a process for
\* ever, for its score stays below the others' and below 3.
SwappedIn == \A p \in Users : p \in Waiting \ niced ~> p \in load
=============================================================================
