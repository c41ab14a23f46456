-------------------------------- MODULE Proc --------------------------------
(***************************************************************************)
(* The life of processes: fork() and newproc(), exit() and wait()          *)
(* (sys/sys1.c, sys/slp.c), signals, and the tracing of a child through    *)
(* ptrace(), stop() and procxmt() (sys/sig.c).                             *)
(*                                                                         *)
(* A process is its slot of the process table; slot 1 is init, the process *)
(* with the number 1, which only waits.  Slot 0, the swapper, takes no     *)
(* part.  The kernel does not preempt itself: a step is the code between   *)
(* two places that may sleep.                                              *)
(***************************************************************************)
EXTENDS Naturals, FiniteSets

CONSTANTS
  NPROC,      \* slots of the process table
  MAXPID,     \* 30000: numbers are less than this
  Sigs,       \* signals, a set of numbers
  LastPid,    \* the number that was given last when the behaviour starts
  MaxForks,   \* bound: forks in a behaviour
  Traced,     \* bound: the slots whose processes are traced
  Signalled,  \* bound: the slots whose processes get signals
  Forkers,    \* bound: the slots whose processes fork
  Openers,    \* bound: the slots whose processes open the terminal
  Closers,    \* bound: the slots whose processes close it
  Swappers    \* bound: the slots whose processes fork when there is no core

ASSUME ProcAssumption ==
  /\ NPROC \in Nat \ {0} /\ MAXPID \in Nat \ {0, 1}
  /\ Sigs \subseteq Nat /\ LastPid \in 1 .. MAXPID - 1 /\ MaxForks \in Nat
  /\ 1 \notin Traced \cup Signalled   \* nobody kills init, and it is not traced

Slots == 1 .. NPROC
Pids  == 1 .. MAXPID - 1
init  == 1

VARIABLES
  p_stat, p_pid, p_ppid, p_pgrp, p_flag, p_sig,   \* slot -> field
  mpid,      \* the last number that was given
  t_pgrp,    \* the group of the terminal, 0 if it has none
  revived,   \* history: the groups that had died when a process joined them
  ip_lock,   \* number of the child that is given a command
  ip_req,    \* the command, or "done": 0, or -1 for an error
  pc,        \* slot -> where its process is
  child,     \* slot -> the child ptrace() has found, or newproc() makes; 0
  req,       \* slot -> the command it has for that child
  forks      \* forks so far

table == <<p_stat, p_pid, p_ppid, p_pgrp, p_flag, p_sig>>
ipc   == <<ip_lock, ip_req>>
tty   == <<t_pgrp, revived>>
vars  == <<p_stat, p_pid, p_ppid, p_pgrp, p_flag, p_sig, mpid, t_pgrp, revived,
           ip_lock, ip_req, pc, child, req, forks>>

\* What procxmt() is told: to read or write, to go on, to exit.
Commands == {"access", "continue", "exit"}

\* init is alone; others have come and gone.
Init ==
  /\ p_stat = [s \in Slots |-> IF s = init THEN "SRUN" ELSE "NULL"]
  /\ p_pid = [s \in Slots |-> IF s = init THEN 1 ELSE 0]
  /\ p_ppid = [s \in Slots |-> 0] /\ p_pgrp = [s \in Slots |-> 0]
  /\ p_flag = [s \in Slots |-> {}] /\ p_sig = [s \in Slots |-> {}]
  /\ mpid = LastPid /\ t_pgrp = 0 /\ revived = {}
  /\ ip_lock = 0 /\ ip_req = "done"
  /\ pc = [s \in Slots |-> "user"] /\ child = [s \in Slots |-> 0]
  /\ req = [s \in Slots |-> "access"] /\ forks = 0

-----------------------------------------------------------------------------
(* Running and sleeping                                                    *)

At(p, place) == p_stat[p] = "SRUN" /\ pc[p] = place

Goto(p, place) == pc' = [pc EXCEPT ![p] = place]

Asleep(p, places) == p_stat[p] = "SSLEEP" /\ pc[p] \in places

\* The table after wakeup(S), the slots' processes being in wait().
Woken(stat, S) ==
  [q \in Slots |-> IF q \in S /\ Asleep(q, {"wait"}) THEN "SRUN" ELSE stat[q]]

\* The table after wakeup(&ipc).
IpcWoken(stat) ==
  [q \in Slots |-> IF Asleep(q, {"ptlock", "ptreq"}) THEN "SRUN" ELSE stat[q]]

Children(p) == {c \in Slots : p_ppid[c] = p_pid[p]}

Parents(p) == {q \in Slots : p_pid[q] = p_ppid[p]}

First(S) == CHOOSE s \in S : \A t \in S : s <= t

-----------------------------------------------------------------------------
(* fork and newproc                                                        *)

Free == {s \in Slots : p_stat[s] = "NULL"}

\* Mutant: groups are not looked at.
InUse_Pids == {p_pid[s] : s \in Slots}

\* The numbers newproc() passes over.
InUse == {p_pid[s] : s \in Slots} \cup {p_pgrp[s] : s \in Slots}

\* Mutant: mpid > 30000.
Turn_Late(n) == ((mpid + n - 1) % MAXPID) + 1

\* mpid after n turns of newproc()'s loop.
Turn(n) == ((mpid + n - 1) % (MAXPID - 1)) + 1

\* The first number that is not in use.
NewPid ==
  Turn(CHOOSE n \in Pids : Turn(n) \notin InUse /\ \A k \in 1 .. n - 1 : Turn(k) \in InUse)

\* Without core for a copy the image is swapped out: the new process sleeps for
\* that in its parent's place, which is neither running nor asleep.
Fork(p) ==
  /\ At(p, "user") /\ p \in Forkers /\ forks < MaxForks
  /\ Free # {} /\ Pids \ InUse # {}
  /\ mpid' = NewPid
  /\ LET c == First(Free) IN
     /\ p_pid' = [p_pid EXCEPT ![c] = mpid']
     /\ p_ppid' = [p_ppid EXCEPT ![c] = p_pid[p]]
     /\ p_pgrp' = [p_pgrp EXCEPT ![c] = p_pgrp[p]]
     /\ p_flag' = [p_flag EXCEPT ![c] = {}]
     /\ \/ /\ p_stat' = [p_stat EXCEPT ![c] = "SRUN"]
           /\ pc' = [pc EXCEPT ![c] = "user"]
           /\ UNCHANGED child
        \/ /\ p \in Swappers
           /\ p_stat' = [p_stat EXCEPT ![c] = "SSLEEP", ![p] = "SIDL"]
           /\ pc' = [pc EXCEPT ![c] = "xswap", ![p] = "newproc"]
           /\ child' = [child EXCEPT ![p] = c]
  /\ forks' = forks + 1
  /\ UNCHANGED <<p_sig, tty, ipc, req>>

\* The image is on the disk.
Forked(p) ==
  /\ pc[p] = "newproc"
  /\ p_stat' = [p_stat EXCEPT ![p] = "SRUN", ![child[p]] = "SRUN"]
  /\ pc' = [pc EXCEPT ![p] = "user", ![child[p]] = "user"]
  /\ child' = [child EXCEPT ![p] = 0]
  /\ UNCHANGED <<p_pid, p_ppid, p_pgrp, p_flag, p_sig, mpid, tty, ipc, req, forks>>

Groups == {p_pgrp[s] : s \in Slots \ Free}

\* A process without a group joins that of the terminal, or makes one if the
\* terminal has none.
Ttyopen(p) ==
  /\ At(p, "user") /\ p \in Openers
  /\ p_pgrp[p] = 0
  /\ t_pgrp' = IF t_pgrp = 0 THEN p_pid[p] ELSE t_pgrp
  /\ p_pgrp' = [p_pgrp EXCEPT ![p] = t_pgrp']
  /\ revived' = revived \cup ({t_pgrp} \ (Groups \cup {0}))
  /\ UNCHANGED <<p_stat, p_pid, p_ppid, p_flag, p_sig, mpid, ipc, pc, child, req, forks>>

\* The last process that has the terminal open closes it: it has been in a
\* group since it, or the ancestor it has the file from, opened it.
Ttyclose(p) ==
  /\ At(p, "user") /\ p \in Closers
  /\ t_pgrp # 0 /\ p_pgrp[p] # 0
  /\ t_pgrp' = 0
  /\ UNCHANGED <<table, mpid, revived, ipc, pc, child, req, forks>>

-----------------------------------------------------------------------------
(* exit and wait                                                           *)

\* exit() has to close files, which may sleep; signals do nothing any more, and
\* those that are pending are not kept.
Exiting(p) ==
  /\ p_flag' = [p_flag EXCEPT ![p] = @ \ {"STRC"}]
  /\ p_sig' = [p_sig EXCEPT ![p] = {}]
  /\ Goto(p, "exit")

Rexit(p) ==
  /\ At(p, "user") /\ p # init
  /\ Exiting(p)
  /\ UNCHANGED <<p_stat, p_pid, p_ppid, p_pgrp, mpid, tty, ipc, child, req, forks>>

\* Mutant: children that are stopped stay so.
Disowned_Stopped(p, stat) == Woken(stat, IF Children(p) # {} THEN {init} ELSE {})

\* Mutant: init is not woken.
Disowned_Quiet(p, stat) ==
  [q \in Slots |-> IF q \in Children(p) /\ p_stat[q] = "SSTOP" THEN "SRUN" ELSE stat[q]]

\* The table when init has been given the children of p.
Disowned(p, stat) ==
  LET woken == Woken(stat, IF Children(p) # {} THEN {init} ELSE {}) IN
  [q \in Slots |-> IF q \in Children(p) /\ p_stat[q] = "SSTOP" THEN "SRUN" ELSE woken[q]]

Exit(p) ==
  /\ At(p, "exit")
  /\ p_ppid' = [q \in Slots |-> IF q \in Children(p) THEN 1 ELSE p_ppid[q]]
  /\ p_stat' = Woken(Disowned(p, [p_stat EXCEPT ![p] = "SZOMB"]), Parents(p))
  /\ UNCHANGED <<p_pid, p_pgrp, p_flag, p_sig, mpid, tty, ipc, pc, child, req, forks>>

Stopped(c) == p_stat[c] = "SSTOP" /\ "SWTED" \notin p_flag[c]

\* The children wait() has something to say of.
News(p) == {c \in Children(p) : p_stat[c] = "SZOMB" \/ Stopped(c)}

\* p looks for children: it calls wait(), or was woken in it by one of them.
Scans(p) == At(p, "user") \/ (At(p, "wait") /\ p_sig[p] = {})

\* A dead child is laid to rest.
WaitDead(p) ==
  /\ Scans(p) /\ News(p) # {}
  /\ LET c == First(News(p)) IN
     /\ p_stat[c] = "SZOMB"
     /\ p_stat' = [p_stat EXCEPT ![c] = "NULL"]
     /\ p_pid' = [p_pid EXCEPT ![c] = 0] /\ p_ppid' = [p_ppid EXCEPT ![c] = 0]
     /\ p_pgrp' = [p_pgrp EXCEPT ![c] = 0]
     /\ p_flag' = [p_flag EXCEPT ![c] = {}] /\ p_sig' = [p_sig EXCEPT ![c] = {}]
     /\ pc' = [pc EXCEPT ![p] = "user", ![c] = "user"]
  /\ UNCHANGED <<mpid, tty, ipc, child, req, forks>>

WaitStopped(p) ==
  /\ Scans(p) /\ News(p) # {}
  /\ LET c == First(News(p)) IN
     /\ Stopped(c)
     /\ p_flag' = [p_flag EXCEPT ![c] = @ \cup {"SWTED"}]
  /\ Goto(p, "user")
  /\ UNCHANGED <<p_stat, p_pid, p_ppid, p_pgrp, p_sig, mpid, tty, ipc, child, req, forks>>

\* There are children and nothing to say of them; sleep() looks for signals.
WaitSleep(p) ==
  /\ Scans(p) /\ Children(p) # {} /\ News(p) = {} /\ p_sig[p] = {}
  /\ p_stat' = [p_stat EXCEPT ![p] = "SSLEEP"]
  /\ Goto(p, "wait")
  /\ UNCHANGED <<p_pid, p_ppid, p_pgrp, p_flag, p_sig, mpid, tty, ipc, child, req, forks>>

\* EINTR
WaitSignal(p) ==
  /\ At(p, "wait") /\ p_sig[p] # {}
  /\ Goto(p, "user")
  /\ UNCHANGED <<table, mpid, tty, ipc, child, req, forks>>

-----------------------------------------------------------------------------
(* Signals and stopping                                                    *)

\* kill(), the terminal, the clock or a fault.  A process that exits takes no
\* signals any more.
Psignal(p, n) ==
  /\ p \in Signalled /\ p_stat[p] \notin {"NULL", "SZOMB"} /\ pc[p] # "exit" /\ n \notin p_sig[p]
  /\ p_sig' = [p_sig EXCEPT ![p] = @ \cup {n}]
  /\ p_stat' = Woken(p_stat, {p})
  /\ UNCHANGED <<p_pid, p_ppid, p_pgrp, p_flag, mpid, tty, ipc, pc, child, req, forks>>

fsig(p) == First(p_sig[p])

\* The signal is caught, or ends the process.
Psig(p) ==
  /\ At(p, "user") /\ p_sig[p] # {} /\ "STRC" \notin p_flag[p]
  /\ \/ p_sig' = [p_sig EXCEPT ![p] = @ \ {fsig(p)}] /\ UNCHANGED <<p_flag, pc>>
     \/ Exiting(p)
  /\ UNCHANGED <<p_stat, p_pid, p_ppid, p_pgrp, mpid, tty, ipc, child, req, forks>>

\* stop(): the parent is told; a child of init exits.  woken is the table
\* after what went before.
stop(p, woken) ==
  IF p_ppid[p] # 1 /\ Parents(p) # {}
  THEN /\ p_stat' = [Woken(woken, {First(Parents(p))}) EXCEPT ![p] = "SSTOP"]
       /\ Goto(p, "stop")
       /\ UNCHANGED <<p_flag, p_sig>>
  ELSE p_stat' = woken /\ Exiting(p)

PsigTraced(p) ==
  /\ At(p, "user") /\ p_sig[p] # {} /\ "STRC" \in p_flag[p]
  /\ stop(p, p_stat)
  /\ UNCHANGED <<p_pid, p_ppid, p_pgrp, mpid, tty, ipc, child, req, forks>>

-----------------------------------------------------------------------------
(* ptrace                                                                  *)

TraceMe(p) ==
  /\ At(p, "user") /\ p \in Traced /\ "STRC" \notin p_flag[p]
  /\ p_flag' = [p_flag EXCEPT ![p] = @ \cup {"STRC"}]
  /\ UNCHANGED <<p_stat, p_pid, p_ppid, p_pgrp, p_sig, mpid, tty, ipc, pc, child, req, forks>>

\* The children a command can be for.
Traceable(p) == {c \in Children(p) : p_stat[c] = "SSTOP"}

\* Mutant: ip_lock is not looked at.
Command_Unlocked(p, c, r) ==
  /\ ip_lock' = p_pid[c]
  /\ ip_req' = r
  /\ p_flag' = [p_flag EXCEPT ![c] = @ \ {"SWTED"}]
  /\ p_stat' = [p_stat EXCEPT ![c] = "SRUN", ![p] = "SSLEEP"]
  /\ Goto(p, "ptreq")
  /\ child' = [child EXCEPT ![p] = c] /\ req' = [req EXCEPT ![p] = r]
  /\ UNCHANGED <<p_pid, p_ppid, p_pgrp, p_sig, mpid, tty, forks>>

\* The command is left for the child, which is set running; p sleeps for it.
Command(p, c, r) ==
  /\ ip_lock = 0
  /\ ip_lock' = p_pid[c]
  /\ ip_req' = r
  /\ p_flag' = [p_flag EXCEPT ![c] = @ \ {"SWTED"}]
  /\ p_stat' = [p_stat EXCEPT ![c] = "SRUN", ![p] = "SSLEEP"]
  /\ Goto(p, "ptreq")
  /\ child' = [child EXCEPT ![p] = c] /\ req' = [req EXCEPT ![p] = r]
  /\ UNCHANGED <<p_pid, p_ppid, p_pgrp, p_sig, mpid, tty, forks>>

Ptrace(p, c, r) == At(p, "user") /\ c \in Traceable(p) /\ Command(p, c, r)

\* Another command is under way.
PtraceWait(p, c, r) ==
  /\ At(p, "user") /\ c \in Traceable(p) /\ ip_lock # 0
  /\ p_stat' = [p_stat EXCEPT ![p] = "SSLEEP"]
  /\ Goto(p, "ptlock")
  /\ child' = [child EXCEPT ![p] = c] /\ req' = [req EXCEPT ![p] = r]
  /\ UNCHANGED <<p_pid, p_ppid, p_pgrp, p_flag, p_sig, mpid, tty, ipc, forks>>

\* The lock may be free; the child is not looked for again.
PtraceLock(p) == At(p, "ptlock") /\ Command(p, child[p], req[p])

\* What the two loops of ptrace() wait for has not come.
Blocked(p) == IF pc[p] = "ptlock" THEN ip_lock # 0 ELSE ip_req \in Commands

PtraceAgain(p) ==
  /\ At(p, "ptlock") \/ At(p, "ptreq")
  /\ Blocked(p)
  /\ p_stat' = [p_stat EXCEPT ![p] = "SSLEEP"]
  /\ UNCHANGED <<p_pid, p_ppid, p_pgrp, p_flag, p_sig, mpid, tty, ipc, pc, child, req, forks>>

PtraceDone(p) ==
  /\ At(p, "ptreq") /\ ip_req \notin Commands
  /\ ip_lock' = 0
  /\ p_stat' = IpcWoken(p_stat)
  /\ Goto(p, "user")
  /\ child' = [child EXCEPT ![p] = 0] /\ req' = [req EXCEPT ![p] = "access"]
  /\ UNCHANGED <<p_pid, p_ppid, p_pgrp, p_flag, p_sig, mpid, tty, ip_req, forks>>

\* stop() goes on: setrun() was called by a parent that exits, not by ptrace().
StopAgain(p) ==
  /\ At(p, "stop") /\ ip_lock # p_pid[p]
  /\ stop(p, p_stat)
  /\ UNCHANGED <<p_pid, p_ppid, p_pgrp, mpid, tty, ipc, child, req, forks>>

\* procxmt(): the access succeeds or not, and the child stops again.
ProcxmtAccess(p) ==
  /\ At(p, "stop") /\ ip_lock = p_pid[p] /\ ip_req \notin {"continue", "exit"}
  /\ ip_req' = "done"
  /\ stop(p, IpcWoken(p_stat))
  /\ UNCHANGED <<p_pid, p_ppid, p_pgrp, mpid, tty, ip_lock, child, req, forks>>

\* The child goes on without its signals, or with the one it is given, which
\* it catches or exits from.
ProcxmtContinue(p) ==
  /\ At(p, "stop") /\ ip_lock = p_pid[p] /\ ip_req = "continue"
  /\ ip_req' = "done"
  /\ p_stat' = IpcWoken(p_stat)
  /\ \/ Goto(p, "user") /\ p_sig' = [p_sig EXCEPT ![p] = {}] /\ UNCHANGED p_flag
     \/ Exiting(p)
  /\ UNCHANGED <<p_pid, p_ppid, p_pgrp, mpid, tty, ip_lock, child, req, forks>>

ProcxmtExit(p) ==
  /\ At(p, "stop") /\ ip_lock = p_pid[p] /\ ip_req = "exit"
  /\ ip_req' = "done"
  /\ p_stat' = IpcWoken(p_stat)
  /\ Exiting(p)
  /\ UNCHANGED <<p_pid, p_ppid, p_pgrp, mpid, tty, ip_lock, child, req, forks>>

-----------------------------------------------------------------------------
Wait(p) == WaitDead(p) \/ WaitStopped(p) \/ WaitSleep(p) \/ WaitSignal(p)

User(p) ==
  \/ Fork(p) \/ Ttyopen(p) \/ Ttyclose(p) \/ Rexit(p) \/ TraceMe(p)
  \/ \E c \in Traceable(p), r \in Commands : Ptrace(p, c, r) \/ PtraceWait(p, c, r)
  \/ \E n \in Sigs : Psignal(p, n)

Kernel(p) ==
  \/ Forked(p) \/ Exit(p) \/ Psig(p) \/ PsigTraced(p) \/ StopAgain(p)
  \/ PtraceLock(p) \/ PtraceAgain(p) \/ PtraceDone(p)
  \/ ProcxmtAccess(p) \/ ProcxmtContinue(p) \/ ProcxmtExit(p)

Next == \E p \in Slots : User(p) \/ Wait(p) \/ Kernel(p)

Spec == Init /\ [][Next]_vars

-----------------------------------------------------------------------------
(* Properties                                                              *)

\* The variables have their types.
TypeOK ==
  /\ p_stat \in [Slots -> {"NULL", "SRUN", "SSLEEP", "SIDL", "SZOMB", "SSTOP"}]
  /\ p_pid \in [Slots -> Pids \cup {0}] /\ p_ppid \in [Slots -> Pids \cup {0}]
  /\ p_pgrp \in [Slots -> Pids \cup {0}]
  /\ p_flag \in [Slots -> SUBSET {"STRC", "SWTED"}]
  /\ p_sig \in [Slots -> SUBSET Sigs]
  /\ mpid \in Pids /\ t_pgrp \in Pids \cup {0} /\ revived \subseteq Pids
  /\ ip_lock \in Pids \cup {0} /\ ip_req \in Commands \cup {"done"}
  /\ pc \in [Slots -> {"user", "newproc", "xswap", "wait", "exit", "stop", "ptlock", "ptreq"}]
  /\ child \in [Slots -> Slots \cup {0}] /\ req \in [Slots -> Commands]
  /\ forks \in 0 .. MaxForks

Processes == Slots \ Free

\* No two processes have the same number, and a process that has the number of
\* a group is the one that made it: although numbers are used again after
\* 30000, none comes back while its group has members left.  A group that had
\* died is the exception: a terminal that was still open kept its number, and
\* ttyopen() hands it out without asking whose it is now.
PidsUnique ==
  /\ \A p, q \in Processes : p_pid[p] = p_pid[q] => p = q
  /\ \A p, q \in Processes :
       p_pgrp[q] = p_pid[p] => p_pgrp[p] = p_pid[p] \/ p_pid[p] \in revived

\* "If the parent process terminates without waiting on its children, the
\* initialization process inherits the children" (wait.2): every process has a
\* parent that is alive and can wait for it, and a stopped process has one that
\* can restart it, which init never does.
Family ==
  \A p \in Processes \ {init} :
    /\ \E q \in Parents(p) : p_stat[q] \notin {"NULL", "SZOMB"}
    /\ p_stat[p] = "SSTOP" => p_ppid[p] # 1

\* "If any child has died since the last wait, return is immediate" (wait.2):
\* nobody sleeps in wait() while a child of his is dead, or has stopped and was
\* not reported, whichever way he came by the child.
NoLostDeath == \A p \in Slots : Asleep(p, {"wait"}) => Children(p) # {} /\ News(p) = {}

Tracers == {p \in Slots : pc[p] = "ptreq"}

\* "This data base cannot be shared and is locked per user" (sig.c:20): one
\* process uses it at a time; its command waits for the child it is for, and
\* that child is on its way to take it.  Who sleeps for the lock sleeps while
\* it is held, and the child he found is stopped and his when he gets it.
TraceServed ==
  /\ \A p, q \in Tracers : p = q
  /\ ip_lock # 0 <=> Tracers # {}
  /\ \A p \in Tracers :
       /\ ip_req \in Commands => /\ At(child[p], "stop") /\ child[p] \in Children(p)
                                 /\ p_pid[child[p]] = ip_lock
       /\ Asleep(p, {"ptreq"}) => ip_req \in Commands
  /\ \A p \in Slots : pc[p] = "ptlock" =>
       /\ child[p] \in Traceable(p)
       /\ p_stat[p] = "SSLEEP" => ip_lock # 0
=============================================================================
