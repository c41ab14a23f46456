-------------------------------- MODULE Pipe -------------------------------
(***************************************************************************)
(* Pipes (sys/pipe.c), with the part of closef() and iput() that closes    *)
(* one.  A pipe is an inode with a read side and a write side; processes   *)
(* that share a side share its struct file, and with it the read offset.   *)
(*                                                                         *)
(* The kernel does not preempt itself, so a step is the code between two   *)
(* calls of sleep().  readi() and writei() sleep for buffers: they are two  *)
(* steps, with the inode locked in between.                                *)
(***************************************************************************)
EXTENDS Naturals, Sequences, FiniteSets

CONSTANTS
  Readers, Writers,  \* the processes that have the read or the write side open
  PIPSIZ,            \* bytes a pipe buffers before its writers wait
  ReadSizes,         \* what a call of read() may ask for
  WriteSizes,        \* what a call of write() may ask for
  Faults,            \* the processes whose readi() and writei() may fail half-way
  MaxCalls           \* bound: calls one process makes

ASSUME PipeAssumption ==
  /\ IsFiniteSet(Readers) /\ IsFiniteSet(Writers) /\ Readers \cap Writers = {}
  /\ Readers # {} /\ Writers # {}
  /\ PIPSIZ \in Nat \ {0}
  /\ ReadSizes \subseteq Nat \ {0} /\ WriteSizes \subseteq Nat \ {0}
  /\ Faults \subseteq Readers \cup Writers
  /\ MaxCalls \in Nat

Procs == Readers \cup Writers

\* The channels: the inode's lock, its writers, its readers.
Lock == "ip"
Ip1 == "ip+1"
Ip2 == "ip+2"
Awake == "awake"

VARIABLES
  data,      \* the contents of the file, i_size bytes
  f_offset,  \* the read side's offset
  i_count,   \* sides that are open
  i_flag,    \* a subset of {"ILOCK", "IWANT"}
  i_mode,    \* a subset of {"IREAD", "IWRITE"}
  f_count,   \* side -> processes that have it open
  pc,        \* process -> where it is
  wchan,     \* process -> the channel it sleeps on
  count,     \* process -> bytes left to read or to write
  calls,     \* process -> calls made
  sent,      \* history: the bytes writei() moved the size over
  rcvd,      \* history: the bytes readi() returned
  eof        \* history: the readers that have seen the end of the file

ipVars   == <<data, f_offset, i_count, i_flag, i_mode, f_count>>
histVars == <<sent, rcvd, eof>>
vars     == <<data, f_offset, i_count, i_flag, i_mode, f_count, pc, wchan, count, calls,
              sent, rcvd, eof>>

i_size == Len(data)

Side(p) == IF p \in Readers THEN "read" ELSE "write"

\* pipe() has made the inode and the two file structures, and fork() has
\* handed them on.
Init ==
  /\ data = <<>>
  /\ f_offset = 0
  /\ i_count = 2
  /\ i_flag = {} /\ i_mode = {}
  /\ f_count = [s \in {"read", "write"} |->
                  Cardinality(IF s = "read" THEN Readers ELSE Writers)]
  /\ pc = [p \in Procs |-> "user"]
  /\ wchan = [p \in Procs |-> Awake]
  /\ count = [p \in Procs |-> 0]
  /\ calls = [p \in Procs |-> 0]
  /\ sent = <<>> /\ rcvd = <<>> /\ eof = {}

-----------------------------------------------------------------------------
(* Helpers                                                                 *)

At(p, place) == pc[p] = place /\ wchan[p] = Awake

Goto(p, place) == pc' = [pc EXCEPT ![p] = place]

\* The system call ends.
Return(p) ==
  /\ Goto(p, "user")
  /\ count' = [count EXCEPT ![p] = 0]

sleep(p, c) == wchan' = [wchan EXCEPT ![p] = c]

Locked == "ILOCK" \in i_flag

\* plock() finds the inode locked.
plockSleep(p) ==
  /\ Locked
  /\ i_flag' = i_flag \cup {"IWANT"}
  /\ sleep(p, Lock)
  /\ UNCHANGED <<data, f_offset, i_count, i_mode, f_count, pc, count, calls, histVars>>

plock ==
  /\ ~Locked
  /\ i_flag' = i_flag \cup {"ILOCK"}

\* The channels prele() wakes.
preleChans == IF "IWANT" \in i_flag THEN {Lock} ELSE {}

\* prele(), together with wakeup() of the channels in S.
prele(S) ==
  /\ i_flag' = {}
  /\ wchan' = [p \in Procs |-> IF wchan[p] \in S \cup preleChans THEN Awake ELSE wchan[p]]

MinOf(a, b) == IF a < b THEN a ELSE b

\* How much of n bytes readi() or writei() moves for p.
Moved(p, n) == IF p \in Faults THEN 0 .. n ELSE {n}

-----------------------------------------------------------------------------
(* readp                                                                   *)

Read(p, n) ==
  /\ At(p, "user") /\ p \in Readers
  /\ calls[p] < MaxCalls
  /\ calls' = [calls EXCEPT ![p] = @ + 1]
  /\ count' = [count EXCEPT ![p] = n]
  /\ Goto(p, "readp")
  /\ UNCHANGED <<ipVars, wchan, histVars>>

ReadpLocked(p) == At(p, "readp") /\ plockSleep(p)

\* Mutant: an empty pipe is the end of the file although the writers are there.
ReadpEof_Empty(p) ==
  /\ At(p, "readp") /\ ~Locked
  /\ i_size = 0
  /\ prele({})
  /\ eof' = eof \cup {p}
  /\ Return(p)
  /\ UNCHANGED <<data, f_offset, i_count, i_mode, f_count, calls, sent, rcvd>>

\* Nothing in the pipe and the write side is closed.
ReadpEof(p) ==
  /\ At(p, "readp") /\ ~Locked
  /\ i_size = 0 /\ i_count < 2
  /\ prele({})
  /\ eof' = eof \cup {p}
  /\ Return(p)
  /\ UNCHANGED <<data, f_offset, i_count, i_mode, f_count, calls, sent, rcvd>>

\* Nothing in the pipe: the lock is taken and released, and the reader waits.
ReadpWait(p) ==
  /\ At(p, "readp") /\ ~Locked
  /\ i_size = 0 /\ i_count >= 2
  /\ i_mode' = i_mode \cup {"IREAD"}
  /\ sleep(p, Ip2)
  /\ UNCHANGED <<data, f_offset, i_count, i_flag, f_count, pc, count, calls, histVars>>

ReadpStart(p) ==
  /\ At(p, "readp")
  /\ i_size # 0
  /\ plock
  /\ Goto(p, "readi")
  /\ UNCHANGED <<data, f_offset, i_count, i_mode, f_count, wchan, count, calls, histVars>>

\* Mutant: the size is reset whenever anything was read.
CaughtUp_Always(off) == TRUE

\* The reader has caught up with the writers.
CaughtUp(off) == off = i_size

\* readi() moves bytes from the offset on; then the offset is put back in the
\* file structure and, if the pipe is drained, everything starts afresh.
ReadpFinish(p) ==
  /\ At(p, "readi")
  /\ \E n \in Moved(p, MinOf(count[p], i_size - f_offset)) :
       LET off == f_offset + n IN
       /\ rcvd' = rcvd \o SubSeq(data, f_offset + 1, off)
       /\ \/ /\ CaughtUp(off)
             /\ f_offset' = 0
             /\ data' = <<>>
             /\ i_mode' = i_mode \ {"IWRITE"}
             /\ prele(IF "IWRITE" \in i_mode THEN {Ip1} ELSE {})
          \/ /\ ~CaughtUp(off)
             /\ f_offset' = off
             /\ UNCHANGED <<data, i_mode>>
             /\ prele({})
  /\ Return(p)
  /\ UNCHANGED <<i_count, f_count, calls, sent, eof>>

-----------------------------------------------------------------------------
(* writep                                                                  *)

Write(p, n) ==
  /\ At(p, "user") /\ p \in Writers
  /\ calls[p] < MaxCalls
  /\ calls' = [calls EXCEPT ![p] = @ + 1]
  /\ count' = [count EXCEPT ![p] = n]
  /\ Goto(p, "writep")
  /\ UNCHANGED <<ipVars, wchan, histVars>>

WritepLocked(p) == At(p, "writep") /\ plockSleep(p)

\* All done, or nobody to read it (EPIPE, SIGPIPE).
WritepReturn(p) ==
  /\ At(p, "writep") /\ ~Locked
  /\ count[p] = 0 \/ i_count < 2
  /\ prele({})
  /\ Return(p)
  /\ UNCHANGED <<data, f_offset, i_count, i_mode, f_count, calls, histVars>>

WritepFull(p) ==
  /\ At(p, "writep") /\ ~Locked
  /\ count[p] # 0 /\ i_count >= 2
  /\ i_size >= PIPSIZ
  /\ i_mode' = i_mode \cup {"IWRITE"}
  /\ sleep(p, Ip1)
  /\ UNCHANGED <<data, f_offset, i_count, i_flag, f_count, pc, count, calls, histVars>>

\* Mutant: the inode is not locked while writei() sleeps.
WritepStart_Unlocked(p) ==
  /\ At(p, "writep") /\ ~Locked
  /\ count[p] # 0 /\ i_count >= 2
  /\ i_size < PIPSIZ
  /\ Goto(p, "writei")
  /\ UNCHANGED <<ipVars, wchan, count, calls, histVars>>

WritepStart(p) ==
  /\ At(p, "writep")
  /\ count[p] # 0 /\ i_count >= 2
  /\ i_size < PIPSIZ
  /\ plock
  /\ Goto(p, "writei")
  /\ UNCHANGED <<data, f_offset, i_count, i_mode, f_count, wchan, count, calls, histVars>>

\* The n bytes p adds now: who wrote them, in which call, how many of the call
\* were left, and whether they were kept.  The size moves over all n, but a
\* block with an error is released and not marked for writing: after the m-th
\* byte a reader may find what the block held before.
Piece(p, n, m) == [i \in 1 .. n |-> <<p, calls[p], count[p] - i + 1, i <= m>>]

\* Mutant: the writer forgets the readers.
Rouse_None == {}

\* if(ip->i_mode&IREAD) wakeup(ip+2)
Rouse == IF "IREAD" \in i_mode THEN {Ip2} ELSE {}

\* Mutant: the writer hands over a byte at a time.
Chunk_Byte(p) == 1

\* u.u_count = min(c, PIPSIZ)
Chunk(p) == MinOf(count[p], PIPSIZ)

\* writei() adds the bytes at the end.  An error stops it after n bytes, of
\* which those of its last block are not kept; the count goes down by what was
\* to be written, whether or not it was.
WritepFinish(p) ==
  /\ At(p, "writei")
  /\ \E n \in Moved(p, Chunk(p)) : \E m \in Moved(p, n) :
       /\ data' = data \o Piece(p, n, m)
       /\ sent' = sent \o Piece(p, n, m)
  /\ count' = [count EXCEPT ![p] = @ - Chunk(p)]
  /\ i_mode' = i_mode \ {"IREAD"}
  /\ prele(Rouse)
  /\ Goto(p, "writep")
  /\ UNCHANGED <<f_offset, i_count, f_count, calls, rcvd, eof>>

-----------------------------------------------------------------------------
(* Signals and close                                                       *)

\* PPIPE is above PZERO: a signal ends the call.
Signal(p) ==
  /\ wchan[p] \in {Ip1, Ip2}
  /\ wchan' = [wchan EXCEPT ![p] = Awake]
  /\ Return(p)
  /\ UNCHANGED <<ipVars, calls, histVars>>

\* closef() of a side somebody else has open, too.
CloseShared(p) ==
  /\ At(p, "user") /\ f_count[Side(p)] > 1
  /\ f_count' = [f_count EXCEPT ![Side(p)] = @ - 1]
  /\ Goto(p, "closed")
  /\ UNCHANGED <<data, f_offset, i_count, i_flag, i_mode, wchan, count, calls, histVars>>

Closef(p) ==
  /\ At(p, "user") /\ f_count[Side(p)] = 1
  /\ Goto(p, "closef")
  /\ UNCHANGED <<ipVars, wchan, count, calls, histVars>>

ClosefLocked(p) == At(p, "closef") /\ plockSleep(p)

\* Mutant: closef() does not wake the other side.
CloseChans_None == {}

\* wakeup(ip+1), wakeup(ip+2)
CloseChans == {Ip1, Ip2}

\* The first side to close: iput() decrements the count and unlocks.
ClosefFirst(p) ==
  /\ At(p, "closef") /\ ~Locked
  /\ i_count = 2
  /\ f_count' = [f_count EXCEPT ![Side(p)] = 0]
  /\ i_mode' = {}
  /\ i_count' = 1
  /\ prele(CloseChans)
  /\ Goto(p, "closed")
  /\ UNCHANGED <<data, f_offset, count, calls, histVars>>

\* The second: iput() truncates and frees the inode, which takes a while.
ClosefLast(p) ==
  /\ At(p, "closef")
  /\ i_count = 1
  /\ plock
  /\ f_count' = [f_count EXCEPT ![Side(p)] = 0]
  /\ i_mode' = {}
  /\ wchan' = [q \in Procs |-> IF wchan[q] \in CloseChans THEN Awake ELSE wchan[q]]
  /\ Goto(p, "iput")
  /\ UNCHANGED <<data, f_offset, i_count, count, calls, histVars>>

Iput(p) ==
  /\ At(p, "iput")
  /\ prele({})
  /\ i_count' = 0
  /\ Goto(p, "closed")
  /\ UNCHANGED <<data, f_offset, i_mode, f_count, count, calls, histVars>>

-----------------------------------------------------------------------------
Readp(p) == ReadpLocked(p) \/ ReadpEof(p) \/ ReadpWait(p) \/ ReadpStart(p) \/ ReadpFinish(p)

Writep(p) ==
  WritepLocked(p) \/ WritepReturn(p) \/ WritepFull(p) \/ WritepStart(p) \/ WritepFinish(p)

Closing(p) == ClosefLocked(p) \/ ClosefFirst(p) \/ ClosefLast(p) \/ Iput(p)

User(p) ==
  \/ \E n \in ReadSizes : Read(p, n)
  \/ \E n \in WriteSizes : Write(p, n)
  \/ CloseShared(p) \/ Closef(p)

Next == \E p \in Procs : User(p) \/ Readp(p) \/ Writep(p) \/ Closing(p) \/ Signal(p)

Spec == Init /\ [][Next]_vars

(***************************************************************************)
(* Fairness: a process that can run in the kernel runs, and a process that *)
(* has a side open sooner or later uses it or closes it.                   *)
(***************************************************************************)
FairSpec ==
  /\ Spec
  /\ \A p \in Procs : WF_vars(Readp(p) \/ Writep(p) \/ Closing(p)) /\ WF_vars(User(p))

-----------------------------------------------------------------------------
(* Properties                                                              *)

\* Every variable has its type.
TypeOK ==
  /\ data \in Seq(Writers \X Nat \X Nat \X BOOLEAN)
  /\ f_offset \in Nat
  /\ i_count \in 0 .. 2
  /\ i_flag \subseteq {"ILOCK", "IWANT"} /\ i_mode \subseteq {"IREAD", "IWRITE"}
  /\ f_count \in [{"read", "write"} -> Nat]
  /\ pc \in [Procs -> {"user", "readp", "readi", "writep", "writei", "closef", "iput", "closed"}]
  /\ wchan \in [Procs -> {Awake, Lock, Ip1, Ip2}]
  /\ count \in [Procs -> Nat]
  /\ calls \in [Procs -> Nat]
  /\ sent \in Seq(Writers \X Nat \X Nat \X BOOLEAN)
  /\ rcvd \in Seq(Writers \X Nat \X Nat \X BOOLEAN)
  /\ eof \subseteq Readers

Inside == {p \in Procs : pc[p] \in {"readi", "writei", "iput"}}

\* At most one process is in readi(), writei() or iput(), and the inode is
\* locked exactly then.
LockExact == Cardinality(Inside) <= 1 /\ (Locked <=> Inside # {})

\* The pipe is well formed: the variables have their types, and the lock is
\* held by whoever is inside, although readp() and writep() let go of it, sleep
\* and come back for it.
WellFormed == TypeOK /\ LockExact

\* A reader that sleeps for data left IREAD behind, the pipe is empty or being
\* written, and the write side is open: the next writer or the last close wakes
\* it.  The same for a writer that sleeps for room.
NoLostWakeup ==
  \A p \in Procs :
    /\ wchan[p] = Ip2 => /\ "IREAD" \in i_mode /\ i_count = 2
                         /\ i_size = 0 \/ \E q \in Writers : pc[q] = "writei"
    /\ wchan[p] = Ip1 => /\ "IWRITE" \in i_mode /\ i_count = 2
                         /\ i_size >= PIPSIZ
    /\ wchan[p] = Lock => {"ILOCK", "IWANT"} \subseteq i_flag

\* A reader is told the end of the file only when it, and everybody else, has
\* had everything that was ever written.
EofComplete == eof # {} => rcvd = sent /\ f_count["write"] = 0

SameCall(i, j) == sent[i][1] = sent[j][1] /\ sent[i][2] = sent[j][2]

SmallCall(i) == \A k \in DOMAIN sent : SameCall(i, k) => sent[k][3] <= PIPSIZ

\* "If writing less than PIPSIZ, it always goes" (pipe.c:167): the bytes of a
\* call that asks for no more than PIPSIZ are next to each other in the pipe.
Contiguous ==
  \A i, j \in DOMAIN sent :
    SameCall(i, j) /\ SmallCall(i) => \A k \in i .. j : SameCall(i, k)

\* What the pipe promises its users, see Channel: the queue is the part of the
\* file that has not been read, the places a failed writei() left as they were
\* included.
Chan == INSTANCE Channel
  WITH Capacity <- 2 * PIPSIZ - 1,
       queue <- SubSeq(data, f_offset + 1, i_size),
       got <- rcvd,
       sides <- {s \in {"read", "write"} : f_count[s] > 0}

\* Every behaviour of the pipe is one of the channel.
Implements == Chan!ChannelSpec

\* Every call of read(), write() and close() returns, as long as nobody keeps
\* a side open without using it.
CallsReturn == \A p \in Procs : pc[p] \notin {"user", "closed"} ~> pc[p] \in {"user", "closed"}
=============================================================================
