-------------------------------- MODULE Bio --------------------------------
(***************************************************************************)
(* The block buffer cache of the Seventh Edition kernel (dev/bio.c).       *)
(*                                                                         *)
(* Two kinds of actor touch the cache: processes executing system calls    *)
(* and the disk interrupt.  The kernel does not preempt itself, so a       *)
(* process gives the processor up only where it calls sleep() or is back   *)
(* in its caller ("client"); `cur` is the process that has it.  The disk   *)
(* interrupt, Iodone, may come between any two steps, and a step is the    *)
(* code between two places where an interrupt makes a difference: the      *)
(* stretches the code runs at spl6 are single steps.                       *)
(*                                                                         *)
(* A device number and a block number together are one member of Blocks;   *)
(* the contents of a block are one member of Vals.                         *)
(***************************************************************************)
EXTENDS Naturals, SequencesExt

CONSTANTS
  Procs,      \* processes
  Bufs,       \* the buffer headers buf[NBUF]
  Blocks,     \* (dev, blkno) pairs
  Tapes,      \* the blocks that live on a magtape (B_TAPE in the device table)
  Indirect,   \* the blocks a caller keeps while it asks for another buffer
  Vals,       \* contents of a block
  InitVal,    \* what every block holds at boot
  NODEV,      \* b_dev of a buffer associated with no block
  NULL,       \* the null pointer
  Awake,      \* p_wchan of a process that is not asleep
  Bfreelist,  \* the address of the head of the available list, as a channel
  Errors,     \* which transfers may fail: a subset of {"sync", "async"}
  Ops,        \* which entry points callers use: a subset of EntryPoints
  MaxHeld,    \* bound: buffers one process holds at the same time
  MaxCalls    \* bound: calls one process makes

EntryPoints == {"bread", "getblk", "breada", "geteblk", "bflush",
                "bwrite", "bawrite", "bdwrite"}

ASSUME BioAssumption ==
  /\ IsFiniteSet(Bufs)
  /\ Tapes \subseteq Blocks /\ Indirect \subseteq Blocks
  /\ InitVal \in Vals
  /\ NODEV \notin Blocks
  /\ NULL \notin Bufs /\ NULL \notin Blocks /\ NULL \notin Procs
  /\ Awake \notin Bufs
  /\ Bfreelist \notin Bufs /\ Bfreelist # Awake
  /\ Errors \subseteq {"sync", "async"}
  /\ Ops \subseteq EntryPoints
  /\ MaxHeld \in Nat /\ MaxCalls \in Nat

VARIABLES
  b_flags,    \* buffer -> its set of flags
  b_blkno,    \* buffer -> the block it is associated with, or NODEV
  b_addr,     \* buffer -> contents
  av,         \* the available list, bfreelist.av_forw first
  bfwanted,   \* B_WANTED in bfreelist.b_flags
  ioq,        \* buffers handed to a strategy routine and not yet done
  disk,       \* block -> contents on the device
  latest,     \* history: block -> contents last released by a writer
  pc,         \* process -> where it is in bio.c
  ret,        \* process -> where getblk() returns to
  want,       \* process -> the block getblk() was called for
  blkno,      \* process -> breada()'s first block
  rablkno,    \* process -> breada()'s read-ahead block, or NULL
  bp,         \* process -> the buffer it is working on, which it owns
  first,      \* process -> breada()'s own first buffer
  cand,       \* process -> a buffer it points at and does not own
  held,       \* process -> buffers returned to it and not yet released
  wchan,      \* process -> channel it sleeps on, or Awake
  u_error,    \* process -> u.u_error is set
  calls,      \* process -> calls made
  cur         \* the process running in the kernel, or NULL

bufVars  == <<b_flags, b_blkno, b_addr, av, bfwanted>>
ioVars   == <<ioq, disk, latest>>
callVars == <<blkno, rablkno, calls>>
vars     == <<b_flags, b_blkno, b_addr, av, bfwanted, ioq, disk, latest, pc, ret, want,
              blkno, rablkno, bp, first, cand, held, wchan, u_error, calls, cur>>

Flags == {"READ", "DONE", "ERROR", "BUSY", "WANTED", "AGE", "ASYNC", "DELWRI"}

PCs == {"client", "getblk", "found", "getblk.age", "geteblk", "geteblk.age",
        "bflush", "bflush.age", "bread", "breada1", "breada2", "breada3", "breada4",
        "full", "iowait", "bwrite.iowait", "bwrite.age", "bwrite.geterror", "wild"}

Init ==
  /\ b_flags = [b \in Bufs |-> {}]
  /\ b_blkno = [b \in Bufs |-> NODEV]
  /\ b_addr = [b \in Bufs |-> InitVal]
  /\ av \in [1 .. Cardinality(Bufs) -> Bufs]
  /\ IsInjective(av)
  /\ \A b \in Bufs : \E i \in DOMAIN av : av[i] = b
  /\ bfwanted = FALSE
  /\ ioq = {}
  /\ disk = [k \in Blocks |-> InitVal]
  /\ latest = disk
  /\ pc = [p \in Procs |-> "client"]
  /\ ret = [p \in Procs |-> "client"]
  /\ want = [p \in Procs |-> NULL]
  /\ blkno = want /\ rablkno = want
  /\ bp = [p \in Procs |-> NULL] /\ first = bp /\ cand = bp
  /\ held = [p \in Procs |-> {}]
  /\ wchan = [p \in Procs |-> Awake]
  /\ u_error = [p \in Procs |-> FALSE]
  /\ calls = [p \in Procs |-> 0]
  /\ cur = NULL

-----------------------------------------------------------------------------
(* Helpers shared by the operations.                                       *)

OnList(s, b) == \E i \in DOMAIN s : s[i] = b

\* notavail() takes b out of the middle of the list.
Unlink(s, b) ==
  IF OnList(s, b)
  THEN RemoveAt(s, CHOOSE i \in DOMAIN s : s[i] = b)
  ELSE s

incore(k) == \E b \in Bufs : b_blkno[b] = k

Runnable(p) == wchan[p] = Awake /\ cur \in {NULL, p}

\* p goes to sleep on chan and will resume at pcv.
sleep(p, chan, pcv) ==
  /\ wchan' = [wchan EXCEPT ![p] = chan]
  /\ pc' = [pc EXCEPT ![p] = pcv]
  /\ cur' = NULL

\* p runs on, to pcv, without letting another process in.
Goto(p, pcv) ==
  /\ pc' = [pc EXCEPT ![p] = pcv]
  /\ cur' = p

\* p returns to its caller, and its arguments are gone.
Return(p) ==
  /\ pc' = [pc EXCEPT ![p] = "client"]
  /\ cur' = NULL
  /\ ret' = [ret EXCEPT ![p] = "client"]
  /\ want' = [want EXCEPT ![p] = NULL]
  /\ blkno' = [blkno EXCEPT ![p] = NULL]
  /\ rablkno' = [rablkno EXCEPT ![p] = NULL]

\* Mutant: brelse() forgets the processes that sleep for any buffer.
brelse_NoListWakeup(b, fl) ==
  /\ wchan' = [p \in Procs |->
                 IF wchan[p] = b /\ "WANTED" \in fl THEN Awake ELSE wchan[p]]
  /\ bfwanted' = FALSE
  /\ b_blkno' = [b_blkno EXCEPT ![b] = IF "ERROR" \in fl THEN NODEV ELSE @]
  /\ av' = IF "AGE" \in fl THEN <<b>> \o av ELSE Append(av, b)
  /\ b_flags' = [b_flags EXCEPT ![b] = fl \ {"WANTED", "BUSY", "ASYNC", "AGE"}]

\* brelse(b), called with fl in b->b_flags.
brelse(b, fl) ==
  /\ wchan' = [p \in Procs |->
                 IF \/ wchan[p] = b /\ "WANTED" \in fl
                    \/ wchan[p] = Bfreelist /\ bfwanted
                 THEN Awake ELSE wchan[p]]
  /\ bfwanted' = FALSE
  /\ b_blkno' = [b_blkno EXCEPT ![b] = IF "ERROR" \in fl THEN NODEV ELSE @]
  /\ av' = IF "AGE" \in fl THEN <<b>> \o av ELSE Append(av, b)
  /\ b_flags' = [b_flags EXCEPT ![b] = fl \ {"WANTED", "BUSY", "ASYNC", "AGE"}]

\* Hand b to the device with fl in b->b_flags.
strategy(b, fl) ==
  /\ b_flags' = [b_flags EXCEPT ![b] = fl]
  /\ ioq' = ioq \cup {b}

\* The flags with which bwrite() starts the transfer.
bwriteFlags(fl) == fl \ {"READ", "DONE", "ERROR", "DELWRI", "AGE"}

\* getblk(), geteblk() and bflush() push a delayed write out: notavail(b),
\* B_ASYNC, and bwrite(b) up to the strategy call.
PushDelayed(p, b, pcv) ==
  /\ strategy(b, bwriteFlags(b_flags[b] \cup {"BUSY", "ASYNC"}))
  /\ av' = Unlink(av, b)
  /\ cand' = [cand EXCEPT ![p] = b]
  /\ Goto(p, pcv)
  /\ UNCHANGED <<b_blkno, b_addr, bfwanted, disk, latest, ret, want, callVars,
                 bp, first, held, wchan, u_error>>

-----------------------------------------------------------------------------
(* The callers: the file system asks for blocks and gives them back.       *)

\* A process may ask for another buffer while it holds one: bmap() holds an
\* indirect block across alloc(), smount() the super-block across geteblk().
MayCall(p, op) ==
  /\ op \in Ops
  /\ pc[p] = "client" /\ Runnable(p)
  /\ calls[p] < MaxCalls
  /\ Cardinality(held[p]) < MaxHeld
  /\ ~u_error[p] \/ held[p] = {}

MayAskFor(p, k) ==
  held[p] # {} => /\ k \notin Indirect
                  /\ \A b \in held[p] : b_blkno[b] \in Indirect

\* trap() clears u.u_error when a system call starts.
Enter(p) ==
  /\ calls' = [calls EXCEPT ![p] = @ + 1]
  /\ u_error' = [u_error EXCEPT ![p] = FALSE]

CallBread(p, k) ==
  /\ MayCall(p, "bread") /\ MayAskFor(p, k)
  /\ Enter(p)
  /\ want' = [want EXCEPT ![p] = k]
  /\ ret' = [ret EXCEPT ![p] = "bread"]
  /\ Goto(p, "getblk")
  /\ UNCHANGED <<bufVars, ioVars, blkno, rablkno, bp, first, cand, held, wchan>>

\* writei() of a whole block, alloc(), free() and update() call getblk().
CallGetblk(p, k) ==
  /\ MayCall(p, "getblk") /\ MayAskFor(p, k)
  /\ Enter(p)
  /\ want' = [want EXCEPT ![p] = k]
  /\ ret' = [ret EXCEPT ![p] = "full"]
  /\ Goto(p, "getblk")
  /\ UNCHANGED <<bufVars, ioVars, blkno, rablkno, bp, first, cand, held, wchan>>

CallBreada(p, k, r) ==
  /\ MayCall(p, "breada") /\ held[p] = {} /\ r # k /\ r \notin Indirect
  /\ Enter(p)
  /\ blkno' = [blkno EXCEPT ![p] = k]
  /\ rablkno' = [rablkno EXCEPT ![p] = r]
  /\ want' = [want EXCEPT ![p] = k]
  /\ ret' = [ret EXCEPT ![p] = "breada1"]
  /\ Goto(p, IF incore(k) THEN "breada2" ELSE "getblk")
  /\ UNCHANGED <<bufVars, ioVars, bp, first, cand, held, wchan>>

CallGeteblk(p) ==
  /\ MayCall(p, "geteblk")
  /\ Enter(p)
  /\ Goto(p, "geteblk")
  /\ UNCHANGED <<bufVars, ioVars, ret, want, blkno, rablkno, bp, first, cand, held, wchan>>

CallBflush(p) ==
  /\ MayCall(p, "bflush") /\ held[p] = {}
  /\ Enter(p)
  /\ Goto(p, "bflush")
  /\ UNCHANGED <<bufVars, ioVars, ret, want, blkno, rablkno, bp, first, cand, held, wchan>>

-----------------------------------------------------------------------------
(* getblk                                                                  *)

AtGetblk(p) == pc[p] = "getblk" /\ Runnable(p)

\* The search finds the block.  The test of B_BUSY comes after spl6(), so an
\* interrupt can still come in between.
GetblkFound(p) ==
  /\ AtGetblk(p)
  /\ \E b \in Bufs : /\ b_blkno[b] = want[p]
                     /\ cand' = [cand EXCEPT ![p] = b]
  /\ Goto(p, "found")
  /\ UNCHANGED <<bufVars, ioVars, ret, want, callVars, bp, first, held, wchan, u_error>>

\* Mutant: getblk() sleeps without setting B_WANTED.
GetblkBusy_NotWanted(p) ==
  /\ pc[p] = "found"
  /\ "BUSY" \in b_flags[cand[p]]
  /\ sleep(p, cand[p], "getblk")
  /\ cand' = [cand EXCEPT ![p] = NULL]
  /\ UNCHANGED <<b_flags, b_blkno, b_addr, av, bfwanted, ioVars, ret, want, callVars,
                 bp, first, held, u_error>>

GetblkBusy(p) ==
  /\ pc[p] = "found"
  /\ "BUSY" \in b_flags[cand[p]]
  /\ b_flags' = [b_flags EXCEPT ![cand[p]] = @ \cup {"WANTED"}]
  /\ sleep(p, cand[p], "getblk")
  /\ cand' = [cand EXCEPT ![p] = NULL]
  /\ UNCHANGED <<b_blkno, b_addr, av, bfwanted, ioVars, ret, want, callVars,
                 bp, first, held, u_error>>

\* Mutant: getblk() returns a busy buffer.
GetblkHit_Busy(p) ==
  /\ pc[p] = "found"
  /\ b_flags' = [b_flags EXCEPT ![cand[p]] = @ \cup {"BUSY"}]
  /\ av' = Unlink(av, cand[p])
  /\ bp' = [bp EXCEPT ![p] = cand[p]]
  /\ cand' = [cand EXCEPT ![p] = NULL]
  /\ Goto(p, ret[p])
  /\ UNCHANGED <<b_blkno, b_addr, bfwanted, ioVars, ret, want, callVars,
                 first, held, wchan, u_error>>

\* Mutant: notavail() leaves the buffer on the available list.
GetblkHit_StaysAvailable(p) ==
  /\ pc[p] = "found"
  /\ "BUSY" \notin b_flags[cand[p]]
  /\ b_flags' = [b_flags EXCEPT ![cand[p]] = @ \cup {"BUSY"}]
  /\ bp' = [bp EXCEPT ![p] = cand[p]]
  /\ cand' = [cand EXCEPT ![p] = NULL]
  /\ Goto(p, ret[p])
  /\ UNCHANGED <<b_blkno, b_addr, av, bfwanted, ioVars, ret, want, callVars,
                 first, held, wchan, u_error>>

GetblkHit(p) ==
  /\ pc[p] = "found"
  /\ "BUSY" \notin b_flags[cand[p]]
  /\ b_flags' = [b_flags EXCEPT ![cand[p]] = @ \cup {"BUSY"}]
  /\ av' = Unlink(av, cand[p])
  /\ bp' = [bp EXCEPT ![p] = cand[p]]
  /\ cand' = [cand EXCEPT ![p] = NULL]
  /\ Goto(p, ret[p])
  /\ UNCHANGED <<b_blkno, b_addr, bfwanted, ioVars, ret, want, callVars,
                 first, held, wchan, u_error>>

\* Mutant: getblk() sleeps on bfreelist without setting its B_WANTED.
GetblkEmpty_NotWanted(p) ==
  /\ AtGetblk(p) /\ ~incore(want[p])
  /\ av = <<>>
  /\ sleep(p, Bfreelist, "getblk")
  /\ UNCHANGED <<b_flags, b_blkno, b_addr, av, bfwanted, ioVars, ret, want, callVars,
                 bp, first, cand, held, u_error>>

GetblkEmpty(p) ==
  /\ AtGetblk(p) /\ ~incore(want[p])
  /\ av = <<>>
  /\ bfwanted' = TRUE
  /\ sleep(p, Bfreelist, "getblk")
  /\ UNCHANGED <<b_flags, b_blkno, b_addr, av, ioVars, ret, want, callVars,
                 bp, first, cand, held, u_error>>

GetblkPush(p) ==
  /\ AtGetblk(p) /\ ~incore(want[p])
  /\ av # <<>>
  /\ "DELWRI" \in b_flags[Head(av)]
  /\ PushDelayed(p, Head(av), "getblk.age")

\* Mutant: getblk() reassigns a buffer although the block is in core.
GetblkTake_NoSearch(p) ==
  /\ AtGetblk(p)
  /\ av # <<>>
  /\ "DELWRI" \notin b_flags[Head(av)]
  /\ b_flags' = [b_flags EXCEPT ![Head(av)] = {"BUSY"}]
  /\ b_blkno' = [b_blkno EXCEPT ![Head(av)] = want[p]]
  /\ av' = Tail(av)
  /\ bp' = [bp EXCEPT ![p] = Head(av)]
  /\ Goto(p, ret[p])
  /\ UNCHANGED <<b_addr, bfwanted, ioVars, ret, want, callVars, first, cand, held,
                 wchan, u_error>>

\* Mutant: getblk() leaves the old flags, B_DONE with them, on a reassigned buffer.
GetblkTake_KeepsFlags(p) ==
  /\ AtGetblk(p) /\ ~incore(want[p])
  /\ av # <<>>
  /\ "DELWRI" \notin b_flags[Head(av)]
  /\ b_flags' = [b_flags EXCEPT ![Head(av)] = @ \cup {"BUSY"}]
  /\ b_blkno' = [b_blkno EXCEPT ![Head(av)] = want[p]]
  /\ av' = Tail(av)
  /\ bp' = [bp EXCEPT ![p] = Head(av)]
  /\ Goto(p, ret[p])
  /\ UNCHANGED <<b_addr, bfwanted, ioVars, ret, want, callVars, first, cand, held,
                 wchan, u_error>>

\* Mutant: getblk() reassigns a delayed write without writing it.
GetblkTake_DropsDelayed(p) ==
  /\ AtGetblk(p) /\ ~incore(want[p])
  /\ av # <<>>
  /\ b_flags' = [b_flags EXCEPT ![Head(av)] = {"BUSY"}]
  /\ b_blkno' = [b_blkno EXCEPT ![Head(av)] = want[p]]
  /\ av' = Tail(av)
  /\ bp' = [bp EXCEPT ![p] = Head(av)]
  /\ Goto(p, ret[p])
  /\ UNCHANGED <<b_addr, bfwanted, ioVars, ret, want, callVars, first, cand, held,
                 wchan, u_error>>

GetblkTake(p) ==
  /\ AtGetblk(p) /\ ~incore(want[p])
  /\ av # <<>>
  /\ "DELWRI" \notin b_flags[Head(av)]
  /\ b_flags' = [b_flags EXCEPT ![Head(av)] = {"BUSY"}]
  /\ b_blkno' = [b_blkno EXCEPT ![Head(av)] = want[p]]
  /\ av' = Tail(av)
  /\ bp' = [bp EXCEPT ![p] = Head(av)]
  /\ Goto(p, ret[p])
  /\ UNCHANGED <<b_addr, bfwanted, ioVars, ret, want, callVars, first, cand, held,
                 wchan, u_error>>

-----------------------------------------------------------------------------
(* geteblk and bflush                                                      *)

AtGeteblk(p) == pc[p] = "geteblk" /\ Runnable(p)

GeteblkEmpty(p) ==
  /\ AtGeteblk(p)
  /\ av = <<>>
  /\ bfwanted' = TRUE
  /\ sleep(p, Bfreelist, "geteblk")
  /\ UNCHANGED <<b_flags, b_blkno, b_addr, av, ioVars, ret, want, callVars,
                 bp, first, cand, held, u_error>>

GeteblkPush(p) ==
  /\ AtGeteblk(p)
  /\ av # <<>>
  /\ "DELWRI" \in b_flags[Head(av)]
  /\ PushDelayed(p, Head(av), "geteblk.age")

\* Mutant: geteblk() clears b_dev instead of setting it to NODEV.
GeteblkTake_Zero(p) ==
  /\ AtGeteblk(p)
  /\ av # <<>>
  /\ "DELWRI" \notin b_flags[Head(av)]
  /\ b_flags' = [b_flags EXCEPT ![Head(av)] = {"BUSY"}]
  /\ b_blkno' = [b_blkno EXCEPT ![Head(av)] = NULL]
  /\ av' = Tail(av)
  /\ held' = [held EXCEPT ![p] = @ \cup {Head(av)}]
  /\ Return(p)
  /\ UNCHANGED <<b_addr, bfwanted, ioVars, calls, bp, first, cand, wchan, u_error>>

GeteblkTake(p) ==
  /\ AtGeteblk(p)
  /\ av # <<>>
  /\ "DELWRI" \notin b_flags[Head(av)]
  /\ b_flags' = [b_flags EXCEPT ![Head(av)] = {"BUSY"}]
  /\ b_blkno' = [b_blkno EXCEPT ![Head(av)] = NODEV]
  /\ av' = Tail(av)
  /\ held' = [held EXCEPT ![p] = @ \cup {Head(av)}]
  /\ Return(p)
  /\ UNCHANGED <<b_addr, bfwanted, ioVars, calls, bp, first, cand,
                 wchan, u_error>>

\* bflush(NODEV): the first delayed write of the available list goes out, and
\* the scan starts again.
BflushPush(p) ==
  /\ pc[p] = "bflush" /\ Runnable(p)
  /\ \E i \in DOMAIN av :
       /\ "DELWRI" \in b_flags[av[i]]
       /\ \A j \in 1 .. i - 1 : "DELWRI" \notin b_flags[av[j]]
       /\ PushDelayed(p, av[i], "bflush.age")

BflushDone(p) ==
  /\ pc[p] = "bflush" /\ Runnable(p)
  /\ \A i \in DOMAIN av : "DELWRI" \notin b_flags[av[i]]
  /\ Return(p)
  /\ UNCHANGED <<bufVars, ioVars, calls, bp, first, cand, held, wchan, u_error>>

\* The end of bwrite() for an asynchronous write of a delayed-write buffer:
\* B_AGE is set after the strategy call, when the transfer may be over and
\* the buffer already back on the available list.
AgeReturn == [c \in {"getblk.age", "geteblk.age", "bflush.age", "bwrite.age"} |->
                CASE c = "getblk.age"  -> "getblk"
                  [] c = "geteblk.age" -> "geteblk"
                  [] c = "bflush.age"  -> "bflush"
                  [] c = "bwrite.age"  -> "client"]

SetAge(p) ==
  /\ pc[p] \in DOMAIN AgeReturn
  /\ b_flags' = [b_flags EXCEPT ![cand[p]] = @ \cup {"AGE"}]
  /\ cand' = [cand EXCEPT ![p] = NULL]
  /\ pc' = [pc EXCEPT ![p] = AgeReturn[pc[p]]]
  /\ cur' = IF pc[p] = "bwrite.age" THEN NULL ELSE p
  /\ UNCHANGED <<b_blkno, b_addr, av, bfwanted, ioVars, ret, want, callVars, bp, first,
                 held, wchan, u_error>>

-----------------------------------------------------------------------------
(* bread, breada and iowait, from where getblk() has returned bp[p]        *)

\* A caller of getblk() has its buffer.
Full(p) ==
  /\ pc[p] = "full"
  /\ held' = [held EXCEPT ![p] = @ \cup {bp[p]}]
  /\ bp' = [bp EXCEPT ![p] = NULL]
  /\ Return(p)
  /\ UNCHANGED <<bufVars, ioVars, calls, first, cand, wchan, u_error>>

BreadCached(p) ==
  /\ pc[p] = "bread"
  /\ "DONE" \in b_flags[bp[p]]
  /\ held' = [held EXCEPT ![p] = @ \cup {bp[p]}]
  /\ bp' = [bp EXCEPT ![p] = NULL]
  /\ Return(p)
  /\ UNCHANGED <<bufVars, ioVars, calls, first, cand, wchan, u_error>>

BreadStart(p) ==
  /\ pc[p] = "bread"
  /\ "DONE" \notin b_flags[bp[p]]
  /\ strategy(bp[p], b_flags[bp[p]] \cup {"READ"})
  /\ Goto(p, "iowait")
  /\ UNCHANGED <<b_blkno, b_addr, av, bfwanted, disk, latest, ret, want, callVars, bp,
                 first, cand, held, wchan, u_error>>

\* breada() keeps its first buffer, starting the read if it must.
Breada1(p) ==
  /\ pc[p] = "breada1"
  /\ \/ "DONE" \in b_flags[bp[p]] /\ UNCHANGED <<b_flags, ioq>>
     \/ /\ "DONE" \notin b_flags[bp[p]]
        /\ strategy(bp[p], b_flags[bp[p]] \cup {"READ"})
  /\ first' = [first EXCEPT ![p] = bp[p]]
  /\ bp' = [bp EXCEPT ![p] = NULL]
  /\ Goto(p, "breada2")
  /\ UNCHANGED <<b_blkno, b_addr, av, bfwanted, disk, latest, ret, want, callVars,
                 cand, held, wchan, u_error>>

\* if (rablkno && !incore(dev, rablkno))
Breada2(p) ==
  /\ pc[p] = "breada2"
  /\ \/ /\ rablkno[p] # NULL /\ ~incore(rablkno[p])
        /\ want' = [want EXCEPT ![p] = rablkno[p]]
        /\ ret' = [ret EXCEPT ![p] = "breada3"]
        /\ Goto(p, "getblk")
     \/ /\ rablkno[p] = NULL \/ incore(rablkno[p])
        /\ Goto(p, "breada4")
        /\ UNCHANGED <<want, ret>>
  /\ UNCHANGED <<bufVars, ioVars, callVars, bp, first, cand, held, wchan, u_error>>

Breada3(p) ==
  /\ pc[p] = "breada3"
  /\ \/ /\ "DONE" \in b_flags[bp[p]]
        /\ brelse(bp[p], b_flags[bp[p]])
        /\ UNCHANGED ioq
     \/ /\ "DONE" \notin b_flags[bp[p]]
        /\ strategy(bp[p], b_flags[bp[p]] \cup {"READ", "ASYNC"})
        /\ UNCHANGED <<b_blkno, av, bfwanted, wchan>>
  /\ bp' = [bp EXCEPT ![p] = NULL]
  /\ Goto(p, "breada4")
  /\ UNCHANGED <<b_addr, disk, latest, ret, want, callVars, first, cand, held, u_error>>

\* Wait for the first block, or read it if it was in core to begin with.
Breada4(p) ==
  /\ pc[p] = "breada4"
  /\ \/ /\ first[p] = NULL
        /\ want' = [want EXCEPT ![p] = blkno[p]]
        /\ ret' = [ret EXCEPT ![p] = "bread"]
        /\ Goto(p, "getblk")
        /\ UNCHANGED <<bp, first>>
     \/ /\ first[p] # NULL
        /\ bp' = [bp EXCEPT ![p] = first[p]]
        /\ first' = [first EXCEPT ![p] = NULL]
        /\ Goto(p, "iowait")
        /\ UNCHANGED <<want, ret>>
  /\ UNCHANGED <<bufVars, ioVars, callVars, cand, held, wchan, u_error>>

\* geterror(b)
geterror(p, b) ==
  u_error' = [u_error EXCEPT ![p] = @ \/ "ERROR" \in b_flags[b]]

IowaitSleep(p) ==
  /\ pc[p] \in {"iowait", "bwrite.iowait"} /\ Runnable(p)
  /\ "DONE" \notin b_flags[bp[p]]
  /\ sleep(p, bp[p], pc[p])
  /\ UNCHANGED <<bufVars, ioVars, ret, want, callVars, bp, first, cand, held, u_error>>

\* bread() and breada() return the buffer when the transfer is over.
IowaitDone(p) ==
  /\ pc[p] = "iowait" /\ Runnable(p)
  /\ "DONE" \in b_flags[bp[p]]
  /\ geterror(p, bp[p])
  /\ held' = [held EXCEPT ![p] = @ \cup {bp[p]}]
  /\ bp' = [bp EXCEPT ![p] = NULL]
  /\ Return(p)
  /\ UNCHANGED <<bufVars, ioVars, calls, first, cand, wchan>>

\* bwrite() releases it.
BwriteDone(p) ==
  /\ pc[p] = "bwrite.iowait" /\ Runnable(p)
  /\ "DONE" \in b_flags[bp[p]]
  /\ geterror(p, bp[p])
  /\ brelse(bp[p], b_flags[bp[p]])
  /\ bp' = [bp EXCEPT ![p] = NULL]
  /\ Return(p)
  /\ UNCHANGED <<b_addr, ioVars, calls, first, cand, held>>

-----------------------------------------------------------------------------
(* Giving a buffer back                                                    *)

MayRelease(p, b) == pc[p] = "client" /\ Runnable(p) /\ b \in held[p]

Brelse(p, b) ==
  /\ MayRelease(p, b)
  /\ brelse(b, b_flags[b])
  /\ held' = [held EXCEPT ![p] = @ \ {b}]
  /\ UNCHANGED <<b_addr, ioVars, pc, ret, want, callVars, bp, first, cand, u_error, cur>>

\* The caller has put v in the buffer; a caller that saw an error does not
\* write, and a buffer from geteblk() belongs to no device.
MayWrite(p, b, op) ==
  /\ op \in Ops
  /\ MayRelease(p, b)
  /\ ~u_error[p] /\ b_blkno[b] # NODEV

Modify(b, v) ==
  /\ b_addr' = [b_addr EXCEPT ![b] = v]
  /\ latest' = [latest EXCEPT ![b_blkno[b]] = v]

Bwrite(p, b, v) ==
  /\ MayWrite(p, b, "bwrite")
  /\ Modify(b, v)
  /\ strategy(b, bwriteFlags(b_flags[b]))
  /\ held' = [held EXCEPT ![p] = @ \ {b}]
  /\ bp' = [bp EXCEPT ![p] = b]
  /\ Goto(p, "bwrite.iowait")
  /\ UNCHANGED <<b_blkno, av, bfwanted, disk, ret, want, callVars, first, cand, wchan, u_error>>

\* bawrite(): the buffer is the device's once the transfer is started.
bawrite(p, b) ==
  /\ strategy(b, bwriteFlags(b_flags[b] \cup {"ASYNC"}))
  /\ cand' = [cand EXCEPT ![p] = b]
  /\ Goto(p, IF "DELWRI" \in b_flags[b] THEN "bwrite.age" ELSE "bwrite.geterror")
  /\ UNCHANGED <<b_blkno, av, bfwanted, wchan>>

Bawrite(p, b, v) ==
  /\ MayWrite(p, b, "bawrite")
  /\ Modify(b, v)
  /\ bawrite(p, b)
  /\ held' = [held EXCEPT ![p] = @ \ {b}]
  /\ UNCHANGED <<disk, ret, want, callVars, bp, first, u_error>>

\* bawrite()'s last test reads the flags of a buffer it has given away.
BawriteGeterror(p) ==
  /\ pc[p] = "bwrite.geterror"
  /\ geterror(p, cand[p])
  /\ cand' = [cand EXCEPT ![p] = NULL]
  /\ Return(p)
  /\ UNCHANGED <<bufVars, ioVars, calls, bp, first, held, wchan>>

\* bdwrite(): no delayed writes on a tape.
Bdwrite(p, b, v) ==
  /\ MayWrite(p, b, "bdwrite")
  /\ Modify(b, v)
  /\ held' = [held EXCEPT ![p] = @ \ {b}]
  /\ \/ b_blkno[b] \in Tapes /\ bawrite(p, b)
     \/ /\ b_blkno[b] \notin Tapes
        /\ brelse(b, b_flags[b] \cup {"DELWRI", "DONE"})
        /\ UNCHANGED <<ioq, pc, cand, cur>>
  /\ UNCHANGED <<disk, ret, want, callVars, bp, first, u_error>>

\* A write of a buffer whose association getblk() has lost: the code indexes
\* bdevsw with major(NODEV), past its end.  What follows is undefined.
WriteWild(p, b) ==
  /\ MayRelease(p, b) /\ ~u_error[p]
  /\ b_blkno[b] = NODEV /\ "ERROR" \in b_flags[b]
  /\ Goto(p, "wild")
  /\ UNCHANGED <<bufVars, ioVars, ret, want, callVars, bp, first, cand, held, wchan, u_error>>

-----------------------------------------------------------------------------
(* The disk interrupt                                                      *)

\* A transfer that fails leaves the contents alone; what a failed write was
\* to store is lost with the buffer's association.
Transfer(b, failed) ==
  \/ /\ failed /\ "READ" \notin b_flags[b]
     /\ latest' = [latest EXCEPT ![b_blkno[b]] = disk[b_blkno[b]]]
     /\ UNCHANGED <<b_addr, disk>>
  \/ /\ failed /\ "READ" \in b_flags[b]
     /\ UNCHANGED <<b_addr, disk, latest>>
  \/ /\ ~failed /\ "READ" \in b_flags[b]
     /\ b_addr' = [b_addr EXCEPT ![b] = disk[b_blkno[b]]]
     /\ UNCHANGED <<disk, latest>>
  \/ /\ ~failed /\ "READ" \notin b_flags[b]
     /\ disk' = [disk EXCEPT ![b_blkno[b]] = b_addr[b]]
     /\ UNCHANGED <<b_addr, latest>>

\* Mutant: iodone() does not release an asynchronous transfer.
iodone_NoRelease(b, fl) ==
  /\ b_flags' = [b_flags EXCEPT ![b] = fl \ {"WANTED"}]
  /\ wchan' = [p \in Procs |-> IF wchan[p] = b THEN Awake ELSE wchan[p]]
  /\ UNCHANGED <<b_blkno, av, bfwanted>>

\* iodone() for a buffer whose transfer the device has finished.
iodone(b, fl) ==
  IF "ASYNC" \in fl
  THEN brelse(b, fl)
  ELSE /\ b_flags' = [b_flags EXCEPT ![b] = fl \ {"WANTED"}]
       /\ wchan' = [p \in Procs |-> IF wchan[p] = b THEN Awake ELSE wchan[p]]
       /\ UNCHANGED <<b_blkno, av, bfwanted>>

Interrupt(b, failed) ==
  /\ b \in ioq
  /\ failed => (IF "ASYNC" \in b_flags[b] THEN "async" ELSE "sync") \in Errors
  /\ ioq' = ioq \ {b}
  /\ Transfer(b, failed)
  /\ iodone(b, b_flags[b] \cup {"DONE"} \cup (IF failed THEN {"ERROR"} ELSE {}))
  /\ UNCHANGED <<pc, ret, want, callVars, bp, first, cand, held, u_error, cur>>

-----------------------------------------------------------------------------
Call(p) ==
  \/ \E k \in Blocks : CallBread(p, k) \/ CallGetblk(p, k)
  \/ \E k \in Blocks, r \in Blocks \cup {NULL} : CallBreada(p, k, r)
  \/ CallGeteblk(p)
  \/ CallBflush(p)

Release(p) ==
  \E b \in held[p] :
    \/ Brelse(p, b)
    \/ WriteWild(p, b)
    \/ \E v \in Vals : Bwrite(p, b, v) \/ Bawrite(p, b, v) \/ Bdwrite(p, b, v)

Kernel(p) ==
  \/ GetblkFound(p) \/ GetblkBusy(p) \/ GetblkHit(p)
  \/ GetblkEmpty(p) \/ GetblkPush(p) \/ GetblkTake(p)
  \/ GeteblkEmpty(p) \/ GeteblkPush(p) \/ GeteblkTake(p)
  \/ BflushPush(p) \/ BflushDone(p) \/ SetAge(p)
  \/ Full(p) \/ BreadCached(p) \/ BreadStart(p)
  \/ Breada1(p) \/ Breada2(p) \/ Breada3(p) \/ Breada4(p)
  \/ IowaitSleep(p) \/ IowaitDone(p) \/ BwriteDone(p) \/ BawriteGeterror(p)

Device == \E b \in Bufs, failed \in BOOLEAN : Interrupt(b, failed)

Next ==
  \/ \E p \in Procs : Call(p) \/ Release(p) \/ Kernel(p)
  \/ Device

Spec == Init /\ [][Next]_vars

(***************************************************************************)
(* Fairness: the processor goes on to run a process that can run, the      *)
(* device finishes every transfer it has been given, and a caller gives    *)
(* back the buffers it has been given.  Nobody is obliged to make a call.  *)
(***************************************************************************)
FairSpec ==
  /\ Spec
  /\ \A p \in Procs : WF_vars(Kernel(p)) /\ WF_vars(Release(p))
  /\ \A b \in Bufs : WF_vars(\E failed \in BOOLEAN : Interrupt(b, failed))
-----------------------------------------------------------------------------
(* Properties                                                              *)

\* Every variable has its type: the buffers a process or a sleep channel
\* refers to are headers of buf[], and b_flags holds flags of buf.h.
TypeOK ==
  /\ b_flags \in [Bufs -> SUBSET Flags]
  /\ b_blkno \in [Bufs -> Blocks \cup {NODEV}]
  /\ b_addr \in [Bufs -> Vals]
  /\ av \in Seq(Bufs)
  /\ bfwanted \in BOOLEAN
  /\ ioq \in SUBSET Bufs
  /\ disk \in [Blocks -> Vals] /\ latest \in [Blocks -> Vals]
  /\ pc \in [Procs -> PCs]
  /\ ret \in [Procs -> PCs]
  /\ want \in [Procs -> Blocks \cup {NULL}]
  /\ blkno \in [Procs -> Blocks \cup {NULL}]
  /\ rablkno \in [Procs -> Blocks \cup {NULL}]
  /\ bp \in [Procs -> Bufs \cup {NULL}]
  /\ first \in [Procs -> Bufs \cup {NULL}]
  /\ cand \in [Procs -> Bufs \cup {NULL}]
  /\ held \in [Procs -> SUBSET Bufs]
  /\ wchan \in [Procs -> Bufs \cup {Bfreelist, Awake}]
  /\ u_error \in [Procs -> BOOLEAN]
  /\ calls \in [Procs -> Nat]
  /\ cur \in Procs \cup {NULL}

\* The available list holds exactly the buffers that are not B_BUSY, each
\* once: brelse() and notavail() keep the links and the flag together, from
\* processes and from the interrupt alike.
FreeListExact ==
  /\ IsInjective(av)
  /\ \A b \in Bufs : OnList(av, b) <=> "BUSY" \notin b_flags[b]

\* Who is responsible for releasing b: a process, through the buffer it is
\* working on, the one breada() keeps or one it was given; or the device,
\* which releases an asynchronous transfer when it is done.
Holders(b) ==
  {<<p, "bp">> : p \in {q \in Procs : bp[q] = b}}
  \cup {<<p, "first">> : p \in {q \in Procs : first[q] = b}}
  \cup {<<p, "held">> : p \in {q \in Procs : b \in held[q]}}
  \cup {<<NULL, "device">> : d \in {x \in ioq : x = b /\ "ASYNC" \in b_flags[x]}}

\* "the buffer is marked busy so that no one else can touch it" (bio.c:36):
\* a busy buffer has exactly one holder who will release it, a free one has
\* none, and the device works only on busy buffers.  Neither two owners nor a
\* buffer that nobody will ever release.
OneHolder ==
  \A b \in Bufs :
    /\ "BUSY" \in b_flags[b] <=> Holders(b) # {}
    /\ \A g, h \in Holders(b) : g = h
    /\ b \in ioq => "BUSY" \in b_flags[b]

\* No block is in the cache twice, although getblk() searches, sleeps and
\* reassigns buffers while other processes do the same.
UniqueBlock ==
  \A a, b \in Bufs : b_blkno[a] = b_blkno[b] /\ b_blkno[a] # NODEV => a = b

WillBeWoken(p) ==
  /\ wchan[p] \in Bufs =>
       \/ pc[p] = "getblk" /\ {"BUSY", "WANTED"} \subseteq b_flags[wchan[p]]
       \/ /\ pc[p] \in {"iowait", "bwrite.iowait"}
          /\ wchan[p] = bp[p] /\ bp[p] \in ioq
          /\ "ASYNC" \notin b_flags[bp[p]]
  /\ wchan[p] = Bfreelist => bfwanted /\ av = <<>>

\* A process asleep in getblk() waits for a busy buffer whose B_WANTED flag
\* makes brelse() wake it; one asleep in iowait() for a transfer that is still
\* to finish; one asleep on bfreelist for a list that is empty and whose
\* B_WANTED is set.  So no wakeup is ever lost.
NoLostWakeup == \A p \in Procs : WillBeWoken(p)

\* A buffer that claims to hold its block (B_DONE, no error) holds what was
\* last written to it, whoever wrote it and however often the buffer was
\* written behind, aged, stolen and read back.
CacheCoherent ==
  \A b \in Bufs :
    b_blkno[b] # NODEV /\ "DONE" \in b_flags[b] /\ "ERROR" \notin b_flags[b]
      => b_addr[b] = latest[b_blkno[b]]

\* A block whose contents on the device are out of date is in the cache, up to
\* date, and marked to be written or on its way: no delayed write is dropped
\* when its buffer is grabbed for another block.
NoLostWrite ==
  \A k \in Blocks :
    disk[k] # latest[k] =>
      \E b \in Bufs : /\ b_blkno[b] = k /\ b_addr[b] = latest[k]
                      /\ \/ "DELWRI" \in b_flags[b]
                         \/ b \in ioq /\ "READ" \notin b_flags[b]

\* getblk() returns a buffer that is associated with the block asked for
\* ("If the appropriate block is already associated, return it", bio.c:233).
GetblkReturnsBlock ==
  \A p \in Procs :
    pc[p] \in {"bread", "full", "breada1", "breada3"} => b_blkno[bp[p]] = want[p]

\* Only the process that holds a buffer, or the device while it reads into it,
\* changes its contents; and nobody reassigns a buffer somebody else holds.
OwnedStable ==
  [][\A b \in Bufs, p \in Procs :
       b \in held[p] /\ b \in held'[p] =>
         b_addr'[b] = b_addr[b] /\ b_blkno'[b] = b_blkno[b]]_vars

\* Every call of bread(), breada(), getblk(), geteblk(), bwrite() or bflush()
\* returns: nobody sleeps for ever, neither on a buffer nor on the list.
CallsReturn == \A p \in Procs : pc[p] # "client" ~> pc[p] = "client"
=============================================================================
