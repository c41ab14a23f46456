------------------------------- MODULE Inode -------------------------------
(***************************************************************************)
(* The inode table and the free inodes of one file system: iget(), iput(),  *)
(* iupdat() and maknode() (sys/iget.c), ialloc() and ifree() (sys/alloc.c), *)
(* with the callers that make, open, use and remove files.                  *)
(*                                                                         *)
(* A slot of the table is locked (ILOCK) over everything that sleeps.  The  *)
(* kernel does not preempt itself: a step is the code between two places    *)
(* that may sleep.  Each name is an entry of a directory of its own; the    *)
(* lock of the directory is a lock like any other and is only waited for.   *)
(* The buffer cache is coherent (see Bio), so dinode is what bread() of an  *)
(* inode block gives.  An ordinary user's access() refuses a mode of 0.     *)
(***************************************************************************)
EXTENDS Integers, Sequences, FiniteSets

CONSTANTS
  Procs, Names, NULL,
  NINODE,      \* slots of the inode table
  Inodes,      \* inodes of the file system, 1 .. Inodes
  ROOTINO,     \* the numbers below are never given to a file
  INOPB,       \* inodes per block
  NICINOD,     \* numbers the super block has room for
  ReadErrors   \* whether bread() of an inode block may fail: a subset of BOOLEAN

ASSUME InodeAssumption ==
  /\ IsFiniteSet(Procs) /\ NULL \notin Procs \cup (0 .. NINODE)
  /\ NINODE \in Nat \ {0} /\ Inodes \in Nat \ {0} /\ ROOTINO \in Nat \ {0}
  /\ INOPB \in Nat \ {0} /\ NICINOD \in Nat \ {0}
  /\ FALSE \in ReadErrors /\ ReadErrors \subseteq BOOLEAN

Slots == 1 .. NINODE
Inos  == 1 .. Inodes
Adrs  == 1 .. (Inodes + INOPB - 1) \div INOPB

VARIABLES
  i_number, i_flag, i_count, i_mode, i_nlink,   \* slot -> field
  dinode,      \* inode number -> [mode, nlink] on the device
  s_inode,     \* the super block's list, s_ninode numbers
  s_ilock,     \* scans of the inode list under way
  entry,       \* name -> d_ino, 0 when there is no such file
  dlock,       \* name -> the process that has its directory locked
  pc,          \* process -> where it is
  op,          \* process -> the system call, or where iput() returns to
  ino,         \* process -> the number iget() looks for
  ref,         \* process -> the slot it has a reference to, 0 if none
  adr,         \* process -> the block its scan is at
  cur,         \* the process that has not slept since its last step, or NULL
  wchan        \* process -> what it sleeps on: a slot, s_ilock, or NULL

itab == <<i_number, i_flag, i_count, i_mode, i_nlink>>
free == <<s_inode, s_ilock>>
vars == <<i_number, i_flag, i_count, i_mode, i_nlink, dinode, s_inode, s_ilock, entry, dlock,
          pc, op, ino, ref, adr, cur, wchan>>

\* An empty file system: mode TRUE is a mode that is not 0.
Init ==
  /\ i_number = [s \in Slots |-> 0] /\ i_flag = [s \in Slots |-> {}]
  /\ i_count = [s \in Slots |-> 0]
  /\ i_mode = [s \in Slots |-> FALSE] /\ i_nlink = [s \in Slots |-> 0]
  /\ dinode = [i \in Inos |-> [mode |-> i < ROOTINO, nlink |-> 0]]
  /\ s_inode = <<>> /\ s_ilock = 0
  /\ entry = [n \in Names |-> 0] /\ dlock = [n \in Names |-> NULL]
  /\ pc = [p \in Procs |-> "user"] /\ op = [p \in Procs |-> "user"]
  /\ ino = [p \in Procs |-> 0] /\ ref = [p \in Procs |-> 0] /\ adr = [p \in Procs |-> 0]
  /\ cur = NULL /\ wchan = [p \in Procs |-> NULL]

-----------------------------------------------------------------------------
(* Sleeping, locks                                                         *)

\* The channel &fp->s_ilock; the channel of a slot is the slot.
SIlock == 0

\* p can run: it is awake, and nobody else has the processor.
At(p, place) == pc[p] = place /\ wchan[p] = NULL /\ cur \in {NULL, p}

\* p goes on.
Goto(p, place) == pc' = [pc EXCEPT ![p] = place] /\ cur' = p

\* p calls something that may sleep, or returns to user mode.
Pause(p, place) == pc' = [pc EXCEPT ![p] = place] /\ cur' = NULL

sleep(p, c) == wchan' = [wchan EXCEPT ![p] = c] /\ cur' = NULL

wakeup(C) == wchan' = [p \in Procs |-> IF wchan[p] \in C THEN NULL ELSE wchan[p]]

Locked(s) == "ILOCK" \in i_flag[s]

\* plock() and iget() find the slot locked.
Want(p, s) ==
  /\ Locked(s)
  /\ i_flag' = [i_flag EXCEPT ![s] = @ \cup {"IWANT"}]
  /\ sleep(p, s)
  /\ UNCHANGED <<i_number, i_count, i_mode, i_nlink, dinode, free, entry, dlock,
                 pc, op, ino, ref, adr>>

\* Whom prele() wakes.
Wanted(s) == IF "IWANT" \in i_flag[s] THEN {s} ELSE {}

prele(s) ==
  /\ i_flag' = [i_flag EXCEPT ![s] = @ \ {"ILOCK", "IWANT"}]
  /\ wakeup(Wanted(s))

\* The directories that are locked when p has let go of its own.
Undo(p) == [n \in Names |-> IF dlock[n] = p THEN NULL ELSE dlock[n]]

-----------------------------------------------------------------------------
(* iget                                                                    *)

InCore(i) == {s \in Slots : i_number[s] = i}

Unused == {s \in Slots : i_count[s] = 0}

First(S) == CHOOSE s \in S : \A t \in S : s <= t

IgetLocked(p) ==
  /\ At(p, "iget") /\ InCore(ino[p]) # {}
  /\ Want(p, First(InCore(ino[p])))

\* The inode is in core.
IgetHit(p) ==
  /\ At(p, "iget") /\ InCore(ino[p]) # {}
  /\ LET s == First(InCore(ino[p])) IN
     /\ ~Locked(s)
     /\ i_count' = [i_count EXCEPT ![s] = @ + 1]
     /\ i_flag' = [i_flag EXCEPT ![s] = @ \cup {"ILOCK"}]
     /\ ref' = [ref EXCEPT ![p] = s]
  /\ Goto(p, "got")
  /\ ino' = [ino EXCEPT ![p] = 0]
  /\ UNCHANGED <<i_number, i_mode, i_nlink, dinode, free, entry, dlock,
                 op, adr, wchan>>

\* Inode table overflow: the caller gives up.
IgetFull(p) ==
  /\ At(p, "iget") /\ InCore(ino[p]) = {} /\ Unused = {}
  /\ Pause(p, "user")
  /\ op' = [op EXCEPT ![p] = "user"]
  /\ dlock' = Undo(p)
  /\ ino' = [ino EXCEPT ![p] = 0]
  /\ UNCHANGED <<itab, dinode, free, entry, ref, adr, wchan>>

\* Mutant: the slot gets its number when the inode has been read.
IgetMiss_Late(p) ==
  /\ At(p, "iget") /\ InCore(ino[p]) = {} /\ Unused # {}
  /\ LET s == First(Unused) IN
     /\ i_flag' = [i_flag EXCEPT ![s] = {"ILOCK"}]
     /\ i_count' = [i_count EXCEPT ![s] = @ + 1]
     /\ ref' = [ref EXCEPT ![p] = s]
  /\ Pause(p, "bread")
  /\ ino' = [ino EXCEPT ![p] = 0]
  /\ UNCHANGED <<i_number, i_mode, i_nlink, dinode, free, entry, dlock,
                 op, adr, wchan>>

\* A slot is taken before the inode is read.
IgetMiss(p) ==
  /\ At(p, "iget") /\ InCore(ino[p]) = {} /\ Unused # {}
  /\ LET s == First(Unused) IN
     /\ i_number' = [i_number EXCEPT ![s] = ino[p]]
     /\ i_flag' = [i_flag EXCEPT ![s] = {"ILOCK"}]
     /\ i_count' = [i_count EXCEPT ![s] = @ + 1]
     /\ ref' = [ref EXCEPT ![p] = s]
  /\ Pause(p, "bread")
  /\ ino' = [ino EXCEPT ![p] = 0]
  /\ UNCHANGED <<i_mode, i_nlink, dinode, free, entry, dlock, op, adr, wchan>>

\* bread() returns.  After an error the slot is put back with the fields of
\* whatever inode it held before.
IgetRead(p) ==
  /\ At(p, "bread")
  /\ \E error \in ReadErrors :
       \/ /\ error
          /\ Goto(p, "iput")
          /\ op' = [op EXCEPT ![p] = "error"]
          /\ UNCHANGED <<i_mode, i_nlink>>
       \/ /\ ~error
          /\ i_mode' = [i_mode EXCEPT ![ref[p]] = dinode[i_number[ref[p]]].mode]
          /\ i_nlink' = [i_nlink EXCEPT ![ref[p]] = dinode[i_number[ref[p]]].nlink]
          /\ Goto(p, "got")
          /\ UNCHANGED op
  /\ UNCHANGED <<i_number, i_flag, i_count, dinode, free, entry, dlock,
                 ino, ref, adr, wchan>>

Iget(p) == IgetLocked(p) \/ IgetHit(p) \/ IgetFull(p) \/ IgetMiss(p) \/ IgetRead(p)

-----------------------------------------------------------------------------
(* iput                                                                    *)

\* iput() returns: to ialloc()'s loop, or out of the system call, which lets
\* go of the directory it may have locked.
Returned(p) ==
  /\ IF op[p] = "retry" THEN Goto(p, "ialloc") ELSE Pause(p, "user")
  /\ op' = [op EXCEPT ![p] = IF @ = "retry" THEN "creat" ELSE "user"]
  /\ dlock' = IF op[p] = "retry" THEN dlock ELSE Undo(p)
  /\ ref' = [ref EXCEPT ![p] = 0]

IputMore(p) ==
  /\ At(p, "iput") /\ i_count[ref[p]] > 1
  /\ i_count' = [i_count EXCEPT ![ref[p]] = @ - 1]
  /\ prele(ref[p])
  /\ Returned(p)
  /\ UNCHANGED <<i_number, i_mode, i_nlink, dinode, free, entry, ino, adr>>

\* The last reference to a file without a name: itrunc() frees its blocks.
IputLast(p) ==
  /\ At(p, "iput") /\ i_count[ref[p]] = 1
  /\ i_nlink[ref[p]] <= 0
  /\ i_flag' = [i_flag EXCEPT ![ref[p]] = @ \cup {"ILOCK"}]
  /\ Pause(p, "itrunc")
  /\ UNCHANGED <<i_number, i_count, i_mode, i_nlink, dinode, free, entry, dlock,
                 op, ino, ref, adr, wchan>>

\* getfs()'s check of the count.
getfs(list) == IF Len(list) > NICINOD THEN <<>> ELSE list

ifree(i) ==
  s_inode' = IF s_ilock # 0 \/ Len(getfs(s_inode)) >= NICINOD THEN getfs(s_inode)
             ELSE Append(getfs(s_inode), i)

\* Mutant: the inode keeps its mode.
Itrunc_KeepsMode(p) ==
  /\ At(p, "itrunc")
  /\ i_flag' = [i_flag EXCEPT ![ref[p]] = @ \cup {"IUPD"}]
  /\ ifree(i_number[ref[p]])
  /\ Pause(p, "iupdat")
  /\ UNCHANGED <<i_number, i_count, i_mode, i_nlink, dinode, s_ilock, entry, dlock,
                 op, ino, ref, adr, wchan>>

\* itrunc() is done; iupdat() reads the block of the inode.
Itrunc(p) ==
  /\ At(p, "itrunc")
  /\ i_mode' = [i_mode EXCEPT ![ref[p]] = FALSE]
  /\ i_flag' = [i_flag EXCEPT ![ref[p]] = @ \cup {"IUPD"}]
  /\ ifree(i_number[ref[p]])
  /\ Pause(p, "iupdat")
  /\ UNCHANGED <<i_number, i_count, i_nlink, dinode, s_ilock, entry, dlock,
                 op, ino, ref, adr, wchan>>

\* A file that has a name is only written out.
IputUpdate(p) ==
  /\ At(p, "iput") /\ i_count[ref[p]] = 1
  /\ i_nlink[ref[p]] > 0 /\ "IUPD" \in i_flag[ref[p]]
  /\ i_flag' = [i_flag EXCEPT ![ref[p]] = @ \cup {"ILOCK"}]
  /\ s_inode' = getfs(s_inode)
  /\ Pause(p, "iupdat")
  /\ UNCHANGED <<i_number, i_count, i_mode, i_nlink, dinode, s_ilock, entry, dlock,
                 op, ino, ref, adr, wchan>>

\* Mutant: i_flag is cleared before prele() looks at IWANT.
Release_FlagFirst(p) ==
  /\ i_flag' = [i_flag EXCEPT ![ref[p]] = {}]
  /\ i_number' = [i_number EXCEPT ![ref[p]] = 0]
  /\ i_count' = [i_count EXCEPT ![ref[p]] = 0]
  /\ UNCHANGED wchan
  /\ Returned(p)

\* The slot is nobody's: prele(), i_flag = 0, i_number = 0, i_count--.
Release(p) ==
  /\ i_flag' = [i_flag EXCEPT ![ref[p]] = {}]
  /\ i_number' = [i_number EXCEPT ![ref[p]] = 0]
  /\ i_count' = [i_count EXCEPT ![ref[p]] = 0]
  /\ wakeup(Wanted(ref[p]))
  /\ Returned(p)

IputClean(p) ==
  /\ At(p, "iput") /\ i_count[ref[p]] = 1
  /\ i_nlink[ref[p]] > 0 /\ "IUPD" \notin i_flag[ref[p]]
  /\ Release(p)
  /\ UNCHANGED <<i_mode, i_nlink, dinode, free, entry, ino, adr>>

\* What iupdat() leaves on the device.
Written(s, error) ==
  IF error THEN dinode
  ELSE [dinode EXCEPT ![i_number[s]] = [mode |-> i_mode[s], nlink |-> i_nlink[s]]]

IputWritten(p) ==
  /\ At(p, "iupdat")
  /\ \E error \in ReadErrors : dinode' = Written(ref[p], error)
  /\ Release(p)
  /\ UNCHANGED <<i_mode, i_nlink, free, entry, ino, adr>>

Iput(p) ==
  IputMore(p) \/ IputLast(p) \/ Itrunc(p) \/ IputUpdate(p) \/ IputClean(p) \/ IputWritten(p)

-----------------------------------------------------------------------------
(* ialloc                                                                  *)

IallocWait(p) ==
  /\ At(p, "getfs") /\ s_ilock # 0
  /\ sleep(p, SIlock)
  /\ UNCHANGED <<itab, dinode, free, entry, dlock, pc, op, ino, ref, adr>>

\* loop: reached past the lock, or from iput() without looking at it.
InLoop(p) == (At(p, "getfs") /\ s_ilock = 0) \/ At(p, "ialloc")

\* The last number that may be given to a file; 0 if there is none.
Top ==
  LET ok == {i \in DOMAIN s_inode : s_inode[i] >= ROOTINO} IN
  IF ok = {} THEN 0 ELSE CHOOSE i \in ok : \A j \in ok : j <= i

IallocPop(p) ==
  /\ InLoop(p) /\ Top > 0
  /\ ino' = [ino EXCEPT ![p] = s_inode[Top]]
  /\ s_inode' = SubSeq(s_inode, 1, Top - 1)
  /\ Goto(p, "iget")
  /\ UNCHANGED <<itab, dinode, s_ilock, entry, dlock, op, ref, adr, wchan>>

IallocScan(p) ==
  /\ InLoop(p) /\ Top = 0
  /\ s_inode' = <<>>
  /\ s_ilock' = s_ilock + 1
  /\ adr' = [adr EXCEPT ![p] = 1]
  /\ Pause(p, "scan")
  /\ UNCHANGED <<itab, dinode, entry, dlock, op, ino, ref, wchan>>

Passed(i) == dinode[i].mode \/ InCore(i) # {}

LastIn(a) == IF a * INOPB < Inodes THEN a * INOPB ELSE Inodes

\* The list, and whether it is full, when inode i has been looked at.  A number
\* is added before the limit is tested; one that does not fit lengthens the
\* list here, while in the super block it also lands on s_flock and s_ilock,
\* which the model leaves as they are.
Looked(r, i) ==
  IF r.full \/ Passed(i) THEN r
  ELSE [list |-> Append(r.list, i), full |-> Len(r.list) + 1 >= NICINOD]

\* The list with the free inodes of block a added.
Scanned(a, error) ==
  LET after[i \in 0 .. Inodes] ==
        IF i <= (a - 1) * INOPB THEN [list |-> s_inode, full |-> FALSE]
        ELSE Looked(after[i - 1], i)
  IN IF error THEN s_inode ELSE after[LastIn(a)].list

\* Mutant: adr <= fp->s_isize.
More_Beyond(a, error) ==
  a \in Adrs /\ (error \/ Len(Scanned(a, error)) < NICINOD)

\* There are more blocks to look at.
More(a, error) ==
  a + 1 \in Adrs /\ (error \/ Len(Scanned(a, error)) < NICINOD)

\* bread() of a block returns, and it is not the last one to be looked at.
ScanBlock(p) ==
  /\ At(p, "scan")
  /\ \E error \in ReadErrors :
       More(adr[p], error) /\ s_inode' = Scanned(adr[p], error)
  /\ adr' = [adr EXCEPT ![p] = @ + 1]
  /\ UNCHANGED <<itab, dinode, s_ilock, entry, dlock, pc, op, ino, ref, cur, wchan>>

\* The scan is over, and it or another one has found something, or not.
ScanDone(p) ==
  /\ At(p, "scan")
  /\ \E error \in ReadErrors :
       ~More(adr[p], error) /\ s_inode' = Scanned(adr[p], error)
  /\ s_ilock' = 0
  /\ wakeup({SIlock})
  /\ adr' = [adr EXCEPT ![p] = 0]
  /\ IF s_inode' # <<>>
     THEN Goto(p, "ialloc") /\ UNCHANGED <<op, dlock>>
     ELSE Pause(p, "user") /\ op' = [op EXCEPT ![p] = "user"] /\ dlock' = Undo(p)
  /\ UNCHANGED <<itab, dinode, entry, ino, ref>>

Ialloc(p) == IallocWait(p) \/ IallocPop(p) \/ IallocScan(p) \/ ScanBlock(p) \/ ScanDone(p)

-----------------------------------------------------------------------------
(* System calls                                                            *)

Enter(p, n, call) ==
  /\ At(p, "user") /\ ref[p] = 0 /\ dlock[n] = NULL
  /\ op' = [op EXCEPT ![p] = call]

\* namei() finds the entry and lets go of the directory before it calls iget().
Open(p, n) ==
  /\ Enter(p, n, "open")
  /\ Pause(p, "iget")
  /\ entry[n] # 0
  /\ ino' = [ino EXCEPT ![p] = entry[n]]
  /\ UNCHANGED <<itab, dinode, free, entry, dlock, ref, adr, wchan>>

\* namei() finds it for unlink() and keeps the directory locked.
Unlink(p, n) ==
  /\ Enter(p, n, "unlink")
  /\ Goto(p, "iget")
  /\ entry[n] # 0
  /\ ino' = [ino EXCEPT ![p] = entry[n]]
  /\ dlock' = [dlock EXCEPT ![n] = p]
  /\ UNCHANGED <<itab, dinode, free, entry, ref, adr, wchan>>

\* namei() does not find it and returns with the directory locked.
Creat(p, n) ==
  /\ Enter(p, n, "creat")
  /\ Goto(p, "getfs")
  /\ entry[n] = 0
  /\ dlock' = [dlock EXCEPT ![n] = p]
  /\ s_inode' = getfs(s_inode)
  /\ UNCHANGED <<itab, dinode, s_ilock, entry, ino, ref, adr, wchan>>

\* open1(): access() is granted.
Opened(p) ==
  /\ At(p, "got") /\ op[p] = "open" /\ i_mode[ref[p]]
  /\ prele(ref[p])
  /\ Pause(p, "user")
  /\ op' = [op EXCEPT ![p] = "user"]
  /\ UNCHANGED <<i_number, i_count, i_mode, i_nlink, dinode, free, entry, dlock,
                 ino, ref, adr>>

\* The file was removed and freed between namei() and iget().
OpenRefused(p) ==
  /\ At(p, "got") /\ op[p] = "open" /\ ~i_mode[ref[p]]
  /\ Goto(p, "iput")
  /\ op' = [op EXCEPT ![p] = "user"]
  /\ UNCHANGED <<itab, dinode, free, entry, dlock, ino, ref, adr, wchan>>

\* Mutant: ialloc() does not look at the mode.
Taken_Never(p) == FALSE

\* Inode was allocated after all.
Taken(p) == i_mode[ref[p]]

CreatTaken(p) ==
  /\ At(p, "got") /\ op[p] = "creat" /\ Taken(p)
  /\ Goto(p, "iput")
  /\ op' = [op EXCEPT ![p] = "retry"]
  /\ UNCHANGED <<itab, dinode, free, entry, dlock, ino, ref, adr, wchan>>

\* maknode() has its inode; wdir() writes the directory.
Maknode(p) ==
  /\ At(p, "got") /\ op[p] = "creat" /\ ~Taken(p)
  /\ i_flag' = [i_flag EXCEPT ![ref[p]] = @ \cup {"IUPD"}]
  /\ i_mode' = [i_mode EXCEPT ![ref[p]] = TRUE]
  /\ i_nlink' = [i_nlink EXCEPT ![ref[p]] = 1]
  /\ Pause(p, "wdir")
  /\ UNCHANGED <<i_number, i_count, dinode, free, entry, dlock,
                 op, ino, ref, adr, wchan>>

\* The entry is written and the directory let go; creat() opens the file.
Wdir(p) ==
  /\ At(p, "wdir")
  /\ entry' = [n \in Names |-> IF dlock[n] = p THEN i_number[ref[p]] ELSE entry[n]]
  /\ dlock' = Undo(p)
  /\ prele(ref[p])
  /\ Pause(p, "user")
  /\ op' = [op EXCEPT ![p] = "user"]
  /\ UNCHANGED <<i_number, i_count, i_mode, i_nlink, dinode, free, ino, ref, adr>>

\* unlink() has the inode; writei() clears the entry.
UnlinkStart(p) ==
  /\ At(p, "got") /\ op[p] = "unlink"
  /\ Pause(p, "unlink")
  /\ UNCHANGED <<itab, dinode, free, entry, dlock, op, ino, ref, adr, wchan>>

Unlinked(p) ==
  /\ At(p, "unlink")
  /\ entry' = [n \in Names |-> IF dlock[n] = p THEN 0 ELSE entry[n]]
  /\ i_nlink' = [i_nlink EXCEPT ![ref[p]] = @ - 1]
  /\ i_flag' = [i_flag EXCEPT ![ref[p]] = @ \cup {"IUPD"}]
  /\ op' = [op EXCEPT ![p] = "user"]
  /\ Goto(p, "iput")
  /\ UNCHANGED <<i_number, i_count, i_mode, dinode, free, dlock, ino, ref, adr, wchan>>

\* rdwr() and closef() lock the file's inode.
HasFile(p) == At(p, "user") /\ ref[p] # 0

PlockWait(p) == HasFile(p) /\ Want(p, ref[p])

plock(p) ==
  /\ HasFile(p) /\ ~Locked(ref[p])
  /\ i_flag' = [i_flag EXCEPT ![ref[p]] = @ \cup {"ILOCK"}]
  /\ UNCHANGED <<i_number, i_count, i_mode, i_nlink, dinode, free, entry, dlock,
                 op, ino, ref, adr, wchan>>

Rdwr(p)  == plock(p) /\ Pause(p, "rdwr")
Close(p) == plock(p) /\ Goto(p, "iput")

\* readi() and writei() mark the inode, unless they are asked for nothing.
RdwrDone(p) ==
  /\ At(p, "rdwr")
  /\ \E marks \in SUBSET {"IUPD"} :
       i_flag' = [i_flag EXCEPT ![ref[p]] = (@ \cup marks) \ {"ILOCK", "IWANT"}]
  /\ wakeup(Wanted(ref[p]))
  /\ Pause(p, "user")
  /\ UNCHANGED <<i_number, i_count, i_mode, i_nlink, dinode, free, entry, dlock,
                 op, ino, ref, adr>>

updlock == \E p \in Procs : op[p] = "update"

\* update() comes to a slot that is in use and not locked.
Update(p, s) ==
  /\ At(p, "user") /\ ref[p] = 0 /\ ~updlock
  /\ ~Locked(s) /\ i_count[s] # 0
  /\ i_flag' = [i_flag EXCEPT ![s] = @ \cup {"ILOCK"}]
  /\ i_count' = [i_count EXCEPT ![s] = @ + 1]
  /\ ref' = [ref EXCEPT ![p] = s]
  /\ op' = [op EXCEPT ![p] = "update"]
  /\ IF "IUPD" \in i_flag[s]
     THEN Pause(p, "update") /\ s_inode' = getfs(s_inode)
     ELSE Goto(p, "iput") /\ UNCHANGED s_inode
  /\ UNCHANGED <<i_number, i_mode, i_nlink, dinode, s_ilock, entry, dlock, ino, adr, wchan>>

\* iupdat() has written the inode.
Updated(p) ==
  /\ At(p, "update")
  /\ \E error \in ReadErrors :
       /\ dinode' = Written(ref[p], error)
       /\ i_flag' = [i_flag EXCEPT ![ref[p]] = IF error THEN @ ELSE @ \ {"IUPD"}]
  /\ Goto(p, "iput")
  /\ UNCHANGED <<i_number, i_count, i_mode, i_nlink, free, entry, dlock,
                 op, ino, ref, adr, wchan>>

-----------------------------------------------------------------------------
User(p) ==
  \/ \E n \in Names : Open(p, n) \/ Creat(p, n) \/ Unlink(p, n)
  \/ Rdwr(p) \/ Close(p)
  \/ \E s \in Slots : Update(p, s)

Kernel(p) ==
  \/ Iget(p) \/ Iput(p) \/ Ialloc(p)
  \/ Opened(p) \/ OpenRefused(p) \/ CreatTaken(p) \/ Maknode(p) \/ Wdir(p)
  \/ UnlinkStart(p) \/ Unlinked(p) \/ PlockWait(p) \/ RdwrDone(p) \/ Updated(p)

Next == \E p \in Procs : User(p) \/ Kernel(p)

Spec == Init /\ [][Next]_vars

-----------------------------------------------------------------------------
(* Properties                                                              *)

Places == {"user", "iget", "bread", "got", "iput", "itrunc", "iupdat", "getfs", "ialloc", "scan",
           "wdir", "unlink", "rdwr", "update"}

Calls == {"user", "open", "creat", "unlink", "retry", "error", "update"}

\* The variables have their types.
TypeOK ==
  /\ i_number \in [Slots -> 0 .. Inodes]
  /\ i_flag \in [Slots -> SUBSET {"ILOCK", "IWANT", "IUPD"}]
  /\ i_count \in [Slots -> Nat]
  /\ i_mode \in [Slots -> BOOLEAN]
  /\ i_nlink \in [Slots -> Int]
  /\ dinode \in [Inos -> [mode : BOOLEAN, nlink : Int]]
  /\ s_inode \in Seq(Inos) /\ s_ilock \in Nat
  /\ entry \in [Names -> 0 .. Inodes]
  /\ dlock \in [Names -> Procs \cup {NULL}]
  /\ pc \in [Procs -> Places] /\ op \in [Procs -> Calls]
  /\ ino \in [Procs -> 0 .. Inodes]
  /\ ref \in [Procs -> 0 .. NINODE]
  /\ adr \in [Procs -> Adrs \cup {0}]
  /\ cur \in Procs \cup {NULL}
  /\ wchan \in [Procs -> Slots \cup {SIlock, NULL}]

Users(s) == {p \in Procs : ref[p] = s}

\* "There is a unique inode allocated for each active file" (inode.h:3): no
\* inode is in two slots, a slot has a number as long as somebody refers to
\* it, and its count is the number of those who do, although iget() sleeps
\* between its search and its return, and iput() before it clears the slot.
SlotsExact ==
  /\ \A s, t \in Slots : i_number[s] = i_number[t] /\ i_number[s] # 0 => s = t
  /\ \A s \in Slots : i_count[s] = Cardinality(Users(s)) /\ (i_count[s] > 0 <=> i_number[s] # 0)

\* The processes that have locked the slot they refer to.
Lockers(s) ==
  {p \in Users(s) : pc[p] \in {"bread", "got", "iput", "itrunc", "iupdat", "wdir", "unlink",
                               "rdwr", "update"}}

\* A slot is locked exactly while one process works on it, and a process that
\* sleeps for the lock has left IWANT behind.  A process that sleeps for the
\* list of inodes sleeps while somebody scans.
LockExact ==
  /\ \A s \in Slots : Cardinality(Lockers(s)) = (IF Locked(s) THEN 1 ELSE 0)
  /\ \A p \in Procs : wchan[p] \in Slots => {"ILOCK", "IWANT"} \subseteq i_flag[wchan[p]]
  /\ \A p \in Procs : wchan[p] = SIlock => s_ilock # 0 /\ \E q \in Procs : pc[q] = "scan"

\* The slot that knows more of an inode than the device does.
Loaded(i) == {s \in InCore(i) : \A p \in Users(s) : pc[p] # "bread" /\ op[p] # "error"}

ModeOf(i) == IF Loaded(i) = {} THEN dinode[i].mode ELSE i_mode[First(Loaded(i))]

NlinkOf(i) == IF Loaded(i) = {} THEN dinode[i].nlink ELSE i_nlink[First(Loaded(i))]

\* The new inodes maknode() has not entered in their directory yet.
Newborn == {i_number[ref[p]] : p \in {q \in Procs : pc[q] = "wdir"}}

\* An inode that a directory names is allocated, has the link that says so, and
\* is named once: no file is freed and no inode given to a second file while
\* it has a name, however stale the numbers in s_inode are, and whoever still
\* looks for the file by the number it had.
FileKept ==
  /\ \A n \in Names : entry[n] # 0 => ModeOf(entry[n]) /\ NlinkOf(entry[n]) = 1
  /\ \A n, m \in Names : entry[n] = entry[m] /\ entry[n] # 0 => n = m
  /\ \A n \in Names : entry[n] \notin Newborn

\* "On the last reference, write the inode out and if necessary, truncate and
\* deallocate the file" (iget.c:118): an inode that nobody names or refers to
\* is free on the device, where ialloc()'s scan will find it.
Reclaimed ==
  \A i \in ROOTINO .. Inodes :
    (\A n \in Names : entry[n] # i) /\ InCore(i) = {} => ~dinode[i].mode

\* "The algorithm keeps up to NICINOD spare I nodes in the super block"
\* (alloc.c:137), and s_inode has room for no more.
ListFits == Len(s_inode) <= NICINOD
=============================================================================
