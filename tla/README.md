# A verification of the Seventh Edition kernel

The repository collects Unix sources: the Seventh Edition for the PDP-11, its
x86 port, the Eighth Edition, 4.3BSD Reno and System V Release 4. This project
is about one program in it, the kernel of the Seventh Edition,
`src/Unix_Research_v7_Prebuilt/usr/sys` (`sys/`, `dev/` and `h/` below are its
directories). It is the system whose core logic is small enough to be modelled
line by line and subtle enough to deserve it: a kernel without preemption, in
which every `sleep()` gives the processor away and every stretch of code that
is not at a raised priority can be cut by an interrupt. Its correctness rests
on which few lines stand between a test and a use.

## 1. Inventory

| component | state | operations | what is hard | what makes it correct |
|---|---|---|---|---|
| buffer cache, `dev/bio.c` | buffer headers, the available list, the device queues | `getblk geteblk bread breada bwrite bawrite bdwrite brelse iowait iodone bflush` | processes and `iodone()` at interrupt level share flags and lists; a buffer is used after it was given to the driver; delayed writes; errors nobody waits for | a block is in one buffer at most; a busy buffer has one holder; nothing written is lost; sleepers are woken |
| sleeping and scheduling, `sys/slp.c` | `p_stat p_wchan p_link`, `slpque`, `runq`, `runin`, `runout` | `sleep wakeup setrun setrq swtch qswtch sched swapin` | one link field for two kinds of queue; `wakeup()` calls itself; signals race with interrupts; the swapper sleeps on flags | queues are exact; nobody runnable is lost; the swapper is awake when there is work |
| pipes, `sys/pipe.c` | `i_size i_mode i_flag i_count`, the read offset | `readp writep plock prele`, `closef` | locks dropped before sleeping; large writes interleave; signals, closes, partial transfers | a bounded FIFO; end of file only after the last byte |
| space maps, `sys/malloc.c` | `coremap`, `swapmap` | `malloc mfree` | in-place moves, the end of the list is never rewritten | no unit lost or given twice; holes joined |
| callouts, `sys/clock.c` | the callout table | `timeout`, `clock` | the clock interrupts itself while the table is being moved | functions are called, never early |
| inode table, `sys/iget.c` | `inode[]`, locks and counts | `iget iput iupdat itrunc maknode` | every operation sleeps in the middle; fields left over from the inode a slot held before | one slot per inode; a file is freed at its last reference and not before |
| free lists, `sys/alloc.c` | the super block | `alloc free ialloc ifree update` | `s_flock` and `s_ilock` held over sleeps; two scans of the inode list | a block or inode is free or in use, never both |
| files, `sys/fio.c`, `sys/sys2.c` | `file[]`, descriptors | `falloc closef openi dup` | counts shared by `fork` | counts equal references |
| processes, `sys/sys1.c`, `sys/sys4.c` | `proc[]` | `fork exit wait kill` | a parent that waits while the child exits | every zombie is collected once |
| signals and tracing, `sys/sig.c` | `p_sig`, `ipc` | `psignal issig psig stop ptrace procxmt` | the tracing protocol over one shared `ipc` | a command reaches the child it is meant for |
| shared texts, `sys/text.c` | `text[]` | `xalloc xfree xlock xswap xccdec` | two counts, a lock held over swaps | a text in use is neither freed nor missing |
| character lists and terminals, `sys/prim.c`, `dev/tty.c` | clists, tty queues and states | `getc putc`, `ttyinput canon ttwrite` | interrupt and process share queues; high and low water | characters in order, writers restarted |
| packet driver, `dev/pk*.c` | windows | `pkread pkwrite pkxstart` | lost and reordered packets | in-order delivery |
| raw I/O and swapping I/O, `dev/bio.c` | `swbuf1 swbuf2`, raw headers | `swap physio` | headers reused piece by piece while others wait | headers have one user |

How they meet: everything sleeps and wakes through `sys/slp.c`; pipes, inodes
and the free lists call the cache (`bread`, `getblk`, `bdwrite`), which calls a
driver's strategy routine and is called back by `iodone()`; the swapper takes
core from `coremap` and is woken by `mfree()`, `setrun()`, `sleep()` and the
clock; terminals use callouts and character lists.

`PROJECT.json` lists every component with its status, and the hazards with the
line where each one bites.

## 2. Modules

One module per component. Control is kept: every test, early return, flag and
the order of assignments. Data is reduced to what the properties distinguish.
Between two points where the processor or the priority level can change hands,
code is one action; where an interrupt can come in between and matters, it is
split there.

| module | what it is |
|---|---|
| `Bio` | the buffer cache |
| `Slp` | sleep, wakeup, the run queue and the swapper |
| `Channel` | what a pipe promises: a bounded FIFO with two sides |
| `Pipe` | the pipe, shown to implement `Channel` |
| `Malloc` | the first-fit maps |
| `Callout` | `timeout()` and the callout part of `clock()` |
| `Alloc` | the chain of free blocks and the writing of the super block |
| `Inode` | the inode table, the list of free inodes, and the calls that use them |
| `Proc` | processes: fork, exit, wait, signals and tracing |
| `BioProofs SlpProofs AllocProofs InodeProofs ProcProofs PipeProofs MallocProofs CalloutProofs` | theorems about these modules (section 5) |
| `MCBio MCSlp MCPipe MCMalloc MCCallout MCAlloc MCInode MCProc` | instances for TLC |

The modules meet at stated borders. `Inode` takes from `Bio` that the cache is
coherent (`CacheCoherent`) and that a call on it returns (`CallsReturn`): a call
of `bread()` is a point where others may run, and its result is the device's
inode. `Alloc` and `Inode` take the two halves of `alloc.c`; each leaves the
other's list alone. `Pipe` and `Inode` share `plock()` and `prele()`. `Proc`
takes from `Slp` that a process that is set running runs, and has every sleeper
in `wait()` or `ptrace()` as a place of its program.

### Bio

State: the fields of `struct buf` as functions of the buffer (`b_flags`,
`b_blkno`, contents), the available list as a sequence, the transfers the
device has, and for each process where it is, the channel it sleeps on and the
buffers it holds. `cur` is the process that has the processor, or `NULL` at a
point where another one may be chosen. A process may be anywhere in `getblk()`,
`geteblk()`, `bread()`, `breada()`, `bwrite()` or `bflush()`; a device interrupt
(`Interrupt`) may come whenever the priority allows it, in particular between
`getblk()`'s search and its `spl6()` (`GetblkFound` and what follows), and
between the strategy call and what `bwrite()` does to the flags afterwards
(`SetAge`, `BawriteGeterror`). A device number and a block number are one value.
The contents of a block are a value; `latest` and `disk` remember what was last
written and what the device has, for the properties.

Left out: `swap()`, `physio()`, the DISKMON counters, the byte counts.

### Slp

State: the fields of `struct proc` the queues depend on, the two kinds of list
as the code has them, linked through the one `p_link`, and the calls of
`wakeup()` in progress as a stack: `wakeup()` runs at `spl6`, one step of its
loop at a time, and `setrun()` calls it again for the swapper. `psignal()` and
`setrun()` run at `spl0` (or in the clock's `spl1`), so each of their tests is a
step of its own and any interrupt may come in between. The swapper's loop is
cut where it changes priority or sleeps.

`sched()` picks by `p_time - (p_nice - NZERO) * 8`, and `p_time` stops at 127
(`sys/clock.c:119`). The model has two kinds of process, which `nice()` changes
between: ordinary ones, with `p_nice` at `NZERO`, and niced ones, with `p_nice`
near the 39 that is its limit, whose score is below 0 whatever their `p_time`.
Among processes of one kind the one out longest is picked (`out` is the order
of swapping out); an ordinary one goes before every niced one; and a niced one
never has the outage of 3 that takes core from a process that is not easy to
swap out.

Left out: `newproc()` (in `Proc`), `expand()`, the ageing of priorities, niceness
between the two kinds, and ties of `p_time` (within one second, or at 127),
which the code settles by the order of the table. When an ordinary process
waits and none is easy to swap out, which one goes is left open, with "none" as
a choice: the counting of `inage` is not kept.

### Pipe and Channel

State: the inode's `i_size`, `i_mode`, `i_flag`, `i_count`, the shared read
offset, the bytes in the file, and for each process its place in `readp()`,
`writep()` or `closef()`. Bytes are named by writer, call and position, so that
order, loss and interleaving are visible. `readi()` and `writei()` sleep with
the inode locked; for the processes in `Faults` they may move only a part. A
`writei()` that fails leaves the size behind all bytes it has moved, but
releases the block it was in without marking it for writing
(`sys/rdwri.c:116`): a byte of the model also says whether it was kept, and for
those that were not the reader may get what the block held before. A signal may
end any sleep at `PPIPE`. The refinement mapping takes the bytes between the
offset and the size as the channel's queue, kept or not: what is promised is
their order, their number and that they come once, and for the ones that were
kept, their value. The channel's capacity is `2 * PIPSIZ - 1`, what the test at
`sys/pipe.c:157` allows; the comment at `sys/pipe.c:9` calls `PIPSIZ` also the
maximum size of the file.

### Malloc

The array of `(m_addr, m_size)` pairs including what is behind the end of the
list, because neither routine writes a new end: the correctness of an insertion
depends on what earlier removals left there. `malloc()` and `mfree()` do not
sleep and are not called from interrupts; each is one action. `mfree()`'s
waking of the swapper belongs to `Slp`.

Nothing tests whether the array has room. When every entry is a hole, no size of
0 is left in the array to end the list, and the next search or move that looks
for it goes on in the memory behind. `RunOff` is that step: it sets `lost`, and
nothing more happens, since what lies behind the array is not the map's. The
properties hold up to there, and `WellFormed` says exactly how far that is: no
loop leaves the array before every entry of it is a hole. The kernel's arrays
have 50 entries for up to 150 processes, and the comment at `sys/malloc.c:9`
("the list is terminated by a 0 size") depends on their not being used up.

### Callout

The table with relative times, `clock()`'s two pointers, and `left`, the ticks
each function still has, kept only for the properties. A clock interrupt that
finds the processor at priority 0 counts, calls what is due and closes the gap;
one that finds it higher (including `clock()` itself at `spl5`) only counts.
Moving an entry is two steps, function and time, as in the code. The module
assumes that the clock interrupts one move of the table at most once: the loop
takes microseconds and a tick is a sixtieth of a second. With two interrupts in
one move the nested `clock()` can count down an entry that was already copied,
and the function behind it is a tick late.

`TimeoutOverrun` is the step in which a full table is added to in front of its
end. The model's array has one entry more than the table, `callout[NCALL]`, for
what is stored there: the list is still right after that step, and its end is
behind the table. What the memory was, and what follows, is not modelled
(section 4).

### Alloc

State: the super block's group `s_free`, `s_flock` and `s_fmod`, the group each
link block holds, the blocks of files, and for each process the block it gets
or gives. `alloc()` and `free()` are cut at `bread()`, `getblk()` and
`bwrite()`, `update()` at `getblk()` and `bwrite()`. `links` (the links from
first to last) and `lost` (what hung on a link that could not be read) are
history, kept for the properties. `super` is the group in the disk's super
block as `update()` last wrote it, which in the middle of an exchange is an
empty one. A garbage file system, which `badblock()` is there for,
is a super block that names a block out of range.

Left out: `s_ronly`, a failing write of the super block, `s_ilock` (see
`Inode`).

### Inode

State: the slots of the table, the inodes on the device, `s_inode` and
`s_ilock`, one directory entry per name with the lock of its directory, and for
each process its place and the slot it refers to. The calls are open, creat of
a new file, unlink, read or write, close, and `update()`'s pass over the
inodes; each is cut wherever it may sleep. `cur` is the process that has not
slept since its last step: what lies between two of its steps is not
interrupted, as the kernel does not preempt itself. `ialloc()`'s return to
`loop:` past the test of `s_ilock`, `iput()`'s wakeup before it clears the
slot, and `namei()`'s letting go of the directory before `iget()` are kept as
the code has them.

Left out: `link()` and directories as files (a name is an entry of a directory
of its own), mounted-on inodes, creat of a file that exists, a `falloc()` that
fails, failing writes of directories, `s_ronly`, and the super-user, whose
`access()` is granted on a freed inode as well. A number that does not fit into
`s_inode` lands in `s_flock` and `s_ilock`, which follow it; the model keeps the
number at the end of the list and leaves the locks alone.

### Proc

State: the process table, `mpid`, the `ipc` structure, and for each process its
place: in user mode, in `newproc()` while the image is swapped out (the new
process then sleeps in its parent's place), in `wait()`, `exit()`, `stop()`, or
in one of `ptrace()`'s two loops. `newproc()`'s search for a number is written
as the number it finds. What procxmt() is told is one of access (requests 1 to
6), continue (7 and 9), exit (8); the error result of an access counts as done.
A signal is caught or ends the process. There is one terminal, with its
`t_pgrp`: `ttyopen()` by a process without a group joins that group or makes
one, and `ttyclose()`, by a process in a group, forgets it. `revived` is history: the
numbers of groups that had no members left when a process joined them through
the terminal.

Left out: user identities and the limits per user, ignored signals, `exec()`,
memory images and core dumps, who has the terminal open (any process in a
group may be the last to close it), and the groups of the packet driver and of the
multiplexor (`dev/mx1.c:395`), which are made in the same way. Signals
of a process that is in `exit()` are dropped at once; the code keeps them in
`p_sig`, where nothing looks at them any more.

## 3. Runs

| run | instance | properties |
|---|---|---|
| `bio_safety` | 2 processes, 2 buffers, 2 blocks (one on tape), all entry points, failing transfers, 2 calls each | `TypeOK FreeListExact OneHolder UniqueBlock NoLostWakeup CacheCoherent NoLostWrite OwnedStable` |
| `bio_live` | 2 processes that hold up to 2 of 3 buffers, 2 blocks, `bread breada geteblk bdwrite`, 2 calls each | `CallsReturn` |
| `bio_getblk_gap` | as `bio_safety`, asynchronous errors | `GetblkReturnsBlock`, violated |
| `slp_queues` | 2 processes (one traced) that may be niced, 2 channels, core for one | `TypeOK QueuesExact SchedAwake WakesAll SwappedIn` |
| `slp_shared_queue` | 3 processes, core for two, the channel hashes with `&runout` | `RunQueueExact`, violated |
| `pipe_channel` | 2 readers, 2 writers, `PIPSIZ` 2, reads of 2 bytes, writes of 2 and 3, signals, faults of one reader and one writer, one call each | `WellFormed NoLostWakeup EofComplete Contiguous Implements CallsReturn` |
| `malloc_map` | 10 units, 4 entries, requests of 1 to 4 | `WellFormed Conserved NeverRefused` |
| `callout_table` | 3 functions, times 1 to 3, 5 entries | `TableExact NeverEarly Called` |
| `alloc_chain` | 3 processes, 4 blocks and a bad one, groups of 2, unreadable links | `TypeOK LockExact Conserved SuperSaved` |
| `inode_table` | 3 processes, 2 names, 2 slots, 4 inodes in blocks of 2, room for one number in the super block | `TypeOK SlotsExact LockExact FileKept Reclaimed` |
| `inode_list` | the same with 3 inodes and room for 2 numbers | `ListFits`, violated |
| `proc_life` | 5 slots, numbers 1 to 5, 5 forks, 1 terminal, 2 traced slots, 1 signal | `TypeOK PidsUnique Family NoLostDeath TraceServed` |

What the new properties are about. `QueuesExact`, `WellFormed` and `TableExact`
are conjunctions of named parts. `Implements` is the refinement of `Channel`,
which contains that no place is lost, repeated or out of order and that the pipe
is bounded. `Conserved` of
`Alloc`: a block is once in the chain, in one file, in one process's hands, or
lost with an unreadable link. `SuperSaved`: when `s_fmod` is off and nobody is
between changing the list and marking it, the disk's super block has the group
that is in core, or that is empty and what the disk has was lost with an
unreadable link. `update()` may have copied the group in the middle of an
exchange, an `s_nfree` of 0 that leads to no free block; the exchange marks the
super block at its end, and the next `update()` writes it again. A crash before
that leaves a file system without free blocks.
`FileKept`: an inode that a directory names is allocated and belongs to that
name alone, however stale the numbers in `s_inode` are. `Reclaimed`: what nobody
names or refers to is free on the device. `NoLostDeath` and `Family`: whichever
way a process came by a child, it does not sleep in `wait()` while that child is
dead, and a child whose parent exits is not left stopped. `TraceServed`: a
tracer that slept for the `ipc` lock uses what it found before, and that is
still true. `PidsUnique` excepts the groups in `revived`: without the exception
TLC reports a process that has joined a group whose number another process has.

Why the bounds are enough. Two processes and two buffers give every contest the
cache has: for a block, for a buffer, for the list, with a transfer of a third
party under way; a third actor is the device. A pipe of two bytes with calls of
three bytes needs a loop in `writep()` and fills up; two readers and two writers
contend for the lock and for the data. Two processes and the swapper share every
queue, and core for one of them keeps the swapper moving images; three are
needed only for the defect. Ten units can have five holes and one of the four
entries is needed for the end, so that the array fills up, after insertions at
the front, the middle and the end. Five callout entries with three functions are
enough for functions that ask for themselves again while earlier entries are
still in the table. Three processes are needed in `Alloc` for one that exchanges
the group, one that sleeps for it and one that syncs; groups of two make every
second call an exchange. Three processes on two slots and three inodes for files
overflow the table, meet two scans under way, and find numbers in `s_inode` that
have been used since. Five numbers for five slots make `mpid` wrap and find
every kind of number in use; the sets `Traced`, `Signalled`, `Forkers`,
`Openers`, `Closers` and `Swappers` say which slots do what, so that a tracer, a
traced child, a grandchild and a group exist together. Deadlock is checked in
`slp_queues`, `alloc_chain` and `inode_table`; the others bound the number of
calls, may stop in `panic()` or behind an array, or, in `proc_life`, may come to
the wait that section 4 describes.

Fairness, and why the code justifies it. `Bio`: a process that is awake goes on,
and a transfer ends (a driver retries ten times and then reports an error).
`Slp`: `wakeup()` ends, the processor goes on, devices finish; the clock sets
`runrun` every second, so a process that keeps leaving its system calls gives
way (strong fairness of `Qswtch`); the clock wakes the swapper every second
(`Second`). While the swapper works for a process that is not niced, `p_time`
grows every second on both sides, so sooner or later `outage` is 3 and some
`inage` 2, and a process goes (strong fairness of `SchedScan`'s finding one);
for a niced process nothing is assumed, and `SwappedIn` does not speak of it.
`Pipe`: a process that is awake in the kernel goes on, and a process that has a
side open sooner or later uses it or closes it (`exit()` closes what is left
open). `Callout`: the clock goes on and finds the processor at priority 0, and
functions return.

`bio_live` has one buffer more than processes because it needs it: `breada()`
keeps its first buffer while `getblk()` waits for a second, and `incore()` is
tested before the wait. A process may enter a call with a buffer in hand, so
the two processes do empty the free list and sleep on it, in `getblk()` and in
`geteblk()`, and a delayed write has to be pushed out before its buffer can be
had. With as many processes in `breada()` as buffers all of them wait for each
other, and TLC reports it. `NBUF` is 29 in this configuration and `NPROC` 150:
nothing in the code excludes it.

## 4. What the model showed about the code

* **`getblk()` can return a buffer of no device** (`bio_getblk_gap`). The search
  compares `b_blkno` and `b_dev` at priority 0 and tests `B_BUSY` after `spl6()`
  (`dev/bio.c:257`). If the block's asynchronous transfer fails in between,
  `iodone()` releases the buffer and `brelse()` sets `b_dev = NODEV`.
* **`wakeup()` can cut the run queue** (`slp_shared_queue`). The outer loop's `q`
  may be moved to the run queue by the `wakeup(&runout)` inside `setrun()` when
  the two channels share one of the 64 sleep queues (`sys/slp.c:100`).
* **Two scans overfill the list of free inodes** (`inode_list`). `ialloc()` goes
  back to `loop:` after `iput()` without testing `s_ilock` (`sys/alloc.c:178`)
  and stores a number before it tests the limit (196). One number too many lands
  in `s_flock` and `s_ilock`, which follow `s_inode` in `struct filsys`; the
  next `getfs()` finds `s_ninode > NICINOD` and zeroes both counts, and the list
  of free blocks is lost with it.

Without a run of their own:

* **`timeout()` can write behind its table.** The test for a full table looks at
  the place of the new entry (`sys/clock.c:169`). When the table is full and the
  entry belongs in front of others, the end of the list moves behind the table,
  and the panic is not reached (`TimeoutOverrun`), although the comment at
  `sys/clock.c:151` has it for the case that "an entry won't fit".
  `callout_table` shows that this is the only way out of the table: `Contained`.
* **A map can be full.** `sys/malloc.c:9` says that "the list is terminated by a 0
  size". With as many holes as entries it is not, and nothing tests for it
  (`RunOff`); `malloc_map` reaches the state.
* **A niced process can stay out of core for ever.** The comment at
  `sys/slp.c:210` says "of users ready, select one out longest"; the code takes 8
  seconds per unit of niceness off the time, which stops at 127. With all of
  `Waiting` in `SwappedIn` TLC reports it violated.
* **A terminal can bring back a dead group's number.** `newproc()` skips numbers of
  processes and of their groups (`sys/slp.c:446`), but not the `t_pgrp` of a
  terminal. When the group has died and its number was given to a process
  elsewhere, the next process that opens the terminal is put into a group of
  that number (`dev/tty.c:74`).
* **A write that faults can leave old bytes in a pipe.** `writei()` moves the size
  over what it has copied and then releases the block without marking it
  (`sys/rdwri.c:116`); if the buffer is used for something else before it is
  read, the reader gets what was on the disk.
* **A read error in `iget()` can free a file.** `iput()` is then called on a slot
  with the `i_nlink` of the inode it held before (`sys/iget.c:82`); if that was
  0 and the error does not come again, the file is truncated and its number
  freed. With `ReadErrors = {FALSE, TRUE}` TLC reports `FileKept` violated. `SlotsExact`
  and `LockExact` do not depend on what is read.
* **`wait()` can wait for what only the waiter could do.** A child that is
  stopped and was reported (`SWTED`) counts as a child (`sys/sys1.c:387`), so
  its parent sleeps instead of getting an error; only a `ptrace()` of that
  parent could restart it. wait(2) says an error is returned "if there are no
  children not previously waited for". TLC reports the state as a deadlock.

The diagnostic loop of `setrq()`, which a comment calls removable once one is
sure (`sys/slp.c:113`), is needed: `psignal()` tests `SSLEEP`, an interrupt wakes
the process, and `setrun()` sets it running a second time. Without the loop
`QueuesExact` fails.

## 5. Proofs

Eight modules of proofs. Each theorem holds for every value of the constants
that the module's assumption allows: any number of processes, buffers, blocks,
slots, inodes, bytes, units or entries, and any bound on calls. What is assumed
beyond that is a hypothesis of the theorem and said below.

| module | theorems, and the property each states |
|---|---|
| `BioProofs` | `TypeCorrect` (`TypeOK`), `FreeListCorrect` (`FreeListExact`), `HolderCorrect` (`OneHolder`), `UniqueCorrect` (`UniqueBlock`), `WakeupCorrect` (`NoLostWakeup`), `CoherentCorrect` (`CacheCoherent`), `WriteCorrect` (`NoLostWrite`), `StableCorrect` (`OwnedStable`, an action property) |
| `SlpProofs` | `TypeCorrect` (`TypeOK`), `QueuesCorrect` (`QueuesExact`), `WakesCorrect` (`WakesAll`), `AwakeCorrect` (`SchedAwake`) |
| `PipeProofs` | `FormedCorrect` (`WellFormed`), `WakeupCorrect` (`NoLostWakeup`), `EofCorrect` (`EofComplete`), `ContiguousCorrect` (`Contiguous`), `ChannelCorrect` (`Implements`, the refinement of `Channel`) |
| `MallocProofs` | `FormedCorrect` (`WellFormed`), `ConservedCorrect` (`Conserved`), `RefusedCorrect` (`NeverRefused`) |
| `CalloutProofs` | `TableCorrect` (`TableExact`), `EarlyCorrect` (`NeverEarly`, an action property) |
| `AllocProofs` | `TypeCorrect` (`TypeOK`), `LockCorrect` (`LockExact`), `ConservedCorrect` (`Conserved`), `SuperCorrect` (`SuperSaved`) |
| `InodeProofs` | `TypeCorrect` (`TypeOK`), `SlotsCorrect` (`SlotsExact`), `LockCorrect` (`LockExact`), `FileKeptCorrect` (`FileKept`), `ReclaimedCorrect` (`Reclaimed`) |
| `ProcProofs` | `TypeCorrect` (`TypeOK`), `PidsCorrect` (`PidsUnique`), `FamilyCorrect` (`Family`), `DeathCorrect` (`NoLostDeath`), `TraceCorrect` (`TraceServed`) |

In every module one theorem, `Invariance` (in `BioProofs` and `InodeProofs` a
second one for the data), proves an inductive invariant, with one step per
action and under it one per conjunct the action can disturb, and the others
follow from it.

**Bio.** `TypeOK, Control, Association, FreeListExact, Ownership, UniqueBlock,
NoLostWakeup`. None of the safety properties is inductive alone. `Control` says
what a process's variables are at each place of its program (which buffer it has
in hand, whether it may be asleep, that the processor is its own in the places
the code does not give it up). `Association` says which buffers have a block.
`Ownership` is the strengthening of `OneHolder` that names the holder: the
process in whose hands the buffer is, the device for an asynchronous transfer,
or the call that waits for it. With it a released buffer is known not to be on
the list yet, the buffer taken for a block is known to have no other user, and,
with the processor held from the search to the assignment, no second buffer can
get the same block. `NoLostWakeup` needs `Ownership` to know that a wanted
buffer will be released by somebody. `DataInvariance` adds `Data`: what a
buffer, a transfer under way and the device hold, in each combination of the
flags; `CacheCoherent` and `NoLostWrite` are parts of it. `OwnedStable` is
proved step by step from both.

**Slp.** `Control` (`Types, Places, Asleep, Calls, Frames`) says where the
processes, `psignal()`, `setrun()` and the calls of `wakeup()` are and what they
have in hand; it does not depend on the queues, and `TypeCorrect` follows from
it for any `HASH()`. `Lists` is about the links. `SleepQueue(h)`: there is an
order of the sleepers of queue `h` in which `p_link` connects them from the head
on, and every call of `wakeup()` on that queue has `q` and `p` at two neighbours
of it, with nobody left behind them on its channel. `RunQueue` says the same of
the run queue, with those that `setrun()` is about to add left open. `Flags`
ties `runin` and `runout` to the channel the swapper sleeps on and to the calls
of `wakeup()` that are on their way to it. The lemmas `ChainPush`, `ChainRemove`
and `ChainWalked` say what `sleep()`, `wakeup()`, `swtch()` and a search do to a
list. `TypeCorrect` holds for any `HASH()` without more. The others hold for any
`HASH()` too, in every behaviour without a step `Tears`: an inner `wakeup()`
takes the swapper off a queue at the very place (`p` or `q`) where the outer one
stands. That can only happen when a channel shares the queue of `&runout`, and
not every time it does; where it happens `QueuesExact` is false, which is what
`slp_shared_queue` shows, so the hypothesis cannot be dropped. The module
assumes that there is a process beside the swapper (`Users # {}`): `main()`
makes process 1 before it calls `sched()`.

**Alloc.** `TypeOK, Control, LockExact, Exchange, NullFirst, Conserved,
SuperKept`. `Exchange`: the super block's group is empty while a process has its
link in hand, and not when one is about to spill it. `NullFirst`: the 0 that
ends the chain is the first of its group. `SuperKept` strengthens `SuperSaved`
to the states in which somebody is in the middle of an exchange: the group on
the disk is the one in core, or a process is on its way to setting `s_fmod`, or
the group is empty and each block the disk names is lost or in the hands of the
process that reads the link.

**Inode.** `TableInv` (types, what a process's variables are at each place,
`SlotsExact`, `LockExact`, that `s_ilock` is held for a scan, and that `iput()`
still has the last reference after it has slept) does not depend on what is
read. `FileInv` adds
`Directories, Clean, Truncated, Linked, NamedOnce, Reclaimed`: who holds the
lock of a name's directory, what the slot and the device's inode have in common,
and at which places of `iput()` and `maknode()` they may differ. It assumes that
inodes can be read (`ReadErrors = {FALSE}`); section 4 says what happens when
they cannot.

**Proc.** The table's members, `PidsUnique`, `Family`, `NoLostDeath`,
`TraceServed` and what connects them: which slots are processes, that a copy in
the middle of `newproc()` has a parent that waits for it, and that process 1
lives. The exception for `revived` in `PidsUnique` is part of the invariant: a
number enters it in the step of `ttyopen()` that brings it back. The module
assumes that process 1 is neither killed nor traced
(`1 \notin Traced \cup Signalled`): `kill()` and `ptrace()` do not refuse it, and
`exit()` gives children to it without a look.

**Pipe.** `TypeOK, Places, Alone, Sides, Stream, NoLostWakeup, Calls,
Contiguous`. `Alone`: one process is inside the lock. `Sides`: the counts are
the processes that have a side open. `Stream`: what was sent is what was
received and then the bytes between the offset and the size. `Calls` says which
bytes of a call that is under way can be there already. All of it speaks of the
places in the stream, whether a faulting write kept their bytes or not.
`ChannelCorrect` shows that each step puts bytes at the tail, takes them from
the head, closes a side or leaves the mapped queue alone: the reader that resets
the offset and the size to 0 leaves it alone because it does so only when the
two are equal.

**Malloc.** `\E n : Good(map, n) /\ Shared(n)`: the first `n` entries are holes,
in order and apart, all others are empty, and the units are the holes' or in
use; a loop has run off the array (`lost`) only if `n` is `MapSize`. Nothing is
assumed of the size of the array: the lemmas about insertion and removal have
an entry for the end from the guard under which the code finds its 0.

**Callout.** `TypeOK, Contained, Exact`. Wherever `clock()` is, the entries that
count are a list of functions with times: those it has moved down and those from
its pointer to the end (`Lo`, `Mv`, `Slot`). `Listed` says that the ticks left
of the k-th function are its time and those of the one before, that the
functions are different and that nobody else is asked for; the lemmas
`ListCount`, `ListDrop` and `ListInsert` say what a tick, a call and `timeout()`
do to such a list. `Passed` (what was called has no time left) and `Ahead` (what
stopped the calls has) are what make a nested `clock()` count an entry of the
list and not a copy that was left behind. The sums `timeout()`'s loop computes
are shown equal to the ticks left. `Contained`: the end is inside the table, and
exactly one entry behind it after `TimeoutOverrun`, with the list still exact.

Recursive definitions are written as recursive functions; where an argument goes
along a list or a loop it is by least counterexample (`WFMin` on the natural
numbers), as the induction rules themselves cannot be used.

Only model-checked: liveness (`CallsReturn`, `SwappedIn`, `Called`), which is
outside the prover's reach. Every invariant and every action property of the
passing runs is stated by a theorem.

## 6. Not modelled

The drivers (register programming; what they promise, that a transfer ends in
`iodone()`, is an action of `Bio`), segmentation registers, start-up, accounting,
system call dispatch, the multiplexor (not in the default configuration), shared
texts, character lists and terminals, the packet driver, block lists of files,
mounts, raw and swap I/O, and the other systems of the repository, which are
separate programs. The eight modules are the parts where processes and
interrupts share state; what is left out of a part that is modelled is said in
section 2. Not claimed: that every dead child of `init` is collected, since
`wait()` takes the lowest slot first and may be kept busy there.

## 7. Plan

New components: `Text` (the counts `x_count` and `x_ccount` against the
swapper), `Clist` and `Tty`, and `swap()` and `physio()` in `Bio`. Each has
little state that other processes share in the middle of a step, which is why
they come after the eight above.
