------------------------------- MODULE Alloc -------------------------------
(***************************************************************************)
(* The free blocks of a file system: alloc(), free() and the super block   *)
(* part of update() (sys/alloc.c).                                         *)
(*                                                                         *)
(* The super block holds up to NICFREE numbers of free blocks.  The first  *)
(* of them is also a link: that block holds the next group of numbers, or  *)
(* it is 0 and ends the chain.  s_flock is held over the transfers of link *)
(* blocks.  The kernel does not preempt itself, so a step is the code      *)
(* between two calls that may sleep: bread(), getblk(), bwrite().          *)
(***************************************************************************)
EXTENDS Naturals, Sequences, FiniteSets

CONSTANTS
  Procs,
  Blocks,     \* the blocks behind the inode list
  BadBlocks,  \* numbers out of range, in what a garbage file system holds
  NULL,       \* block number 0, and no block at all
  NICFREE,    \* numbers a group holds
  Errors      \* whether a link block may be unreadable

ASSUME AllocAssumption ==
  /\ IsFiniteSet(Blocks)
  /\ Blocks \cap BadBlocks = {} /\ NULL \notin Blocks \cup BadBlocks
  /\ NICFREE \in Nat \ {0}
  /\ Errors \in BOOLEAN

VARIABLES
  s_free,     \* the super block's group, s_nfree numbers
  s_flock,    \* the group is being exchanged
  s_fmod,     \* the super block differs from the disk's
  super,      \* the group in the disk's super block
  group,      \* block -> the group it holds when it is a link
  owned,      \* blocks that belong to files
  pc,         \* process -> where it is
  hold,       \* process -> bno, the block it gets or gives
  asleep,     \* the processes that sleep on &s_flock
  links,      \* history: the links from the first to the last
  lost        \* history: what hung on a link that could not be read

fsVars == <<s_free, s_flock, s_fmod, super, group>>
vars   == <<s_free, s_flock, s_fmod, super, group, owned, pc, hold, asleep, links, lost>>

\* A disk that is full; a garbage file system may name bad blocks.
Init ==
  /\ s_free \in {<<NULL>>} \cup {<<NULL, b>> : b \in IF NICFREE > 1 THEN BadBlocks ELSE {}}
  /\ s_flock = FALSE /\ s_fmod = FALSE /\ super = s_free
  /\ group = [b \in Blocks |-> <<>>]
  /\ owned = Blocks \cup BadBlocks
  /\ pc = [p \in Procs |-> "user"]
  /\ hold = [p \in Procs |-> NULL]
  /\ asleep = {} /\ links = <<>> /\ lost = {}

At(p, place) == pc[p] = place /\ p \notin asleep

Goto(p, place) == pc' = [pc EXCEPT ![p] = place]

Elements(s) == {s[i] : i \in DOMAIN s}

Groups == {group[links[k]] : k \in DOMAIN links}

\* The blocks of the chain.
FreeSet == Blocks \cap UNION {Elements(s) : s \in Groups \cup {s_free}}

-----------------------------------------------------------------------------
(* The lock                                                                *)

\* while(fp->s_flock) sleep((caddr_t)&fp->s_flock, PINOD);
Sleep(p) ==
  /\ At(p, "alloc") \/ At(p, "free")
  /\ s_flock
  /\ asleep' = asleep \cup {p}
  /\ UNCHANGED <<fsVars, owned, pc, hold, links, lost>>

\* Mutant: the waiters are not woken.
Unlock_Silent == s_flock' = FALSE /\ UNCHANGED asleep

\* fp->s_flock = 0; wakeup((caddr_t)&fp->s_flock);
Unlock == s_flock' = FALSE /\ asleep' = {}

-----------------------------------------------------------------------------
(* alloc                                                                   *)

Alloc(p) ==
  /\ At(p, "user")
  /\ Goto(p, "alloc")
  /\ UNCHANGED <<fsVars, owned, hold, asleep, links, lost>>

\* badblock(fp, bno, dev)
badblock(bno) == bno \in BadBlocks

\* Where the loop that skips bad blocks stops; 0 when it runs out of numbers.
Top ==
  LET good == {i \in DOMAIN s_free : ~badblock(s_free[i])} IN
  IF good = {} THEN 0 ELSE CHOOSE i \in good : \A j \in good : j <= i

\* Mutant: the last number of a group is taken for the end of the chain.
NoSpace_Early == Top <= 1

NoSpace == Top \notin {i \in DOMAIN s_free : s_free[i] # NULL}

\* "no space"
AllocNoSpace(p) ==
  /\ At(p, "alloc") /\ ~s_flock
  /\ NoSpace
  /\ s_free' = <<>>
  /\ Goto(p, "user")
  /\ UNCHANGED <<s_flock, s_fmod, super, group, owned, hold, asleep, links, lost>>

\* A number that is not the last of its group.
AllocTake(p) ==
  /\ At(p, "alloc") /\ ~s_flock
  /\ ~NoSpace /\ Top > 1
  /\ hold' = [hold EXCEPT ![p] = s_free[Top]]
  /\ s_free' = SubSeq(s_free, 1, Top - 1)
  /\ Goto(p, "getblk")
  /\ UNCHANGED <<s_flock, s_fmod, super, group, owned, asleep, links, lost>>

\* The last number: the link, which holds the next group.
AllocLink(p) ==
  /\ At(p, "alloc") /\ ~s_flock
  /\ ~NoSpace /\ Top = 1
  /\ hold' = [hold EXCEPT ![p] = s_free[1]]
  /\ s_free' = <<>>
  /\ s_flock' = TRUE
  /\ Goto(p, "bread")
  /\ UNCHANGED <<s_fmod, super, group, owned, asleep, links, lost>>

\* bread() returns the link block, and it holds a group.
AllocRefill(p) ==
  /\ At(p, "bread") /\ group[hold[p]] # <<>>
  /\ s_free' = group[hold[p]]
  /\ links' = IF links = <<>> THEN <<>> ELSE Tail(links)
  /\ Unlock
  /\ Goto(p, "getblk")
  /\ UNCHANGED <<s_fmod, super, group, owned, hold, lost>>

\* bread() returns an error, or a block that holds no group: s_nfree stays 0,
\* "no space", and the link and all that hangs on it are gone.
AllocError(p) ==
  /\ At(p, "bread")
  /\ Errors \/ group[hold[p]] = <<>>
  /\ lost' = lost \cup FreeSet \cup {hold[p]}
  /\ links' = <<>>
  /\ hold' = [hold EXCEPT ![p] = NULL]
  /\ Unlock
  /\ Goto(p, "user")
  /\ UNCHANGED <<s_free, s_fmod, super, group, owned>>

\* getblk() returns a buffer for the block, which is cleared.
AllocReturn(p) ==
  /\ At(p, "getblk")
  /\ group' = [group EXCEPT ![hold[p]] = <<>>]
  /\ s_fmod' = TRUE
  /\ owned' = owned \cup {hold[p]}
  /\ hold' = [hold EXCEPT ![p] = NULL]
  /\ Goto(p, "user")
  /\ UNCHANGED <<s_free, s_flock, super, asleep, links, lost>>

-----------------------------------------------------------------------------
(* free                                                                    *)

\* The caller has taken the number out of the inode or the indirect block.
Free(p, bno) ==
  /\ At(p, "user") /\ bno \in owned
  /\ owned' = owned \ {bno}
  /\ s_fmod' = TRUE
  /\ hold' = [hold EXCEPT ![p] = bno]
  /\ Goto(p, "free")
  /\ UNCHANGED <<s_free, s_flock, super, group, asleep, links, lost>>

FreeBad(p) ==
  /\ At(p, "free") /\ ~s_flock
  /\ badblock(hold[p])
  /\ hold' = [hold EXCEPT ![p] = NULL]
  /\ Goto(p, "user")
  /\ UNCHANGED <<fsVars, owned, asleep, links, lost>>

\* An empty group starts with the 0 that ends the chain.
Started == IF s_free = <<>> THEN <<NULL>> ELSE s_free

\* Mutant: one number too many.
Full_Later == Len(Started) > NICFREE

Full == Len(Started) >= NICFREE

FreePush(p) ==
  /\ At(p, "free") /\ ~s_flock
  /\ ~badblock(hold[p]) /\ ~Full
  /\ s_free' = Append(Started, hold[p])
  /\ s_fmod' = TRUE
  /\ hold' = [hold EXCEPT ![p] = NULL]
  /\ Goto(p, "user")
  /\ UNCHANGED <<s_flock, super, group, owned, asleep, links, lost>>

\* The group is full: the block takes it over.
FreeLink(p) ==
  /\ At(p, "free") /\ ~s_flock
  /\ ~badblock(hold[p]) /\ Full
  /\ s_free' = Started
  /\ s_flock' = TRUE
  /\ Goto(p, "spill")
  /\ UNCHANGED <<s_fmod, super, group, owned, hold, asleep, links, lost>>

\* getblk() returns a buffer for it, which is filled and written.
FreeSpill(p) ==
  /\ At(p, "spill")
  /\ group' = [group EXCEPT ![hold[p]] = s_free]
  /\ links' = <<hold[p]>> \o links
  /\ s_free' = <<>>
  /\ Goto(p, "bwrite")
  /\ UNCHANGED <<s_flock, s_fmod, super, owned, hold, asleep, lost>>

\* Mutant: s_fmod is set at the start only.
FreeReturn_Unmarked(p) ==
  /\ At(p, "bwrite")
  /\ s_free' = <<hold[p]>>
  /\ Unlock
  /\ hold' = [hold EXCEPT ![p] = NULL]
  /\ Goto(p, "user")
  /\ UNCHANGED <<s_fmod, super, group, owned, links, lost>>

\* bwrite() is done.
FreeReturn(p) ==
  /\ At(p, "bwrite")
  /\ s_free' = <<hold[p]>>
  /\ s_fmod' = TRUE
  /\ Unlock
  /\ hold' = [hold EXCEPT ![p] = NULL]
  /\ Goto(p, "user")
  /\ UNCHANGED <<super, group, owned, links, lost>>

-----------------------------------------------------------------------------
(* update                                                                  *)

updlock == \E p \in Procs : pc[p] \in {"update", "supwrite"}

\* The super block is to be written; getblk() for it may sleep.
Update(p) ==
  /\ At(p, "user")
  /\ ~updlock
  /\ s_fmod /\ ~s_flock
  /\ Goto(p, "update")
  /\ UNCHANGED <<fsVars, owned, hold, asleep, links, lost>>

\* s_flock is not looked at again: the group is copied as it is, also while it
\* is being exchanged and s_nfree is 0.
UpdateCopy(p) ==
  /\ At(p, "update")
  /\ s_fmod' = FALSE
  /\ super' = s_free
  /\ Goto(p, "supwrite")
  /\ UNCHANGED <<s_free, s_flock, group, owned, hold, asleep, links, lost>>

UpdateReturn(p) ==
  /\ At(p, "supwrite")
  /\ Goto(p, "user")
  /\ UNCHANGED <<fsVars, owned, hold, asleep, links, lost>>

-----------------------------------------------------------------------------
Call(p) == Alloc(p) \/ Update(p) \/ \E bno \in Blocks \cup BadBlocks : Free(p, bno)

Step(p) ==
  \/ Sleep(p)
  \/ AllocNoSpace(p) \/ AllocTake(p) \/ AllocLink(p)
  \/ AllocRefill(p) \/ AllocError(p) \/ AllocReturn(p)
  \/ FreeBad(p) \/ FreePush(p) \/ FreeLink(p) \/ FreeSpill(p) \/ FreeReturn(p)
  \/ UpdateCopy(p) \/ UpdateReturn(p)

Next == \E p \in Procs : Call(p) \/ Step(p)

Spec == Init /\ [][Next]_vars

-----------------------------------------------------------------------------
(* Properties                                                              *)

Numbers == Blocks \cup BadBlocks \cup {NULL}

\* The variables have their types; no group has more than NICFREE numbers,
\* which is what getfs() tests.
TypeOK ==
  /\ s_free \in Seq(Numbers) /\ Len(s_free) <= NICFREE
  /\ s_flock \in BOOLEAN /\ s_fmod \in BOOLEAN
  /\ super \in Seq(Numbers)
  /\ group \in [Blocks -> Seq(Numbers)]
  /\ \A b \in Blocks : Len(group[b]) <= NICFREE
  /\ owned \subseteq Blocks \cup BadBlocks
  /\ pc \in [Procs -> {"user", "alloc", "bread", "getblk", "free", "spill", "bwrite",
                       "update", "supwrite"}]
  /\ hold \in [Procs -> Numbers]
  /\ asleep \subseteq Procs
  /\ links \in Seq(Blocks)
  /\ lost \subseteq Blocks

Holders == {p \in Procs : pc[p] \in {"bread", "spill", "bwrite"}}

\* s_flock is set exactly while one process exchanges the group, and whoever
\* sleeps for it will be woken: by that process, which does not sleep for it.
LockExact ==
  /\ \A p, q \in Holders : p = q
  /\ s_flock <=> Holders # {}
  /\ asleep # {} => s_flock
  /\ asleep \cap Holders = {}

\* The first link: the first number of the super block's group, or the block
\* of the process that exchanges it.
Link == IF s_free # <<>> THEN s_free[1]
        ELSE IF \E p \in Procs : pc[p] \in {"bread", "bwrite"}
        THEN hold[CHOOSE p \in Procs : pc[p] \in {"bread", "bwrite"}]
        ELSE NULL

\* "The super block has up to NICFREE remembered free blocks; the last of these
\* is read to obtain NICFREE more" (alloc.c:18): the chain is intact, each link
\* holds the group with the next one, whoever takes from it and adds to it.
Chained ==
  /\ Link = IF links = <<>> THEN NULL ELSE links[1]
  /\ \A k \in DOMAIN links :
       /\ group[links[k]] # <<>>
       /\ group[links[k]][1] = IF k = Len(links) THEN NULL ELSE links[k + 1]

\* No number is in the chain twice.
Once ==
  /\ \A i, j \in DOMAIN s_free : s_free[i] = s_free[j] /\ s_free[i] \in Blocks => i = j
  /\ \A k \in DOMAIN links :
       /\ \A i, j \in DOMAIN group[links[k]] :
            group[links[k]][i] = group[links[k]][j] /\ group[links[k]][i] \in Blocks => i = j
       /\ Elements(group[links[k]]) \cap Elements(s_free) \cap Blocks = {}
       /\ \A l \in DOMAIN links :
            k # l => Elements(group[links[k]]) \cap Elements(group[links[l]]) \cap Blocks = {}

Held == {hold[p] : p \in Procs} \cap Blocks

\* Every block is in exactly one place: once in the chain, in one file, in the
\* hands of one process, or lost with a link that could not be read.  A block
\* is never given to two files, however alloc() and free() sleep in between.
Conserved ==
  /\ Chained
  /\ Once
  /\ FreeSet \cup owned \cup Held \cup lost = Blocks \cup (owned \cap BadBlocks)
  /\ FreeSet \cap owned = {} /\ FreeSet \cap Held = {} /\ FreeSet \cap lost = {}
  /\ owned \cap Held = {} /\ owned \cap lost = {} /\ Held \cap lost = {}
  /\ \A p, q \in Procs : hold[p] = hold[q] /\ hold[p] \in Blocks => p = q

\* When s_fmod is off and nobody is between changing the group and marking it,
\* the disk's super block has the group, or has no block that is still free
\* where alloc() ran out of space.  update() tests the lock, sleeps, and copies
\* without testing it again, so it may write an s_nfree of 0 from which no free
\* block is reached: whoever exchanges the group then sets s_fmod afterwards,
\* and the next update() writes it again.
SuperSaved ==
  ~s_fmod /\ (\A p \in Procs : pc[p] \notin {"bread", "getblk", "spill", "bwrite"})
    => \/ super = s_free
       \/ s_free = <<>> /\ Elements(super) \cap Blocks \subseteq lost
=============================================================================
