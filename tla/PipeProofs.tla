----------------------------- MODULE PipeProofs -----------------------------
(***************************************************************************)
(* Proofs about pipes, for any number of readers and writers, any PIPSIZ,  *)
(* any sizes of reads and writes, and with readi() and writei() failing.   *)
(***************************************************************************)
EXTENDS Pipe, SequenceTheorems, FiniteSetTheorems, TLAPS

(***************************************************************************)
(* The inductive invariant.                                                *)
(***************************************************************************)

Bytes == Writers \X Nat \X Nat \X BOOLEAN

\* What a process has to do with the pipe where it is.
PlaceAt(p) ==
  /\ pc[p] \in {"readp", "readi"} => p \in Readers
  /\ pc[p] \in {"writep", "writei"} => p \in Writers
  /\ wchan[p] = Ip2 => pc[p] = "readp"
  /\ wchan[p] = Ip1 => pc[p] = "writep"
  /\ wchan[p] = Lock => pc[p] \in {"readp", "writep", "closef"}
  /\ pc[p] = "closef" => f_count[Side(p)] = 1
  /\ pc[p] = "writei" => count[p] > 0 /\ i_size < PIPSIZ /\ i_count = 2
  /\ pc[p] = "iput" => i_count = 1 /\ \A s \in {"read", "write"} : f_count[s] = 0
  /\ p \in Writers /\ pc[p] \notin {"writep", "writei"} => count[p] = 0

Places == \A p \in Procs : PlaceAt(p)

\* Whoever is inside is alone, and has the lock.
Alone ==
  /\ \A p, q \in Inside : p = q
  /\ Locked <=> Inside # {}

Openers(s) == {p \in Procs : Side(p) = s /\ pc[p] \notin {"iput", "closed"}}

\* The file structures count their processes, the inode its open sides.
Sides ==
  /\ \A s \in {"read", "write"} : f_count[s] = Cardinality(Openers(s))
  /\ i_count = 2 <=> f_count["read"] > 0 /\ f_count["write"] > 0

\* What was written is what was read and what is left to read.
Stream ==
  /\ f_offset <= i_size /\ i_size <= 2 * PIPSIZ - 1
  /\ sent = rcvd \o SubSeq(data, f_offset + 1, i_size)
  /\ eof # {} => data = <<>> /\ f_count["write"] = 0

\* The bytes of the call a writer is in: those that are there already, if there is
\* more to come, are not those of a small call.
Calls ==
  /\ \A i \in DOMAIN sent : sent[i][2] <= calls[sent[i][1]]
  /\ \A p \in Writers, i \in DOMAIN sent :
       count[p] > 0 /\ sent[i][1] = p /\ sent[i][2] = calls[p] => ~SmallCall(i)

IInv ==
  /\ TypeOK /\ Places /\ Alone /\ Sides /\ Stream
  /\ NoLostWakeup
  /\ Calls /\ Contiguous
-----------------------------------------------------------------------------
(* Types, and what readi() and writei() move.                              *)

\* What TypeOK says of each variable, and what the assumptions say of the constants.
LEMMA TypeFacts ==
  ASSUME TypeOK
  PROVE  /\ data \in Seq(Bytes) /\ sent \in Seq(Bytes) /\ rcvd \in Seq(Bytes)
         /\ f_offset \in Nat /\ i_size \in Nat /\ i_count \in 0 .. 2
         /\ i_flag \subseteq {"ILOCK", "IWANT"} /\ i_mode \subseteq {"IREAD", "IWRITE"}
         /\ f_count \in [{"read", "write"} -> Nat]
         /\ pc \in [Procs -> {"user", "readp", "readi", "writep", "writei", "closef", "iput", "closed"}]
         /\ wchan \in [Procs -> {Awake, Lock, Ip1, Ip2}]
         /\ count \in [Procs -> Nat] /\ calls \in [Procs -> Nat] /\ eof \subseteq Readers
         /\ PIPSIZ \in Nat \ {0} /\ Readers \subseteq Procs /\ Writers \subseteq Procs
         /\ Procs = Readers \cup Writers /\ Readers \cap Writers = {}
<1>1. i_size \in Nat
  BY DEF TypeOK, i_size
<1> QED BY <1>1, PipeAssumption DEF TypeOK, Bytes, Procs

\* readi() and writei() move no more than they are asked to.
LEMMA MovedIn ==
  ASSUME NEW p \in Procs, NEW n \in Nat, NEW m \in Moved(p, n)
  PROVE  m \in 0 .. n
BY DEF Moved

\* A piece is what is left, or PIPSIZ bytes of it.
LEMMA ChunkIn ==
  ASSUME TypeOK, NEW p \in Procs
  PROVE  /\ Chunk(p) \in Nat /\ Chunk(p) <= count[p] /\ Chunk(p) <= PIPSIZ
         /\ count[p] - Chunk(p) > 0 => count[p] > PIPSIZ
BY TypeFacts DEF Chunk, MinOf

\* The bytes of a piece.
LEMMA PieceFacts ==
  ASSUME TypeOK, NEW p \in Writers, NEW n \in 0 .. count[p], NEW kept \in Nat
  PROVE  /\ Piece(p, n, kept) \in Seq(Bytes) /\ Len(Piece(p, n, kept)) = n
         /\ \A i \in 1 .. n :
              Piece(p, n, kept)[i] = <<p, calls[p], count[p] - i + 1, i <= kept>>
<1>1. count[p] \in Nat /\ calls[p] \in Nat /\ n \in Nat
  BY TypeFacts
<1>2. ASSUME NEW i \in 1 .. n PROVE <<p, calls[p], count[p] - i + 1, i <= kept>> \in Bytes
  <2>1. count[p] - i + 1 \in Nat /\ (i <= kept) \in BOOLEAN
    BY <1>1
  <2> QED BY <1>1, <2>1 DEF Bytes
<1>3. Piece(p, n, kept) \in [1 .. n -> Bytes]
  BY <1>2 DEF Piece
<1>4. Piece(p, n, kept) \in Seq(Bytes) /\ Len(Piece(p, n, kept)) = n
  BY <1>1, <1>3
<1> QED BY <1>4 DEF Piece

\* The effect of readp() from readi() on: n bytes from the offset on are read.
Reads(p, n) ==
  /\ n \in 0 .. i_size - f_offset
  /\ rcvd' = rcvd \o SubSeq(data, f_offset + 1, f_offset + n)
  /\ \/ f_offset + n = i_size /\ f_offset' = 0 /\ data' = <<>>
     \/ f_offset + n # i_size /\ f_offset' = f_offset + n /\ UNCHANGED data

\* That is what it does.
LEMMA ReadpReads ==
  ASSUME TypeOK, Stream, NEW p \in Procs, ReadpFinish(p)
  PROVE  \E n \in Nat : Reads(p, n)
<1>1. /\ count[p] \in Nat /\ f_offset \in Nat /\ i_size \in Nat /\ f_offset <= i_size
  BY TypeFacts DEF Stream
<1> DEFINE m == MinOf(count[p], i_size - f_offset)
<1>2. m \in Nat /\ m <= i_size - f_offset
  BY <1>1 DEF MinOf
<1> HIDE DEF m
<1>3. PICK n \in Moved(p, m) :
        /\ rcvd' = rcvd \o SubSeq(data, f_offset + 1, f_offset + n)
        /\ \/ f_offset + n = i_size /\ f_offset' = 0 /\ data' = <<>>
           \/ f_offset + n # i_size /\ f_offset' = f_offset + n /\ UNCHANGED data
  BY DEF ReadpFinish, m, CaughtUp
<1>4. n \in 0 .. m
  BY <1>2, MovedIn
<1>5. n \in Nat /\ n \in 0 .. i_size - f_offset
  BY <1>1, <1>2, <1>4
<1> QED BY <1>3, <1>5 DEF Reads

\* The effect of writep() from writei() on: a piece of n bytes is written,
\* of which the first ones are kept.
Writes(p, n, kept) ==
  /\ n \in 0 .. Chunk(p) /\ kept \in Nat
  /\ data' = data \o Piece(p, n, kept) /\ sent' = sent \o Piece(p, n, kept)

\* That is what it does.
LEMMA WritepWrites ==
  ASSUME TypeOK, NEW p \in Procs, WritepFinish(p)
  PROVE  \E n, kept \in Nat : Writes(p, n, kept)
<1>1. Chunk(p) \in Nat
  BY ChunkIn
<1>2. PICK n \in Moved(p, Chunk(p)) : \E m \in Moved(p, n) :
        data' = data \o Piece(p, n, m) /\ sent' = sent \o Piece(p, n, m)
  BY DEF WritepFinish
<1>3. PICK kept \in Moved(p, n) :
        data' = data \o Piece(p, n, kept) /\ sent' = sent \o Piece(p, n, kept)
  BY <1>2
<1>4. n \in 0 .. Chunk(p) /\ n \in Nat
  BY <1>1, MovedIn
<1>5. kept \in Nat
  BY <1>4, MovedIn
<1> QED BY <1>3, <1>4, <1>5 DEF Writes

\* The processes that have a side open are finite in number.
LEMMA OpenersFinite ==
  ASSUME NEW s
  PROVE  IsFiniteSet(Openers(s)) /\ Cardinality(Openers(s)) \in Nat
<1>1. IsFiniteSet(Procs)
  BY PipeAssumption, FS_Union DEF Procs
<1>2. Openers(s) \in SUBSET Procs
  BY DEF Openers
<1>3. IsFiniteSet(Openers(s))
  BY <1>1, <1>2, FS_Subset
<1> QED BY <1>3, FS_CardinalityType

\* A process that has a side open is counted, and is the only one when the count is 1.
LEMMA Counted ==
  ASSUME Sides, NEW p \in Procs, pc[p] \notin {"iput", "closed"}
  PROVE  /\ f_count[Side(p)] > 0
         /\ f_count[Side(p)] = 1 =>
              \A q \in Procs : Side(q) = Side(p) /\ pc[q] \notin {"iput", "closed"} => q = p
<1>1. Side(p) \in {"read", "write"} /\ p \in Openers(Side(p))
  BY DEF Side, Openers
<1>2. f_count[Side(p)] = Cardinality(Openers(Side(p)))
  BY <1>1 DEF Sides
<1>3. IsFiniteSet(Openers(Side(p))) /\ Cardinality(Openers(Side(p))) \in Nat
  BY OpenersFinite
<1>4. Cardinality(Openers(Side(p))) # 0
  BY <1>1, <1>3, FS_EmptySet
<1>5. ASSUME f_count[Side(p)] = 1, NEW q \in Procs, Side(q) = Side(p), pc[q] \notin {"iput", "closed"}
      PROVE  q = p
  <2>1. PICK x : Openers(Side(p)) = {x}
    BY <1>2, <1>3, <1>5, FS_Singleton
  <2>2. q \in Openers(Side(p))
    BY <1>5 DEF Openers
  <2> QED BY <1>1, <2>1, <2>2
<1> QED BY <1>2, <1>3, <1>4, <1>5

\* Every step keeps the types.
LEMMA TypeStep ==
  ASSUME IInv, NEW p \in Procs, User(p) \/ Readp(p) \/ Writep(p) \/ Closing(p) \/ Signal(p)
  PROVE  TypeOK'
<1> USE DEF At, Goto, Locked, Awake, Lock, Ip1, Ip2
<1>0. TypeOK
  BY DEF IInv
<1>t. /\ data \in Seq(Bytes) /\ sent \in Seq(Bytes) /\ rcvd \in Seq(Bytes)
      /\ f_offset \in Nat /\ i_size \in Nat /\ i_count \in 0 .. 2
      /\ i_flag \subseteq {"ILOCK", "IWANT"} /\ i_mode \subseteq {"IREAD", "IWRITE"}
      /\ f_count \in [{"read", "write"} -> Nat]
      /\ pc \in [Procs -> {"user", "readp", "readi", "writep", "writei", "closef", "iput", "closed"}]
      /\ wchan \in [Procs -> {Awake, Lock, Ip1, Ip2}]
      /\ count \in [Procs -> Nat] /\ calls \in [Procs -> Nat] /\ eof \subseteq Readers
      /\ PIPSIZ \in Nat \ {0} /\ Readers \subseteq Procs /\ Writers \subseteq Procs
      /\ Procs = Readers \cup Writers /\ Readers \cap Writers = {}
  BY TypeFacts DEF IInv
<1>a. ReadSizes \subseteq Nat /\ WriteSizes \subseteq Nat
  BY PipeAssumption
<1>1. ASSUME NEW n \in ReadSizes, Read(p, n) PROVE TypeOK'
  BY <1>0, <1>t, <1>1, <1>a, SMTT(30) DEF TypeOK, Side, Read, ipVars, histVars
<1>2. ASSUME ReadpLocked(p) PROVE TypeOK'
  BY <1>0, <1>t, <1>2, <1>a DEF TypeOK, Side, ReadpLocked, plockSleep, sleep, histVars
<1>3. ASSUME ReadpEof(p) PROVE TypeOK'
  <2>1. p \in Readers
    BY <1>3 DEF ReadpEof, IInv, Places, PlaceAt
  <2> QED BY <1>0, <1>t, <1>3, <2>1 DEF TypeOK, ReadpEof, prele, Return
<1>4. ASSUME ReadpWait(p) PROVE TypeOK'
  BY <1>0, <1>t, <1>4, <1>a DEF TypeOK, Side, ReadpWait, sleep, histVars
<1>5. ASSUME ReadpStart(p) PROVE TypeOK'
  BY <1>0, <1>t, <1>5, <1>a DEF TypeOK, Side, ReadpStart, plock, histVars
<1>6. ASSUME ReadpFinish(p) PROVE TypeOK'
  <2>1. PICK n \in Nat : Reads(p, n)
    BY <1>0, <1>6, ReadpReads DEF IInv
  <2>2. rcvd' \in Seq(Bytes) /\ data' \in Seq(Bytes) /\ f_offset' \in Nat
    <3>1. SubSeq(data, f_offset + 1, f_offset + n) \in Seq(Bytes)
      BY <1>t, <2>1 DEF Reads, i_size
    <3>2. rcvd' \in Seq(Bytes)
      BY <1>t, <2>1, <3>1 DEF Reads
    <3>3. data' \in Seq(Bytes)
      <4>1. data' = <<>> \/ data' = data
        BY <2>1 DEF Reads
      <4>2. <<>> \in Seq(Bytes)
        OBVIOUS
      <4> QED BY <1>t, <4>1, <4>2
    <3>4. f_offset' \in Nat
      BY <1>t, <2>1 DEF Reads
    <3> QED BY <3>2, <3>3, <3>4
  <2> QED BY <1>0, <1>t, <1>6, <2>2 DEF TypeOK, Bytes, ReadpFinish, prele, Return
<1>7. ASSUME NEW n \in WriteSizes, Write(p, n) PROVE TypeOK'
  BY <1>0, <1>t, <1>7, <1>a DEF TypeOK, Side, Write, ipVars, histVars
<1>8. ASSUME WritepLocked(p) PROVE TypeOK'
  BY <1>0, <1>t, <1>8, <1>a DEF TypeOK, Side, WritepLocked, plockSleep, sleep, histVars
<1>9. ASSUME WritepReturn(p) PROVE TypeOK'
  BY <1>0, <1>t, <1>9, <1>a DEF TypeOK, Side, WritepReturn, prele, preleChans, Return,
     histVars
<1>10. ASSUME WritepFull(p) PROVE TypeOK'
  BY <1>0, <1>t, <1>10, <1>a DEF TypeOK, Side, WritepFull, sleep, histVars
<1>11. ASSUME WritepStart(p) PROVE TypeOK'
  BY <1>0, <1>t, <1>11, <1>a DEF TypeOK, Side, WritepStart, plock, histVars
<1>12. ASSUME WritepFinish(p) PROVE TypeOK'
  <2>1. PICK n, kept \in Nat : Writes(p, n, kept)
    BY <1>0, <1>12, WritepWrites
  <2>2. p \in Writers
    BY <1>12 DEF WritepFinish, IInv, Places, PlaceAt
  <2>3. n \in 0 .. count[p] /\ Chunk(p) \in Nat /\ Chunk(p) <= count[p]
    BY <1>0, <1>t, <2>1, ChunkIn DEF Writes
  <2>4. Piece(p, n, kept) \in Seq(Bytes)
    BY <1>0, <2>2, <2>3, PieceFacts
  <2>5. data' \in Seq(Bytes) /\ sent' \in Seq(Bytes)
    BY <1>t, <2>1, <2>4 DEF Writes
  <2>6. count' \in [Procs -> Nat]
    BY <1>t, <1>12, <2>3 DEF WritepFinish
  <2> QED BY <1>0, <1>t, <1>12, <2>5, <2>6 DEF TypeOK, Bytes, WritepFinish, prele
<1>13. ASSUME Signal(p) PROVE TypeOK'
  BY <1>0, <1>t, <1>13, <1>a DEF TypeOK, Side, Signal, Return, ipVars, histVars
<1>14. ASSUME CloseShared(p) PROVE TypeOK'
  BY <1>0, <1>t, <1>14, <1>a DEF TypeOK, Side, CloseShared, histVars
<1>15. ASSUME Closef(p) PROVE TypeOK'
  BY <1>0, <1>t, <1>15, <1>a DEF TypeOK, Side, Closef, ipVars, histVars
<1>16. ASSUME ClosefLocked(p) PROVE TypeOK'
  BY <1>0, <1>t, <1>16, <1>a DEF TypeOK, Side, ClosefLocked, plockSleep, sleep, histVars
<1>17. ASSUME ClosefFirst(p) PROVE TypeOK'
  BY <1>0, <1>t, <1>17, <1>a DEF TypeOK, Side, ClosefFirst, prele, preleChans, CloseChans,
     histVars
<1>18. ASSUME ClosefLast(p) PROVE TypeOK'
  BY <1>0, <1>t, <1>18, <1>a DEF TypeOK, Side, ClosefLast, plock, CloseChans, histVars
<1>19. ASSUME Iput(p) PROVE TypeOK'
  BY <1>0, <1>t, <1>19, <1>a DEF TypeOK, Side, Iput, prele, preleChans, histVars
<1> QED
  BY <1>1, <1>2, <1>3, <1>4, <1>5, <1>6, <1>7, <1>8, <1>9, <1>10, <1>11, <1>12, <1>13,
     <1>14, <1>15, <1>16, <1>17, <1>18, <1>19 DEF User, Readp, Writep, Closing

\* Every step leaves every process in its place.
LEMMA PlacesStep ==
  ASSUME IInv, NEW p \in Procs, User(p) \/ Readp(p) \/ Writep(p) \/ Closing(p) \/ Signal(p)
  PROVE  Places'
<1> USE DEF At, Goto, Locked, Awake, Lock, Ip1, Ip2
<1>0. Places /\ TypeOK
  BY DEF IInv
<1>t. /\ data \in Seq(Bytes) /\ sent \in Seq(Bytes) /\ rcvd \in Seq(Bytes)
      /\ f_offset \in Nat /\ i_size \in Nat /\ i_count \in 0 .. 2
      /\ i_flag \subseteq {"ILOCK", "IWANT"} /\ i_mode \subseteq {"IREAD", "IWRITE"}
      /\ f_count \in [{"read", "write"} -> Nat]
      /\ pc \in [Procs -> {"user", "readp", "readi", "writep", "writei", "closef", "iput", "closed"}]
      /\ wchan \in [Procs -> {Awake, Lock, Ip1, Ip2}]
      /\ count \in [Procs -> Nat] /\ calls \in [Procs -> Nat] /\ eof \subseteq Readers
      /\ PIPSIZ \in Nat \ {0} /\ Readers \subseteq Procs /\ Writers \subseteq Procs
      /\ Procs = Readers \cup Writers /\ Readers \cap Writers = {}
  BY TypeFacts DEF IInv
<1>a. ReadSizes \subseteq Nat \ {0} /\ WriteSizes \subseteq Nat \ {0}
  BY PipeAssumption
<1>b. ~Locked => Inside = {}
  BY DEF IInv, Alone
<1>1. ASSUME NEW n \in ReadSizes, Read(p, n) PROVE Places'
  BY <1>0, <1>t, <1>1, <1>a DEF Places, PlaceAt, Side, i_size, Read, ipVars, histVars
<1>2. ASSUME ReadpLocked(p) PROVE Places'
  BY <1>0, <1>t, <1>2, <1>a DEF Places, PlaceAt, Side, i_size, ReadpLocked, plockSleep,
     sleep, histVars
<1>3. ASSUME ReadpEof(p) PROVE Places'
  BY <1>0, <1>t, <1>3, <1>a DEF Places, PlaceAt, Side, i_size, ReadpEof, prele,
     preleChans, Return
<1>4. ASSUME ReadpWait(p) PROVE Places'
  BY <1>0, <1>t, <1>4, <1>a DEF Places, PlaceAt, Side, i_size, ReadpWait, sleep, histVars
<1>5. ASSUME ReadpStart(p) PROVE Places'
  BY <1>0, <1>t, <1>5, <1>a DEF Places, PlaceAt, Side, i_size, ReadpStart, plock, histVars
<1>6. ASSUME ReadpFinish(p) PROVE Places'
  <2>1. PICK n \in Nat : Reads(p, n)
    BY <1>6, ReadpReads DEF IInv
  <2>2. \A q \in Procs : pc[q] # "writei"
    BY <1>t, <1>6, SMTT(30) DEF ReadpFinish, IInv, Alone, Inside
  <2> QED BY <1>0, <1>t, <1>6, <2>2, SMTT(30) DEF Places, PlaceAt, ReadpFinish, prele, Return, Side
<1>7. ASSUME NEW n \in WriteSizes, Write(p, n) PROVE Places'
  BY <1>0, <1>t, <1>7, <1>a DEF Places, PlaceAt, Side, i_size, Write, ipVars, histVars
<1>8. ASSUME WritepLocked(p) PROVE Places'
  BY <1>0, <1>t, <1>8, <1>a DEF Places, PlaceAt, Side, i_size, WritepLocked, plockSleep,
     sleep, histVars
<1>9. ASSUME WritepReturn(p) PROVE Places'
  BY <1>0, <1>t, <1>9, <1>a DEF Places, PlaceAt, Side, i_size, WritepReturn, prele,
     preleChans, Return, histVars
<1>10. ASSUME WritepFull(p) PROVE Places'
  BY <1>0, <1>t, <1>10, <1>a DEF Places, PlaceAt, Side, i_size, WritepFull, sleep,
     histVars
<1>11. ASSUME WritepStart(p) PROVE Places'
  BY <1>0, <1>t, <1>11, <1>a DEF Places, PlaceAt, Side, i_size, WritepStart, plock,
     histVars
<1>12. ASSUME WritepFinish(p) PROVE Places'
  <2>1. PICK n, kept \in Nat : Writes(p, n, kept)
    BY <1>12, WritepWrites DEF IInv
  <2>2. \A q \in Procs : q # p => pc[q] # "writei"
    BY <1>t, <1>12 DEF WritepFinish, IInv, Alone, Inside
  <2> QED BY <1>0, <1>t, <1>12, <2>2 DEF Places, PlaceAt, WritepFinish, prele, Side
<1>13. ASSUME Signal(p) PROVE Places'
  BY <1>0, <1>t, <1>13, <1>a DEF Places, PlaceAt, Side, i_size, Signal, Return, ipVars,
     histVars
<1>14. ASSUME CloseShared(p) PROVE Places'
  BY <1>0, <1>t, <1>14, <1>a DEF Places, PlaceAt, Side, i_size, CloseShared, histVars
<1>15. ASSUME Closef(p) PROVE Places'
  BY <1>0, <1>t, <1>15, <1>a DEF Places, PlaceAt, Side, i_size, Closef, ipVars, histVars
<1>16. ASSUME ClosefLocked(p) PROVE Places'
  BY <1>0, <1>t, <1>16, <1>a DEF Places, PlaceAt, Side, i_size, ClosefLocked, plockSleep,
     sleep, histVars
<1>17. ASSUME ClosefFirst(p) PROVE Places'
  <2>1. \A q \in Procs : Side(q) = Side(p) /\ pc[q] \notin {"iput", "closed"} => q = p
    BY <1>17, Counted DEF ClosefFirst, IInv, Places, PlaceAt
  <2>2. \A q \in Procs : pc[q] \notin {"readi", "writei", "iput"}
    BY <1>17 DEF ClosefFirst, IInv, Alone, Inside, plock
  <2>3. Side(p) \in {"read", "write"} /\ f_count[Side(p)] = 1
    BY <1>17 DEF ClosefFirst, IInv, Places, PlaceAt, Side
  <2> QED BY <1>0, <1>t, <1>17, <2>1, <2>2, <2>3 DEF Places, PlaceAt, ClosefFirst, prele, CloseChans, preleChans, i_size
<1>18. ASSUME ClosefLast(p) PROVE Places'
  <2>1. \A q \in Procs : Side(q) = Side(p) /\ pc[q] \notin {"iput", "closed"} => q = p
    BY <1>18, Counted DEF ClosefLast, IInv, Places, PlaceAt
  <2>2. \A q \in Procs : pc[q] \notin {"readi", "writei", "iput"}
    BY <1>18 DEF ClosefLast, IInv, Alone, Inside, plock
  <2>3. Side(p) \in {"read", "write"} /\ f_count[Side(p)] = 1
    BY <1>18 DEF ClosefLast, IInv, Places, PlaceAt, Side
  <2>4. \A s \in {"read", "write"} : s # Side(p) => f_count[s] = 0
    BY <1>t, <1>18, <2>3 DEF ClosefLast, IInv, Sides
  <2>5. \A s \in {"read", "write"} : f_count'[s] = 0
    BY <1>t, <1>18, <2>3, <2>4 DEF ClosefLast
  <2>6. \A q \in Procs : q # p => pc[q] # "closef"
    BY <1>0, <2>1, <2>3, <2>4 DEF Places, PlaceAt, Side
  <2>7. pc[p] = "closef" /\ pc' = [pc EXCEPT ![p] = "iput"] /\ i_count' = 1 /\ UNCHANGED <<data, count>>
    BY <1>18 DEF ClosefLast
  <2>8. \A q \in Procs : /\ wchan'[q] = Lock => wchan[q] = Lock /\ q # p
                        /\ wchan'[q] \notin {Ip1, Ip2}
    BY <1>t, <1>18 DEF ClosefLast, CloseChans
  <2> QED BY <1>0, <1>t, <2>2, <2>5, <2>6, <2>7, <2>8 DEF Places, PlaceAt, i_size
<1>19. ASSUME Iput(p) PROVE Places'
  <2>1. \A q \in Procs : q # p => pc[q] \notin {"readi", "writei", "iput"}
    BY <1>19 DEF Iput, IInv, Alone, Inside
  <2> QED BY <1>0, <1>t, <1>19, <2>1 DEF Places, PlaceAt, Iput, prele, preleChans, Side, i_size
<1> QED
  BY <1>1, <1>2, <1>3, <1>4, <1>5, <1>6, <1>7, <1>8, <1>9, <1>10, <1>11, <1>12, <1>13,
     <1>14, <1>15, <1>16, <1>17, <1>18, <1>19 DEF User, Readp, Writep, Closing

\* Every step leaves the lock to one process.
LEMMA AloneStep ==
  ASSUME IInv, NEW p \in Procs, User(p) \/ Readp(p) \/ Writep(p) \/ Closing(p) \/ Signal(p)
  PROVE  Alone'
<1> USE DEF At, Goto, Locked, Awake, Lock, Ip1, Ip2
<1>0. Alone /\ Places
  BY DEF IInv
<1>t. /\ data \in Seq(Bytes) /\ sent \in Seq(Bytes) /\ rcvd \in Seq(Bytes)
      /\ f_offset \in Nat /\ i_size \in Nat /\ i_count \in 0 .. 2
      /\ i_flag \subseteq {"ILOCK", "IWANT"} /\ i_mode \subseteq {"IREAD", "IWRITE"}
      /\ f_count \in [{"read", "write"} -> Nat]
      /\ pc \in [Procs -> {"user", "readp", "readi", "writep", "writei", "closef", "iput", "closed"}]
      /\ wchan \in [Procs -> {Awake, Lock, Ip1, Ip2}]
      /\ count \in [Procs -> Nat] /\ calls \in [Procs -> Nat] /\ eof \subseteq Readers
      /\ PIPSIZ \in Nat \ {0} /\ Readers \subseteq Procs /\ Writers \subseteq Procs
      /\ Procs = Readers \cup Writers /\ Readers \cap Writers = {}
  BY TypeFacts DEF IInv
<1>1. ASSUME NEW n \in ReadSizes, Read(p, n) PROVE Alone'
  BY <1>0, <1>t, <1>1 DEF Alone, Inside, Read, ipVars, histVars
<1>2. ASSUME ReadpLocked(p) PROVE Alone'
  BY <1>0, <1>t, <1>2 DEF Alone, Inside, ReadpLocked, plockSleep, sleep, histVars
<1>3. ASSUME ReadpEof(p) PROVE Alone'
  BY <1>0, <1>t, <1>3 DEF Alone, Inside, ReadpEof, prele, preleChans, Return
<1>4. ASSUME ReadpWait(p) PROVE Alone'
  BY <1>0, <1>t, <1>4 DEF Alone, Inside, ReadpWait, sleep, histVars
<1>5. ASSUME ReadpStart(p) PROVE Alone'
  BY <1>0, <1>t, <1>5 DEF Alone, Inside, ReadpStart, plock, histVars
<1>6. ASSUME ReadpFinish(p) PROVE Alone'
  BY <1>0, <1>t, <1>6, SMTT(30) DEF Alone, Inside, ReadpFinish, prele, preleChans, Return
<1>7. ASSUME NEW n \in WriteSizes, Write(p, n) PROVE Alone'
  BY <1>0, <1>t, <1>7 DEF Alone, Inside, Write, ipVars, histVars
<1>8. ASSUME WritepLocked(p) PROVE Alone'
  BY <1>0, <1>t, <1>8 DEF Alone, Inside, WritepLocked, plockSleep, sleep, histVars
<1>9. ASSUME WritepReturn(p) PROVE Alone'
  BY <1>0, <1>t, <1>9 DEF Alone, Inside, WritepReturn, prele, preleChans, Return, histVars
<1>10. ASSUME WritepFull(p) PROVE Alone'
  BY <1>0, <1>t, <1>10 DEF Alone, Inside, WritepFull, sleep, histVars
<1>11. ASSUME WritepStart(p) PROVE Alone'
  BY <1>0, <1>t, <1>11 DEF Alone, Inside, WritepStart, plock, histVars
<1>12. ASSUME WritepFinish(p) PROVE Alone'
  BY <1>0, <1>t, <1>12 DEF Alone, Inside, WritepFinish, prele, preleChans, Rouse
<1>13. ASSUME Signal(p) PROVE Alone'
  <2>1. p \notin Inside
    BY <1>0, <1>13 DEF Signal, Places, PlaceAt, Inside
  <2> QED BY <1>0, <1>t, <1>13, <2>1 DEF Alone, Inside, Signal, Return, ipVars
<1>14. ASSUME CloseShared(p) PROVE Alone'
  BY <1>0, <1>t, <1>14 DEF Alone, Inside, CloseShared, histVars
<1>15. ASSUME Closef(p) PROVE Alone'
  BY <1>0, <1>t, <1>15 DEF Alone, Inside, Closef, ipVars, histVars
<1>16. ASSUME ClosefLocked(p) PROVE Alone'
  BY <1>0, <1>t, <1>16 DEF Alone, Inside, ClosefLocked, plockSleep, sleep, histVars
<1>17. ASSUME ClosefFirst(p) PROVE Alone'
  BY <1>0, <1>t, <1>17 DEF Alone, Inside, ClosefFirst, prele, preleChans, CloseChans,
     histVars
<1>18. ASSUME ClosefLast(p) PROVE Alone'
  BY <1>0, <1>t, <1>18 DEF Alone, Inside, ClosefLast, plock, CloseChans, histVars
<1>19. ASSUME Iput(p) PROVE Alone'
  BY <1>0, <1>t, <1>19 DEF Alone, Inside, Iput, prele, preleChans, histVars
<1> QED
  BY <1>1, <1>2, <1>3, <1>4, <1>5, <1>6, <1>7, <1>8, <1>9, <1>10, <1>11, <1>12, <1>13,
     <1>14, <1>15, <1>16, <1>17, <1>18, <1>19 DEF User, Readp, Writep, Closing

\* Every step leaves the sleepers to somebody who will wake them.
LEMMA WakeupStep ==
  ASSUME IInv, NEW p \in Procs, User(p) \/ Readp(p) \/ Writep(p) \/ Closing(p) \/ Signal(p)
  PROVE  NoLostWakeup'
<1> USE DEF At, Goto, Locked, Awake, Lock, Ip1, Ip2
<1>0. NoLostWakeup /\ Places
  BY DEF IInv
<1>t. /\ data \in Seq(Bytes) /\ sent \in Seq(Bytes) /\ rcvd \in Seq(Bytes)
      /\ f_offset \in Nat /\ i_size \in Nat /\ i_count \in 0 .. 2
      /\ i_flag \subseteq {"ILOCK", "IWANT"} /\ i_mode \subseteq {"IREAD", "IWRITE"}
      /\ f_count \in [{"read", "write"} -> Nat]
      /\ pc \in [Procs -> {"user", "readp", "readi", "writep", "writei", "closef", "iput", "closed"}]
      /\ wchan \in [Procs -> {Awake, Lock, Ip1, Ip2}]
      /\ count \in [Procs -> Nat] /\ calls \in [Procs -> Nat] /\ eof \subseteq Readers
      /\ PIPSIZ \in Nat \ {0} /\ Readers \subseteq Procs /\ Writers \subseteq Procs
      /\ Procs = Readers \cup Writers /\ Readers \cap Writers = {}
  BY TypeFacts DEF IInv
<1>u. /\ \A q \in Procs : pc[q] \in {"readi", "writei", "iput"} => Locked
      /\ \A x, y \in Procs : pc[x] \in {"readi", "writei", "iput"} /\ pc[y] \in {"readi", "writei", "iput"} => x = y
  BY DEF IInv, Alone, Inside
<1>1. ASSUME NEW n \in ReadSizes, Read(p, n) PROVE NoLostWakeup'
  BY <1>0, <1>t, <1>1, <1>u DEF NoLostWakeup, i_size, Read, ipVars, histVars
<1>2. ASSUME ReadpLocked(p) PROVE NoLostWakeup'
  BY <1>0, <1>t, <1>2, <1>u DEF NoLostWakeup, i_size, ReadpLocked, plockSleep, sleep,
     histVars
<1>3. ASSUME ReadpEof(p) PROVE NoLostWakeup'
  BY <1>0, <1>t, <1>3, <1>u DEF NoLostWakeup, i_size, ReadpEof, prele, preleChans, Return
<1>4. ASSUME ReadpWait(p) PROVE NoLostWakeup'
  BY <1>0, <1>t, <1>4, <1>u DEF NoLostWakeup, i_size, ReadpWait, sleep, histVars
<1>5. ASSUME ReadpStart(p) PROVE NoLostWakeup'
  BY <1>0, <1>t, <1>5, <1>u DEF NoLostWakeup, i_size, ReadpStart, plock, histVars
<1>6. ASSUME ReadpFinish(p) PROVE NoLostWakeup'
  <2>1. PICK n \in Nat : Reads(p, n)
    BY <1>6, ReadpReads DEF IInv
  <2>2. \A q \in Procs \cup Writers : pc[q] # "writei"
    BY <1>t, <1>u, <1>6 DEF ReadpFinish
  <2>3. i_flag' = {} /\ \A q \in Procs : wchan'[q] # Awake => wchan'[q] = wchan[q] /\ wchan[q] # Lock
    BY <1>0, <1>t, <1>6 DEF ReadpFinish, prele, preleChans, NoLostWakeup
  <2>4. UNCHANGED i_count /\ ("IREAD" \in i_mode => "IREAD" \in i_mode')
    BY <1>6 DEF ReadpFinish
  <2>5. \/ data' = <<>> /\ ("IWRITE" \in i_mode => \A q \in Procs : wchan'[q] # Ip1)
        \/ UNCHANGED <<data, i_mode>>
    BY <1>6, <1>t DEF ReadpFinish, prele
  <2>6. data' = <<>> => i_size' = 0
    BY DEF i_size
  <2>7. UNCHANGED data => i_size' = i_size
    BY DEF i_size
  <2>8. ASSUME NEW q \in Procs, wchan'[q] = Ip2
        PROVE  "IREAD" \in i_mode' /\ i_count' = 2 /\ i_size' = 0
    BY <1>0, <2>2, <2>3, <2>4, <2>5, <2>6, <2>7, <2>8 DEF NoLostWakeup
  <2>9. ASSUME NEW q \in Procs, wchan'[q] = Ip1
        PROVE  "IWRITE" \in i_mode' /\ i_count' = 2 /\ i_size' >= PIPSIZ
    BY <1>0, <2>3, <2>4, <2>5, <2>7, <2>9 DEF NoLostWakeup
  <2>10. \A q \in Procs : wchan'[q] # Lock
    BY <2>3
  <2> QED BY <2>8, <2>9, <2>10 DEF NoLostWakeup
<1>7. ASSUME NEW n \in WriteSizes, Write(p, n) PROVE NoLostWakeup'
  BY <1>0, <1>t, <1>7, <1>u DEF NoLostWakeup, i_size, Write, ipVars, histVars
<1>8. ASSUME WritepLocked(p) PROVE NoLostWakeup'
  BY <1>0, <1>t, <1>8, <1>u DEF NoLostWakeup, i_size, WritepLocked, plockSleep, sleep,
     histVars
<1>9. ASSUME WritepReturn(p) PROVE NoLostWakeup'
  BY <1>0, <1>t, <1>9, <1>u DEF NoLostWakeup, i_size, WritepReturn, prele, preleChans,
     Return, histVars
<1>10. ASSUME WritepFull(p) PROVE NoLostWakeup'
  BY <1>0, <1>t, <1>10, <1>u DEF NoLostWakeup, i_size, WritepFull, sleep, histVars
<1>11. ASSUME WritepStart(p) PROVE NoLostWakeup'
  BY <1>0, <1>t, <1>11, <1>u DEF NoLostWakeup, i_size, WritepStart, plock, histVars
<1>12. ASSUME WritepFinish(p) PROVE NoLostWakeup'
  BY <1>0, <1>t, <1>12, <1>u DEF NoLostWakeup, i_size, WritepFinish, prele, preleChans,
     Rouse
<1>13. ASSUME Signal(p) PROVE NoLostWakeup'
  <2>1. pc[p] # "writei"
    BY <1>0, <1>13 DEF Signal, Places, PlaceAt
  <2> QED BY <1>0, <1>t, <1>13, <2>1 DEF NoLostWakeup, Signal, Return, ipVars, i_size
<1>14. ASSUME CloseShared(p) PROVE NoLostWakeup'
  BY <1>0, <1>t, <1>14, <1>u DEF NoLostWakeup, i_size, CloseShared, histVars
<1>15. ASSUME Closef(p) PROVE NoLostWakeup'
  BY <1>0, <1>t, <1>15, <1>u DEF NoLostWakeup, i_size, Closef, ipVars, histVars
<1>16. ASSUME ClosefLocked(p) PROVE NoLostWakeup'
  BY <1>0, <1>t, <1>16, <1>u DEF NoLostWakeup, i_size, ClosefLocked, plockSleep, sleep,
     histVars
<1>17. ASSUME ClosefFirst(p) PROVE NoLostWakeup'
  BY <1>0, <1>t, <1>17, <1>u DEF NoLostWakeup, i_size, ClosefFirst, prele, preleChans,
     CloseChans, histVars
<1>18. ASSUME ClosefLast(p) PROVE NoLostWakeup'
  BY <1>0, <1>t, <1>18, <1>u DEF NoLostWakeup, i_size, ClosefLast, plock, CloseChans,
     histVars
<1>19. ASSUME Iput(p) PROVE NoLostWakeup'
  <2>1. i_count = 1
    BY <1>0, <1>19 DEF Iput, Places, PlaceAt
  <2> QED BY <1>0, <1>t, <1>19, <1>u, <2>1 DEF NoLostWakeup, Iput, prele, preleChans
<1> QED
  BY <1>1, <1>2, <1>3, <1>4, <1>5, <1>6, <1>7, <1>8, <1>9, <1>10, <1>11, <1>12, <1>13,
     <1>14, <1>15, <1>16, <1>17, <1>18, <1>19 DEF User, Readp, Writep, Closing

\* Every step counts the processes that have a side open, and the sides.
LEMMA SidesStep ==
  ASSUME IInv, NEW p \in Procs, User(p) \/ Readp(p) \/ Writep(p) \/ Closing(p) \/ Signal(p)
  PROVE  Sides'
<1> USE DEF At, Goto, Locked, Awake, Lock, Ip1, Ip2
<1>0. Sides
  BY DEF IInv
<1>t. /\ data \in Seq(Bytes) /\ sent \in Seq(Bytes) /\ rcvd \in Seq(Bytes)
      /\ f_offset \in Nat /\ i_size \in Nat /\ i_count \in 0 .. 2
      /\ i_flag \subseteq {"ILOCK", "IWANT"} /\ i_mode \subseteq {"IREAD", "IWRITE"}
      /\ f_count \in [{"read", "write"} -> Nat]
      /\ pc \in [Procs -> {"user", "readp", "readi", "writep", "writei", "closef", "iput", "closed"}]
      /\ wchan \in [Procs -> {Awake, Lock, Ip1, Ip2}]
      /\ count \in [Procs -> Nat] /\ calls \in [Procs -> Nat] /\ eof \subseteq Readers
      /\ PIPSIZ \in Nat \ {0} /\ Readers \subseteq Procs /\ Writers \subseteq Procs
      /\ Procs = Readers \cup Writers /\ Readers \cap Writers = {}
  BY TypeFacts DEF IInv
<1>1. ASSUME NEW n \in ReadSizes, Read(p, n) PROVE Sides'
  <2>1. \A s \in {"read", "write"} : Openers(s)' = Openers(s)
    BY <1>t, <1>1 DEF Read, Openers, Side
  <2>2. UNCHANGED <<f_count, i_count>>
    BY <1>1 DEF Read, ipVars
  <2> QED BY <1>0, <2>1, <2>2 DEF Sides
<1>2. ASSUME ReadpLocked(p) PROVE Sides'
  <2>1. \A s \in {"read", "write"} : Openers(s)' = Openers(s)
    BY <1>t, <1>2 DEF ReadpLocked, Openers, Side, plockSleep
  <2>2. UNCHANGED <<f_count, i_count>>
    BY <1>2 DEF ReadpLocked, plockSleep
  <2> QED BY <1>0, <2>1, <2>2 DEF Sides
<1>3. ASSUME ReadpEof(p) PROVE Sides'
  <2>1. \A s \in {"read", "write"} : Openers(s)' = Openers(s)
    BY <1>t, <1>3 DEF ReadpEof, Openers, Side, Return
  <2>2. UNCHANGED <<f_count, i_count>>
    BY <1>3 DEF ReadpEof
  <2> QED BY <1>0, <2>1, <2>2 DEF Sides
<1>4. ASSUME ReadpWait(p) PROVE Sides'
  <2>1. \A s \in {"read", "write"} : Openers(s)' = Openers(s)
    BY <1>t, <1>4 DEF ReadpWait, Openers, Side
  <2>2. UNCHANGED <<f_count, i_count>>
    BY <1>4 DEF ReadpWait
  <2> QED BY <1>0, <2>1, <2>2 DEF Sides
<1>5. ASSUME ReadpStart(p) PROVE Sides'
  <2>1. \A s \in {"read", "write"} : Openers(s)' = Openers(s)
    BY <1>t, <1>5 DEF ReadpStart, Openers, Side
  <2>2. UNCHANGED <<f_count, i_count>>
    BY <1>5 DEF ReadpStart
  <2> QED BY <1>0, <2>1, <2>2 DEF Sides
<1>6. ASSUME ReadpFinish(p) PROVE Sides'
  <2>1. \A s \in {"read", "write"} : Openers(s)' = Openers(s)
    BY <1>t, <1>6 DEF ReadpFinish, Openers, Side, Return
  <2>2. UNCHANGED <<f_count, i_count>>
    BY <1>6 DEF ReadpFinish
  <2> QED BY <1>0, <2>1, <2>2 DEF Sides
<1>7. ASSUME NEW n \in WriteSizes, Write(p, n) PROVE Sides'
  <2>1. \A s \in {"read", "write"} : Openers(s)' = Openers(s)
    BY <1>t, <1>7 DEF Write, Openers, Side
  <2>2. UNCHANGED <<f_count, i_count>>
    BY <1>7 DEF Write, ipVars
  <2> QED BY <1>0, <2>1, <2>2 DEF Sides
<1>8. ASSUME WritepLocked(p) PROVE Sides'
  <2>1. \A s \in {"read", "write"} : Openers(s)' = Openers(s)
    BY <1>t, <1>8 DEF WritepLocked, Openers, Side, plockSleep
  <2>2. UNCHANGED <<f_count, i_count>>
    BY <1>8 DEF WritepLocked, plockSleep
  <2> QED BY <1>0, <2>1, <2>2 DEF Sides
<1>9. ASSUME WritepReturn(p) PROVE Sides'
  <2>1. \A s \in {"read", "write"} : Openers(s)' = Openers(s)
    BY <1>t, <1>9 DEF WritepReturn, Openers, Side, Return
  <2>2. UNCHANGED <<f_count, i_count>>
    BY <1>9 DEF WritepReturn
  <2> QED BY <1>0, <2>1, <2>2 DEF Sides
<1>10. ASSUME WritepFull(p) PROVE Sides'
  <2>1. \A s \in {"read", "write"} : Openers(s)' = Openers(s)
    BY <1>t, <1>10 DEF WritepFull, Openers, Side
  <2>2. UNCHANGED <<f_count, i_count>>
    BY <1>10 DEF WritepFull
  <2> QED BY <1>0, <2>1, <2>2 DEF Sides
<1>11. ASSUME WritepStart(p) PROVE Sides'
  <2>1. \A s \in {"read", "write"} : Openers(s)' = Openers(s)
    BY <1>t, <1>11 DEF WritepStart, Openers, Side
  <2>2. UNCHANGED <<f_count, i_count>>
    BY <1>11 DEF WritepStart
  <2> QED BY <1>0, <2>1, <2>2 DEF Sides
<1>12. ASSUME WritepFinish(p) PROVE Sides'
  <2>1. \A s \in {"read", "write"} : Openers(s)' = Openers(s)
    BY <1>t, <1>12 DEF WritepFinish, Openers, Side
  <2>2. UNCHANGED <<f_count, i_count>>
    BY <1>12 DEF WritepFinish
  <2> QED BY <1>0, <2>1, <2>2 DEF Sides
<1>13. ASSUME Signal(p) PROVE Sides'
  <2>1. \A s \in {"read", "write"} : Openers(s)' = Openers(s)
    BY <1>t, <1>13 DEF Signal, Openers, Side, Return, IInv, Places, PlaceAt
  <2>2. UNCHANGED <<f_count, i_count>>
    BY <1>13 DEF Signal, ipVars
  <2> QED BY <1>0, <2>1, <2>2 DEF Sides
<1>14. ASSUME CloseShared(p) PROVE Sides'
  <2>1. \A s \in {"read", "write"} : Openers(s)' = IF s = Side(p) THEN Openers(s) \ {p} ELSE Openers(s)
    BY <1>t, <1>14 DEF CloseShared, Openers, Side
  <2>2. Side(p) \in {"read", "write"} /\ p \in Openers(Side(p))
    BY <1>14 DEF CloseShared, Side, Openers
  <2>3. \A s \in {"read", "write"} : Cardinality(Openers(s)') = IF s = Side(p) THEN Cardinality(Openers(s)) - 1 ELSE Cardinality(Openers(s))
    BY <2>1, <2>2, OpenersFinite, FS_RemoveElement
  <2> QED BY <1>0, <1>t, <1>14, <2>2, <2>3 DEF Sides, CloseShared
<1>15. ASSUME Closef(p) PROVE Sides'
  <2>1. \A s \in {"read", "write"} : Openers(s)' = Openers(s)
    BY <1>t, <1>15 DEF Closef, Openers, Side
  <2>2. UNCHANGED <<f_count, i_count>>
    BY <1>15 DEF Closef, ipVars
  <2> QED BY <1>0, <2>1, <2>2 DEF Sides
<1>16. ASSUME ClosefLocked(p) PROVE Sides'
  <2>1. \A s \in {"read", "write"} : Openers(s)' = Openers(s)
    BY <1>t, <1>16 DEF ClosefLocked, Openers, Side, plockSleep
  <2>2. UNCHANGED <<f_count, i_count>>
    BY <1>16 DEF ClosefLocked, plockSleep
  <2> QED BY <1>0, <2>1, <2>2 DEF Sides
<1>17. ASSUME ClosefFirst(p) PROVE Sides'
  <2>1. \A s \in {"read", "write"} : Openers(s)' = IF s = Side(p) THEN Openers(s) \ {p} ELSE Openers(s)
    BY <1>t, <1>17 DEF ClosefFirst, Openers, Side
  <2>2. Side(p) \in {"read", "write"} /\ p \in Openers(Side(p))
    BY <1>17 DEF ClosefFirst, Side, Openers
  <2>3. \A s \in {"read", "write"} : Cardinality(Openers(s)') = IF s = Side(p) THEN Cardinality(Openers(s)) - 1 ELSE Cardinality(Openers(s))
    BY <2>1, <2>2, OpenersFinite, FS_RemoveElement
  <2>4. f_count[Side(p)] = 1
    BY <1>17 DEF ClosefFirst, IInv, Places, PlaceAt
  <2> QED BY <1>0, <1>t, <1>17, <2>2, <2>3, <2>4 DEF Sides, ClosefFirst
<1>18. ASSUME ClosefLast(p) PROVE Sides'
  <2>1. \A s \in {"read", "write"} : Openers(s)' = IF s = Side(p) THEN Openers(s) \ {p} ELSE Openers(s)
    BY <1>t, <1>18 DEF ClosefLast, Openers, Side
  <2>2. Side(p) \in {"read", "write"} /\ p \in Openers(Side(p))
    BY <1>18 DEF ClosefLast, Side, Openers
  <2>3. \A s \in {"read", "write"} : Cardinality(Openers(s)') = IF s = Side(p) THEN Cardinality(Openers(s)) - 1 ELSE Cardinality(Openers(s))
    BY <2>1, <2>2, OpenersFinite, FS_RemoveElement
  <2>4. f_count[Side(p)] = 1
    BY <1>18 DEF ClosefLast, IInv, Places, PlaceAt
  <2> QED BY <1>0, <1>t, <1>18, <2>2, <2>3, <2>4 DEF Sides, ClosefLast
<1>19. ASSUME Iput(p) PROVE Sides'
  <2>1. \A s \in {"read", "write"} : Openers(s)' = Openers(s)
    BY <1>t, <1>19 DEF Iput, Openers, Side
  <2>2. \A s \in {"read", "write"} : f_count[s] = 0
    BY <1>19 DEF Iput, IInv, Places, PlaceAt
  <2> QED BY <1>0, <1>19, <2>1, <2>2 DEF Sides, Iput
<1> QED
  BY <1>1, <1>2, <1>3, <1>4, <1>5, <1>6, <1>7, <1>8, <1>9, <1>10, <1>11, <1>12, <1>13,
     <1>14, <1>15, <1>16, <1>17, <1>18, <1>19 DEF User, Readp, Writep, Closing

-----------------------------------------------------------------------------
(* The bytes.                                                              *)

\* What is left of a file is a part and what comes after it.
LEMMA Cut ==
  ASSUME NEW S, NEW d \in Seq(S), NEW f \in 0 .. Len(d), NEW n \in 0 .. Len(d) - f
  PROVE  /\ SubSeq(d, f + 1, f + n) \in Seq(S) /\ SubSeq(d, f + n + 1, Len(d)) \in Seq(S)
         /\ SubSeq(d, f + 1, Len(d)) = SubSeq(d, f + 1, f + n) \o SubSeq(d, f + n + 1, Len(d))
<1>1. Len(d) \in Nat
  OBVIOUS
<1>2. f + 1 \in 1 .. Len(d) + 1 /\ f + n \in (f + 1) - 1 .. Len(d) /\ Len(d) \in f + n .. Len(d)
  BY <1>1
<1>3. SubSeq(d, f + 1, f + n) \o SubSeq(d, f + n + 1, Len(d)) = SubSeq(d, f + 1, Len(d))
  BY <1>2, ConcatAdjacentSubSeq
<1>4. \A i \in 1 .. Len(d) : d[i] \in S
  OBVIOUS
<1>5. SubSeq(d, f + 1, f + n) \in Seq(S)
  <2>1. \A i \in f + 1 .. f + n : d[i] \in S
    BY <1>1, <1>4
  <2> QED BY <1>1, <2>1, SubSeqProperties
<1>6. SubSeq(d, f + n + 1, Len(d)) \in Seq(S)
  <2>1. \A i \in f + n + 1 .. Len(d) : d[i] \in S
    BY <1>1, <1>4
  <2> QED BY <1>1, <2>1, SubSeqProperties
<1> QED BY <1>3, <1>5, <1>6

\* What is appended to a file is appended to what is left of it.
LEMMA Extend ==
  ASSUME NEW S, NEW d \in Seq(S), NEW e \in Seq(S), NEW f \in Nat, f <= Len(d)
  PROVE  /\ SubSeq(d, f + 1, Len(d)) \in Seq(S)
         /\ SubSeq(d \o e, f + 1, Len(d) + Len(e)) = SubSeq(d, f + 1, Len(d)) \o e
<1> DEFINE a == SubSeq(d, f + 1, Len(d))
           b == SubSeq(d \o e, f + 1, Len(d) + Len(e))
<1>1. Len(d) \in Nat /\ Len(e) \in Nat
  OBVIOUS
<1>2. /\ d \o e \in Seq(S) /\ Len(d \o e) = Len(d) + Len(e)
      /\ \A i \in 1 .. Len(d) + Len(e) : (d \o e)[i] = IF i <= Len(d) THEN d[i] ELSE e[i - Len(d)]
  BY ConcatProperties
<1>3. a \in Seq(S) /\ Len(a) = Len(d) - f /\ \A i \in 1 .. Len(d) - f : a[i] = d[f + i]
  BY <1>1
<1>4. /\ b \in Seq(S) /\ Len(b) = Len(d) + Len(e) - f
      /\ \A i \in 1 .. Len(d) + Len(e) - f : b[i] = (d \o e)[f + i]
  BY <1>1, <1>2
<1> HIDE DEF a, b
<1>5. /\ a \o e \in Seq(S) /\ Len(a \o e) = Len(a) + Len(e)
      /\ \A i \in 1 .. Len(a) + Len(e) : (a \o e)[i] = IF i <= Len(a) THEN a[i] ELSE e[i - Len(a)]
  BY <1>3, ConcatProperties
<1>6. ASSUME NEW i \in 1 .. Len(b) PROVE b[i] = (a \o e)[i]
  <2>1. f + i \in 1 .. Len(d) + Len(e) /\ i \in 1 .. Len(d) + Len(e) - f /\ i \in 1 .. Len(a) + Len(e)
    BY <1>1, <1>3, <1>4
  <2>2. CASE f + i <= Len(d)
    <3>1. i \in 1 .. Len(d) - f /\ i <= Len(a)
      BY <1>1, <1>3, <2>1, <2>2
    <3> QED BY <1>2, <1>3, <1>4, <1>5, <2>1, <2>2, <3>1
  <2>3. CASE f + i > Len(d)
    <3>1. ~(i <= Len(a)) /\ ~(f + i <= Len(d)) /\ i - Len(a) = (f + i) - Len(d)
      BY <1>1, <1>3, <2>1, <2>3
    <3> QED BY <1>2, <1>4, <1>5, <2>1, <3>1
  <2> QED BY <1>1, <2>1, <2>2, <2>3
<1>7. Len(b) = Len(a \o e)
  BY <1>1, <1>3, <1>4, <1>5
<1>8. b = a \o e
  BY <1>4, <1>5, <1>6, <1>7, SeqEqual
<1> QED BY <1>3, <1>8 DEF a, b

\* Every step keeps the bytes in order.
LEMMA StreamStep ==
  ASSUME IInv, NEW p \in Procs, User(p) \/ Readp(p) \/ Writep(p) \/ Closing(p) \/ Signal(p)
  PROVE  Stream'
<1> USE DEF At, Goto, Locked, Awake, Lock, Ip1, Ip2
<1>0. Stream
  BY DEF IInv
<1>t. /\ data \in Seq(Bytes) /\ sent \in Seq(Bytes) /\ rcvd \in Seq(Bytes)
      /\ f_offset \in Nat /\ i_size \in Nat /\ i_count \in 0 .. 2
      /\ i_flag \subseteq {"ILOCK", "IWANT"} /\ i_mode \subseteq {"IREAD", "IWRITE"}
      /\ f_count \in [{"read", "write"} -> Nat]
      /\ pc \in [Procs -> {"user", "readp", "readi", "writep", "writei", "closef", "iput", "closed"}]
      /\ wchan \in [Procs -> {Awake, Lock, Ip1, Ip2}]
      /\ count \in [Procs -> Nat] /\ calls \in [Procs -> Nat] /\ eof \subseteq Readers
      /\ PIPSIZ \in Nat \ {0} /\ Readers \subseteq Procs /\ Writers \subseteq Procs
      /\ Procs = Readers \cup Writers /\ Readers \cap Writers = {}
  BY TypeFacts DEF IInv
<1>1. ASSUME NEW n \in ReadSizes, Read(p, n) PROVE Stream'
  <2>1. UNCHANGED <<data, f_offset, sent, rcvd, eof, f_count>>
    BY <1>1 DEF Read, ipVars, histVars
  <2> QED BY <1>0, <2>1 DEF Stream, i_size
<1>2. ASSUME ReadpLocked(p) PROVE Stream'
  <2>1. UNCHANGED <<data, f_offset, sent, rcvd, eof, f_count>>
    BY <1>2 DEF ReadpLocked, plockSleep, histVars
  <2> QED BY <1>0, <2>1 DEF Stream, i_size
<1>3. ASSUME ReadpEof(p) PROVE Stream'
  <2>1. p \in Readers /\ Side(p) = "read"
    BY <1>3 DEF ReadpEof, IInv, Places, PlaceAt, Side
  <2>2. f_count["read"] > 0
    BY <1>3, <2>1, Counted DEF ReadpEof, IInv
  <2>3. f_count["write"] = 0
    BY <1>t, <1>3, <2>2 DEF ReadpEof, IInv, Sides
  <2>4. data = <<>>
    BY <1>t, <1>3, EmptySeq DEF ReadpEof, i_size
  <2> QED BY <1>0, <1>3, <2>3, <2>4 DEF ReadpEof, Stream, i_size
<1>4. ASSUME ReadpWait(p) PROVE Stream'
  <2>1. UNCHANGED <<data, f_offset, sent, rcvd, eof, f_count>>
    BY <1>4 DEF ReadpWait, histVars
  <2> QED BY <1>0, <2>1 DEF Stream, i_size
<1>5. ASSUME ReadpStart(p) PROVE Stream'
  <2>1. UNCHANGED <<data, f_offset, sent, rcvd, eof, f_count>>
    BY <1>5 DEF ReadpStart, histVars
  <2> QED BY <1>0, <2>1 DEF Stream, i_size
<1>6. ASSUME ReadpFinish(p) PROVE Stream'
  <2>1. PICK n \in Nat : Reads(p, n)
    BY <1>6, ReadpReads DEF IInv
  <2>2. UNCHANGED <<sent, eof, f_count>>
    BY <1>6 DEF ReadpFinish
  <2>3. n \in 0 .. Len(data) - f_offset /\ f_offset \in 0 .. Len(data)
    BY <1>0, <1>t, <2>1 DEF Reads, Stream, i_size
  <2> DEFINE A == SubSeq(data, f_offset + 1, f_offset + n)
             B == SubSeq(data, f_offset + n + 1, Len(data))
  <2>4. A \in Seq(Bytes) /\ B \in Seq(Bytes) /\ SubSeq(data, f_offset + 1, Len(data)) = A \o B
    BY <1>t, <2>3, Cut
  <2> HIDE DEF A, B
  <2>5. sent = (rcvd \o A) \o B
    <3>1. sent = rcvd \o (A \o B)
      BY <1>0, <2>4 DEF Stream, i_size
    <3>2. rcvd \in Seq(Bytes)
      BY <1>t
    <3> QED BY <2>4, <3>1, <3>2, ConcatAssociative, SMTT(30)
  <2>6. rcvd' = rcvd \o A
    BY <2>1 DEF Reads, A
  <2>7. CASE f_offset + n = i_size /\ f_offset' = 0 /\ data' = <<>>
    <3>1. B = <<>>
      BY <1>t, <2>3, <2>7, SubSeqEmpty DEF B, i_size
    <3>2. i_size' = 0 /\ SubSeq(data', f_offset' + 1, i_size') = <<>>
      BY <2>7, SubSeqEmpty DEF i_size
    <3>3. sent' = rcvd' \o SubSeq(data', f_offset' + 1, i_size')
      BY <2>2, <2>5, <2>6, <3>1, <3>2
    <3>4. f_offset' <= i_size' /\ i_size' <= 2 * PIPSIZ - 1
      BY <1>t, <2>7, <3>2
    <3>5. eof' # {} => data' = <<>> /\ f_count'["write"] = 0
      BY <1>0, <2>2, <2>7 DEF Stream
    <3> QED BY <3>3, <3>4, <3>5 DEF Stream
  <2>8. CASE f_offset + n # i_size /\ f_offset' = f_offset + n /\ UNCHANGED data
    <3>1. i_size' = i_size /\ f_offset' <= i_size
      BY <1>t, <2>3, <2>8 DEF i_size
    <3>2. B = SubSeq(data', f_offset' + 1, i_size')
      BY <2>8, <3>1 DEF B, i_size
    <3> QED BY <1>0, <2>2, <2>5, <2>6, <2>8, <3>1, <3>2 DEF Stream
  <2> QED BY <2>1, <2>7, <2>8 DEF Reads
<1>7. ASSUME NEW n \in WriteSizes, Write(p, n) PROVE Stream'
  <2>1. UNCHANGED <<data, f_offset, sent, rcvd, eof, f_count>>
    BY <1>7 DEF Write, ipVars, histVars
  <2> QED BY <1>0, <2>1 DEF Stream, i_size
<1>8. ASSUME WritepLocked(p) PROVE Stream'
  <2>1. UNCHANGED <<data, f_offset, sent, rcvd, eof, f_count>>
    BY <1>8 DEF WritepLocked, plockSleep, histVars
  <2> QED BY <1>0, <2>1 DEF Stream, i_size
<1>9. ASSUME WritepReturn(p) PROVE Stream'
  <2>1. UNCHANGED <<data, f_offset, sent, rcvd, eof, f_count>>
    BY <1>9 DEF WritepReturn, histVars
  <2> QED BY <1>0, <2>1 DEF Stream, i_size
<1>10. ASSUME WritepFull(p) PROVE Stream'
  <2>1. UNCHANGED <<data, f_offset, sent, rcvd, eof, f_count>>
    BY <1>10 DEF WritepFull, histVars
  <2> QED BY <1>0, <2>1 DEF Stream, i_size
<1>11. ASSUME WritepStart(p) PROVE Stream'
  <2>1. UNCHANGED <<data, f_offset, sent, rcvd, eof, f_count>>
    BY <1>11 DEF WritepStart, histVars
  <2> QED BY <1>0, <2>1 DEF Stream, i_size
<1>12. ASSUME WritepFinish(p) PROVE Stream'
  <2>1. PICK n, kept \in Nat : Writes(p, n, kept)
    BY <1>12, WritepWrites DEF IInv
  <2>2. UNCHANGED <<rcvd, eof, f_count, f_offset>>
    BY <1>12 DEF WritepFinish
  <2>3. p \in Writers /\ i_size < PIPSIZ /\ Side(p) = "write"
    BY <1>12, PipeAssumption DEF WritepFinish, IInv, Places, PlaceAt, Side
  <2>4. eof = {}
    BY <1>0, <1>12, <2>3, Counted DEF Stream, WritepFinish, IInv
  <2>5. n \in 0 .. count[p] /\ n <= PIPSIZ
    BY <1>t, <2>1, ChunkIn DEF Writes, IInv
  <2> DEFINE P == Piece(p, n, kept)
  <2>6. P \in Seq(Bytes) /\ Len(P) = n
    BY <2>3, <2>5, PieceFacts DEF IInv
  <2>7. data' = data \o P /\ sent' = sent \o P
    BY <2>1 DEF Writes
  <2> HIDE DEF P
  <2>8. i_size' = i_size + n
    <3>1. data \in Seq(Bytes)
      BY <1>t
    <3> QED BY <2>6, <2>7, <3>1, ConcatProperties DEF i_size
  <2> DEFINE A == SubSeq(data, f_offset + 1, Len(data))
  <2>9. A \in Seq(Bytes) /\ SubSeq(data \o P, f_offset + 1, Len(data) + n) = A \o P
    <3>1. data \in Seq(Bytes) /\ f_offset \in Nat
      BY <1>t
    <3>2. f_offset <= Len(data)
      BY <1>0 DEF Stream, i_size
    <3> QED BY <2>6, <3>1, <3>2, Extend
  <2>10. sent = rcvd \o A
    BY <1>0 DEF Stream, i_size
  <2> HIDE DEF A
  <2>11. sent' = rcvd \o (A \o P)
    <3>1. rcvd \in Seq(Bytes)
      BY <1>t
    <3>2. sent' = (rcvd \o A) \o P
      BY <2>7, <2>10
    <3> QED BY <2>6, <2>9, <3>1, <3>2, ConcatAssociative, SMTT(30)
  <2>12. SubSeq(data', f_offset' + 1, i_size') = A \o P
    BY <2>2, <2>7, <2>8, <2>9 DEF i_size
  <2>13. f_offset' <= i_size' /\ i_size' <= 2 * PIPSIZ - 1
    BY <1>0, <1>t, <2>2, <2>3, <2>5, <2>8 DEF Stream
  <2> QED BY <2>2, <2>4, <2>11, <2>12, <2>13 DEF Stream
<1>13. ASSUME Signal(p) PROVE Stream'
  <2>1. UNCHANGED <<data, f_offset, sent, rcvd, eof, f_count>>
    BY <1>13 DEF Signal, ipVars, histVars
  <2> QED BY <1>0, <2>1 DEF Stream, i_size
<1>14. ASSUME CloseShared(p) PROVE Stream'
  <2>1. UNCHANGED <<data, f_offset, sent, rcvd, eof>>
    BY <1>14 DEF CloseShared, histVars
  <2>2. f_count["write"] = 0 => f_count'["write"] = 0
    BY <1>t, <1>14 DEF CloseShared, Side
  <2> QED BY <1>0, <2>1, <2>2 DEF Stream, i_size
<1>15. ASSUME Closef(p) PROVE Stream'
  <2>1. UNCHANGED <<data, f_offset, sent, rcvd, eof, f_count>>
    BY <1>15 DEF Closef, ipVars, histVars
  <2> QED BY <1>0, <2>1 DEF Stream, i_size
<1>16. ASSUME ClosefLocked(p) PROVE Stream'
  <2>1. UNCHANGED <<data, f_offset, sent, rcvd, eof, f_count>>
    BY <1>16 DEF ClosefLocked, plockSleep, histVars
  <2> QED BY <1>0, <2>1 DEF Stream, i_size
<1>17. ASSUME ClosefFirst(p) PROVE Stream'
  <2>1. UNCHANGED <<data, f_offset, sent, rcvd, eof>>
    BY <1>17 DEF ClosefFirst, histVars
  <2>2. f_count["write"] = 0 => f_count'["write"] = 0
    BY <1>t, <1>17 DEF ClosefFirst, Side
  <2> QED BY <1>0, <2>1, <2>2 DEF Stream, i_size
<1>18. ASSUME ClosefLast(p) PROVE Stream'
  <2>1. UNCHANGED <<data, f_offset, sent, rcvd, eof>>
    BY <1>18 DEF ClosefLast, histVars
  <2>2. f_count["write"] = 0 => f_count'["write"] = 0
    BY <1>t, <1>18 DEF ClosefLast, Side
  <2> QED BY <1>0, <2>1, <2>2 DEF Stream, i_size
<1>19. ASSUME Iput(p) PROVE Stream'
  <2>1. UNCHANGED <<data, f_offset, sent, rcvd, eof, f_count>>
    BY <1>19 DEF Iput, histVars
  <2> QED BY <1>0, <2>1 DEF Stream, i_size
<1> QED
  BY <1>1, <1>2, <1>3, <1>4, <1>5, <1>6, <1>7, <1>8, <1>9, <1>10, <1>11, <1>12, <1>13,
     <1>14, <1>15, <1>16, <1>17, <1>18, <1>19 DEF User, Readp, Writep, Closing

-----------------------------------------------------------------------------
(* The bytes of a call.                                                    *)

\* The bytes a writer adds come after those that are there, the first with
\* all that is left of its call.
LEMMA Appended ==
  ASSUME TypeOK, NEW p \in Writers, NEW n \in Nat, NEW kept \in Nat, Writes(p, n, kept)
  PROVE  /\ DOMAIN sent = 1 .. Len(sent) /\ DOMAIN sent' = 1 .. Len(sent) + n /\ Len(sent) \in Nat
         /\ \A i \in 1 .. Len(sent) : sent'[i] = sent[i]
         /\ \A i \in Len(sent) + 1 .. Len(sent) + n :
              sent'[i] = <<p, calls[p], count[p] - (i - Len(sent)) + 1, i - Len(sent) <= kept>>
<1>1. p \in Procs /\ sent \in Seq(Bytes) /\ count[p] \in Nat
  BY TypeFacts
<1>2. n \in 0 .. count[p]
  BY <1>1, ChunkIn DEF Writes
<1> DEFINE P == Piece(p, n, kept)
<1>3. /\ P \in Seq(Bytes) /\ Len(P) = n
      /\ \A i \in 1 .. n : P[i] = <<p, calls[p], count[p] - i + 1, i <= kept>>
  BY <1>2, PieceFacts
<1>4. sent' = sent \o P
  BY DEF Writes
<1> HIDE DEF P
<1>5. /\ sent' \in Seq(Bytes) /\ Len(sent') = Len(sent) + n
      /\ \A i \in 1 .. Len(sent) + n : sent'[i] = IF i <= Len(sent) THEN sent[i] ELSE P[i - Len(sent)]
  BY <1>1, <1>3, <1>4, ConcatProperties
<1>6. Len(sent) \in Nat /\ DOMAIN sent = 1 .. Len(sent) /\ DOMAIN sent' = 1 .. Len(sent) + n
  BY <1>1, <1>5
<1>7. ASSUME NEW i \in 1 .. Len(sent) PROVE sent'[i] = sent[i]
  BY <1>5, <1>6
<1>8. ASSUME NEW i \in Len(sent) + 1 .. Len(sent) + n
      PROVE  sent'[i] = <<p, calls[p], count[p] - (i - Len(sent)) + 1, i - Len(sent) <= kept>>
  <2>1. i \in 1 .. Len(sent) + n /\ ~(i <= Len(sent)) /\ i - Len(sent) \in 1 .. n
    BY <1>6
  <2> QED BY <1>3, <1>5, <2>1
<1> QED BY <1>6, <1>7, <1>8

\* Whoever wrote a byte is a writer, and its call has a number.
LEMMA SentFacts ==
  ASSUME TypeOK, NEW i \in DOMAIN sent
  PROVE  sent[i][1] \in Writers /\ sent[i][2] \in Nat /\ sent[i][3] \in Nat
<1>1. sent \in Seq(Bytes)
  BY TypeFacts
<1>2. sent[i] \in Bytes
  BY <1>1
<1> QED BY <1>2 DEF Bytes

\* The step of a process that writes nothing leaves the calls as they are, if a
\* writer that goes on is in a new call or was in this one.
LEMMA QuietCalls ==
  ASSUME TypeOK, Calls, Contiguous, UNCHANGED sent,
         \A q \in Writers :
           /\ calls'[q] \in Nat /\ calls'[q] >= calls[q]
           /\ count'[q] > 0 => calls'[q] > calls[q] \/ (calls'[q] = calls[q] /\ count[q] > 0)
  PROVE  Calls' /\ Contiguous'
<1>1. \A i \in DOMAIN sent : SmallCall(i)' <=> SmallCall(i)
  BY DEF SmallCall, SameCall
<1>2. Contiguous'
  BY DEF Contiguous, SmallCall, SameCall
<1>3. \A q \in Writers : calls[q] \in Nat
  BY TypeFacts
<1>4. \A i \in DOMAIN sent : sent[i][2] <= calls[sent[i][1]]
  BY DEF Calls
<1>5. ASSUME NEW i \in DOMAIN sent' PROVE sent'[i][2] <= calls'[sent'[i][1]]
  <2>1. i \in DOMAIN sent /\ sent'[i] = sent[i]
    OBVIOUS
  <2>2. sent[i][1] \in Writers /\ sent[i][2] \in Nat
    BY <2>1, SentFacts
  <2> QED BY <1>3, <1>4, <2>1, <2>2
<1>6. ASSUME NEW q \in Writers, NEW i \in DOMAIN sent',
             count'[q] > 0, sent'[i][1] = q, sent'[i][2] = calls'[q]
      PROVE  ~SmallCall(i)'
  <2>1. i \in DOMAIN sent /\ sent[i][1] = q /\ sent[i][2] = calls'[q]
    BY <1>6
  <2>2. sent[i][2] <= calls[q]
    BY <1>4, <2>1
  <2>3. calls'[q] = calls[q] /\ count[q] > 0
    BY <1>3, <1>6, <2>1, <2>2
  <2>4. ~SmallCall(i)
    BY <2>1, <2>3 DEF Calls
  <2> QED BY <1>1, <2>1, <2>4
<1> QED BY <1>2, <1>5, <1>6 DEF Calls

\* A writer adds the bytes of a small call in one go.
LEMMA WriteCalls ==
  ASSUME IInv, NEW p \in Procs, WritepFinish(p)
  PROVE  Calls' /\ Contiguous'
<1>1. p \in Writers /\ count[p] > 0
  BY DEF WritepFinish, At, IInv, Places, PlaceAt
<1>2. PICK n, kept \in Nat : Writes(p, n, kept)
  BY WritepWrites DEF IInv
<1>3. /\ DOMAIN sent = 1 .. Len(sent) /\ DOMAIN sent' = 1 .. Len(sent) + n /\ Len(sent) \in Nat
      /\ \A i \in 1 .. Len(sent) : sent'[i] = sent[i]
      /\ \A i \in Len(sent) + 1 .. Len(sent) + n :
           sent'[i] = <<p, calls[p], count[p] - (i - Len(sent)) + 1, i - Len(sent) <= kept>>
  BY <1>1, <1>2, Appended DEF IInv
<1>4. /\ count \in [Procs -> Nat] /\ calls \in [Procs -> Nat] /\ Writers \subseteq Procs /\ PIPSIZ \in Nat
  BY TypeFacts DEF IInv
<1>5. /\ Chunk(p) \in Nat /\ Chunk(p) <= count[p]
      /\ count[p] - Chunk(p) > 0 => count[p] > PIPSIZ
  BY ChunkIn DEF IInv
<1>6. calls' = calls /\ count' = [count EXCEPT ![p] = count[p] - Chunk(p)]
  BY DEF WritepFinish
<1> DEFINE Old == 1 .. Len(sent)
           New == Len(sent) + 1 .. Len(sent) + n
<1>7. /\ \A i \in DOMAIN sent' : i \in Old \/ i \in New
      /\ \A i \in Old : i \in DOMAIN sent' /\ i \in DOMAIN sent /\ sent'[i] = sent[i]
      /\ \A i \in New : i \in DOMAIN sent' /\ sent'[i][1] = p /\ sent'[i][2] = calls[p]
  BY <1>3
<1>8. \A i \in New : Len(sent) + 1 \in New /\ sent'[Len(sent) + 1][3] = count[p]
  BY <1>3, <1>4, SMTT(30)
<1>9. \A i, j, k : i \in New /\ j \in New /\ k \in i .. j => k \in New
  BY <1>3
<1>10. \A i, j, k : i \in Old /\ j \in Old /\ k \in i .. j => k \in Old
  BY <1>3
<1>11. \A i \in New, j \in Old : i .. j = {}
  BY <1>3
<1>12. DOMAIN sent = Old
  BY <1>3
<1> HIDE DEF Old, New
<1>13. \A i, j \in Old : SameCall(i, j)' <=> SameCall(i, j)
  BY <1>7 DEF SameCall
<1>14. \A i \in Old : SmallCall(i)' => SmallCall(i)
  BY <1>7, <1>12, <1>13 DEF SmallCall
<1>15. \A q \in Writers, i \in Old :
         count[q] > 0 /\ sent[i][1] = q /\ sent[i][2] = calls[q] => ~SmallCall(i)
  BY <1>12 DEF IInv, Calls
<1>16. \A i \in DOMAIN sent' : sent'[i][2] <= calls'[sent'[i][1]]
  <2>1. \A i \in Old : sent[i][2] <= calls[sent[i][1]]
    BY <1>12 DEF IInv, Calls
  <2>2. calls[p] \in Nat
    BY <1>4
  <2> QED BY <1>6, <1>7, <2>1, <2>2
<1>17. ASSUME NEW q \in Writers, NEW i \in DOMAIN sent',
              count'[q] > 0, sent'[i][1] = q, sent'[i][2] = calls'[q]
       PROVE  ~SmallCall(i)'
  <2>1. CASE i \in Old
    <3>1. count[q] > 0
      BY <1>1, <1>4, <1>6, <1>17
    <3>2. sent[i][1] = q /\ sent[i][2] = calls[q]
      BY <1>6, <1>7, <1>17, <2>1
    <3> QED BY <1>14, <1>15, <2>1, <3>1, <3>2
  <2>2. CASE i \in New
    <3>1. q = p /\ sent'[i][2] = calls[p]
      BY <1>7, <1>17, <2>2
    <3>2. count[p] > PIPSIZ
      BY <1>4, <1>5, <1>6, <1>17, <3>1
    <3>a. PICK k \in Nat : k = Len(sent) + 1
      BY <1>3
    <3>3. k \in New /\ sent'[k][3] = count[p]
      BY <1>8, <2>2, <3>a
    <3>4. k \in DOMAIN sent' /\ SameCall(i, k)'
      BY <1>7, <2>2, <3>3 DEF SameCall
    <3>5. ~(sent'[k][3] <= PIPSIZ)
      BY <1>4, <3>2, <3>3
    <3> QED BY <3>4, <3>5 DEF SmallCall
  <2> QED BY <1>7, <2>1, <2>2
<1>18. ASSUME NEW i \in DOMAIN sent', NEW j \in DOMAIN sent', SameCall(i, j)', SmallCall(i)',
              NEW k \in i .. j
       PROVE  SameCall(i, k)'
  <2>1. CASE i \in Old /\ j \in Old
    <3>1. SameCall(i, j) /\ SmallCall(i) /\ k \in Old
      BY <1>10, <1>13, <1>14, <1>18, <2>1
    <3>2. SameCall(i, k)
      BY <1>12, <2>1, <3>1 DEF IInv, Contiguous
    <3> QED BY <1>13, <2>1, <3>1, <3>2
  <2>2. CASE i \in New /\ j \in New
    BY <1>7, <1>9, <2>2 DEF SameCall
  <2>3. CASE i \in Old /\ j \in New
    <3>1. sent[i][1] = p /\ sent[i][2] = calls[p]
      BY <1>7, <1>18, <2>3 DEF SameCall
    <3> QED BY <1>1, <1>14, <1>15, <1>18, <2>3, <3>1
  <2>4. CASE i \in New /\ j \in Old
    BY <1>11, <2>4
  <2> QED BY <1>7, <2>1, <2>2, <2>3, <2>4
<1>19. Calls'
  BY <1>16, <1>17 DEF Calls
<1>20. Contiguous'
  BY <1>18 DEF Contiguous
<1> QED BY <1>19, <1>20

\* Every step keeps the bytes of a small call together.
LEMMA CallsStep ==
  ASSUME IInv, NEW p \in Procs, User(p) \/ Readp(p) \/ Writep(p) \/ Closing(p) \/ Signal(p)
  PROVE  Calls' /\ Contiguous'
<1> USE DEF At, Goto, Locked, Awake, Lock, Ip1, Ip2
<1>0. TypeOK /\ Calls /\ Contiguous
  BY DEF IInv
<1>t. /\ data \in Seq(Bytes) /\ sent \in Seq(Bytes) /\ rcvd \in Seq(Bytes)
      /\ f_offset \in Nat /\ i_size \in Nat /\ i_count \in 0 .. 2
      /\ i_flag \subseteq {"ILOCK", "IWANT"} /\ i_mode \subseteq {"IREAD", "IWRITE"}
      /\ f_count \in [{"read", "write"} -> Nat]
      /\ pc \in [Procs -> {"user", "readp", "readi", "writep", "writei", "closef", "iput", "closed"}]
      /\ wchan \in [Procs -> {Awake, Lock, Ip1, Ip2}]
      /\ count \in [Procs -> Nat] /\ calls \in [Procs -> Nat] /\ eof \subseteq Readers
      /\ PIPSIZ \in Nat \ {0} /\ Readers \subseteq Procs /\ Writers \subseteq Procs
      /\ Procs = Readers \cup Writers /\ Readers \cap Writers = {}
  BY TypeFacts DEF IInv
<1>1. ASSUME NEW n \in ReadSizes, Read(p, n) PROVE Calls' /\ Contiguous'
  <2>1. UNCHANGED sent
    BY <1>1 DEF Read, ipVars, histVars
  <2>2. \A q \in Writers :
          /\ calls'[q] \in Nat /\ calls'[q] >= calls[q]
          /\ count'[q] > 0 => calls'[q] > calls[q] \/ (calls'[q] = calls[q] /\ count[q] > 0)
    BY <1>t, <1>1 DEF Read, ipVars, histVars
  <2> QED BY <1>0, <2>1, <2>2, QuietCalls
<1>2. ASSUME ReadpLocked(p) PROVE Calls' /\ Contiguous'
  <2>1. UNCHANGED sent
    BY <1>2 DEF ReadpLocked, plockSleep, histVars
  <2>2. \A q \in Writers :
          /\ calls'[q] \in Nat /\ calls'[q] >= calls[q]
          /\ count'[q] > 0 => calls'[q] > calls[q] \/ (calls'[q] = calls[q] /\ count[q] > 0)
    BY <1>t, <1>2 DEF ReadpLocked, plockSleep, histVars
  <2> QED BY <1>0, <2>1, <2>2, QuietCalls
<1>3. ASSUME ReadpEof(p) PROVE Calls' /\ Contiguous'
  <2>1. UNCHANGED sent
    BY <1>3 DEF ReadpEof, Return
  <2>2. \A q \in Writers :
          /\ calls'[q] \in Nat /\ calls'[q] >= calls[q]
          /\ count'[q] > 0 => calls'[q] > calls[q] \/ (calls'[q] = calls[q] /\ count[q] > 0)
    BY <1>t, <1>3 DEF ReadpEof, Return
  <2> QED BY <1>0, <2>1, <2>2, QuietCalls
<1>4. ASSUME ReadpWait(p) PROVE Calls' /\ Contiguous'
  <2>1. UNCHANGED sent
    BY <1>4 DEF ReadpWait, histVars
  <2>2. \A q \in Writers :
          /\ calls'[q] \in Nat /\ calls'[q] >= calls[q]
          /\ count'[q] > 0 => calls'[q] > calls[q] \/ (calls'[q] = calls[q] /\ count[q] > 0)
    BY <1>t, <1>4 DEF ReadpWait, histVars
  <2> QED BY <1>0, <2>1, <2>2, QuietCalls
<1>5. ASSUME ReadpStart(p) PROVE Calls' /\ Contiguous'
  <2>1. UNCHANGED sent
    BY <1>5 DEF ReadpStart, histVars
  <2>2. \A q \in Writers :
          /\ calls'[q] \in Nat /\ calls'[q] >= calls[q]
          /\ count'[q] > 0 => calls'[q] > calls[q] \/ (calls'[q] = calls[q] /\ count[q] > 0)
    BY <1>t, <1>5 DEF ReadpStart, histVars
  <2> QED BY <1>0, <2>1, <2>2, QuietCalls
<1>6. ASSUME ReadpFinish(p) PROVE Calls' /\ Contiguous'
  <2>1. UNCHANGED sent
    BY <1>6 DEF ReadpFinish, Return
  <2>2. \A q \in Writers :
          /\ calls'[q] \in Nat /\ calls'[q] >= calls[q]
          /\ count'[q] > 0 => calls'[q] > calls[q] \/ (calls'[q] = calls[q] /\ count[q] > 0)
    BY <1>t, <1>6 DEF ReadpFinish, Return
  <2> QED BY <1>0, <2>1, <2>2, QuietCalls
<1>7. ASSUME NEW n \in WriteSizes, Write(p, n) PROVE Calls' /\ Contiguous'
  <2>1. UNCHANGED sent
    BY <1>7 DEF Write, ipVars, histVars
  <2>2. \A q \in Writers :
          /\ calls'[q] \in Nat /\ calls'[q] >= calls[q]
          /\ count'[q] > 0 => calls'[q] > calls[q] \/ (calls'[q] = calls[q] /\ count[q] > 0)
    BY <1>t, <1>7 DEF Write, ipVars, histVars
  <2> QED BY <1>0, <2>1, <2>2, QuietCalls
<1>8. ASSUME WritepLocked(p) PROVE Calls' /\ Contiguous'
  <2>1. UNCHANGED sent
    BY <1>8 DEF WritepLocked, plockSleep, histVars
  <2>2. \A q \in Writers :
          /\ calls'[q] \in Nat /\ calls'[q] >= calls[q]
          /\ count'[q] > 0 => calls'[q] > calls[q] \/ (calls'[q] = calls[q] /\ count[q] > 0)
    BY <1>t, <1>8 DEF WritepLocked, plockSleep, histVars
  <2> QED BY <1>0, <2>1, <2>2, QuietCalls
<1>9. ASSUME WritepReturn(p) PROVE Calls' /\ Contiguous'
  <2>1. UNCHANGED sent
    BY <1>9 DEF WritepReturn, Return, histVars
  <2>2. \A q \in Writers :
          /\ calls'[q] \in Nat /\ calls'[q] >= calls[q]
          /\ count'[q] > 0 => calls'[q] > calls[q] \/ (calls'[q] = calls[q] /\ count[q] > 0)
    BY <1>t, <1>9 DEF WritepReturn, Return, histVars
  <2> QED BY <1>0, <2>1, <2>2, QuietCalls
<1>10. ASSUME WritepFull(p) PROVE Calls' /\ Contiguous'
  <2>1. UNCHANGED sent
    BY <1>10 DEF WritepFull, histVars
  <2>2. \A q \in Writers :
          /\ calls'[q] \in Nat /\ calls'[q] >= calls[q]
          /\ count'[q] > 0 => calls'[q] > calls[q] \/ (calls'[q] = calls[q] /\ count[q] > 0)
    BY <1>t, <1>10 DEF WritepFull, histVars
  <2> QED BY <1>0, <2>1, <2>2, QuietCalls
<1>11. ASSUME WritepStart(p) PROVE Calls' /\ Contiguous'
  <2>1. UNCHANGED sent
    BY <1>11 DEF WritepStart, histVars
  <2>2. \A q \in Writers :
          /\ calls'[q] \in Nat /\ calls'[q] >= calls[q]
          /\ count'[q] > 0 => calls'[q] > calls[q] \/ (calls'[q] = calls[q] /\ count[q] > 0)
    BY <1>t, <1>11 DEF WritepStart, histVars
  <2> QED BY <1>0, <2>1, <2>2, QuietCalls
<1>12. ASSUME WritepFinish(p) PROVE Calls' /\ Contiguous'
  BY <1>12, WriteCalls
<1>13. ASSUME Signal(p) PROVE Calls' /\ Contiguous'
  <2>1. UNCHANGED sent
    BY <1>13 DEF Signal, Return, ipVars, histVars
  <2>2. \A q \in Writers :
          /\ calls'[q] \in Nat /\ calls'[q] >= calls[q]
          /\ count'[q] > 0 => calls'[q] > calls[q] \/ (calls'[q] = calls[q] /\ count[q] > 0)
    BY <1>t, <1>13 DEF Signal, Return, ipVars, histVars
  <2> QED BY <1>0, <2>1, <2>2, QuietCalls
<1>14. ASSUME CloseShared(p) PROVE Calls' /\ Contiguous'
  <2>1. UNCHANGED sent
    BY <1>14 DEF CloseShared, histVars
  <2>2. \A q \in Writers :
          /\ calls'[q] \in Nat /\ calls'[q] >= calls[q]
          /\ count'[q] > 0 => calls'[q] > calls[q] \/ (calls'[q] = calls[q] /\ count[q] > 0)
    BY <1>t, <1>14 DEF CloseShared, histVars
  <2> QED BY <1>0, <2>1, <2>2, QuietCalls
<1>15. ASSUME Closef(p) PROVE Calls' /\ Contiguous'
  <2>1. UNCHANGED sent
    BY <1>15 DEF Closef, ipVars, histVars
  <2>2. \A q \in Writers :
          /\ calls'[q] \in Nat /\ calls'[q] >= calls[q]
          /\ count'[q] > 0 => calls'[q] > calls[q] \/ (calls'[q] = calls[q] /\ count[q] > 0)
    BY <1>t, <1>15 DEF Closef, ipVars, histVars
  <2> QED BY <1>0, <2>1, <2>2, QuietCalls
<1>16. ASSUME ClosefLocked(p) PROVE Calls' /\ Contiguous'
  <2>1. UNCHANGED sent
    BY <1>16 DEF ClosefLocked, plockSleep, histVars
  <2>2. \A q \in Writers :
          /\ calls'[q] \in Nat /\ calls'[q] >= calls[q]
          /\ count'[q] > 0 => calls'[q] > calls[q] \/ (calls'[q] = calls[q] /\ count[q] > 0)
    BY <1>t, <1>16 DEF ClosefLocked, plockSleep, histVars
  <2> QED BY <1>0, <2>1, <2>2, QuietCalls
<1>17. ASSUME ClosefFirst(p) PROVE Calls' /\ Contiguous'
  <2>1. UNCHANGED sent
    BY <1>17 DEF ClosefFirst, histVars
  <2>2. \A q \in Writers :
          /\ calls'[q] \in Nat /\ calls'[q] >= calls[q]
          /\ count'[q] > 0 => calls'[q] > calls[q] \/ (calls'[q] = calls[q] /\ count[q] > 0)
    BY <1>t, <1>17 DEF ClosefFirst, histVars
  <2> QED BY <1>0, <2>1, <2>2, QuietCalls
<1>18. ASSUME ClosefLast(p) PROVE Calls' /\ Contiguous'
  <2>1. UNCHANGED sent
    BY <1>18 DEF ClosefLast, histVars
  <2>2. \A q \in Writers :
          /\ calls'[q] \in Nat /\ calls'[q] >= calls[q]
          /\ count'[q] > 0 => calls'[q] > calls[q] \/ (calls'[q] = calls[q] /\ count[q] > 0)
    BY <1>t, <1>18 DEF ClosefLast, histVars
  <2> QED BY <1>0, <2>1, <2>2, QuietCalls
<1>19. ASSUME Iput(p) PROVE Calls' /\ Contiguous'
  <2>1. UNCHANGED sent
    BY <1>19 DEF Iput, histVars
  <2>2. \A q \in Writers :
          /\ calls'[q] \in Nat /\ calls'[q] >= calls[q]
          /\ count'[q] > 0 => calls'[q] > calls[q] \/ (calls'[q] = calls[q] /\ count[q] > 0)
    BY <1>t, <1>19 DEF Iput, histVars
  <2> QED BY <1>0, <2>1, <2>2, QuietCalls
<1> QED
  BY <1>1, <1>2, <1>3, <1>4, <1>5, <1>6, <1>7, <1>8, <1>9, <1>10, <1>11, <1>12, <1>13,
     <1>14, <1>15, <1>16, <1>17, <1>18, <1>19 DEF User, Readp, Writep, Closing

-----------------------------------------------------------------------------
(* The channel.                                                            *)

\* The two halves of a concatenation.
LEMMA Halves ==
  ASSUME NEW S, NEW a \in Seq(S), NEW b \in Seq(S)
  PROVE  /\ Len(a \o b) = Len(a) + Len(b) /\ Len(a) \in Nat /\ Len(b) \in Nat
         /\ SubSeq(a \o b, 1, Len(a)) = a
         /\ SubSeq(a \o b, Len(a) + 1, Len(a \o b)) = b
<1> DEFINE c == a \o b
           x == SubSeq(c, 1, Len(a))
           y == SubSeq(c, Len(a) + 1, Len(c))
<1>1. /\ c \in Seq(S) /\ Len(c) = Len(a) + Len(b) /\ Len(a) \in Nat /\ Len(b) \in Nat
      /\ \A i \in 1 .. Len(a) + Len(b) : c[i] = IF i <= Len(a) THEN a[i] ELSE b[i - Len(a)]
  BY ConcatProperties
<1> HIDE DEF c
<1>2. \A i \in 1 .. Len(c) : c[i] \in S
  BY <1>1
<1>3. x \in Seq(S) /\ Len(x) = Len(a) /\ \A i \in 1 .. Len(a) : x[i] = c[i]
  <2>1. \A i \in 1 .. Len(a) : c[i] \in S
    BY <1>1, <1>2
  <2> QED BY <1>1, <2>1, SubSeqProperties
<1>4. y \in Seq(S) /\ Len(y) = Len(b) /\ \A i \in 1 .. Len(b) : y[i] = c[Len(a) + i]
  <2>1. \A i \in Len(a) + 1 .. Len(c) : c[i] \in S
    BY <1>1, <1>2
  <2> QED BY <1>1, <2>1, SubSeqProperties
<1> HIDE DEF x, y
<1>5. x = a
  <2>1. \A i \in 1 .. Len(x) : x[i] = a[i]
    BY <1>1, <1>3
  <2> QED BY <1>3, <2>1, SeqEqual
<1>6. y = b
  <2>1. ASSUME NEW i \in 1 .. Len(y) PROVE y[i] = b[i]
    <3>1. Len(a) + i \in 1 .. Len(a) + Len(b) /\ ~(Len(a) + i <= Len(a)) /\ (Len(a) + i) - Len(a) = i
      BY <1>1, <1>4
    <3> QED BY <1>1, <1>4, <3>1
  <2> QED BY <1>4, <2>1, SeqEqual
<1> QED BY <1>1, <1>5, <1>6 DEF c, x, y

Queue == SubSeq(data, f_offset + 1, i_size)

OpenSides == {s \in {"read", "write"} : f_count[s] > 0}

\* Reading takes bytes out of the channel.
LEMMA ReadGets ==
  ASSUME IInv, NEW p \in Procs, ReadpFinish(p)
  PROVE  Chan!Get
<1>1. /\ data \in Seq(Bytes) /\ f_offset \in Nat /\ i_size \in Nat /\ f_offset <= i_size
  BY TypeFacts DEF IInv, Stream
<1>2. PICK n \in Nat : Reads(p, n)
  BY ReadpReads DEF IInv
<1>3. UNCHANGED f_count
  BY DEF ReadpFinish
<1>4. "read" \in OpenSides
  <2>1. Side(p) = "read"
    BY DEF ReadpFinish, At, IInv, Places, PlaceAt, Side
  <2>2. f_count[Side(p)] > 0
    BY Counted DEF ReadpFinish, At, IInv
  <2> QED BY <2>1, <2>2 DEF OpenSides
<1>5. n \in 0 .. Len(data) - f_offset /\ f_offset \in 0 .. Len(data)
  BY <1>1, <1>2 DEF Reads, i_size
<1> DEFINE A == SubSeq(data, f_offset + 1, f_offset + n)
           B == SubSeq(data, f_offset + n + 1, Len(data))
<1>6. A \in Seq(Bytes) /\ B \in Seq(Bytes) /\ Queue = A \o B
  BY <1>1, <1>5, Cut DEF Queue, i_size
<1>7. rcvd' = rcvd \o A
  BY <1>2 DEF Reads
<1>8. Queue' = B
  <2>1. CASE f_offset + n = i_size /\ f_offset' = 0 /\ data' = <<>>
    <3>1. B = <<>>
      BY <1>1, <1>5, <2>1, SubSeqEmpty DEF i_size
    <3>2. Queue' = <<>>
      BY <2>1, SubSeqEmpty DEF Queue, i_size
    <3> QED BY <3>1, <3>2
  <2>2. CASE f_offset + n # i_size /\ f_offset' = f_offset + n /\ UNCHANGED data
    BY <2>2 DEF Queue, i_size
  <2> QED BY <1>2, <2>1, <2>2 DEF Reads
<1> HIDE DEF A, B
<1>9. /\ Len(A) \in 0 .. Len(Queue)
      /\ SubSeq(Queue, 1, Len(A)) = A /\ SubSeq(Queue, Len(A) + 1, Len(Queue)) = B
  BY <1>6, Halves
<1>10. \E m \in 0 .. Len(Queue) :
         /\ rcvd' = rcvd \o SubSeq(Queue, 1, m)
         /\ Queue' = SubSeq(Queue, m + 1, Len(Queue))
  BY <1>7, <1>8, <1>9
<1>11. UNCHANGED OpenSides
  BY <1>3 DEF OpenSides
<1> QED BY <1>4, <1>10, <1>11 DEF Chan!Get, Queue, OpenSides

\* Writing puts a piece into it.
LEMMA WritePuts ==
  ASSUME IInv, NEW p \in Procs, WritepFinish(p)
  PROVE  Chan!Put
<1>1. /\ data \in Seq(Bytes) /\ f_offset \in Nat /\ i_size \in Nat /\ PIPSIZ \in Nat \ {0}
      /\ f_offset <= i_size
  BY TypeFacts DEF IInv, Stream
<1>2. PICK n, kept \in Nat : Writes(p, n, kept)
  BY WritepWrites DEF IInv
<1>3. UNCHANGED <<rcvd, f_count, f_offset>>
  BY DEF WritepFinish
<1>4. p \in Writers /\ i_size < PIPSIZ /\ i_count = 2
  BY DEF WritepFinish, At, IInv, Places, PlaceAt
<1>5. OpenSides = {"read", "write"}
  BY <1>4 DEF IInv, Sides, OpenSides
<1>6. n \in 0 .. count[p] /\ n <= PIPSIZ
  BY <1>2, ChunkIn, TypeFacts DEF Writes, IInv
<1> DEFINE P == Piece(p, n, kept)
<1>7. P \in Seq(Bytes) /\ Len(P) = n
  BY <1>4, <1>6, PieceFacts DEF IInv
<1>8. data' = data \o P
  BY <1>2 DEF Writes
<1> HIDE DEF P
<1>9. i_size' = Len(data) + n
  BY <1>1, <1>7, <1>8, ConcatProperties DEF i_size
<1>10. Queue \in Seq(Bytes) /\ SubSeq(data \o P, f_offset + 1, Len(data) + n) = Queue \o P
  <2>1. Queue = SubSeq(data, f_offset + 1, Len(data))
    BY DEF Queue, i_size
  <2>a. data \in Seq(Bytes) /\ P \in Seq(Bytes) /\ f_offset \in Nat /\ f_offset <= Len(data)
    BY <1>1, <1>7 DEF i_size
  <2>2. /\ SubSeq(data, f_offset + 1, Len(data)) \in Seq(Bytes)
        /\ SubSeq(data \o P, f_offset + 1, Len(data) + Len(P)) = SubSeq(data, f_offset + 1, Len(data)) \o P
    BY <2>a, Extend
  <2> QED BY <1>7, <2>1, <2>2
<1>11. Queue' = Queue \o P
  BY <1>3, <1>8, <1>9, <1>10 DEF Queue
<1>12. Len(Queue') = Len(Queue) + n /\ SubSeq(Queue', 1, Len(Queue)) = Queue
  BY <1>7, <1>10, <1>11, Halves
<1>13. Len(Queue) = i_size - f_offset
  <2>1. \A i \in f_offset + 1 .. Len(data) : data[i] \in Bytes
    BY <1>1
  <2> QED BY <1>1, <2>1, SubSeqProperties DEF Queue, i_size
<1>14. Len(Queue') <= 2 * PIPSIZ - 1 /\ n \in 0 .. 2 * PIPSIZ - 1
  BY <1>1, <1>4, <1>6, <1>12, <1>13
<1>15. UNCHANGED OpenSides
  BY <1>3 DEF OpenSides
<1> QED BY <1>3, <1>5, <1>12, <1>14, <1>15 DEF Chan!Put, Queue, OpenSides

\* The last close of a side closes it.
LEMMA CloseCloses ==
  ASSUME IInv, NEW p \in Procs, ClosefFirst(p) \/ ClosefLast(p)
  PROVE  Chan!Close
<1>1. f_count \in [{"read", "write"} -> Nat]
  BY TypeFacts DEF IInv
<1>2. Side(p) \in {"read", "write"} /\ f_count[Side(p)] = 1
  BY DEF ClosefFirst, ClosefLast, At, IInv, Places, PlaceAt, Side
<1>3. f_count' = [f_count EXCEPT ![Side(p)] = 0] /\ UNCHANGED <<data, f_offset, rcvd>>
  BY DEF ClosefFirst, ClosefLast, histVars
<1>4. Side(p) \in OpenSides /\ OpenSides' = OpenSides \ {Side(p)}
  BY <1>1, <1>2, <1>3 DEF OpenSides
<1>5. UNCHANGED <<Queue, rcvd>>
  BY <1>3 DEF Queue, i_size
<1> QED BY <1>4, <1>5 DEF Chan!Close, Queue, OpenSides

\* Every step is one of the channel, or leaves it alone.
LEMMA ChannelStep ==
  ASSUME IInv, NEW p \in Procs, User(p) \/ Readp(p) \/ Writep(p) \/ Closing(p) \/ Signal(p)
  PROVE  Chan!Get \/ Chan!Put \/ Chan!Close \/ UNCHANGED <<Queue, rcvd, OpenSides>>
<1> USE DEF At, Goto, Locked, Awake, Lock, Ip1, Ip2
<1>0. TypeOK
  BY DEF IInv
<1>t. /\ data \in Seq(Bytes) /\ sent \in Seq(Bytes) /\ rcvd \in Seq(Bytes)
      /\ f_offset \in Nat /\ i_size \in Nat /\ i_count \in 0 .. 2
      /\ i_flag \subseteq {"ILOCK", "IWANT"} /\ i_mode \subseteq {"IREAD", "IWRITE"}
      /\ f_count \in [{"read", "write"} -> Nat]
      /\ pc \in [Procs -> {"user", "readp", "readi", "writep", "writei", "closef", "iput", "closed"}]
      /\ wchan \in [Procs -> {Awake, Lock, Ip1, Ip2}]
      /\ count \in [Procs -> Nat] /\ calls \in [Procs -> Nat] /\ eof \subseteq Readers
      /\ PIPSIZ \in Nat \ {0} /\ Readers \subseteq Procs /\ Writers \subseteq Procs
      /\ Procs = Readers \cup Writers /\ Readers \cap Writers = {}
  BY TypeFacts DEF IInv
<1>1. ASSUME NEW n \in ReadSizes, Read(p, n) PROVE Chan!Get \/ Chan!Put \/ Chan!Close \/ UNCHANGED <<Queue, rcvd, OpenSides>>
  <2>1. UNCHANGED <<data, f_offset, rcvd, f_count>>
    BY <1>1 DEF Read, ipVars, histVars
  <2> QED BY <2>1 DEF Queue, OpenSides, i_size
<1>2. ASSUME ReadpLocked(p) PROVE Chan!Get \/ Chan!Put \/ Chan!Close \/ UNCHANGED <<Queue, rcvd, OpenSides>>
  <2>1. UNCHANGED <<data, f_offset, rcvd, f_count>>
    BY <1>2 DEF ReadpLocked, plockSleep, histVars
  <2> QED BY <2>1 DEF Queue, OpenSides, i_size
<1>3. ASSUME ReadpEof(p) PROVE Chan!Get \/ Chan!Put \/ Chan!Close \/ UNCHANGED <<Queue, rcvd, OpenSides>>
  <2>1. UNCHANGED <<data, f_offset, rcvd, f_count>>
    BY <1>3 DEF ReadpEof
  <2> QED BY <2>1 DEF Queue, OpenSides, i_size
<1>4. ASSUME ReadpWait(p) PROVE Chan!Get \/ Chan!Put \/ Chan!Close \/ UNCHANGED <<Queue, rcvd, OpenSides>>
  <2>1. UNCHANGED <<data, f_offset, rcvd, f_count>>
    BY <1>4 DEF ReadpWait, histVars
  <2> QED BY <2>1 DEF Queue, OpenSides, i_size
<1>5. ASSUME ReadpStart(p) PROVE Chan!Get \/ Chan!Put \/ Chan!Close \/ UNCHANGED <<Queue, rcvd, OpenSides>>
  <2>1. UNCHANGED <<data, f_offset, rcvd, f_count>>
    BY <1>5 DEF ReadpStart, histVars
  <2> QED BY <2>1 DEF Queue, OpenSides, i_size
<1>6. ASSUME ReadpFinish(p) PROVE Chan!Get \/ Chan!Put \/ Chan!Close \/ UNCHANGED <<Queue, rcvd, OpenSides>>
  BY <1>6, ReadGets
<1>7. ASSUME NEW n \in WriteSizes, Write(p, n) PROVE Chan!Get \/ Chan!Put \/ Chan!Close \/ UNCHANGED <<Queue, rcvd, OpenSides>>
  <2>1. UNCHANGED <<data, f_offset, rcvd, f_count>>
    BY <1>7 DEF Write, ipVars, histVars
  <2> QED BY <2>1 DEF Queue, OpenSides, i_size
<1>8. ASSUME WritepLocked(p) PROVE Chan!Get \/ Chan!Put \/ Chan!Close \/ UNCHANGED <<Queue, rcvd, OpenSides>>
  <2>1. UNCHANGED <<data, f_offset, rcvd, f_count>>
    BY <1>8 DEF WritepLocked, plockSleep, histVars
  <2> QED BY <2>1 DEF Queue, OpenSides, i_size
<1>9. ASSUME WritepReturn(p) PROVE Chan!Get \/ Chan!Put \/ Chan!Close \/ UNCHANGED <<Queue, rcvd, OpenSides>>
  <2>1. UNCHANGED <<data, f_offset, rcvd, f_count>>
    BY <1>9 DEF WritepReturn, histVars
  <2> QED BY <2>1 DEF Queue, OpenSides, i_size
<1>10. ASSUME WritepFull(p) PROVE Chan!Get \/ Chan!Put \/ Chan!Close \/ UNCHANGED <<Queue, rcvd, OpenSides>>
  <2>1. UNCHANGED <<data, f_offset, rcvd, f_count>>
    BY <1>10 DEF WritepFull, histVars
  <2> QED BY <2>1 DEF Queue, OpenSides, i_size
<1>11. ASSUME WritepStart(p) PROVE Chan!Get \/ Chan!Put \/ Chan!Close \/ UNCHANGED <<Queue, rcvd, OpenSides>>
  <2>1. UNCHANGED <<data, f_offset, rcvd, f_count>>
    BY <1>11 DEF WritepStart, histVars
  <2> QED BY <2>1 DEF Queue, OpenSides, i_size
<1>12. ASSUME WritepFinish(p) PROVE Chan!Get \/ Chan!Put \/ Chan!Close \/ UNCHANGED <<Queue, rcvd, OpenSides>>
  BY <1>12, WritePuts
<1>13. ASSUME Signal(p) PROVE Chan!Get \/ Chan!Put \/ Chan!Close \/ UNCHANGED <<Queue, rcvd, OpenSides>>
  <2>1. UNCHANGED <<data, f_offset, rcvd, f_count>>
    BY <1>13 DEF Signal, ipVars, histVars
  <2> QED BY <2>1 DEF Queue, OpenSides, i_size
<1>14. ASSUME CloseShared(p) PROVE Chan!Get \/ Chan!Put \/ Chan!Close \/ UNCHANGED <<Queue, rcvd, OpenSides>>
  <2>1. UNCHANGED <<data, f_offset, rcvd>>
    BY <1>14 DEF CloseShared, histVars
  <2>2. Side(p) \in {"read", "write"} /\ f_count[Side(p)] > 1
        /\ f_count' = [f_count EXCEPT ![Side(p)] = f_count[Side(p)] - 1]
    BY <1>14 DEF CloseShared, Side
  <2>3. UNCHANGED OpenSides
    BY <1>t, <2>2 DEF OpenSides
  <2> QED BY <2>1, <2>3 DEF Queue, i_size
<1>15. ASSUME Closef(p) PROVE Chan!Get \/ Chan!Put \/ Chan!Close \/ UNCHANGED <<Queue, rcvd, OpenSides>>
  <2>1. UNCHANGED <<data, f_offset, rcvd, f_count>>
    BY <1>15 DEF Closef, ipVars, histVars
  <2> QED BY <2>1 DEF Queue, OpenSides, i_size
<1>16. ASSUME ClosefLocked(p) PROVE Chan!Get \/ Chan!Put \/ Chan!Close \/ UNCHANGED <<Queue, rcvd, OpenSides>>
  <2>1. UNCHANGED <<data, f_offset, rcvd, f_count>>
    BY <1>16 DEF ClosefLocked, plockSleep, histVars
  <2> QED BY <2>1 DEF Queue, OpenSides, i_size
<1>17. ASSUME ClosefFirst(p) PROVE Chan!Get \/ Chan!Put \/ Chan!Close \/ UNCHANGED <<Queue, rcvd, OpenSides>>
  BY <1>17, CloseCloses
<1>18. ASSUME ClosefLast(p) PROVE Chan!Get \/ Chan!Put \/ Chan!Close \/ UNCHANGED <<Queue, rcvd, OpenSides>>
  BY <1>18, CloseCloses
<1>19. ASSUME Iput(p) PROVE Chan!Get \/ Chan!Put \/ Chan!Close \/ UNCHANGED <<Queue, rcvd, OpenSides>>
  <2>1. UNCHANGED <<data, f_offset, rcvd, f_count>>
    BY <1>19 DEF Iput, histVars
  <2> QED BY <2>1 DEF Queue, OpenSides, i_size
<1> QED
  BY <1>1, <1>2, <1>3, <1>4, <1>5, <1>6, <1>7, <1>8, <1>9, <1>10, <1>11, <1>12, <1>13,
     <1>14, <1>15, <1>16, <1>17, <1>18, <1>19 DEF User, Readp, Writep, Closing

-----------------------------------------------------------------------------
(* The theorems.                                                           *)

\* IInv holds when pipe() and fork() are done.
LEMMA InitIInv == Init => IInv
<1> SUFFICES ASSUME Init PROVE IInv
  OBVIOUS
<1>1. /\ IsFiniteSet(Readers) /\ IsFiniteSet(Writers) /\ Readers \cap Writers = {}
      /\ Readers # {} /\ Writers # {} /\ PIPSIZ \in Nat \ {0}
  BY PipeAssumption
<1>2. /\ Cardinality(Readers) \in Nat /\ Cardinality(Readers) > 0
      /\ Cardinality(Writers) \in Nat /\ Cardinality(Writers) > 0
  BY <1>1, FS_CardinalityType, FS_EmptySet
<1>3. <<>> \in Seq(Bytes) /\ Len(<<>>) = 0
  OBVIOUS
<1>4. f_count["read"] = Cardinality(Readers) /\ f_count["write"] = Cardinality(Writers)
  BY DEF Init
<1>5. TypeOK
  <2>1. f_count \in [{"read", "write"} -> Nat]
    BY <1>2 DEF Init
  <2>2. data \in Seq(Bytes) /\ sent \in Seq(Bytes) /\ rcvd \in Seq(Bytes)
    BY <1>3 DEF Init
  <2> QED BY <2>1, <2>2 DEF Init, TypeOK, Bytes
<1>6. Places
  BY DEF Init, Places, PlaceAt, Awake, Lock, Ip1, Ip2
<1>7. Alone
  BY DEF Init, Alone, Inside, Locked
<1>8. Sides
  <2>1. Openers("read") = Readers /\ Openers("write") = Writers
    BY <1>1 DEF Init, Openers, Side, Procs
  <2> QED BY <1>2, <1>4, <2>1 DEF Init, Sides
<1>9. Stream
  <2>1. i_size = 0 /\ f_offset = 0 /\ data = <<>> /\ eof = {} /\ sent = <<>> /\ rcvd = <<>>
    BY <1>3 DEF Init, i_size
  <2>2. SubSeq(data, f_offset + 1, i_size) = <<>>
    BY <2>1, SubSeqEmpty
  <2>3. <<>> = <<>> \o <<>>
    BY <1>3, ConcatEmptySeq
  <2> QED BY <1>1, <2>1, <2>2, <2>3 DEF Stream
<1>10. NoLostWakeup
  BY DEF Init, NoLostWakeup, Awake, Lock, Ip1, Ip2
<1>11. Calls /\ Contiguous
  <2>1. DOMAIN sent = {}
    BY DEF Init
  <2> QED BY <2>1 DEF Calls, Contiguous
<1> QED BY <1>5, <1>6, <1>7, <1>8, <1>9, <1>10, <1>11 DEF IInv

\* IInv holds initially and is kept by every step of read(), write(), close() and
\* of a signal.
THEOREM Invariance == Spec => []IInv
<1>1. Init => IInv
  BY InitIInv
<1>2. ASSUME IInv, [Next]_vars PROVE IInv'
  <2>1. CASE Next
    <3>1. PICK p \in Procs : User(p) \/ Readp(p) \/ Writep(p) \/ Closing(p) \/ Signal(p)
      BY <2>1 DEF Next
    <3>2. TypeOK' /\ Places' /\ Alone' /\ Sides'
      BY <1>2, <3>1, TypeStep, PlacesStep, AloneStep, SidesStep
    <3>3. Stream' /\ NoLostWakeup' /\ Calls' /\ Contiguous'
      BY <1>2, <3>1, StreamStep, WakeupStep, CallsStep
    <3> QED BY <3>2, <3>3 DEF IInv
  <2>2. CASE UNCHANGED vars
    <3>1. TypeOK' /\ Places' /\ Alone' /\ NoLostWakeup'
      BY <1>2, <2>2 DEF IInv, TypeOK, Places, PlaceAt, Alone, Inside, Locked, NoLostWakeup, i_size,
         Side, vars
    <3>2. Sides' /\ Stream'
      BY <1>2, <2>2 DEF IInv, Sides, Openers, Side, Stream, i_size, vars
    <3>3. Calls' /\ Contiguous'
      BY <1>2, <2>2 DEF IInv, Calls, Contiguous, SmallCall, SameCall, vars
    <3> QED BY <3>1, <3>2, <3>3 DEF IInv
  <2> QED BY <1>2, <2>1, <2>2
<1> QED BY <1>1, <1>2, PTL DEF Spec

\* The types hold, and the inode is locked exactly while one process is in
\* readi(), writei() or the last iput(): plock() and prele() keep readers, writers
\* and closers out of each other's way (pipe.c:189, pipe.c:207).
THEOREM FormedCorrect == Spec => []WellFormed
<1>1. ASSUME IInv PROVE WellFormed
  <2>1. TypeOK /\ (Locked <=> Inside # {}) /\ \A p, q \in Inside : p = q
    BY <1>1 DEF IInv, Alone
  <2>2. CASE Inside = {}
    BY <2>1, <2>2, FS_EmptySet DEF WellFormed, LockExact
  <2>3. CASE Inside # {}
    <3>1. PICK p \in Inside : TRUE
      BY <2>3
    <3>2. Inside = {p}
      BY <2>1, <3>1
    <3>3. Cardinality(Inside) = 1
      BY <3>2, FS_Singleton
    <3> QED BY <2>1, <3>3 DEF WellFormed, LockExact
  <2> QED BY <2>2, <2>3
<1> QED BY <1>1, Invariance, PTL

\* No reader that waits for data, no writer that waits for room and nobody who
\* waits for the lock is forgotten, though the flags are set and cleared by
\* whoever comes by (pipe.c:86, pipe.c:158, pipe.c:177).
THEOREM WakeupCorrect == Spec => []NoLostWakeup
<1>1. IInv => NoLostWakeup
  BY DEF IInv
<1> QED BY <1>1, Invariance, PTL

\* A reader that gets the end of the file has not missed a byte (pipe.c:84).
THEOREM EofCorrect == Spec => []EofComplete
<1>1. ASSUME IInv PROVE EofComplete
  <2> SUFFICES ASSUME eof # {} PROVE rcvd = sent /\ f_count["write"] = 0
    BY DEF EofComplete
  <2>1. data = <<>> /\ f_count["write"] = 0 /\ sent = rcvd \o SubSeq(data, f_offset + 1, i_size)
    BY <1>1 DEF IInv, Stream
  <2>2. rcvd \in Seq(Bytes) /\ f_offset \in Nat
    BY <1>1, TypeFacts DEF IInv
  <2>3. SubSeq(data, f_offset + 1, i_size) = <<>>
    BY <2>1, <2>2, SubSeqEmpty DEF i_size
  <2> QED BY <2>1, <2>2, <2>3, ConcatEmptySeq
<1> QED BY <1>1, Invariance, PTL

\* A write of no more than PIPSIZ bytes is not torn by other writers, even if
\* writei() fails half-way (pipe.c:167).
THEOREM ContiguousCorrect == Spec => []Contiguous
<1>1. IInv => Contiguous
  BY DEF IInv
<1> QED BY <1>1, Invariance, PTL

\* A pipe implements the channel: what readi() takes from the offset on, and
\* what writei() adds at the end, are a first-in first-out queue of less than
\* 2 * PIPSIZ bytes, although the file is reset under its readers (pipe.c:102).
THEOREM ChannelCorrect == Spec => Implements
<1>1. Init => Chan!ChannelInit
  <2> SUFFICES ASSUME Init PROVE Chan!ChannelInit
    OBVIOUS
  <2>1. data = <<>> /\ f_offset = 0 /\ rcvd = <<>>
    BY DEF Init
  <2>2. SubSeq(data, f_offset + 1, i_size) = <<>>
    BY <2>1, SubSeqEmpty DEF i_size
  <2>3. i_count = 2 /\ IInv
    BY InitIInv DEF Init
  <2>4. OpenSides = {"read", "write"}
    BY <2>3 DEF IInv, Sides, OpenSides
  <2> QED BY <2>1, <2>2, <2>4 DEF Chan!ChannelInit, OpenSides
<1>2. ASSUME IInv, [Next]_vars
      PROVE  [Chan!ChannelNext]_<<SubSeq(data, f_offset + 1, i_size), rcvd,
                                  {s \in {"read", "write"} : f_count[s] > 0}>>
  <2>1. CASE Next
    BY <1>2, <2>1, ChannelStep DEF Next, Chan!ChannelNext, Queue, OpenSides
  <2>2. CASE UNCHANGED vars
    BY <2>2 DEF vars, i_size
  <2> QED BY <1>2, <2>1, <2>2
<1> QED BY <1>1, <1>2, Invariance, PTL DEF Spec, Implements, Chan!ChannelSpec
=============================================================================
