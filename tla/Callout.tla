------------------------------ MODULE Callout ------------------------------
(***************************************************************************)
(* Functions to be called after a time: timeout() and the callout part of  *)
(* clock() (sys/clock.c).                                                  *)
(*                                                                         *)
(* The table is sorted; an entry's time is relative to the entry before    *)
(* it, and a c_func of NULL ends the list.  clock() runs at the priority of *)
(* the clock only until it has counted; it calls the functions and closes  *)
(* the gap they leave at spl5, where the clock interrupts it again.  Such a *)
(* nested clock() only counts, in a table that is half moved.              *)
(*                                                                         *)
(* timeout() runs at spl7 and is one step.  A function and its argument are *)
(* one value.  The time of the entry that ends the list is counted down and *)
(* copied by the code but never looked at; here it does not change.        *)
(***************************************************************************)
EXTENDS Integers

CONSTANTS
  Funcs,       \* a function with its argument
  NULL,
  NCALL,       \* entries of the table
  Times        \* times that are asked for

ASSUME CalloutAssumption ==
  /\ NULL \notin Funcs
  /\ NCALL \in Nat /\ NCALL > 1
  /\ Times \subseteq Nat \ {0}

VARIABLES
  callout,     \* 0 .. NCALL: the last is the memory behind the table
  mode,        \* where clock() is: "base" when it does not run
  p1, p2,      \* clock()'s pointers
  nested,      \* a clock interrupt has come during this move of the table
  left         \* ticks until a function is due, -1 when it is not asked for

vars == <<callout, mode, p1, p2, nested, left>>

Entries == 0 .. NCALL

Off == -1

Init ==
  /\ callout = [i \in Entries |-> [c_time |-> 0, c_func |-> NULL]]
  /\ mode = "base" /\ p1 = 0 /\ p2 = 0 /\ nested = FALSE
  /\ left = [f \in Funcs |-> Off]

Least(S) == CHOOSE i \in S : \A j \in S : i <= j

\* The entry that ends the list.
End == Least({i \in Entries : callout[i].c_func = NULL} \cup {NCALL})

\* The times up to entry i.
Sum == LET s[i \in Entries] == callout[i].c_time + (IF i = 0 THEN 0 ELSE s[i - 1]) IN s

-----------------------------------------------------------------------------
(* timeout                                                                 *)

\* Where the loop at 165 stops: t is what is left of the time there.
Place(t) == Least({End} \cup {i \in 0 .. End - 1 : Sum[i] > t})

Rest(t) == IF Place(t) = 0 THEN t ELSE t - Sum[Place(t) - 1]

\* Mutant: the entry behind keeps its time.
Add_Late(f, t) ==
  [i \in Entries |-> CASE i = Place(t) -> [c_time |-> Rest(t), c_func |-> f]
                       [] i > Place(t) /\ i <= End + 1 -> callout[i - 1]
                       [] OTHER -> callout[i]]

\* The entries from Place(t) on, the end included, move up by one; the first
\* of them counts from the new entry on.
Add(f, t) ==
  [i \in Entries |->
     CASE i = Place(t) -> [c_time |-> Rest(t), c_func |-> f]
       [] i = Place(t) + 1 ->
            [callout[i - 1] EXCEPT !.c_time = IF Place(t) = End THEN @ ELSE @ - Rest(t)]
       [] i > Place(t) + 1 /\ i <= End + 1 -> callout[i - 1]
       [] OTHER -> callout[i]]

\* Who calls: a process, a device interrupt, or a function clock() calls.
MayCall == mode \in {"base", "handler"}

\* The system has stopped, or is beyond what can be said of it.
Halted == mode \in {"panic", "overrun"}

Fits(t) == Place(t) < NCALL - 1

Timeout(f, t) ==
  /\ MayCall /\ left[f] = Off
  /\ Fits(t)
  /\ End < NCALL - 1
  /\ callout' = Add(f, t)
  /\ left' = [left EXCEPT ![f] = t]
  /\ UNCHANGED <<mode, p1, p2, nested>>

\* The test is of the new entry's place: in front of others it goes into a full
\* table, and what ends the list is stored in the memory behind.  What that
\* memory was, and what follows, is open.
TimeoutOverrun(f, t) ==
  /\ MayCall /\ left[f] = Off
  /\ Fits(t) /\ End = NCALL - 1
  /\ callout' = Add(f, t)
  /\ left' = [left EXCEPT ![f] = t]
  /\ mode' = "overrun"
  /\ UNCHANGED <<p1, p2, nested>>

\* panic("Timeout table overflow")
TimeoutPanic(f, t) ==
  /\ MayCall /\ left[f] = Off
  /\ ~ Fits(t)
  /\ mode' = "panic"
  /\ UNCHANGED <<callout, p1, p2, nested, left>>

-----------------------------------------------------------------------------
(* clock                                                                   *)

\* The first entry with time left is counted down (56-59).
Counted ==
  LET i == Least({End} \cup {j \in 0 .. End - 1 : callout[j].c_time > 0}) IN
  IF i = End THEN callout ELSE [callout EXCEPT ![i].c_time = @ - 1]

Count ==
  /\ callout[0].c_func # NULL
  /\ callout' = Counted
  /\ left' = [f \in Funcs |-> IF left[f] > 0 THEN left[f] - 1 ELSE left[f]]

\* The interrupted code was at priority 0: what is due is called.
Clock ==
  /\ mode = "base"
  /\ Count
  /\ mode' = IF callout'[0].c_time <= 0 THEN "call" ELSE "base"
  /\ p1' = 0
  /\ UNCHANGED <<p2, nested>>

\* BASEPRI(ps): the interrupted code was not, or was clock() itself.  The move
\* takes far less than a tick: one interrupt in it is possible, two are not.
Moving == mode \in {"move", "time"}

ClockHigh ==
  /\ ~ Halted
  /\ Moving => ~ nested
  /\ Count
  /\ nested' = Moving
  /\ UNCHANGED <<mode, p1, p2>>

\* Mutant: the entry is not looked at again.
Due_Any(i) == callout[i].c_func # NULL

Due(i) == callout[i].c_func # NULL /\ callout[i].c_time <= 0

\* (*p1->c_func)(p1->c_arg)
Call ==
  /\ mode = "call"
  /\ Due(p1)
  /\ mode' = "handler"
  /\ left' = [left EXCEPT ![callout[p1].c_func] = Off]
  /\ UNCHANGED <<callout, p1, p2, nested>>

\* Mutant: the pointer stays.
Return_Again ==
  /\ mode = "handler"
  /\ mode' = "call"
  /\ UNCHANGED <<callout, p1, p2, nested, left>>

Return ==
  /\ mode = "handler"
  /\ mode' = "call"
  /\ p1' = p1 + 1
  /\ UNCHANGED <<callout, p2, nested, left>>

CallsDone ==
  /\ mode = "call"
  /\ ~ Due(p1)
  /\ mode' = "move" /\ p2' = 0 /\ nested' = FALSE
  /\ UNCHANGED <<callout, p1, left>>

\* while(p2->c_func = p1->c_func)
MoveFunc ==
  /\ mode = "move"
  /\ callout' = [callout EXCEPT ![p2].c_func = callout[p1].c_func]
  /\ IF callout[p1].c_func = NULL
     THEN mode' = "base" /\ p1' = 0 /\ p2' = 0 /\ nested' = FALSE
     ELSE mode' = "time" /\ UNCHANGED <<p1, p2, nested>>
  /\ UNCHANGED left

\* p2->c_time = p1->c_time
MoveTime ==
  /\ mode = "time"
  /\ callout' = [callout EXCEPT ![p2].c_time = callout[p1].c_time]
  /\ mode' = "move" /\ p1' = p1 + 1 /\ p2' = p2 + 1
  /\ UNCHANGED <<nested, left>>

-----------------------------------------------------------------------------
Next ==
  \/ \E f \in Funcs, t \in Times : Timeout(f, t) \/ TimeoutOverrun(f, t) \/ TimeoutPanic(f, t)
  \/ Clock \/ ClockHigh
  \/ Call \/ Return \/ CallsDone \/ MoveFunc \/ MoveTime

Spec == Init /\ [][Next]_vars

\* The clock goes on, and finds the processor at priority 0; a function that
\* is called returns.
FairSpec ==
  /\ Spec
  /\ WF_vars(Clock)
  /\ WF_vars(Call \/ Return \/ CallsDone \/ MoveFunc \/ MoveTime)

-----------------------------------------------------------------------------
(* Properties                                                              *)

\* The variables have their types.
TypeOK ==
  /\ callout \in [Entries -> [c_time : Nat, c_func : Funcs \cup {NULL}]]
  /\ mode \in {"base", "call", "handler", "move", "time", "panic", "overrun"}
  /\ p1 \in Entries /\ p2 \in Entries /\ p2 <= p1
  /\ nested \in BOOLEAN
  /\ left \in [Funcs -> Nat \cup {Off}]

\* The list that starts at entry i.
ListAt(i) == i .. Least({j \in i .. NCALL : callout[j].c_func = NULL} \cup {NCALL}) - 1

\* The entries that count while clock() is at work: those it has moved down
\* and those it has yet to call or to move.
Current == CASE mode = "call"    -> ListAt(p1)
             [] mode = "handler" -> ListAt(p1 + 1)
             [] Moving           -> (0 .. p2 - 1) \cup ListAt(p1)
             [] OTHER            -> ListAt(0)

\* What is left of entry i's time: the times of the entries up to it that count.
TimeOf(i) ==
  LET s[j \in Entries] == (IF j \in Current THEN callout[j].c_time ELSE 0)
                          + (IF j = 0 THEN 0 ELSE s[j - 1])
  IN s[i]

\* "The time in each structure entry is the number of HZ's more than the
\* previous entry" (clock.c:144): at every instant, a half moved table
\* included, the table holds every function that is asked for once and no
\* other, and its times add up to the ticks that are left.
DeltaExact ==
  ~ Halted =>
    /\ \A i, j \in Current : callout[i].c_func = callout[j].c_func => i = j
    /\ {callout[i].c_func : i \in Current} = {f \in Funcs : left[f] # Off}
    /\ \A i \in Current : TimeOf(i) = left[callout[i].c_func]

\* No function is called before its time has passed.
NeverEarly == [][\A f \in Funcs : left[f] # Off /\ left'[f] = Off => left[f] = 0]_vars

\* The list ends inside the array and nothing is stored behind it.
InTable == callout[NCALL] = [c_time |-> 0, c_func |-> NULL] /\ End < NCALL

\* That is so, while clock() moves entries as well, until timeout() puts an entry
\* in front of others into a full table.  "The panic is there because there is
\* nothing intelligent to be done if an entry won't fit" (151): it does not come
\* then, and the list ends behind the table.
Contained == IF mode = "overrun" THEN End = NCALL ELSE InTable

\* The table is exact at every instant: of the right types, its times right, and
\* all of it inside the array unless a full one has been added to.
TableExact == TypeOK /\ DeltaExact /\ Contained

\* What is asked for is called.
Called == \A f \in Funcs : left[f] # Off ~> left[f] = Off \/ Halted
=============================================================================
