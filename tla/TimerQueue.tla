------------------------------ MODULE TimerQueue ------------------------------
(***************************************************************************)
(* A timer queue of the emulated transputer: the list of sleeping          *)
(* processes linked through their workspaces (TPtrLoc, TLink_s, Time_s),   *)
(* with insert(), purge_timer() and the loop of update_time() that wakes   *)
(* them, of p.c, and the instruction tin.                                  *)
(*                                                                         *)
(* Scheduler.tla has the same queue as a sequence in any order; here are   *)
(* the pointers and the clock, of any width, compared as signed words.     *)
(***************************************************************************)
EXTENDS Integers, FiniteSets

CONSTANTS
  Proc,     \* the processes (workspaces) of one priority
  NoProc,   \* NotProcess_p
  Half,     \* half the range of the clock: 2^31
  Horizon,  \* the longest delay a process asks for
  MaxStep,  \* the most the clock moves between two looks at the queue
  Stale     \* the processes whose State_s may be Ready_p, left by an ALT:
            \* tin does not write it

ASSUME TimerAssumption ==
  /\ IsFiniteSet(Proc) /\ NoProc \notin Proc
  /\ Half \in Nat \ {0}
  /\ Horizon \in Nat /\ Horizon < Half
  /\ MaxStep \in Nat \ {0} /\ MaxStep < Half
  /\ Stale \subseteq Proc

VARIABLES
  pc,      \* "run", or "wake" inside update_time()
  clock,   \* ClockReg
  head,    \* TPtrLoc
  tlink,   \* TLink_s of each workspace
  time,    \* Time_s of each workspace
  wptr,    \* WPtr: the process that runs, or ran last
  due      \* history: ticks until the time a sleeper asked for; else Awake

vars == <<pc, clock, head, tlink, time, wptr, due>>
words == <<head, tlink, time>>

\* Definitions named X_Fault are plausible bugs in X: nothing uses them, and
\* each is put in X's place to show that a property depends on X.

Plus_NoWrap(x, y) == x + y
After_Unsigned(x, y) == x > y

Modulus == 2 * Half
Word == 0..(Modulus - 1)
Plus(x, y) == (x + y) % Modulus

\* INT32(x - y) > 0
After(x, y) == (x - y) % Modulus \in 1..(Half - 1)

Awake == Horizon + 1
Asleep == {p \in Proc : due[p] # Awake}

Init ==
  /\ pc = "run"
  /\ clock \in Word
  /\ head = NoProc
  /\ tlink = [p \in Proc |-> NoProc]
  /\ time = [p \in Proc |-> 0]
  /\ wptr \in Proc
  /\ due = [p \in Proc |-> Awake]

-----------------------------------------------------------------------------
(* insert()                                                                *)

Walk_First(p, t) == [ptr |-> p, next |-> tlink[p], seen |-> time[p]]

\* The walk along a list that has p at its head, after n rounds of the
\* loop.  From the second round on the time compared is that of ptr, and not
\* that of nextptr.
Walk(p, t) ==
  LET start == [ptr |-> p, next |-> tlink[p],
                seen |-> time[IF tlink[p] = NoProc THEN p ELSE tlink[p]]]
      Onward(w) == [ptr |-> w.next, next |-> tlink[w.next],
                    seen |-> IF tlink[w.next] = NoProc THEN w.seen ELSE time[w.next]]
      f[n \in 0..Cardinality(Proc)] ==
        IF n = 0 THEN start
        ELSE LET w == f[n - 1] IN
             IF After(t, w.seen) /\ w.next # NoProc THEN Onward(w) ELSE w
  IN f[Cardinality(Proc)]

Insert(p, t) ==
  /\ time' = [time EXCEPT ![p] = Plus(t, 1)]
  /\ IF head = NoProc \/ After(time[head], t)
     THEN /\ head' = p
          /\ tlink' = [tlink EXCEPT ![p] = head]
     ELSE LET w == Walk(head, t) IN
          /\ tlink' = [tlink EXCEPT ![w.ptr] = p, ![p] = w.next]
          /\ UNCHANGED head

\* tin: p waits until a time that is at most Horizon ahead; one that has
\* passed is not waited for.
Tin(p, delay) ==
  LET t == Plus(clock, delay) IN
  /\ pc = "run"
  /\ p \notin Asleep
  /\ ~After(clock, t)
  /\ Insert(p, t)
  /\ due' = [due EXCEPT ![p] = delay]
  /\ wptr' = p
  /\ UNCHANGED <<pc, clock>>

-----------------------------------------------------------------------------
(* purge_timer(), for the workspace p that WPtr points to                  *)

HeadWithout(p) == IF head = p THEN tlink[p] ELSE head

LinksWithout(p) ==
  [q \in Proc |-> IF tlink[q] = p /\ q # p /\ q \in Asleep THEN tlink[p] ELSE tlink[q]]

Purge_HeadOnly(p) ==
  /\ pc = "run"
  /\ head' = HeadWithout(p)
  /\ due' = [due EXCEPT ![p] = Awake]
  /\ wptr' = p
  /\ UNCHANGED <<pc, clock, tlink, time>>

Purge(p) ==
  /\ pc = "run"
  /\ head' = HeadWithout(p)
  /\ tlink' = LinksWithout(p)
  /\ due' = [due EXCEPT ![p] = Awake]
  /\ wptr' = p
  /\ UNCHANGED <<pc, clock, time>>

-----------------------------------------------------------------------------
(* update_time()                                                           *)

Tick ==
  /\ pc = "run"
  /\ \E d \in 1..MaxStep :
       /\ clock' = Plus(clock, d)
       /\ due' = [p \in Proc |-> IF p \in Asleep THEN due[p] - d ELSE Awake]
  /\ pc' = "wake"
  /\ UNCHANGED <<words, wptr>>

Expired == head # NoProc /\ After(clock, time[head])

\* schedule() reads State_s of the process it is given and, where it finds
\* Ready_p, purges the list of the process that WPtr points to; only then is
\* TPtrLoc moved on, past whoever is first by now.  The link of NotProcess_p
\* is a word of memory like any other.
Wake ==
  /\ pc = "wake" /\ Expired
  /\ \E ready \in {FALSE} \cup {head \in Stale} :
       LET first == IF ready THEN HeadWithout(wptr) ELSE head
           links == IF ready THEN LinksWithout(wptr) ELSE tlink
       IN /\ head' \in IF first = NoProc THEN Proc \cup {NoProc} ELSE {links[first]}
          /\ tlink' = links
  /\ due' = [due EXCEPT ![head] = Awake]
  /\ UNCHANGED <<pc, clock, time, wptr>>

\* Whoever is awake may run before the next look.
Resume ==
  /\ pc = "wake" /\ ~Expired
  /\ pc' = "run"
  /\ wptr' \in {wptr} \cup (Proc \ Asleep)
  /\ UNCHANGED <<clock, words, due>>

Next ==
  \/ Tick \/ Wake \/ Resume
  \/ \E p \in Proc : Purge(p) \/ \E delay \in 0..Horizon : Tin(p, delay)

Spec == Init /\ [][Next]_vars

-----------------------------------------------------------------------------
(* Properties                                                              *)

TypeOK ==
  /\ pc \in {"run", "wake"} /\ clock \in Word
  /\ head \in Proc \cup {NoProc}
  /\ tlink \in [Proc -> Proc \cup {NoProc}]
  /\ time \in [Proc -> Word]
  /\ wptr \in Proc
  /\ due \in [Proc -> Int]

\* The nth process on the list, counting from 0; NoProc past its end.
Nth ==
  LET f[n \in 0..Cardinality(Proc)] ==
        IF n = 0 THEN head ELSE IF f[n - 1] = NoProc THEN NoProc ELSE tlink[f[n - 1]]
  IN f

\* The list holds exactly the processes that sleep, each once, and ends:
\* insert() and purge_timer() lose none and close no cycle.
ListOfSleepers ==
  LET n == Cardinality(Asleep) IN
  /\ Asleep = {Nth[i] : i \in 0..(n - 1)}
  /\ Nth[n] = NoProc

\* The list is in the order of its times, to within the one tick by which
\* Time_s is later than the time asked for: insert() stops when ptr is
\* before the time and nextptr is after it.
Sorted ==
  \A i, j \in 0..(Cardinality(Asleep) - 1) :
    i < j => ~After(Plus(time[Nth[i]], -1), time[Nth[j]])

\* A look at the queue wakes everyone who is more than two ticks late, even
\* behind others and across the point where the clock wraps.
OnTime == pc = "run" => \A p \in Asleep : due[p] >= -2

\* Nobody is woken before the time they asked for.
NeverEarly ==
  [][pc = "wake" => \A p \in Asleep : due'[p] = Awake => due[p] < 0]_vars
=============================================================================
