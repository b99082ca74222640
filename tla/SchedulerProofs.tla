--------------------------- MODULE SchedulerProofs ---------------------------
(***************************************************************************)
(* Two groups of theorems.  The first is about what the scheduler keeps    *)
(* whatever the programs do, those included for which the runs show that   *)
(* RunsOnce fails: high priority comes first (HiFirst), and no process of  *)
(* low priority is interrupted between a prefix and its instruction        *)
(* (PrefixAtomic).  Both depend on the registers alone: no lemma needs to  *)
(* know what the queues hold, so a corrupted timer queue would not break   *)
(* them.                                                                   *)
(*                                                                         *)
(* The second is about where each process is to be found: in the queues,   *)
(* the words of the channels, the states of an ALT and the join words      *)
(* (PlaceInv).  It is for the programs that Restricted describes.          *)
(***************************************************************************)
EXTENDS Scheduler, FiniteSetTheorems, SequenceTheorems, TLAPS

-----------------------------------------------------------------------------
(* The record of registers                                                 *)

\* The records of registers whose words are in A.
Cpu(A) == [wptr : A, pri : A, snp : BOOLEAN, int : BOOLEAN, slice : BOOLEAN,
           saved : [wptr : A, snp : BOOLEAN],
           rq : [Level -> A], tq : [Level -> A]]

IsCpu(s) == \E A : s \in Cpu(A)

\* A process of low priority runs only when no other has to run first.
First(s) == s.pri = "Lo" => s.rq["Hi"] = <<>> /\ s.saved.wptr = NoProc

Good(s) == IsCpu(s) /\ First(s)

\* Changes of the flags, of the current process and of the timer queues.
LEMMA FlagsGood ==
  ASSUME NEW s, Good(s), NEW b \in BOOLEAN
  PROVE  /\ Good([s EXCEPT !.int = b])
         /\ Good([s EXCEPT !.snp = b])
         /\ Good([s EXCEPT !.slice = b])
<1>1. PICK A : s \in Cpu(A)
  BY DEF Good, IsCpu
<1>2. /\ [s EXCEPT !.int = b] \in Cpu(A)
      /\ [s EXCEPT !.snp = b] \in Cpu(A)
      /\ [s EXCEPT !.slice = b] \in Cpu(A)
  BY <1>1 DEF Cpu
<1>3. First([s EXCEPT !.int = b])
  BY <1>1 DEF Cpu, Good, First
<1>4. First([s EXCEPT !.snp = b])
  BY <1>1 DEF Cpu, Good, First
<1>5. First([s EXCEPT !.slice = b])
  BY <1>1 DEF Cpu, Good, First
<1>6. QED
  BY <1>2, <1>3, <1>4, <1>5 DEF Good, IsCpu

\* start_process() and run_process() may set WPtr of a good state.
LEMMA CurrentGood == ASSUME NEW s, Good(s), NEW w PROVE Good([s EXCEPT !.wptr = w])
<1>1. PICK A : s \in Cpu(A)
  BY DEF Good, IsCpu
<1>2. [s EXCEPT !.wptr = w] \in Cpu(A \cup {w})
  BY <1>1 DEF Cpu
<1>3. First([s EXCEPT !.wptr = w])
  BY <1>1 DEF Cpu, Good, First
<1>4. QED
  BY <1>2, <1>3 DEF Good, IsCpu

\* The timer queues do not matter.
LEMMA TimersGood ==
  ASSUME NEW s, Good(s), NEW l, NEW q
  PROVE  /\ Good([s EXCEPT !.tq[l] = q])
         /\ [s EXCEPT !.tq[l] = q].pri = s.pri
<1>1. PICK A : s \in Cpu(A)
  BY DEF Good, IsCpu
<1>2. [s EXCEPT !.tq[l] = q] \in Cpu(A \cup {q})
  BY <1>1 DEF Cpu
<1>3. /\ [s EXCEPT !.tq[l] = q].pri = s.pri
      /\ [s EXCEPT !.tq[l] = q].rq = s.rq
      /\ [s EXCEPT !.tq[l] = q].saved = s.saved
  BY <1>1 DEF Cpu
<1>4. QED
  BY <1>2, <1>3 DEF Good, IsCpu, First

-----------------------------------------------------------------------------
(* The functions of the scheduler                                          *)

\* purge_timer() keeps it.
LEMMA PurgeGood ==
  ASSUME NEW s, Good(s)
  PROVE  Good(PurgeTimer(s)) /\ PurgeTimer(s).pri = s.pri
<1> DEFINE l == IF s.pri = "Hi" THEN "Hi" ELSE "Lo"
           q == Without(s.tq[l], s.wptr)
<1>1. PurgeTimer(s) = [s EXCEPT !.tq[l] = q]
  BY DEF PurgeTimer
<1> HIDE DEF l, q
<1>2. QED
  BY <1>1, TimersGood

\* interrupt() by a high priority process makes it so.
LEMMA InterruptGood ==
  ASSUME NEW s, NEW w, Good(s)
  PROVE  Good(Interrupt(s, w))
<1>1. PICK A : s \in Cpu(A)
  BY DEF Good, IsCpu
<1>2. Interrupt(s, w) \in Cpu(A \cup {w, "Hi"})
  BY <1>1 DEF Cpu, Interrupt
<1>3. Interrupt(s, w).pri = "Hi"
  BY <1>1 DEF Cpu, Interrupt
<1>4. QED
  BY <1>2, <1>3 DEF Good, IsCpu, First

\* A process is put on the queue of high priority only while no process of
\* low priority is the current one.
LEMMA EnqueueGood ==
  ASSUME NEW s, NEW w, Good(s), ~(Pri[w] = "Hi" /\ s.pri = "Lo")
  PROVE  Good(Enqueue(s, w))
<1>1. PICK A : s \in Cpu(A)
  BY DEF Good, IsCpu
<1> DEFINE p == Pri[w]
           q == Append(s.rq[p], w)
<1>2. Enqueue(s, w) = [s EXCEPT !.rq[p] = q]
  BY <1>1 DEF Enqueue, Cpu
<1>3. ~(p = "Hi" /\ s.pri = "Lo")
  OBVIOUS
<1> HIDE DEF p, q
<1>4. [s EXCEPT !.rq[p] = q] \in Cpu(A \cup {q})
  BY <1>1 DEF Cpu
<1>5. /\ [s EXCEPT !.rq[p] = q].pri = s.pri
      /\ [s EXCEPT !.rq[p] = q].saved = s.saved
      /\ p # "Hi" => [s EXCEPT !.rq[p] = q].rq["Hi"] = s.rq["Hi"]
  BY <1>1 DEF Cpu, Level
<1>6. QED
  BY <1>2, <1>3, <1>4, <1>5 DEF Good, IsCpu, First

\* schedule() keeps it.
LEMMA ScheduleGood ==
  ASSUME NEW s, NEW w, NEW state, Good(s)
  PROVE  Good(Schedule(s, w, state))
<1> DEFINE u == IF state = "Ready" THEN PurgeTimer(s) ELSE s
<1>1. Good(u)
  BY PurgeGood
<1>2. Schedule(s, w, state) =
        IF Pri[w] = "Hi" /\ u.pri = "Lo" THEN Interrupt(u, w) ELSE Enqueue(u, w)
  BY DEF Schedule
<1> HIDE DEF u
<1>3. QED
  BY <1>1, <1>2, InterruptGood, EnqueueGood

\* So does deschedule(),
LEMMA DescheduleGood == ASSUME NEW s, Good(s) PROVE Good(Deschedule(s))
  BY FlagsGood DEF Deschedule

\* D_check(),
LEMMA DCheckGood == ASSUME NEW s, Good(s) PROVE Good(DCheck(s))
<1> DEFINE u == [s EXCEPT !.slice = FALSE]
<1>1. Good(u)
  BY FlagsGood
<1>2. DCheck(s) = IF s.pri = "Lo" /\ s.slice
                  THEN Deschedule(Schedule(u, s.wptr, slot[s.wptr])) ELSE s
  BY DEF DCheck
<1> HIDE DEF u
<1>3. QED
  BY <1>1, <1>2, ScheduleGood, DescheduleGood

\* run_process() looks at the queue of high priority, at the interrupted
\* process, and at the queue of low priority, in this order.
LEMMA RunProcessGood == ASSUME NEW s, Good(s) PROVE Good(RunProcess(s))
<1>1. PICK A : s \in Cpu(A)
  BY DEF Good, IsCpu
<1> DEFINE h == Head(s.rq["Hi"])  ht == Tail(s.rq["Hi"])
           l == Head(s.rq["Lo"])  lt == Tail(s.rq["Lo"])
           Hi == [s EXCEPT !.pri = "Hi", !.wptr = h, !.rq["Hi"] = ht]
           Old == [s EXCEPT !.pri = "Lo", !.wptr = s.saved.wptr, !.snp = s.saved.snp,
                            !.saved = [wptr |-> NoProc, snp |-> FALSE]]
           Lo == [s EXCEPT !.pri = "Lo", !.wptr = l, !.rq["Lo"] = lt]
<1>2. /\ s.rq["Hi"] # <<>> => RunProcess(s) = Hi
      /\ s.rq["Hi"] = <<>> /\ s.saved.wptr # NoProc => RunProcess(s) = Old
      /\ s.rq["Hi"] = <<>> /\ s.saved.wptr = NoProc => RunProcess(s) = Lo
  BY <1>1 DEF RunProcess, Cpu, Level
<1> HIDE DEF h, ht, l, lt
<1>3. Good(Hi)
  <2>1. Hi \in Cpu(A \cup {h, ht, "Hi"})
    BY <1>1 DEF Cpu
  <2>2. Hi.pri = "Hi"
    BY <1>1 DEF Cpu
  <2>3. QED
    BY <2>1, <2>2 DEF Good, IsCpu, First
<1>4. ASSUME s.rq["Hi"] = <<>> PROVE Good(Old)
  <2>1. Old \in Cpu(A \cup {NoProc, "Lo"})
    BY <1>1 DEF Cpu
  <2>2. Old.rq = s.rq /\ Old.saved.wptr = NoProc
    BY <1>1 DEF Cpu
  <2>3. QED
    BY <1>4, <2>1, <2>2 DEF Good, IsCpu, First
<1>5. ASSUME s.rq["Hi"] = <<>>, s.saved.wptr = NoProc PROVE Good(Lo)
  <2>1. Lo \in Cpu(A \cup {l, lt, "Lo"})
    BY <1>1 DEF Cpu
  <2>2. Lo.rq["Hi"] = s.rq["Hi"] /\ Lo.saved = s.saved
    BY <1>1 DEF Cpu, Level
  <2>3. QED
    BY <1>5, <2>1, <2>2 DEF Good, IsCpu, First
<1>6. QED
  BY <1>2, <1>3, <1>4, <1>5

-----------------------------------------------------------------------------
(* The invariant                                                           *)

\* The idle loop is entered with no current process, so no transfer that
\* server() completes there interrupts one.
IdleIsNone == pc = "server" => cpu.pri # "Lo"

IInv == Good(cpu) /\ IdleIsNone /\ ret \in {"exec", "tickHi"}

\* and going on to the next instruction.
LEMMA OnGood == ASSUME Good(cpu) PROVE Good(On)
  BY FlagsGood DEF On

\* The invariant holds at the start.
LEMMA InitIInv == Init => IInv
<1> SUFFICES ASSUME Init PROVE IInv
  OBVIOUS
<1>1. cpu \in Cpu({Boot, "Lo", NoProc, <<>>})
  BY DEF Init, Cpu
<1>2. cpu.rq["Hi"] = <<>> /\ cpu.saved.wptr = NoProc
  BY DEF Init, Level
<1>3. QED
  BY <1>1, <1>2 DEF Init, IInv, Good, IsCpu, First, IdleIsNone

\* Waking a sleeper keeps it.
LEMMA WakeGood == ASSUME Good(cpu), NEW l, Wake(l) PROVE Good(cpu')
<1> DEFINE s == Schedule(cpu, Head(cpu.tq[l]), slot[Head(cpu.tq[l])])
           q == IF s.tq[l] = <<>> THEN s.tq[l] ELSE Tail(s.tq[l])
<1>1. Good(s)
  BY ScheduleGood
<1>2. cpu' = [s EXCEPT !.tq[l] = q]
  BY DEF Wake
<1> HIDE DEF s, q
<1>3. QED
  BY <1>1, <1>2, TimersGood

\* While mainloop() and start_process() look for a process to run.
LEMMA LoopGood ==
  ASSUME Good(cpu), TickHi \/ TickLo \/ Start \/ Server
  PROVE  Good(cpu')
<1>1. CASE TickHi
  BY <1>1, WakeGood DEF TickHi
<1>2. CASE TickLo
  <2>1. cpu.slice \in BOOLEAN
    BY DEF Good, IsCpu, Cpu
  <2>2. CASE Wake("Lo")
    BY <2>2, WakeGood
  <2>3. ASSUME NEW b \in {cpu.slice, TRUE}, cpu' = [cpu EXCEPT !.slice = b]
        PROVE  Good(cpu')
    BY <2>1, <2>3, FlagsGood
  <2>4. QED
    BY <1>2, <2>2, <2>3 DEF TickLo
<1>3. CASE Start
  <2> DEFINE s == [cpu EXCEPT !.snp = FALSE]
  <2>1. Good(s)
    BY FlagsGood
  <2>2. Good([RunProcess(s) EXCEPT !.slice = FALSE])
    BY <2>1, RunProcessGood, FlagsGood
  <2>3. Good([s EXCEPT !.pri = "None"])
    <3>1. PICK A : s \in Cpu(A)
      BY <2>1 DEF Good, IsCpu
    <3> HIDE DEF s
    <3>2. [s EXCEPT !.pri = "None"] \in Cpu(A \cup {"None"})
      BY <3>1 DEF Cpu
    <3>3. [s EXCEPT !.pri = "None"].pri = "None"
      BY <3>1 DEF Cpu
    <3>4. QED
      BY <3>2, <3>3 DEF Good, IsCpu, First
  <2>4. \/ cpu' = cpu
        \/ cpu' = [RunProcess(s) EXCEPT !.slice = FALSE]
        \/ cpu' = [s EXCEPT !.pri = "None"]
    BY <1>3 DEF Start
  <2>5. QED
    BY <2>2, <2>3, <2>4
<1>4. CASE Server
  BY <1>4, ScheduleGood DEF Server, Completed
<1>5. QED
  BY <1>1, <1>2, <1>3, <1>4

\* insert() keeps it.
LEMMA InsertedGood ==
  ASSUME Good(cpu), NEW p, NEW s \in Inserted(p)
  PROVE  Good(s)
<1>1. PICK i \in 1..(Len(cpu.tq[cpu.pri]) + 1) :
         s = [On EXCEPT !.tq[cpu.pri] = InsertAt(On.tq[cpu.pri], i, p)]
  BY DEF Inserted
<1> DEFINE l == cpu.pri
           q == InsertAt(On.tq[cpu.pri], i, p)
<1>2. s = [On EXCEPT !.tq[l] = q]
  BY <1>1
<1> HIDE DEF l, q
<1>3. QED
  BY <1>2, OnGood, TimersGood

\* Every instruction changes the registers by the functions above.
LEMMA InstructionGood ==
  ASSUME Good(cpu), NEW p \in Proc, Instruction(p)
  PROVE  Good(cpu')
<1> USE OnGood, ScheduleGood, DescheduleGood
<1>1. CASE Prefix(p)
  BY <1>1, FlagsGood DEF Prefix
<1>2. CASE Other(p) \/ Alt(p) \/ Altend(p) \/ BeginPar(p)
  BY <1>2 DEF Other, Alt, Altend, BeginPar
<1>3. CASE Jump(p)
  <2>1. CASE cpu' = DCheck(On)
    BY <2>1, DCheckGood
  <2>2. ASSUME NEW l \in Link, cpu' = DCheck(Completed(On, l)) PROVE Good(cpu')
    BY <2>2, DCheckGood DEF Completed
  <2>3. QED
    BY <1>3, <2>1, <2>2 DEF Jump
<1>4. CASE Tin(p)
  BY <1>4, InsertedGood DEF Tin
<1>5. ASSUME NEW c \in Chan, In(p, c) PROVE Good(cpu')
  BY <1>5 DEF In, Awaits, Meets
<1>6. ASSUME NEW c \in Chan, Out(p, c) PROVE Good(cpu')
  BY <1>6 DEF Out, Awaits, Meets
<1>7. ASSUME NEW g, Enables(p, g) \/ (\E r : Disables(p, g, r)) PROVE Good(cpu')
  BY <1>7 DEF Enables, Disables
<1>8. CASE \/ Enbt(p) \/ Enbs(p) \/ Dist(p) \/ Diss(p)
           \/ \E c \in Chan : Enbc(p, c) \/ Disc(p, c)
  BY <1>7, <1>8 DEF Enbt, Enbs, Dist, Diss, Enbc, Disc
<1>9. ASSUME NEW l \in Link, LinkIo(p, l) PROVE Good(cpu')
  BY <1>9 DEF LinkIo, Awaits
<1>10. CASE Altwt(p)
  BY <1>10, InsertedGood DEF Altwt
<1>11. CASE Endp(p)
  <2>1. cpu' = [On EXCEPT !.wptr = Join(p)] \/ cpu' = [On EXCEPT !.snp = TRUE]
    BY <1>11 DEF Endp
  <2>2. Good([On EXCEPT !.wptr = Join(p)]) /\ Good([On EXCEPT !.snp = TRUE])
    BY CurrentGood, FlagsGood
  <2>3. QED
    BY <2>1, <2>2
<1>12. CASE Stopp(p)
  BY <1>12 DEF Stopp
<1>13. ASSUME NEW q \in Proc, Startp(p, q) \/ Runp(p, q) PROVE Good(cpu')
  BY <1>13 DEF Startp, Runp
<1>14. QED
  BY <1>1, <1>2, <1>3, <1>4, <1>5, <1>6, <1>8, <1>9, <1>10, <1>11, <1>12, <1>13
     DEF Instruction

\* An instruction ends an iteration of mainloop(), or is on a link.
LEMMA InstructionAtExec ==
  ASSUME NEW p \in Proc, Instruction(p), ret \in {"exec", "tickHi"}
  PROVE  pc = "exec" /\ pc' # "server" /\ ret' \in {"exec", "tickHi"}
<1>1. CASE \/ Prefix(p) \/ Other(p) \/ Jump(p) \/ Tin(p)
           \/ BeginPar(p) \/ Endp(p) \/ Stopp(p)
           \/ \E q \in Proc : Startp(p, q) \/ Runp(p, q)
  BY <1>1 DEF Executes, Prefix, Other, Jump, Tin, BeginPar, Endp, Stopp, Startp, Runp
<1>2. CASE \/ Alt(p) \/ Altwt(p) \/ Altend(p)
           \/ Enbt(p) \/ Enbs(p) \/ Dist(p) \/ Diss(p)
  BY <1>2 DEF Executes, Alt, Altwt, Altend, Enbt, Enbs, Dist, Diss, Enables, Disables
<1>3. CASE \/ \E c \in Chan : In(p, c) \/ Out(p, c) \/ Enbc(p, c) \/ Disc(p, c)
           \/ \E l \in Link : LinkIo(p, l)
  BY <1>3 DEF Executes, In, Out, Enbc, Disc, LinkIo, Enables, Disables
<1>4. QED
  BY <1>1, <1>2, <1>3 DEF Instruction

\* Every step of mainloop() keeps the invariant.
LEMMA NextIInv == IInv /\ [Next]_vars => IInv'
<1> SUFFICES ASSUME IInv, [Next]_vars PROVE IInv'
  OBVIOUS
<1>1. ASSUME Next PROVE Good(cpu')
  BY <1>1, LoopGood, InstructionGood DEF IInv, Next
<1>2. CASE TickHi \/ TickLo
  <2>1. pc' # "server" /\ ret' \in {"exec", "tickHi"}
    BY <1>2 DEF IInv, TickHi, TickLo, Wake
  <2>2. QED
    BY <1>1, <1>2, <2>1 DEF IInv, Next, IdleIsNone
<1>3. CASE Start
  <2> DEFINE s == [cpu EXCEPT !.snp = FALSE]
  <2>1. [s EXCEPT !.pri = "None"].pri = "None"
    BY DEF IInv, Good, IsCpu, Cpu
  <2>2. pc' = "server" => cpu' = [s EXCEPT !.pri = "None"]
    BY <1>3 DEF Start, IInv
  <2>3. ret' = ret
    BY <1>3 DEF Start
  <2>4. QED
    BY <1>1, <1>3, <2>1, <2>2, <2>3 DEF IInv, Next, IdleIsNone
<1>4. CASE Server
  <2>1. pc' # "server" /\ ret' = ret
    BY <1>4 DEF Server
  <2>2. QED
    BY <1>1, <1>4, <2>1 DEF IInv, Next, IdleIsNone
<1>5. ASSUME NEW p \in Proc, Instruction(p) PROVE IInv'
  <2>1. pc' # "server" /\ ret' \in {"exec", "tickHi"}
    BY <1>5, InstructionAtExec DEF IInv
  <2>2. QED
    BY <1>1, <1>5, <2>1 DEF IInv, Next, IdleIsNone
<1>6. CASE UNCHANGED vars
  BY <1>6 DEF IInv, Good, IsCpu, First, IdleIsNone, vars
<1>7. QED
  BY <1>2, <1>3, <1>4, <1>5, <1>6 DEF Next

\* The inductive invariant holds in every state.
THEOREM Invariance == Spec => []IInv
<1>1. QED
  BY InitIInv, NextIInv, PTL DEF Spec

\* Low priority processes run only when no high priority process can, in
\* whatever order transfers complete, timers expire and timeslices end.
THEOREM HighPriorityFirst == Spec => []HiFirst
<1>1. IInv => HiFirst
  BY DEF IInv, Good, First, HiFirst
<1>2. QED
  BY <1>1, Invariance, PTL

\* The prefix and the instruction it belongs to are executed without an
\* interruption, though interrupt() does not save the operand register.
THEOREM PrefixesAreAtomic == Spec => PrefixAtomic
<1> DEFINE Atomic == cpu.pri = "Lo" /\ ~cpu.int /\ pc # "exec" =>
                       cpu'.wptr = cpu.wptr /\ cpu'.saved = cpu.saved
<1>1. IInv /\ [Next]_vars => [Atomic]_vars
  <2> SUFFICES ASSUME IInv, Next, cpu.pri = "Lo", ~cpu.int, pc # "exec"
               PROVE  cpu'.wptr = cpu.wptr /\ cpu'.saved = cpu.saved
    OBVIOUS
  <2>1. PICK A : cpu \in Cpu(A)
    BY DEF IInv, Good, IsCpu
  <2>2. CASE TickHi
    BY <2>2 DEF TickHi, Wake, MayWake
  <2>3. CASE TickLo
    <3>1. ASSUME NEW b PROVE /\ [cpu EXCEPT !.slice = b].wptr = cpu.wptr
                             /\ [cpu EXCEPT !.slice = b].saved = cpu.saved
      BY <2>1 DEF Cpu
    <3>2. QED
      BY <2>3, <3>1 DEF TickLo, Wake, MayWake
  <2>4. CASE Start
    BY <2>4 DEF Start
  <2>5. CASE Server
    BY <2>5 DEF Server, IInv, IdleIsNone
  <2>6. ASSUME NEW p \in Proc, Instruction(p) PROVE FALSE
    BY <2>6, InstructionAtExec DEF IInv
  <2>7. QED
    BY <2>2, <2>3, <2>4, <2>5, <2>6 DEF Next
<1>2. QED
  BY <1>1, Invariance, PTL DEF Spec, PrefixAtomic

-----------------------------------------------------------------------------
(* Queues                                                                  *)

\* q has the members of S in it, each once.
Listed(q, S) ==
  /\ q \in Seq(S)
  /\ \A i, j \in 1..Len(q) : q[i] = q[j] => i = j
  /\ \A x \in S : \E i \in 1..Len(q) : q[i] = x

\* An empty queue lists nobody, and only it does.
LEMMA ListedNone ==
  /\ Listed(<<>>, {})
  /\ \A S : Listed(<<>>, S) => S = {}
BY DEF Listed

\* What is not empty lists somebody.
LEMMA ListedSome == ASSUME NEW q, NEW S, Listed(q, S) PROVE q = <<>> <=> S = {}
<1>1. q \in Seq(S) /\ \A x \in S : \E i \in 1..Len(q) : q[i] = x
  BY DEF Listed
<1>2. ASSUME q # <<>> PROVE S # {}
  BY <1>1, <1>2, HeadTailProperties
<1>3. ASSUME q = <<>> PROVE S = {}
  <2>1. Len(q) = 0
    BY <1>3
  <2> QED BY <1>1, <2>1
<1> QED BY <1>2, <1>3

\* Who is not in the queue is put at its end.
LEMMA ListedAppend ==
  ASSUME NEW q, NEW S, Listed(q, S), NEW x, x \notin S
  PROVE  Listed(Append(q, x), S \cup {x})
<1> DEFINE r == Append(q, x)
<1>1. /\ q \in Seq(S) /\ Len(q) \in Nat
      /\ \A i \in 1..Len(q) : q[i] \in S
      /\ \A i, j \in 1..Len(q) : q[i] = q[j] => i = j
      /\ \A y \in S : \E i \in 1..Len(q) : q[i] = y
  BY DEF Listed
<1>2. q \in Seq(S \cup {x}) /\ x \in S \cup {x}
  BY <1>1, SeqMonotonic
<1>3. /\ r \in Seq(S \cup {x}) /\ Len(r) = Len(q) + 1
      /\ \A i \in 1..Len(q) : r[i] = q[i]
      /\ r[Len(q) + 1] = x
  BY <1>2, AppendProperties
<1> HIDE DEF r
<1>4. ASSUME NEW i \in 1..Len(r), NEW j \in 1..Len(r), r[i] = r[j] PROVE i = j
  <2>1. i \in 1..Len(q) \/ i = Len(q) + 1
    BY <1>1, <1>3
  <2>2. j \in 1..Len(q) \/ j = Len(q) + 1
    BY <1>1, <1>3
  <2> QED BY <1>1, <1>3, <1>4, <2>1, <2>2
<1>5. ASSUME NEW y \in S \cup {x} PROVE \E i \in 1..Len(r) : r[i] = y
  <2>1. CASE y \in S
    <3>1. PICK i \in 1..Len(q) : q[i] = y
      BY <1>1, <2>1
    <3>2. i \in 1..Len(r)
      BY <1>1, <1>3
    <3> QED BY <1>3, <3>1, <3>2
  <2>2. CASE y = x
    <3>1. Len(q) + 1 \in 1..Len(r)
      BY <1>1, <1>3
    <3> QED BY <1>3, <2>2, <3>1
  <2> QED BY <2>1, <2>2
<1> QED BY <1>3, <1>4, <1>5 DEF Listed, r

\* The first one is taken out.
LEMMA ListedTail ==
  ASSUME NEW q, NEW S, Listed(q, S), q # <<>>
  PROVE  Head(q) \in S /\ Listed(Tail(q), S \ {Head(q)})
<1> DEFINE r == Tail(q)  h == Head(q)
<1>1. /\ q \in Seq(S) /\ Len(q) \in Nat /\ Len(q) # 0
      /\ \A i, j \in 1..Len(q) : q[i] = q[j] => i = j
      /\ \A y \in S : \E i \in 1..Len(q) : q[i] = y
      /\ \A i \in 1..Len(q) : q[i] \in S
  BY EmptySeq DEF Listed
<1>2. /\ h \in S /\ h = q[1] /\ 1 \in 1..Len(q)
      /\ r \in Seq(S) /\ Len(r) = Len(q) - 1
      /\ \A i \in 1..Len(r) : r[i] = q[i + 1]
  BY <1>1, HeadTailProperties
<1> HIDE DEF r, h
<1>3. \A i \in 1..Len(r) : i + 1 \in 1..Len(q) /\ i + 1 # 1
  BY <1>1, <1>2
<1>4. ASSUME NEW i \in 1..Len(r) PROVE r[i] \in S \ {h}
  <2>1. r[i] = q[i + 1] /\ i + 1 \in 1..Len(q) /\ i + 1 # 1
    BY <1>2, <1>3
  <2>2. q[i + 1] # q[1]
    BY <1>1, <1>2, <2>1
  <2> QED BY <1>1, <1>2, <2>1, <2>2
<1>5. r \in Seq(S \ {h})
  <2>1. r \in [1..Len(r) -> S \ {h}] /\ Len(r) \in Nat
    BY <1>1, <1>2, <1>4, LenProperties
  <2> QED BY <1>4, <1>2, <2>1
<1>6. ASSUME NEW i \in 1..Len(r), NEW j \in 1..Len(r), r[i] = r[j] PROVE i = j
  <2>0. q[i + 1] = q[j + 1] /\ i + 1 \in 1..Len(q) /\ j + 1 \in 1..Len(q)
    BY <1>2, <1>3, <1>6
  <2>1. i + 1 = j + 1
    BY <1>1, <2>0
  <2> QED BY <1>1, <1>2, <2>1
<1>7. ASSUME NEW y \in S \ {h} PROVE \E i \in 1..Len(r) : r[i] = y
  <2>1. PICK i \in 1..Len(q) : q[i] = y
    BY <1>1
  <2>2. i # 1
    BY <1>2, <2>1
  <2>3. i - 1 \in 1..Len(r) /\ i - 1 + 1 = i
    BY <1>1, <1>2, <2>2
  <2> QED BY <1>2, <2>1, <2>3
<1> QED BY <1>2, <1>5, <1>6, <1>7 DEF Listed, r, h

\* Who is not in the queue is put in somewhere.
LEMMA ListedInsert ==
  ASSUME NEW q, NEW S, Listed(q, S), NEW x, x \notin S, NEW k \in 1..(Len(q) + 1)
  PROVE  Listed(InsertAt(q, k, x), S \cup {x})
<1> DEFINE T == S \cup {x}
           a == SubSeq(q, 1, k - 1)
           b == SubSeq(q, k, Len(q))
           r == InsertAt(q, k, x)
<1>1. /\ q \in Seq(S) /\ Len(q) \in Nat
      /\ \A i \in 1..Len(q) : q[i] \in S
      /\ \A i, j \in 1..Len(q) : q[i] = q[j] => i = j
      /\ \A y \in S : \E i \in 1..Len(q) : q[i] = y
  <2>1. q \in Seq(S)
    BY DEF Listed
  <2>2. Len(q) \in Nat /\ \A i \in 1..Len(q) : q[i] \in S
    BY <2>1, LenProperties, ElementOfSeq
  <2> QED BY <2>1, <2>2 DEF Listed
<1>2. k \in Nat /\ 1 <= k /\ k <= Len(q) + 1 /\ k - 1 \in Int
  BY <1>1
<1>3. a \in Seq(T) /\ Len(a) = k - 1 /\ \A i \in 1..(k - 1) : a[i] = q[i]
  <2>1. \A i \in 1..(k - 1) : q[i] \in T
    BY <1>1, <1>2
  <2>2. /\ SubSeq(q, 1, k - 1) \in Seq(T)
        /\ Len(SubSeq(q, 1, k - 1)) = IF 1 <= k - 1 THEN k - 1 - 1 + 1 ELSE 0
        /\ \A i \in 1..(k - 1 - 1 + 1) : SubSeq(q, 1, k - 1)[i] = q[1 + i - 1]
    BY <1>2, <2>1, SubSeqProperties
  <2>3. k - 1 - 1 + 1 = k - 1 /\ \A i \in 1..(k - 1) : 1 + i - 1 = i
    BY <1>2
  <2>4. Len(a) = k - 1
    BY <1>2, <2>2
  <2> QED BY <2>2, <2>3, <2>4
<1>4. b \in Seq(T) /\ Len(b) = Len(q) - k + 1 /\ \A i \in 1..(Len(q) - k + 1) : b[i] = q[k + i - 1]
  <2>1. \A i \in k..Len(q) : q[i] \in T
    BY <1>1, <1>2
  <2>2. /\ SubSeq(q, k, Len(q)) \in Seq(T)
        /\ Len(SubSeq(q, k, Len(q))) = IF k <= Len(q) THEN Len(q) - k + 1 ELSE 0
        /\ \A i \in 1..(Len(q) - k + 1) : SubSeq(q, k, Len(q))[i] = q[k + i - 1]
    BY <1>1, <1>2, <2>1, SubSeqProperties
  <2>3. Len(b) = Len(q) - k + 1
    BY <1>1, <1>2, <2>2
  <2> QED BY <2>2, <2>3
<1>5. <<x>> \in Seq(T) /\ Len(<<x>>) = 1 /\ <<x>>[1] = x
  OBVIOUS
<1>6. r = (a \o <<x>>) \o b
  BY DEF InsertAt
<1> HIDE DEF a, b, r, T
<1>7. /\ a \o <<x>> \in Seq(T) /\ Len(a \o <<x>>) = k
      /\ \A i \in 1..k : (a \o <<x>>)[i] = IF i <= k - 1 THEN a[i] ELSE <<x>>[i - (k - 1)]
  BY <1>2, <1>3, <1>5, ConcatProperties
<1>8. /\ r \in Seq(T) /\ Len(r) = Len(q) + 1
      /\ \A i \in 1..(Len(q) + 1) : r[i] = IF i <= k THEN (a \o <<x>>)[i] ELSE b[i - k]
  <2> DEFINE c == a \o <<x>>
  <2>1. c \in Seq(T) /\ b \in Seq(T) /\ Len(c) = k /\ Len(b) = Len(q) - k + 1 /\ r = c \o b
    BY <1>4, <1>6, <1>7
  <2> HIDE DEF c
  <2>2. /\ c \o b \in Seq(T)
        /\ Len(c \o b) = Len(c) + Len(b)
        /\ \A i \in 1..(Len(c) + Len(b)) : (c \o b)[i] = IF i <= Len(c) THEN c[i] ELSE b[i - Len(c)]
    BY <2>1, ConcatProperties
  <2>3. Len(c) + Len(b) = Len(q) + 1
    BY <1>1, <1>2, <2>1
  <2>4. /\ r \in Seq(T) /\ Len(r) = Len(q) + 1
        /\ \A i \in 1..(Len(q) + 1) : r[i] = IF i <= k THEN c[i] ELSE b[i - k]
    BY <2>1, <2>2, <2>3
  <2> QED BY <2>4 DEF c
<1>9. ASSUME NEW i \in 1..(Len(q) + 1)
      PROVE  r[i] = IF i < k THEN q[i] ELSE IF i = k THEN x ELSE q[i - 1]
  <2>1. CASE i < k
    <3>1. i \in 1..k /\ i \in 1..(k - 1) /\ i <= k - 1 /\ i <= k
      BY <1>2, <2>1
    <3> QED BY <1>3, <1>7, <1>8, <2>1, <3>1
  <2>2. CASE i = k
    <3>1. i \in 1..k /\ ~(i <= k - 1) /\ i <= k /\ i - (k - 1) = 1
      BY <1>2, <2>2
    <3> QED BY <1>5, <1>7, <1>8, <2>2, <3>1
  <2>3. CASE i > k
    <3>1. i - k \in 1..(Len(q) - k + 1) /\ ~(i <= k) /\ k + (i - k) - 1 = i - 1 /\ ~(i < k) /\ i # k
      BY <1>1, <1>2, <2>3
    <3> QED BY <1>4, <1>8, <3>1
  <2> QED BY <1>2, <2>1, <2>2, <2>3
<1>10. ASSUME NEW i \in 1..Len(r), NEW j \in 1..Len(r), r[i] = r[j] PROVE i = j
  <2> DEFINE from(m) == IF m < k THEN m ELSE m - 1
  <2>1. ASSUME NEW m \in 1..Len(r), m # k PROVE from(m) \in 1..Len(q) /\ r[m] = q[from(m)] /\ r[m] # x
    <3>1. m \in 1..(Len(q) + 1) /\ r[m] = q[from(m)]
      BY <1>2, <1>8, <1>9, <2>1
    <3>2. CASE m < k
      <4>1. m \in 1..Len(q) /\ from(m) = m
        BY <1>1, <1>2, <3>1, <3>2
      <4>2. q[m] \in S
        BY <1>1, <4>1
      <4> QED BY <3>1, <4>1, <4>2
    <3>3. CASE m > k
      <4>1. m - 1 \in 1..Len(q) /\ from(m) = m - 1
        BY <1>1, <1>2, <3>1, <3>3
      <4>2. q[m - 1] \in S
        BY <1>1, <4>1
      <4> QED BY <3>1, <4>1, <4>2
    <3> QED BY <1>2, <2>1, <3>1, <3>2, <3>3
  <2>2. r[k] = x /\ i \in Int /\ j \in Int
    BY <1>2, <1>8, <1>9
  <2>3. CASE i = k \/ j = k
    BY <1>10, <2>1, <2>2, <2>3
  <2>4. CASE i # k /\ j # k
    <3>1. from(i) = from(j)
      BY <1>1, <1>10, <2>1, <2>4
    <3> QED BY <1>2, <2>2, <2>4, <3>1
  <2> QED BY <2>3, <2>4
<1>11. ASSUME NEW y \in T PROVE \E i \in 1..Len(r) : r[i] = y
  <2>1. CASE y = x
    BY <1>2, <1>8, <1>9, <2>1
  <2>2. CASE y \in S
    <3>1. PICK m \in 1..Len(q) : q[m] = y
      BY <1>1, <2>2
    <3>2. CASE m < k
      <4>1. m \in 1..(Len(q) + 1)
        BY <1>1
      <4> QED BY <1>8, <1>9, <3>1, <3>2, <4>1
    <3>3. CASE m >= k
      <4>1. m + 1 \in 1..(Len(q) + 1) /\ ~(m + 1 < k) /\ m + 1 # k /\ m + 1 - 1 = m
        BY <1>1, <1>2, <3>3
      <4>2. r[m + 1] = q[m + 1 - 1]
        BY <1>9, <4>1
      <4>3. r[m + 1] = y /\ m + 1 \in 1..Len(r)
        BY <1>8, <3>1, <4>1, <4>2
      <4> QED BY <4>3
    <3> QED BY <1>1, <1>2, <3>2, <3>3
  <2> QED BY <2>1, <2>2 DEF T
<1> QED BY <1>8, <1>10, <1>11 DEF Listed, r, T

\* How often it has somebody.
LEMMA ListedTimes ==
  ASSUME NEW q, NEW S, Listed(q, S), NEW p
  PROVE  Times(q, p) = IF p \in S THEN 1 ELSE 0
<1>1. /\ q \in Seq(S) /\ DOMAIN q = 1..Len(q)
      /\ \A i \in 1..Len(q) : q[i] \in S
      /\ \A i, j \in 1..Len(q) : q[i] = q[j] => i = j
      /\ \A y \in S : \E i \in 1..Len(q) : q[i] = y
  BY DEF Listed
<1> DEFINE I == {i \in DOMAIN q : q[i] = p}
<1>2. CASE p \in S
  <2>1. PICK i \in 1..Len(q) : q[i] = p
    BY <1>1, <1>2
  <2>2. I = {i}
    BY <1>1, <2>1
  <2>3. Cardinality(I) = 1
    BY <2>2, FS_Singleton
  <2> QED BY <1>2, <2>3 DEF Times
<1>3. CASE p \notin S
  <2>1. I = {}
    BY <1>1, <1>3
  <2>2. Cardinality(I) = 0
    BY <2>1, FS_EmptySet
  <2> QED BY <1>3, <2>2 DEF Times
<1> QED BY <1>2, <1>3

\* Taking out who is not there changes nothing.
LEMMA WithoutNobody ==
  ASSUME NEW q, NEW S, Listed(q, S), NEW p, p \notin S
  PROVE  Without(q, p) = q
<1>1. DOMAIN q = 1..Len(q) /\ \A i \in 1..Len(q) : q[i] \in S
  BY DEF Listed
<1> QED BY <1>1 DEF Without, Range

-----------------------------------------------------------------------------
(* Where the scheduler finds a process                                     *)

Low == Proc \ HiProc

\* The records of registers.
Regs == [wptr : Proc, pri : {"Hi", "Lo", "None"}, snp : BOOLEAN, int : BOOLEAN,
         slice : BOOLEAN, saved : [wptr : Proc \cup {NoProc}, snp : BOOLEAN],
         rq : [Level -> Seq(Proc)], tq : [Level -> Seq(Proc)]]

\* The process that executes the next instruction, if no other comes first.
Now(s) == IF s.pri = "None" \/ s.snp THEN NoProc ELSE s.wptr

\* The processes of R, and no others, can be run, each from one place: as the
\* current or the interrupted process, or from the queue of its priority.
\* Those of T are on the timer queue, and all of them are of low priority.
Placed(s, R, T) ==
  /\ s \in Regs /\ R \subseteq Proc /\ T \subseteq Low
  /\ First(s)
  /\ s.saved.snp = FALSE
  /\ s.snp => s.int
  /\ Now(s) # NoProc => Now(s) \in R /\ Pri[Now(s)] = s.pri
  /\ s.saved.wptr # NoProc => s.saved.wptr \in (R \ HiProc) \ {Now(s)}
  /\ Listed(s.rq["Hi"], (R \cap HiProc) \ {Now(s)})
  /\ Listed(s.rq["Lo"], (R \ HiProc) \ {Now(s), s.saved.wptr})
  /\ s.tq["Hi"] = <<>> /\ Listed(s.tq["Lo"], T)

\* NotProcess_p is no process; the priority of each is high or low.
LEMMA Priorities ==
  /\ NoProc \notin Proc
  /\ \A p \in Proc : Pri[p] = IF p \in HiProc THEN "Hi" ELSE "Lo"
BY ProcAssumption DEF Pri

\* Flags that the queues do not depend on.
LEMMA FlagsPlaced ==
  ASSUME NEW s, NEW R, NEW T, Placed(s, R, T), NEW b \in BOOLEAN
  PROVE  /\ Placed([s EXCEPT !.slice = b], R, T)
         /\ b = TRUE \/ ~s.snp => Placed([s EXCEPT !.int = b], R, T)
<1>1. s \in Regs
  BY DEF Placed
<1>2. ASSUME NEW u, u = [s EXCEPT !.slice = b] PROVE Placed(u, R, T)
  <2>1. /\ u \in Regs /\ u.wptr = s.wptr /\ u.pri = s.pri /\ u.snp = s.snp /\ u.int = s.int
        /\ u.saved = s.saved /\ u.rq = s.rq /\ u.tq = s.tq
    BY <1>1, <1>2 DEF Regs
  <2>2. Now(u) = Now(s) /\ (First(s) => First(u))
    BY <2>1 DEF Now, First
  <2> QED BY <2>1, <2>2 DEF Placed
<1>3. ASSUME NEW u, u = [s EXCEPT !.int = b], b = TRUE \/ ~s.snp PROVE Placed(u, R, T)
  <2>1. /\ u \in Regs /\ u.wptr = s.wptr /\ u.pri = s.pri /\ u.snp = s.snp /\ u.int = b
        /\ u.saved = s.saved /\ u.rq = s.rq /\ u.tq = s.tq
    BY <1>1, <1>3 DEF Regs
  <2>2. Now(u) = Now(s) /\ (First(s) => First(u)) /\ (u.snp => u.int)
    BY <1>3, <2>1 DEF Now, First
  <2> QED BY <2>1, <2>2 DEF Placed
<1> QED BY <1>2, <1>3

\* deschedule(): the current process is no longer to be run.
LEMMA DeschedulePlaced ==
  ASSUME NEW s, NEW R, NEW T, Placed(s, R, T), Now(s) # NoProc, s.int = TRUE
  PROVE  Placed(Deschedule(s), R \ {Now(s)}, T) /\ Now(Deschedule(s)) = NoProc
<1> DEFINE p == Now(s)
<1>1. PICK u : u = Deschedule(s)
  OBVIOUS
<1>2. s \in Regs
  BY DEF Placed
<1>3. /\ u \in Regs /\ u.wptr = s.wptr /\ u.pri = s.pri /\ u.snp = TRUE /\ u.int = s.int
      /\ u.saved = s.saved /\ u.rq = s.rq /\ u.tq = s.tq
  BY <1>1, <1>2 DEF Regs, Deschedule
<1>4. Now(u) = NoProc /\ (First(s) => First(u))
  BY <1>3 DEF Now, First
<1>5. R \subseteq Proc /\ NoProc \notin Proc
  BY Priorities DEF Placed
<1>6. (R \cap HiProc) \ {p} = ((R \ {p}) \cap HiProc) \ {NoProc}
  BY <1>5
<1>7. (R \ HiProc) \ {p, s.saved.wptr} = ((R \ {p}) \ HiProc) \ {NoProc, s.saved.wptr}
  BY <1>5
<1>8. u.saved.wptr # NoProc => u.saved.wptr \in ((R \ {p}) \ HiProc) \ {NoProc}
  BY <1>3 DEF Placed
<1> HIDE DEF p
<1>9. Placed(u, R \ {p}, T)
  BY <1>3, <1>4, <1>6, <1>7, <1>8 DEF Placed, p
<1> QED BY <1>1, <1>4, <1>9 DEF p

\* A process is put at the end of the queue of its priority.
LEMMA EnqueuePlaced ==
  ASSUME NEW s, NEW R, NEW T, Placed(s, R, T), NEW w \in Proc, w \notin R,
         ~(w \in HiProc /\ s.pri = "Lo")
  PROVE  /\ Placed(Enqueue(s, w), R \cup {w}, T)
         /\ LET u == Enqueue(s, w) IN
              u.wptr = s.wptr /\ u.pri = s.pri /\ u.snp = s.snp /\ u.int = s.int /\ u.tq = s.tq
<1>1. PICK u : u = Enqueue(s, w)
  OBVIOUS
<1>2. s \in Regs /\ R \subseteq Proc
  BY DEF Placed
<1>3. PICK l \in Level : l = Pri[w] /\ (l = "Hi" <=> w \in HiProc)
  BY Priorities DEF Level
<1>4. s.rq[l] \in Seq(Proc) /\ Append(s.rq[l], w) \in Seq(Proc)
  BY <1>2, <1>3 DEF Regs
<1>5. /\ u \in Regs /\ u.wptr = s.wptr /\ u.pri = s.pri /\ u.snp = s.snp /\ u.int = s.int
      /\ u.saved = s.saved /\ u.tq = s.tq /\ u.rq = [s.rq EXCEPT ![l] = Append(@, w)]
  BY <1>1, <1>2, <1>3, <1>4 DEF Regs, Enqueue
<1>6. Now(u) = Now(s)
  BY <1>5 DEF Now
<1>7. Now(s) \in R \cup {NoProc} /\ w # Now(s) /\ s.saved.wptr # w
  BY Priorities DEF Placed
<1>8. DOMAIN s.rq = Level
  BY <1>2 DEF Regs
<1>9. CASE w \in HiProc
  <2>1. l = "Hi" /\ s.pri # "Lo"
    BY <1>3, <1>9
  <2>2. u.rq["Hi"] = Append(s.rq["Hi"], w) /\ u.rq["Lo"] = s.rq["Lo"]
    BY <1>5, <1>8, <2>1 DEF Level
  <2>3. /\ Listed(s.rq["Hi"], (R \cap HiProc) \ {Now(s)})
        /\ Listed(s.rq["Lo"], (R \ HiProc) \ {Now(s), s.saved.wptr})
    BY DEF Placed
  <2>4. Listed(Append(s.rq["Hi"], w), ((R \cap HiProc) \ {Now(s)}) \cup {w})
    BY <2>3, ListedAppend
  <2>5. ((R \cap HiProc) \ {Now(s)}) \cup {w} = ((R \cup {w}) \cap HiProc) \ {Now(s)}
    BY <1>7, <1>9
  <2>6. (R \ HiProc) = ((R \cup {w}) \ HiProc)
    BY <1>9
  <2>7. First(u)
    BY <1>5, <2>1 DEF First
  <2>8. Placed(u, R \cup {w}, T)
    BY <1>2, <1>5, <1>6, <2>2, <2>3, <2>4, <2>5, <2>6, <2>7 DEF Placed
  <2> QED BY <1>1, <1>5, <2>8
<1>10. CASE w \notin HiProc
  <2>1. l = "Lo"
    BY <1>3, <1>10 DEF Level
  <2>2. u.rq["Lo"] = Append(s.rq["Lo"], w) /\ u.rq["Hi"] = s.rq["Hi"]
    BY <1>5, <1>8, <2>1 DEF Level
  <2>3. /\ Listed(s.rq["Hi"], (R \cap HiProc) \ {Now(s)})
        /\ Listed(s.rq["Lo"], (R \ HiProc) \ {Now(s), s.saved.wptr})
    BY DEF Placed
  <2>4. Listed(Append(s.rq["Lo"], w), ((R \ HiProc) \ {Now(s), s.saved.wptr}) \cup {w})
    BY <2>3, ListedAppend
  <2>5. ((R \ HiProc) \ {Now(s), s.saved.wptr}) \cup {w}
          = ((R \cup {w}) \ HiProc) \ {Now(s), s.saved.wptr}
    BY <1>7, <1>10
  <2>6. (R \cap HiProc) = ((R \cup {w}) \cap HiProc)
    BY <1>10
  <2>7. First(u)
    BY <1>5, <2>2 DEF First, Placed
  <2>8. u.saved.wptr # NoProc => u.saved.wptr \in ((R \cup {w}) \ HiProc) \ {Now(s)}
    BY <1>5 DEF Placed
  <2>9. Placed(u, R \cup {w}, T)
    BY <1>2, <1>5, <1>6, <2>2, <2>3, <2>4, <2>5, <2>6, <2>7, <2>8 DEF Placed
  <2> QED BY <1>1, <1>5, <2>9
<1> QED BY <1>9, <1>10

\* interrupt(): the current process of low priority becomes the interrupted one.
LEMMA InterruptPlaced ==
  ASSUME NEW s, NEW R, NEW T, Placed(s, R, T), NEW w \in HiProc, w \notin R,
         s.pri = "Lo", ~s.snp
  PROVE  /\ Placed(Interrupt(s, w), R \cup {w}, T)
         /\ LET u == Interrupt(s, w) IN Now(u) = w /\ u.wptr = w /\ u.int = s.int /\ u.pri = "Hi"
<1>1. PICK u : u = Interrupt(s, w)
  OBVIOUS
<1>2. s \in Regs /\ R \subseteq Proc /\ w \in Proc /\ NoProc \notin Proc
  BY Priorities, ProcAssumption DEF Placed
<1>3. /\ u \in Regs /\ u.wptr = w /\ u.pri = "Hi" /\ u.snp = FALSE /\ u.int = s.int
      /\ u.saved.wptr = s.wptr /\ u.saved.snp = FALSE /\ u.rq = s.rq /\ u.tq = s.tq
  BY <1>1, <1>2 DEF Regs, Interrupt
<1>4. Now(u) = w /\ First(u) /\ Now(s) = s.wptr
  BY <1>3 DEF Now, First
<1>5. /\ s.saved.wptr = NoProc /\ s.rq["Hi"] = <<>> /\ s.wptr \in R /\ Pri[s.wptr] = "Lo"
  BY <1>2, <1>4 DEF Placed, First, Regs
<1>6. s.wptr \notin HiProc /\ Pri[w] = "Hi"
  BY <1>2, <1>5, Priorities
<1>7. /\ Listed(s.rq["Hi"], (R \cap HiProc) \ {s.wptr})
      /\ Listed(s.rq["Lo"], (R \ HiProc) \ {s.wptr, NoProc})
  BY <1>4, <1>5 DEF Placed
<1>8. (R \cap HiProc) \ {s.wptr} = ((R \cup {w}) \cap HiProc) \ {w}
  BY <1>6
<1>9. (R \ HiProc) \ {s.wptr, NoProc} = ((R \cup {w}) \ HiProc) \ {w, s.wptr}
  BY <1>2
<1>10. s.wptr \in ((R \cup {w}) \ HiProc) \ {w}
  BY <1>5, <1>6
<1>11. Placed(u, R \cup {w}, T)
  BY <1>2, <1>3, <1>4, <1>6, <1>7, <1>8, <1>9, <1>10 DEF Placed
<1> QED BY <1>1, <1>3, <1>4, <1>11

\* schedule() of a process that was not to be run.  purge_timer() finds
\* nobody to take off the queue.
LEMMA SchedulePlaced ==
  ASSUME NEW s, NEW R, NEW T, Placed(s, R, T), NEW w \in Proc, w \notin R, NEW state,
         state = "Ready" => s.wptr \notin T,
         w \in HiProc /\ s.pri = "Lo" => ~s.snp
  PROVE  LET u == Schedule(s, w, state) IN
           /\ Placed(u, R \cup {w}, T)
           /\ u.int = s.int
           /\ Now(u) \in {Now(s), w}
           /\ ~(w \in HiProc /\ s.pri = "Lo") =>
                u = Enqueue(s, w) /\ u.wptr = s.wptr /\ u.pri = s.pri /\ u.snp = s.snp
           /\ u.tq = s.tq
<1>1. s \in Regs /\ s.tq["Hi"] = <<>> /\ Listed(s.tq["Lo"], T)
  BY DEF Placed
<1>2. ASSUME state = "Ready" PROVE PurgeTimer(s) = s
  <2> DEFINE l == IF s.pri = "Hi" THEN "Hi" ELSE "Lo"
  <2>1. s.wptr \notin T
    BY <1>2
  <2>2. Without(s.tq["Lo"], s.wptr) = s.tq["Lo"]
    BY <1>1, <2>1, WithoutNobody
  <2>3. Listed(<<>>, {}) /\ Without(<<>>, s.wptr) = <<>>
    BY ListedNone, WithoutNobody
  <2>4. Without(s.tq[l], s.wptr) = s.tq[l]
    BY <1>1, <2>2, <2>3
  <2>5. PurgeTimer(s) = [s EXCEPT !.tq[l] = Without(s.tq[l], s.wptr)]
    BY DEF PurgeTimer
  <2>6. l \in Level
    BY DEF Level
  <2> HIDE DEF l
  <2>7. [s EXCEPT !.tq[l] = s.tq[l]] = s
    BY <1>1, <2>6 DEF Regs
  <2> QED BY <2>4, <2>5, <2>7
<1>3. Schedule(s, w, state) =
        IF Pri[w] = "Hi" /\ s.pri = "Lo" THEN Interrupt(s, w) ELSE Enqueue(s, w)
  BY <1>2 DEF Schedule
<1>4. Pri[w] = "Hi" <=> w \in HiProc
  BY Priorities
<1>5. CASE w \in HiProc /\ s.pri = "Lo"
  <2>1. Schedule(s, w, state) = Interrupt(s, w)
    BY <1>3, <1>4, <1>5
  <2>2. Interrupt(s, w).tq = s.tq
    BY <1>1 DEF Interrupt, Regs
  <2> QED BY <1>5, <2>1, <2>2, InterruptPlaced
<1>6. CASE ~(w \in HiProc /\ s.pri = "Lo")
  <2>1. Schedule(s, w, state) = Enqueue(s, w)
    BY <1>3, <1>4, <1>6
  <2>2. PICK u : u = Enqueue(s, w)
    OBVIOUS
  <2>3. /\ Placed(u, R \cup {w}, T) /\ u.wptr = s.wptr /\ u.pri = s.pri /\ u.snp = s.snp
        /\ u.int = s.int /\ u.tq = s.tq
    BY <1>6, <2>2, EnqueuePlaced
  <2>4. Now(u) = Now(s)
    BY <2>3 DEF Now
  <2> QED BY <1>6, <2>1, <2>2, <2>3, <2>4
<1> QED BY <1>5, <1>6

\* D_check() may send the current process to the end of its queue.
LEMMA DCheckPlaced ==
  ASSUME NEW s, NEW R, NEW T, Placed(s, R, T), R \cap T = {}, Now(s) # NoProc, s.int = TRUE
  PROVE  Placed(DCheck(s), R, T)
<1> DEFINE u == [s EXCEPT !.slice = FALSE]
           w == s.wptr
<1>1. Placed(u, R, T)
  BY FlagsPlaced
<1>2. s \in Regs
  BY DEF Placed
<1>3. u.wptr = w /\ u.pri = s.pri /\ u.snp = s.snp /\ u.int = TRUE /\ Now(u) = w /\ Now(s) = w
  BY <1>2 DEF Regs, Now
<1>4. DCheck(s) = IF s.pri = "Lo" /\ s.slice
                  THEN Deschedule(Schedule(u, w, slot[w])) ELSE s
  BY DEF DCheck
<1>5. ASSUME s.pri = "Lo" PROVE Placed(Deschedule(Schedule(u, w, slot[w])), R, T)
  <2>1. w \in R /\ w \in Proc /\ Pri[w] = "Lo" /\ w \notin T
    <3>1. Now(s) = w /\ w # NoProc
      BY <1>3
    <3>2. w \in R /\ Pri[w] = s.pri /\ R \subseteq Proc
      BY <3>1 DEF Placed
    <3> QED BY <1>5, <3>2
  <2> HIDE DEF u, w
  <2>2. w \notin HiProc
    BY <2>1, Priorities
  <2>3. Schedule(u, w, slot[w]) = Enqueue(u, w)
    <3>1. CASE slot[w] # "Ready"
      BY <2>1, <3>1 DEF Schedule
    <3>2. CASE slot[w] = "Ready"
      <4>1. u.tq["Lo"] = Without(u.tq["Lo"], w)
        BY <1>1, <2>1, WithoutNobody DEF Placed
      <4>2. PurgeTimer(u) = [u EXCEPT !.tq["Lo"] = Without(u.tq["Lo"], w)]
        BY <1>3, <1>5 DEF PurgeTimer
      <4>3. [u EXCEPT !.tq["Lo"] = u.tq["Lo"]] = u
        BY <1>1 DEF Placed, Regs, Level
      <4>4. PurgeTimer(u) = u
        BY <4>1, <4>2, <4>3
      <4> QED BY <2>1, <3>2, <4>4 DEF Schedule
    <3> QED BY <3>1, <3>2
  <2>4. Deschedule(Enqueue(u, w)) = Enqueue(Deschedule(u), w)
    BY <1>1 DEF Placed, Regs, Deschedule, Enqueue
  <2>5. PICK v : v = Deschedule(u)
    OBVIOUS
  <2>6. Now(u) # NoProc
    BY <1>3, <2>1, Priorities
  <2>7. Placed(v, R \ {w}, T)
    BY <1>1, <1>3, <2>5, <2>6, DeschedulePlaced
  <2>8. Placed(Enqueue(v, w), (R \ {w}) \cup {w}, T)
    BY <2>1, <2>2, <2>7, EnqueuePlaced
  <2>9. (R \ {w}) \cup {w} = R
    BY <2>1
  <2> QED BY <2>3, <2>4, <2>5, <2>8, <2>9
<1> QED BY <1>4, <1>5

\* Process h, first on the queue of level l, is run, or the interrupted one.
HeadRun(s, l, h, q) == [s EXCEPT !.pri = l, !.wptr = h, !.rq[l] = q]
SavedRun(s, h) == [s EXCEPT !.pri = "Lo", !.wptr = h, !.snp = FALSE,
                            !.saved = [wptr |-> NoProc, snp |-> FALSE]]

\* run_process() takes the first process of a queue,
LEMMA HeadRuns ==
  ASSUME NEW s \in Regs, NEW l \in Level, NEW h \in Proc, NEW q \in Seq(Proc)
  PROVE  LET u == HeadRun(s, l, h, q) IN
           /\ u \in Regs /\ u.pri = l /\ u.wptr = h /\ u.snp = s.snp /\ u.saved = s.saved
           /\ u.rq[l] = q /\ (\A k \in Level \ {l} : u.rq[k] = s.rq[k]) /\ u.tq = s.tq
<1>1. [s.rq EXCEPT ![l] = q] \in [Level -> Seq(Proc)]
  BY DEF Regs
<1>2. l \in {"Hi", "Lo", "None"}
  BY DEF Level
<1> QED BY <1>1, <1>2 DEF Regs, HeadRun

\* or the interrupted one.
LEMMA SavedRuns ==
  ASSUME NEW s \in Regs, NEW h \in Proc
  PROVE  LET u == SavedRun(s, h) IN
           /\ u \in Regs /\ u.pri = "Lo" /\ u.wptr = h /\ u.snp = FALSE
           /\ u.saved = [wptr |-> NoProc, snp |-> FALSE] /\ u.rq = s.rq /\ u.tq = s.tq
<1>1. [wptr |-> NoProc, snp |-> FALSE] \in [wptr : Proc \cup {NoProc}, snp : BOOLEAN]
  OBVIOUS
<1> QED BY <1>1 DEF Regs, SavedRun

\* start_process() with something to run.
LEMMA RunPlaced ==
  ASSUME NEW c, NEW R, NEW T, Placed(c, R, T), Now(c) = NoProc, Runnable([c EXCEPT !.snp = FALSE])
  PROVE  LET u == [RunProcess([c EXCEPT !.snp = FALSE]) EXCEPT !.slice = FALSE] IN
           Placed(u, R, T) /\ Now(u) # NoProc
<1> DEFINE s == [c EXCEPT !.snp = FALSE]
<1>0. PICK r, u : r = RunProcess(s) /\ u = [r EXCEPT !.slice = FALSE]
  OBVIOUS
<1>1. c \in Regs /\ R \subseteq Proc /\ NoProc \notin Proc
  BY Priorities DEF Placed
<1>2. /\ s \in Regs /\ s.saved = c.saved /\ s.rq = c.rq /\ s.tq = c.tq /\ s.int = c.int
  BY <1>1 DEF Regs
<1>3. /\ Listed(s.rq["Hi"], R \cap HiProc)
      /\ Listed(s.rq["Lo"], (R \ HiProc) \ {s.saved.wptr})
      /\ s.tq["Hi"] = <<>> /\ Listed(s.tq["Lo"], T) /\ s.saved.snp = FALSE
      /\ s.saved.wptr # NoProc => s.saved.wptr \in R \ HiProc
  <2>1. (R \cap HiProc) \ {NoProc} = R \cap HiProc
    BY <1>1
  <2>2. (R \ HiProc) \ {NoProc, s.saved.wptr} = (R \ HiProc) \ {s.saved.wptr}
    BY <1>1
  <2> QED BY <1>2, <2>1, <2>2 DEF Placed
<1>4. s.rq["Hi"] # <<>> \/ s.saved.wptr # NoProc \/ s.rq["Lo"] # <<>>
  BY DEF Runnable
<1> HIDE DEF s
<1>5. CASE s.rq["Hi"] # <<>>
  <2> DEFINE h == Head(s.rq["Hi"])
  <2>1. h \in R \cap HiProc /\ Listed(Tail(s.rq["Hi"]), (R \cap HiProc) \ {h})
    BY <1>3, <1>5, ListedTail
  <2>2. Tail(s.rq["Hi"]) \in Seq(Proc)
    <3>1. Tail(s.rq["Hi"]) \in Seq((R \cap HiProc) \ {h})
      BY <2>1 DEF Listed
    <3> QED BY <1>1, <3>1, SeqMonotonic
  <2>3. RunProcess(s) = HeadRun(s, "Hi", h, Tail(s.rq["Hi"]))
    BY <1>2, <1>5 DEF RunProcess, HeadRun
  <2> HIDE DEF h
  <2>4. /\ u \in Regs /\ u.pri = "Hi" /\ u.wptr = h /\ u.snp = FALSE /\ u.saved = s.saved
        /\ u.rq["Hi"] = Tail(s.rq["Hi"]) /\ u.rq["Lo"] = s.rq["Lo"] /\ u.tq = s.tq
    <3>1. s.snp = FALSE
      BY <1>1 DEF s, Regs
    <3>2. /\ r \in Regs /\ r.pri = "Hi" /\ r.wptr = h /\ r.snp = FALSE /\ r.saved = s.saved
          /\ r.rq["Hi"] = Tail(s.rq["Hi"]) /\ r.rq["Lo"] = s.rq["Lo"] /\ r.tq = s.tq
      <4>1. h \in Proc /\ "Hi" \in Level /\ "Lo" \in Level \ {"Hi"}
        BY <1>1, <2>1 DEF Level
      <4>2. s \in Regs /\ r = HeadRun(s, "Hi", h, Tail(s.rq["Hi"]))
        BY <1>0, <1>2, <2>3
      <4>3. PICK q \in Seq(Proc) : q = Tail(s.rq["Hi"])
        BY <2>2
      <4>4. LET v == HeadRun(s, "Hi", h, q) IN
              /\ v \in Regs /\ v.pri = "Hi" /\ v.wptr = h /\ v.snp = s.snp /\ v.saved = s.saved
              /\ v.rq["Hi"] = q /\ v.rq["Lo"] = s.rq["Lo"] /\ v.tq = s.tq
        BY <4>1, <4>2, HeadRuns
      <4> QED BY <3>1, <4>2, <4>3, <4>4
    <3> QED BY <1>0, <3>2 DEF Regs
  <2>5. Now(u) = h /\ First(u) /\ Pri[h] = "Hi"
    BY <1>1, <2>1, <2>4, Priorities DEF Now, First
  <2>6. (R \ HiProc) \ {s.saved.wptr} = (R \ HiProc) \ {h, s.saved.wptr}
    BY <2>1
  <2>7. Placed(u, R, T)
    BY <1>1, <1>3, <2>1, <2>4, <2>5, <2>6 DEF Placed
  <2> QED BY <1>1, <2>1, <2>5, <2>7, <1>0 DEF s
<1>6. CASE s.rq["Hi"] = <<>> /\ s.saved.wptr # NoProc
  <2> DEFINE h == s.saved.wptr
  <2>1. h \in R \ HiProc
    BY <1>3, <1>6
  <2>2. RunProcess(s) = SavedRun(s, h)
    BY <1>2, <1>3, <1>6 DEF RunProcess, SavedRun
  <2> HIDE DEF h
  <2>3. /\ u \in Regs /\ u.pri = "Lo" /\ u.wptr = h /\ u.snp = FALSE /\ u.saved.wptr = NoProc
        /\ u.saved.snp = FALSE /\ u.rq = s.rq /\ u.tq = s.tq
    <3>1. /\ r \in Regs /\ r.pri = "Lo" /\ r.wptr = h /\ r.snp = FALSE /\ r.saved.wptr = NoProc
          /\ r.saved.snp = FALSE /\ r.rq = s.rq /\ r.tq = s.tq
      <4>1. h \in Proc
        BY <1>1, <2>1
      <4>2. s \in Regs /\ r = SavedRun(s, h)
        BY <1>0, <1>2, <2>2
      <4>3. /\ r \in Regs /\ r.pri = "Lo" /\ r.wptr = h /\ r.snp = FALSE
            /\ r.saved = [wptr |-> NoProc, snp |-> FALSE] /\ r.rq = s.rq /\ r.tq = s.tq
        BY <4>1, <4>2, SavedRuns
      <4> QED BY <4>3
    <3> QED BY <1>0, <3>1 DEF Regs
  <2>4. Now(u) = h /\ First(u) /\ Pri[h] = "Lo"
    BY <1>1, <1>6, <2>1, <2>3, Priorities DEF Now, First
  <2>5. (R \ HiProc) \ {h} = (R \ HiProc) \ {h, NoProc}
    BY <1>1
  <2>6. R \cap HiProc = (R \cap HiProc) \ {h}
    BY <2>1
  <2>7. Listed(u.rq["Hi"], (R \cap HiProc) \ {h}) /\ Listed(u.rq["Lo"], (R \ HiProc) \ {h, NoProc})
    BY <1>3, <2>3, <2>5, <2>6 DEF h
  <2>8. Placed(u, R, T)
    BY <1>1, <1>3, <2>1, <2>3, <2>4, <2>7 DEF Placed
  <2> QED BY <1>1, <2>1, <2>4, <2>8, <1>0 DEF s
<1>7. CASE s.rq["Hi"] = <<>> /\ s.saved.wptr = NoProc
  <2> DEFINE h == Head(s.rq["Lo"])
  <2>1. Listed(s.rq["Lo"], R \ HiProc)
    <3>1. (R \ HiProc) \ {NoProc} = R \ HiProc
      BY <1>1
    <3> QED BY <1>3, <1>7, <3>1
  <2>2. h \in R \ HiProc /\ Listed(Tail(s.rq["Lo"]), (R \ HiProc) \ {h})
    BY <1>4, <1>7, <2>1, ListedTail
  <2>3. Tail(s.rq["Lo"]) \in Seq(Proc)
    <3>1. Tail(s.rq["Lo"]) \in Seq((R \ HiProc) \ {h})
      BY <2>2 DEF Listed
    <3> QED BY <1>1, <3>1, SeqMonotonic
  <2>4. RunProcess(s) = HeadRun(s, "Lo", h, Tail(s.rq["Lo"]))
    BY <1>2, <1>7 DEF RunProcess, HeadRun
  <2> HIDE DEF h
  <2>5. /\ u \in Regs /\ u.pri = "Lo" /\ u.wptr = h /\ u.snp = FALSE /\ u.saved = s.saved
        /\ u.rq["Lo"] = Tail(s.rq["Lo"]) /\ u.rq["Hi"] = s.rq["Hi"] /\ u.tq = s.tq
    <3>1. s.snp = FALSE
      BY <1>1 DEF s, Regs
    <3>2. /\ r \in Regs /\ r.pri = "Lo" /\ r.wptr = h /\ r.snp = FALSE /\ r.saved = s.saved
          /\ r.rq["Lo"] = Tail(s.rq["Lo"]) /\ r.rq["Hi"] = s.rq["Hi"] /\ r.tq = s.tq
      <4>1. h \in Proc /\ "Lo" \in Level /\ "Hi" \in Level \ {"Lo"}
        BY <1>1, <2>2 DEF Level
      <4>2. s \in Regs /\ r = HeadRun(s, "Lo", h, Tail(s.rq["Lo"]))
        BY <1>0, <1>2, <2>4
      <4>3. PICK q \in Seq(Proc) : q = Tail(s.rq["Lo"])
        BY <2>3
      <4>4. LET v == HeadRun(s, "Lo", h, q) IN
              /\ v \in Regs /\ v.pri = "Lo" /\ v.wptr = h /\ v.snp = s.snp /\ v.saved = s.saved
              /\ v.rq["Lo"] = q /\ v.rq["Hi"] = s.rq["Hi"] /\ v.tq = s.tq
        BY <4>1, <4>2, HeadRuns
      <4> QED BY <3>1, <4>2, <4>3, <4>4
    <3> QED BY <1>0, <3>2 DEF Regs
  <2>6. Now(u) = h /\ First(u) /\ Pri[h] = "Lo"
    BY <1>1, <1>7, <2>2, <2>5, Priorities DEF Now, First
  <2>7. (R \ HiProc) \ {h} = (R \ HiProc) \ {h, NoProc}
    BY <1>1
  <2>8. R \cap HiProc = (R \cap HiProc) \ {h}
    BY <2>2
  <2>9. Placed(u, R, T)
    BY <1>1, <1>3, <1>7, <2>2, <2>5, <2>6, <2>7, <2>8 DEF Placed
  <2> QED BY <1>1, <2>2, <2>6, <2>9, <1>0 DEF s
<1> QED BY <1>4, <1>5, <1>6, <1>7

\* start_process() with nothing to run.
LEMMA IdlePlaced ==
  ASSUME NEW c, NEW R, NEW T, Placed(c, R, T), Now(c) = NoProc
  PROVE  LET u == [[c EXCEPT !.snp = FALSE] EXCEPT !.pri = "None"] IN
           Placed(u, R, T) /\ Now(u) = NoProc /\ u.pri = "None" /\ ~u.snp
<1>1. PICK u : u = [[c EXCEPT !.snp = FALSE] EXCEPT !.pri = "None"]
  OBVIOUS
<1>2. c \in Regs
  BY DEF Placed
<1>3. /\ u \in Regs /\ u.pri = "None" /\ u.snp = FALSE /\ u.saved = c.saved
      /\ u.rq = c.rq /\ u.tq = c.tq
  BY <1>1, <1>2 DEF Regs
<1>4. Now(u) = NoProc /\ First(u)
  BY <1>3 DEF Now, First
<1>5. Placed(u, R, T)
  BY <1>3, <1>4 DEF Placed
<1> QED BY <1>1, <1>3, <1>4, <1>5

\* The timer queue of low priority changes.
LEMMA TimersPlaced ==
  ASSUME NEW s, NEW R, NEW T, Placed(s, R, T), NEW q, NEW U, Listed(q, U), U \subseteq Low
  PROVE  LET u == [s EXCEPT !.tq["Lo"] = q] IN
           Placed(u, R, U) /\ Now(u) = Now(s) /\ u.int = s.int /\ u.pri = s.pri /\ u.snp = s.snp
<1>1. PICK u : u = [s EXCEPT !.tq["Lo"] = q]
  OBVIOUS
<1>2. s \in Regs
  BY DEF Placed
<1>3. q \in Seq(Proc)
  <2>1. U \subseteq Proc /\ q \in Seq(U)
    BY DEF Low, Listed
  <2> QED BY <2>1, SeqMonotonic
<1>4. /\ u \in Regs /\ u.wptr = s.wptr /\ u.pri = s.pri /\ u.snp = s.snp /\ u.int = s.int
      /\ u.saved = s.saved /\ u.rq = s.rq /\ u.tq["Lo"] = q /\ u.tq["Hi"] = s.tq["Hi"]
  BY <1>1, <1>2, <1>3 DEF Regs, Level
<1>5. Now(u) = Now(s) /\ (First(s) => First(u))
  BY <1>4 DEF Now, First
<1>6. Placed(u, R, U)
  BY <1>4, <1>5 DEF Placed
<1> QED BY <1>1, <1>4, <1>5, <1>6

\* update_time() schedules the first of the timer queue, and takes it off.
LEMMA WakePlaced ==
  ASSUME NEW s, NEW R, NEW T, Placed(s, R, T), R \cap T = {}, s.tq["Lo"] # <<>>,
         NEW state, state # "Ready"
  PROVE  LET h == Head(s.tq["Lo"])
             u == Schedule(s, h, state)
             v == [u EXCEPT !.tq["Lo"] = IF @ = <<>> THEN @ ELSE Tail(@)] IN
           /\ h \in T /\ Placed(v, R \cup {h}, T \ {h})
           /\ Now(v) = Now(s) /\ v.pri = s.pri /\ v.snp = s.snp
<1>1. PICK h : h = Head(s.tq["Lo"])
  OBVIOUS
<1>2. PICK u : u = Schedule(s, h, state)
  OBVIOUS
<1>3. Listed(s.tq["Lo"], T) /\ T \subseteq Low
  BY DEF Placed
<1>4. PICK q : q = Tail(s.tq["Lo"])
  OBVIOUS
<1>5. h \in T /\ Listed(q, T \ {h})
  BY <1>1, <1>3, <1>4, ListedTail
<1>6. h \in Proc /\ h \notin R /\ h \notin HiProc
  BY <1>3, <1>5 DEF Low
<1>7. Placed(u, R \cup {h}, T) /\ u.pri = s.pri /\ u.snp = s.snp /\ u.wptr = s.wptr /\ u.tq = s.tq
  BY <1>2, <1>6, SchedulePlaced
<1>8. [u EXCEPT !.tq["Lo"] = IF @ = <<>> THEN @ ELSE Tail(@)] = [u EXCEPT !.tq["Lo"] = q]
  BY <1>4, <1>7
<1>9. PICK v : v = [u EXCEPT !.tq["Lo"] = q]
  OBVIOUS
<1>10. T \ {h} \subseteq Low
  BY <1>3
<1>11. Placed(v, R \cup {h}, T \ {h}) /\ Now(v) = Now(u) /\ v.pri = u.pri /\ v.snp = u.snp
  BY <1>5, <1>7, <1>9, <1>10, TimersPlaced
<1>12. Now(u) = Now(s)
  BY <1>7 DEF Now
<1> QED BY <1>1, <1>2, <1>5, <1>7, <1>8, <1>9, <1>11, <1>12

\* insert() puts p into the timer queue of low priority as its k-th.
PutAt(s, k, p) == [s EXCEPT !.tq["Lo"] = InsertAt(s.tq["Lo"], k, p)]
Fits(s, k) == k \in 1..(Len(s.tq["Lo"]) + 1)

\* The current process goes to sleep.
LEMMA SleepPlaced ==
  ASSUME NEW s, NEW R, NEW T, Placed(s, R, T), NEW p \in Low \ T, Now(s) = p, s.int = TRUE,
         NEW k, Fits(s, k)
  PROVE  LET v == Deschedule(PutAt(s, k, p)) IN
           Placed(v, R \ {p}, T \cup {p}) /\ Now(v) = NoProc
<1>1. PICK q : q = InsertAt(s.tq["Lo"], k, p)
  OBVIOUS
<1>2. Listed(s.tq["Lo"], T) /\ T \subseteq Low
  BY DEF Placed
<1>3. Listed(q, T \cup {p})
  BY <1>1, <1>2, ListedInsert DEF Fits
<1>4. PICK u : u = [s EXCEPT !.tq["Lo"] = q]
  OBVIOUS
<1>5. Placed(u, R, T \cup {p}) /\ Now(u) = p /\ u.int = TRUE
  <2>1. T \cup {p} \subseteq Low
    BY <1>2
  <2> QED BY <1>3, <1>4, <2>1, TimersPlaced
<1>6. p # NoProc
  BY Priorities DEF Low
<1>7. Placed(Deschedule(u), R \ {p}, T \cup {p}) /\ Now(Deschedule(u)) = NoProc
  BY <1>5, <1>6, DeschedulePlaced
<1> QED BY <1>1, <1>4, <1>7 DEF PutAt

\* endp of the last branch: the process after the PAR goes on.
LEMMA JoinPlaced ==
  ASSUME NEW s, NEW R, NEW T, Placed(s, R, T), NEW p, Now(s) = p, p # NoProc,
         NEW j \in Proc, j \notin R \ {p}, Pri[j] = Pri[p]
  PROVE  LET u == [s EXCEPT !.wptr = j] IN Placed(u, (R \ {p}) \cup {j}, T) /\ Now(u) = j
<1>1. PICK u : u = [s EXCEPT !.wptr = j]
  OBVIOUS
<1>2. s \in Regs /\ R \subseteq Proc /\ NoProc \notin Proc
  BY Priorities DEF Placed
<1>3. /\ u \in Regs /\ u.wptr = j /\ u.pri = s.pri /\ u.snp = s.snp /\ u.int = s.int
      /\ u.saved = s.saved /\ u.rq = s.rq /\ u.tq = s.tq
  BY <1>1, <1>2 DEF Regs
<1>4. Now(u) = j /\ (First(s) => First(u))
  BY <1>3 DEF Now, First
<1>5. p \in R /\ Pri[p] = s.pri
  BY DEF Placed
<1>6. (p \in HiProc <=> j \in HiProc) /\ p \in Proc
  BY <1>2, <1>5, Priorities
<1>7. PICK S : S = (R \ {p}) \cup {j}
  OBVIOUS
<1>8. (R \cap HiProc) \ {p} = (S \cap HiProc) \ {j}
  BY <1>7
<1>9. (R \ HiProc) \ {p, s.saved.wptr} = (S \ HiProc) \ {j, s.saved.wptr}
  BY <1>7
<1>10. s.saved.wptr # NoProc => s.saved.wptr \in (S \ HiProc) \ {j}
  BY <1>7 DEF Placed
<1>11. j \in S /\ S \subseteq Proc
  BY <1>2, <1>7
<1>12. Placed(u, S, T)
  BY <1>2, <1>3, <1>4, <1>5, <1>8, <1>9, <1>10, <1>11 DEF Placed
<1> QED BY <1>1, <1>4, <1>7, <1>12

-----------------------------------------------------------------------------
(* The invariant: where each process is to be found                        *)

\* The programs that the scheduler is right for.  The runs show what happens
\* to a sleeper of high priority and to a process that uses both tin and ALT,
\* or closes a loop inside an ALT; and a timer and a channel among the guards
\* of one ALT, or an ALT in a process that also uses a link, let schedule()
\* purge the timer queue in the same way.
Restricted ==
  /\ HiProc \cap (Sleeper \cup Alter) = {}
  /\ Sleeper \cap Alter = {}
  /\ \A p \in Timed : \A c \in Chan : Reader[c] # p
  /\ \A l \in Link : User[l] \notin Alter
  /\ ~LoopsInAlt

Typed ==
  /\ chan \in [Chan \cup Link -> Proc \cup {NoProc}]
  /\ slot \in [Proc -> Slot] /\ st \in [Proc -> State]
  /\ alt \in [Proc -> {"none", "enabling", "disabling", "chosen"}]
  /\ guards \in [Proc -> SUBSET (Chan \cup {Time, Skip})]
  /\ open \in [Proc -> SUBSET {Time, Skip}]
  /\ chosen \in [Proc -> Chan \cup {Time, Skip, NoProc}]
  /\ join \in [Proc -> Nat] /\ unstarted \in [Proc -> SUBSET Proc]

ReadyOnes == {p \in Proc : st[p] = "ready"}
Sleepers == {p \in Proc : Sleeps(p)}

\* The queues hold who is ready and who sleeps; an instruction is executed by
\* somebody, and nobody is looked for while there is a current process.
Places ==
  /\ Placed(cpu, ReadyOnes, Sleepers)
  /\ pc \in {"tickHi", "tickLo", "start", "server", "exec"}
  /\ ret \in {"exec", "tickHi"}
  /\ pc = "exec" => Now(cpu) # NoProc
  /\ pc = "start" => Now(cpu) = NoProc
  /\ pc = "server" => cpu.pri = "None" /\ ~cpu.snp

\* The word of an internal channel holds its writer while that waits, and its
\* reader while that waits, or between the enabling and the disabling of the
\* channel in an ALT.
WordOf(c) ==
  /\ chan[c] \in {NoProc, Reader[c], Writer[c]}
  /\ chan[c] = Writer[c] => st[Writer[c]] = "comm"
  /\ chan[c] = Reader[c] =>
       \/ st[Reader[c]] = "comm"
       \/ alt[Reader[c]] = "enabling" /\ c \notin guards[Reader[c]]
       \/ alt[Reader[c]] = "disabling" /\ c \in guards[Reader[c]]

\* A process that waits to communicate is in one word.
CommOf(p) ==
  st[p] = "comm" => \E c \in Chan : chan[c] = p /\ \A d \in Chan : chan[d] = p => d = c

ChanWords == (\A c \in Chan : WordOf(c)) /\ (\A p \in Proc : CommOf(p))

\* So is one that waits for a link, and only its user is in the word of a link.
LinkOf(p) ==
  st[p] = "link" => \E l \in Link : chan[l] = p /\ \A k \in Link : chan[k] = p => k = l

LinkWords ==
  /\ \A l \in Link : chan[l] # NoProc => chan[l] = User[l] /\ st[User[l]] = "link"
  /\ \A p \in Proc : LinkOf(p)

\* Guard e of p's ALT can be chosen.
Opened(p, e) == (e \in Chan /\ chan[e] = Writer[e]) \/ e \in open[p]

\* Who is doing an ALT is ready or waits in it, and who waits in a channel
\* cannot be taken for one that does.
Apart(p) ==
  /\ slot[p] # "other" => p \in Alter
  /\ alt[p] # "none" => p \in Alter /\ st[p] \in {"ready", "alt"}
  /\ st[p] = "comm" => slot[p] = "other"
  /\ st[p] = "timer" => p \in Sleeper

\* While it enables its guards, State_s says whether one of them is ready.
EnablingOf(p) ==
  /\ st[p] = "ready" /\ slot[p] \in {"Enabling", "Ready"} /\ guards[p] \subseteq Guards(p)
  /\ slot[p] = "Enabling" => \A c \in Chan : Reader[c] = p /\ c \notin guards[p] => chan[c] = p
  /\ slot[p] = "Ready" => \E e \in Guards(p) : Opened(p, e)

\* It waits in the words of all its channels.
WaitingOf(p) ==
  /\ alt[p] = "disabling" /\ slot[p] = "Waiting" /\ guards[p] = Guards(p) /\ chosen[p] = NoProc
  /\ \A c \in Chan : Reader[c] = p => chan[c] = p

\* Once it goes on, a guard is ready among those still to be disabled, until
\* one has been chosen.
DisablingOf(p) ==
  /\ guards[p] \subseteq Guards(p) /\ slot[p] # "other"
  /\ st[p] = "ready" => slot[p] = "Ready" \/ p \in Timed
  /\ st[p] = "ready" /\ chosen[p] = NoProc => \E e \in guards[p] : Opened(p, e)

\* The writer of the channel chosen waits for its message to be taken.
TakenOf(p) == Reader[chosen[p]] = p /\ chan[chosen[p]] = Writer[chosen[p]]

AltOf(p) ==
  /\ Apart(p)
  /\ alt[p] = "enabling" => EnablingOf(p)
  /\ st[p] = "alt" => WaitingOf(p)
  /\ alt[p] = "disabling" => DisablingOf(p)
  /\ alt[p] \in {"disabling", "chosen"} /\ chosen[p] \in Chan => TakenOf(p)
  /\ alt[p] = "chosen" => chosen[p] \in Chan

Alts == \A p \in Proc : AltOf(p)

\* Nothing comes between the instructions that enable the guards of an ALT.
EnablingRuns == \A p \in Proc : alt[p] = "enabling" => Now(cpu) = p

\* Only branches of a PAR of its own are still to be started by a process.
Unstarted ==
  \A p \in Proc : unstarted[p] \subseteq Kids(p) /\ \A q \in unstarted[p] : st[q] = "unborn"

Joins == Unstarted /\ JoinCounts

PlaceInv == Typed /\ Places /\ ChanWords /\ LinkWords /\ Alts /\ EnablingRuns /\ Joins

\* At the start only the booted process is there.
LEMMA InitPlaceInv == Init => PlaceInv
<1> SUFFICES ASSUME Init PROVE PlaceInv
  OBVIOUS
<1> USE DEF Init
<1>1. Boot \in Proc /\ Boot \notin HiProc /\ NoProc \notin Proc /\ Pri[Boot] = "Lo"
  BY ProcAssumption, Priorities
<1>2. Typed
  BY <1>1 DEF Typed, Slot, State
<1>3. ReadyOnes = {Boot} /\ Sleepers = {}
  BY <1>1 DEF ReadyOnes, Sleepers, Sleeps
<1>4. Places
  <2>1. PICK s : s = cpu
    OBVIOUS
  <2>2. /\ s \in Regs /\ s.wptr = Boot /\ s.pri = "Lo" /\ s.snp = FALSE
        /\ s.saved.wptr = NoProc /\ s.saved.snp = FALSE
        /\ s.rq["Hi"] = <<>> /\ s.rq["Lo"] = <<>> /\ s.tq["Hi"] = <<>> /\ s.tq["Lo"] = <<>>
    BY <1>1, <2>1 DEF Regs, Level
  <2>3. Now(s) = Boot /\ First(s)
    BY <2>2 DEF Now, First
  <2>4. ({Boot} \cap HiProc) \ {Boot} = {} /\ ({Boot} \ HiProc) \ {Boot, NoProc} = {}
    OBVIOUS
  <2>5. Placed(s, {Boot}, {})
    BY <1>1, <2>2, <2>3, <2>4, ListedNone DEF Placed
  <2> QED BY <1>1, <1>3, <2>1, <2>3, <2>5 DEF Places
<1>5. ChanWords /\ LinkWords
  BY <1>1, ChannelAssumption DEF ChanWords, WordOf, CommOf, LinkWords, LinkOf
<1>6. Alts /\ EnablingRuns
  BY DEF Alts, AltOf, Apart, EnablingRuns
<1>7. Joins
  <2>1. ASSUME NEW p \in Proc
        PROVE  {q \in Kids(p) : st[q] # "unborn" \/ q \in unstarted[p]} = {}
    BY <1>1, ProcAssumption DEF Kids
  <2> QED BY <2>1 DEF Joins, Unstarted, JoinCounts
<1> QED BY <1>2, <1>4, <1>5, <1>6, <1>7 DEF PlaceInv

-----------------------------------------------------------------------------
(* What a step that leaves a part alone keeps of it                        *)

\* The step leaves p's part of an ALT alone.
KeptAlt(p) ==
  /\ slot'[p] = slot[p] /\ alt'[p] = alt[p] /\ guards'[p] = guards[p]
  /\ open'[p] = open[p] /\ chosen'[p] = chosen[p]

\* A process that the step leaves alone.
LEMMA AltSame ==
  ASSUME NEW p \in Proc, AltOf(p), KeptAlt(p), st'[p] = st[p],
         \A c \in Chan : Reader[c] = p => chan'[c] = chan[c]
  PROVE  AltOf(p)'
<1>1. alt[p] \in {"disabling", "chosen"} /\ chosen[p] \in Chan => chan'[chosen[p]] = chan[chosen[p]]
  BY DEF AltOf, TakenOf
<1>2. \A e \in Guards(p) : Opened(p, e)' = Opened(p, e)
  <2>1. ASSUME NEW e \in Guards(p) PROVE Opened(p, e)' = Opened(p, e)
    <3>1. e \in Chan => Reader[e] = p
      BY ChannelAssumption DEF Guards
    <3> QED BY <3>1 DEF Opened, KeptAlt
  <2> QED BY <2>1
<1>3. EnablingOf(p) => EnablingOf(p)'
  BY <1>2 DEF EnablingOf, KeptAlt
<1>4. WaitingOf(p) => WaitingOf(p)'
  BY DEF WaitingOf, KeptAlt
<1>5. DisablingOf(p) => DisablingOf(p)'
  BY <1>2 DEF DisablingOf, KeptAlt
<1>6. alt[p] \in {"disabling", "chosen"} /\ chosen[p] \in Chan => TakenOf(p)'
  BY <1>1 DEF AltOf, TakenOf, KeptAlt
<1>7. Apart(p)'
  BY DEF AltOf, Apart, KeptAlt
<1> QED BY <1>3, <1>4, <1>5, <1>6, <1>7 DEF AltOf, KeptAlt

\* A process outside an ALT that does not enter one.
LEMMA AltNone ==
  ASSUME NEW p \in Proc, alt'[p] = "none", slot'[p] # "other" => p \in Alter,
         st'[p] # "alt", st'[p] = "comm" => slot'[p] = "other", st'[p] = "timer" => p \in Sleeper
  PROVE  AltOf(p)'
BY DEF AltOf, Apart

\* The internal channels are left alone, and who waits in one.
LEMMA ChanWordsSame ==
  ASSUME ChanWords, \A c \in Chan : chan'[c] = chan[c], UNCHANGED <<alt, guards>>,
         \A p \in Proc : st'[p] = "comm" <=> st[p] = "comm"
  PROVE  ChanWords'
<1>1. Reader \in [Chan -> Proc] /\ Writer \in [Chan -> Proc]
  BY ChannelAssumption
<1>2. ASSUME NEW c \in Chan PROVE WordOf(c)'
  BY <1>1 DEF ChanWords, WordOf
<1>3. ASSUME NEW p \in Proc PROVE CommOf(p)'
  BY DEF ChanWords, CommOf
<1> QED BY <1>2, <1>3 DEF ChanWords

\* The links are left alone, and who waits for one.
LEMMA LinkWordsSame ==
  ASSUME LinkWords, \A l \in Link : chan'[l] = chan[l],
         \A p \in Proc : st'[p] = "link" <=> st[p] = "link"
  PROVE  LinkWords'
<1>1. User \in [Link -> Proc]
  BY ChannelAssumption
<1> QED BY <1>1 DEF LinkWords, LinkOf

\* No branch of a PAR is started or ends.
LEMMA JoinsSame ==
  ASSUME Joins, UNCHANGED parVars,
         \A p \in Proc : /\ Parent[p] # NoProc => (st'[p] = "unborn" <=> st[p] = "unborn")
                         /\ st'[p] = "joining" <=> st[p] = "joining"
  PROVE  Joins'
<1>0. \A p \in Proc : \A q \in Kids(p) : q \in Proc /\ Parent[q] # NoProc
  BY Priorities DEF Kids
<1>1. Unstarted'
  BY <1>0 DEF Joins, Unstarted, parVars
<1>2. JoinCounts'
  <2>1. ASSUME NEW p \in Proc
        PROVE  {q \in Kids(p) : st'[q] # "unborn" \/ q \in unstarted'[p]}
               = {q \in Kids(p) : st[q] # "unborn" \/ q \in unstarted[p]}
    BY <1>0 DEF parVars
  <2> QED BY <2>1 DEF Joins, JoinCounts, parVars
<1> QED BY <1>1, <1>2 DEF Joins

\* What the change of a process's state does to the sets of the ready and of
\* the sleepers.
LEMMA SetsChange ==
  ASSUME Typed, NEW p \in Proc, NEW x, st' = [st EXCEPT ![p] = x]
  PROVE  /\ x = "ready" => ReadyOnes' = ReadyOnes \cup {p}
         /\ x # "ready" => ReadyOnes' = ReadyOnes \ {p}
         /\ x = "timer" \/ (x = "alt" /\ p \in Timed) => Sleepers' = Sleepers \cup {p}
         /\ ~(x = "timer" \/ (x = "alt" /\ p \in Timed)) => Sleepers' = Sleepers \ {p}
BY DEF Typed, ReadyOnes, Sleepers, Sleeps

\* Nobody is ready and asleep.
LEMMA ReadyAwake == ReadyOnes \cap Sleepers = {}
BY DEF ReadyOnes, Sleepers, Sleeps

-----------------------------------------------------------------------------
(* The steps of mainloop() between two instructions                        *)

\* The words hold processes, and only these have a state.
LEMMA ChangesTyped ==
  ASSUME Typed, NEW p \in Proc, NEW x \in State, st' = [st EXCEPT ![p] = x]
  PROVE  st' \in [Proc -> State] /\ st'[p] = x /\ \A q \in Proc \ {p} : st'[q] = st[q]
BY DEF Typed

\* Only the links' words are changed by linkloop().
LEMMA FreedWords ==
  ASSUME Typed, LinkWords, NEW l \in Link, LinkFreed(l)
  PROVE  LET p == User[l] IN
           /\ p \in Proc /\ chan[l] = p /\ st[p] = "link"
           /\ st' = [st EXCEPT ![p] = "ready"] /\ \A c \in Chan : chan'[c] = chan[c]
           /\ chan' \in [Chan \cup Link -> Proc \cup {NoProc}]
           /\ LinkWords'
<1> DEFINE p == User[l]
<1>1. p \in Proc /\ chan[l] = p /\ st[p] = "link" /\ st' = [st EXCEPT ![p] = "ready"]
  BY ChannelAssumption DEF LinkFreed, LinkWords
<1>2. chan' = [chan EXCEPT ![l] = NoProc] /\ l \notin Chan
  BY ChannelAssumption DEF LinkFreed
<1>3. /\ chan' \in [Chan \cup Link -> Proc \cup {NoProc}] /\ chan'[l] = NoProc
      /\ \A c \in (Chan \cup Link) \ {l} : chan'[c] = chan[c]
  BY <1>2 DEF Typed
<1>4. st'[p] = "ready" /\ \A q \in Proc \ {p} : st'[q] = st[q]
  BY <1>1 DEF Typed
<1>5. User \in [Link -> Proc] /\ NoProc \notin Proc
  BY ChannelAssumption, ProcAssumption
<1> HIDE DEF p
<1>6. \A k \in Link : chan[k] = p => k = l
  BY <1>1 DEF LinkWords, LinkOf
<1>7. ASSUME NEW k \in Link, chan'[k] # NoProc
      PROVE  chan'[k] = User[k] /\ st'[User[k]] = "link"
  <2>1. k # l /\ chan'[k] = chan[k] /\ chan[k] = User[k] /\ st[User[k]] = "link"
    BY <1>3, <1>7 DEF LinkWords
  <2>2. User[k] # p /\ User[k] \in Proc
    BY <1>5, <1>6, <2>1
  <2> QED BY <1>4, <2>1, <2>2
<1>8. ASSUME NEW q \in Proc PROVE LinkOf(q)'
  <2> SUFFICES ASSUME st'[q] = "link"
               PROVE  \E m \in Link : chan'[m] = q /\ \A k \in Link : chan'[k] = q => k = m
    BY DEF LinkOf
  <2>1. q # p /\ st[q] = "link"
    BY <1>4
  <2>2. PICK m \in Link : chan[m] = q /\ \A k \in Link : chan[k] = q => k = m
    BY <2>1 DEF LinkWords, LinkOf
  <2>3. m # l
    BY <1>1, <2>1, <2>2
  <2>4. \A k \in Link : chan'[k] = q => chan[k] = q
    BY <1>3, <1>5
  <2>5. chan'[m] = q
    BY <1>3, <2>2, <2>3
  <2> QED BY <2>2, <2>4, <2>5
<1>9. LinkWords'
  BY <1>7, <1>8 DEF LinkWords
<1> QED BY <1>1, <1>2, <1>3, <1>9 DEF p

\* One process becomes ready that waited for a link or in the timer queue.
LEMMA ReadyRest ==
  ASSUME PlaceInv, NEW p \in Proc, st[p] \in {"link", "timer"}, p \notin Alter,
         st' = [st EXCEPT ![p] = "ready"],
         \A c \in Chan : chan'[c] = chan[c], UNCHANGED <<slot, alt, guards, chosen, parVars>>,
         \A q \in Proc \ {p} : open'[q] = open[q]
  PROVE  ChanWords' /\ Alts' /\ Joins'
<1>1. st'[p] = "ready" /\ \A q \in Proc \ {p} : st'[q] = st[q]
  BY DEF PlaceInv, Typed
<1>2. ChanWords'
  BY <1>1, ChanWordsSame DEF PlaceInv
<1>3. Joins'
  BY <1>1, JoinsSame DEF PlaceInv
<1>4. ASSUME NEW q \in Proc \ {p} PROVE AltOf(q)'
  BY <1>1, AltSame DEF PlaceInv, Alts, KeptAlt
<1>5. AltOf(p)'
  <2>1. alt[p] = "none" /\ slot[p] = "other"
    BY DEF PlaceInv, Alts, AltOf, Apart
  <2> QED BY <1>1, <2>1, AltNone
<1> QED BY <1>2, <1>3, <1>4, <1>5 DEF Alts

\* A sleeper is woken.
LEMMA WakeKeeps ==
  ASSUME Restricted, PlaceInv, NEW l \in Level, Wake(l)
  PROVE  /\ Placed(cpu', ReadyOnes', Sleepers')
         /\ Now(cpu') = Now(cpu)
         /\ Typed' /\ ChanWords' /\ LinkWords' /\ Alts' /\ EnablingRuns' /\ Joins'
<1>1. Placed(cpu, ReadyOnes, Sleepers) /\ Typed
  BY DEF PlaceInv, Places
<1>2. l = "Lo" /\ cpu.tq["Lo"] # <<>>
  <2>1. cpu.tq["Hi"] = <<>>
    BY <1>1 DEF Placed
  <2> QED BY <2>1 DEF Wake, Level
<1>3. PICK p : p = Head(cpu.tq["Lo"])
  OBVIOUS
<1>4. p \in Sleepers
  BY <1>1, <1>2, <1>3, ListedTail DEF Placed
<1>5. /\ p \in Proc /\ AltOf(p)
      /\ (st[p] = "timer" /\ p \notin Alter) \/ (st[p] = "alt" /\ p \in Timed)
  BY <1>4 DEF Sleepers, Sleeps, PlaceInv, Alts, AltOf, Apart, Restricted
<1>6. slot[p] # "Ready"
  BY <1>5 DEF AltOf, Apart, WaitingOf
<1>7. /\ st' = [st EXCEPT ![p] = "ready"]
      /\ open' = [open EXCEPT ![p] = @ \cup ({Time} \cap Guards(p))]
      /\ UNCHANGED <<ret, chan, slot, alt, guards, chosen, parVars>>
  BY <1>2, <1>3 DEF Wake, TimePassed
<1>8. cpu' = [Schedule(cpu, p, slot[p]) EXCEPT !.tq["Lo"] = IF @ = <<>> THEN @ ELSE Tail(@)]
  BY <1>2, <1>3 DEF Wake
<1>9. ReadyOnes \cap Sleepers = {}
  BY ReadyAwake
<1>10. Placed(cpu', ReadyOnes \cup {p}, Sleepers \ {p}) /\ Now(cpu') = Now(cpu)
  BY <1>1, <1>2, <1>3, <1>6, <1>8, <1>9, WakePlaced
<1>11. ReadyOnes' = ReadyOnes \cup {p} /\ Sleepers' = Sleepers \ {p}
  BY <1>1, <1>5, <1>7, SetsChange
<1>12. Typed'
  BY <1>1, <1>5, <1>7 DEF Typed, State, parVars
<1>13. /\ st'[p] = "ready" /\ \A q \in Proc \ {p} : st'[q] = st[q]
       /\ open'[p] = open[p] \cup ({Time} \cap Guards(p)) /\ \A q \in Proc \ {p} : open'[q] = open[q]
  BY <1>1, <1>5, <1>7 DEF Typed
<1>14. LinkWords'
  BY <1>5, <1>7, <1>13, LinkWordsSame DEF PlaceInv
<1>15. EnablingRuns'
  BY <1>7, <1>10 DEF PlaceInv, EnablingRuns
<1>16. CASE st[p] = "timer" /\ p \notin Alter
  <2>1. ChanWords' /\ Alts' /\ Joins'
    BY <1>5, <1>7, <1>13, <1>16, ReadyRest
  <2> QED BY <1>10, <1>11, <1>12, <1>14, <1>15, <2>1
<1>17. CASE st[p] = "alt" /\ p \in Timed
  <2>1. ChanWords' /\ Joins'
    BY <1>5, <1>7, <1>13, <1>17, ChanWordsSame, JoinsSame DEF PlaceInv
  <2>2. ASSUME NEW q \in Proc \ {p} PROVE AltOf(q)'
    BY <1>7, <1>13, AltSame DEF PlaceInv, Alts, KeptAlt
  <2>3. AltOf(p)'
    <3>1. /\ WaitingOf(p) /\ Apart(p) /\ Time \in Guards(p) /\ NoProc \notin Chan
      BY <1>5, <1>17, ChannelAssumption DEF AltOf, Guards
    <3>2. Time \in open'[p] /\ slot'[p] = "Waiting" /\ alt'[p] = "disabling"
          /\ guards'[p] = Guards(p) /\ chosen'[p] = NoProc /\ p \in Alter
      BY <1>5, <1>7, <1>13, <1>17, <3>1, ChannelAssumption DEF WaitingOf
    <3>3. Apart(p)'
      BY <1>13, <3>2 DEF Apart
    <3>4. Opened(p, Time)'
      BY <3>2 DEF Opened
    <3>5. DisablingOf(p)'
      BY <1>13, <1>17, <3>1, <3>2, <3>4 DEF DisablingOf
    <3> QED BY <1>13, <3>1, <3>2, <3>3, <3>5 DEF AltOf
  <2> QED BY <1>10, <1>11, <1>12, <1>14, <1>15, <2>1, <2>2, <2>3 DEF Alts
<1> QED BY <1>5, <1>16, <1>17

\* Nothing but the registers and the place in mainloop() changes.
LEMMA RestSame ==
  ASSUME PlaceInv, UNCHANGED <<chan, slot, altVars, parVars, st>>
  PROVE  /\ Typed' /\ ChanWords' /\ LinkWords' /\ Alts' /\ Joins'
         /\ ReadyOnes' = ReadyOnes /\ Sleepers' = Sleepers
<1> USE DEF altVars, parVars
<1>1. Typed'
  BY DEF PlaceInv, Typed
<1>2. ChanWords' /\ LinkWords' /\ Joins'
  BY ChanWordsSame, LinkWordsSame, JoinsSame DEF PlaceInv
<1>3. Alts'
  BY AltSame DEF PlaceInv, Alts, KeptAlt
<1>4. ReadyOnes' = ReadyOnes /\ Sleepers' = Sleepers
  BY DEF ReadyOnes, Sleepers, Sleeps
<1> QED BY <1>1, <1>2, <1>3, <1>4

\* update_time().
LEMMA TickKeeps == ASSUME Restricted, PlaceInv, TickHi \/ TickLo PROVE PlaceInv'
<1> USE DEF altVars, parVars
<1>1. ASSUME NEW l \in Level, Wake(l), pc' \in {"tickHi", "tickLo"} PROVE PlaceInv'
  <2>1. /\ Placed(cpu', ReadyOnes', Sleepers')
        /\ Typed' /\ ChanWords' /\ LinkWords' /\ Alts' /\ EnablingRuns' /\ Joins'
    BY <1>1, WakeKeeps
  <2>2. ret' = ret
    BY <1>1 DEF Wake
  <2> QED BY <1>1, <2>1, <2>2 DEF PlaceInv, Places
<1>2. CASE pc' = "tickLo" /\ UNCHANGED <<ret, cpu, chan, slot, altVars, parVars, st>>
  <2>1. /\ Typed' /\ ChanWords' /\ LinkWords' /\ Alts' /\ Joins'
        /\ ReadyOnes' = ReadyOnes /\ Sleepers' = Sleepers
    BY <1>2, RestSame
  <2>2. Places' /\ EnablingRuns'
    BY <1>2, <2>1 DEF PlaceInv, Places, EnablingRuns
  <2> QED BY <2>1, <2>2 DEF PlaceInv
<1>3. ASSUME NEW b \in {cpu.slice, TRUE}, cpu' = [cpu EXCEPT !.slice = b],
             IF cpu.snp \/ cpu.pri = "None"
             THEN pc' = "start" /\ ret' = IF cpu.snp THEN "exec" ELSE ret
             ELSE pc' = "exec" /\ UNCHANGED ret,
             UNCHANGED <<chan, slot, altVars, parVars, st>>
      PROVE  PlaceInv'
  <2>1. /\ Typed' /\ ChanWords' /\ LinkWords' /\ Alts' /\ Joins'
        /\ ReadyOnes' = ReadyOnes /\ Sleepers' = Sleepers
    BY <1>3, RestSame
  <2>2. Placed(cpu, ReadyOnes, Sleepers) /\ cpu \in Regs
    BY DEF PlaceInv, Places, Placed
  <2>3. b \in BOOLEAN
    BY <2>2 DEF Regs
  <2>4. Placed(cpu', ReadyOnes, Sleepers)
    BY <1>3, <2>2, <2>3, FlagsPlaced
  <2>5. cpu'.wptr = cpu.wptr /\ cpu'.pri = cpu.pri /\ cpu'.snp = cpu.snp /\ cpu.wptr \in Proc
    BY <1>3, <2>2 DEF Regs
  <2>6. Now(cpu') = Now(cpu) /\ (Now(cpu) = NoProc <=> cpu.snp \/ cpu.pri = "None")
    BY <2>5, Priorities DEF Now
  <2>7. Places'
    BY <1>3, <2>1, <2>4, <2>6 DEF PlaceInv, Places
  <2>8. EnablingRuns'
    BY <1>3, <2>6 DEF PlaceInv, EnablingRuns
  <2> QED BY <2>1, <2>7, <2>8 DEF PlaceInv
<1>4. "Hi" \in Level /\ "Lo" \in Level
  BY DEF Level
<1> QED BY <1>1, <1>2, <1>3, <1>4 DEF TickHi, TickLo

\* start_process().
LEMMA StartKeeps == ASSUME PlaceInv, Start PROVE PlaceInv'
<1>1. /\ Typed' /\ ChanWords' /\ LinkWords' /\ Alts' /\ Joins'
      /\ ReadyOnes' = ReadyOnes /\ Sleepers' = Sleepers
  BY RestSame DEF Start
<1>2. Placed(cpu, ReadyOnes, Sleepers) /\ Now(cpu) = NoProc /\ ret \in {"exec", "tickHi"}
  BY DEF PlaceInv, Places, Start
<1>3. \A p \in Proc : alt'[p] # "enabling"
  <2>1. alt' = alt
    BY DEF Start, altVars
  <2> QED BY <1>2, <2>1, Priorities DEF PlaceInv, EnablingRuns
<1>4. ~(cpu.pri = "Lo" /\ ~cpu.int)
  <2>1. cpu.wptr \in Proc /\ (cpu.snp => cpu.int)
    BY <1>2 DEF Placed, Regs
  <2> QED BY <1>2, <2>1, Priorities DEF Now
<1>5. PICK s : s = [cpu EXCEPT !.snp = FALSE]
  OBVIOUS
<1>6. CASE Runnable(s)
  <2>1. pc' = ret /\ ret' = ret /\ cpu' = [RunProcess(s) EXCEPT !.slice = FALSE]
    BY <1>4, <1>5, <1>6 DEF Start
  <2>2. Placed(cpu', ReadyOnes, Sleepers) /\ Now(cpu') # NoProc
    BY <1>2, <1>5, <1>6, <2>1, RunPlaced
  <2>3. Places'
    BY <1>1, <1>2, <2>1, <2>2 DEF Places
  <2> QED BY <1>1, <1>3, <2>3 DEF PlaceInv, EnablingRuns
<1>7. CASE ~Runnable(s)
  <2>1. pc' = "server" /\ ret' = ret /\ cpu' = [s EXCEPT !.pri = "None"]
    BY <1>4, <1>5, <1>7 DEF Start
  <2>2. Placed(cpu', ReadyOnes, Sleepers) /\ cpu'.pri = "None" /\ ~cpu'.snp
    BY <1>2, <1>5, <2>1, IdlePlaced
  <2>3. Places'
    BY <1>1, <1>2, <2>1, <2>2 DEF Places
  <2> QED BY <1>1, <1>3, <2>3 DEF PlaceInv, EnablingRuns
<1> QED BY <1>6, <1>7

\* server() in the idle loop.
LEMMA ServerKeeps == ASSUME Restricted, PlaceInv, Server PROVE PlaceInv'
<1>0. /\ Placed(cpu, ReadyOnes, Sleepers) /\ cpu.pri = "None" /\ ~cpu.snp /\ ret' = ret
      /\ pc' = "tickHi" /\ UNCHANGED <<slot, altVars, parVars>>
  BY DEF PlaceInv, Places, Server
<1>1. CASE UNCHANGED <<cpu, chan, st>>
  <2>1. /\ Typed' /\ ChanWords' /\ LinkWords' /\ Alts' /\ Joins'
        /\ ReadyOnes' = ReadyOnes /\ Sleepers' = Sleepers
    BY <1>0, <1>1, RestSame
  <2>2. Places' /\ EnablingRuns'
    BY <1>0, <1>1, <2>1 DEF PlaceInv, Places, EnablingRuns, altVars
  <2> QED BY <2>1, <2>2 DEF PlaceInv
<1>2. ASSUME NEW l \in Link, LinkFreed(l), cpu' = Completed(cpu, l) PROVE PlaceInv'
  <2>1. PICK p : p = User[l]
    OBVIOUS
  <2>2. /\ p \in Proc /\ chan[l] = p /\ st[p] = "link"
        /\ st' = [st EXCEPT ![p] = "ready"] /\ \A c \in Chan : chan'[c] = chan[c]
        /\ chan' \in [Chan \cup Link -> Proc \cup {NoProc}]
        /\ LinkWords'
    BY <1>2, <2>1, FreedWords DEF PlaceInv
  <2>3. p \notin Alter /\ slot[p] # "Ready"
    BY <2>1, <2>2 DEF Restricted, PlaceInv, Alts, AltOf, Apart
  <2>4. p \notin ReadyOnes
    BY <2>2 DEF ReadyOnes
  <2>5. cpu' = Schedule(cpu, p, slot[p])
    BY <1>2, <2>2 DEF Completed
  <2>6. Placed(cpu', ReadyOnes \cup {p}, Sleepers)
    BY <1>0, <2>2, <2>3, <2>4, <2>5, SchedulePlaced
  <2>7. ReadyOnes' = ReadyOnes \cup {p} /\ Sleepers' = Sleepers
    <3>1. p \notin Sleepers
      BY <2>2 DEF Sleepers, Sleeps
    <3>2. ReadyOnes' = ReadyOnes \cup {p} /\ Sleepers' = Sleepers \ {p}
      BY <2>2, SetsChange DEF PlaceInv
    <3> QED BY <3>1, <3>2
  <2>8. Places'
    BY <1>0, <2>6, <2>7 DEF PlaceInv, Places
  <2>9. ChanWords' /\ Alts' /\ Joins'
    BY <1>0, <2>2, <2>3, ReadyRest DEF altVars
  <2>10. Typed'
    BY <1>0, <2>2 DEF PlaceInv, Typed, altVars, parVars, State
  <2>11. EnablingRuns'
    <3>1. Now(cpu) = NoProc
      BY <1>0 DEF Now
    <3> QED BY <1>0, <3>1, Priorities DEF PlaceInv, EnablingRuns, altVars
  <2> QED BY <2>2, <2>8, <2>9, <2>10, <2>11 DEF PlaceInv
<1> QED BY <1>1, <1>2 DEF Server

-----------------------------------------------------------------------------
(* Instructions that are not part of an ALT                                *)

\* Who executes an instruction is ready, at its priority, and asleep nowhere;
\* nobody else is enabling guards.
LEMMA Running ==
  ASSUME PlaceInv, NEW p \in Proc, pc = "exec", cpu.wptr = p
  PROVE  /\ st[p] = "ready" /\ p \in ReadyOnes /\ p \notin Sleepers
         /\ Placed(cpu, ReadyOnes, Sleepers) /\ Now(cpu) = p
         /\ cpu.pri = Pri[p] /\ ~cpu.snp
         /\ \A q \in Proc : alt[q] = "enabling" => q = p
<1>1. Placed(cpu, ReadyOnes, Sleepers) /\ Now(cpu) # NoProc
  BY DEF PlaceInv, Places
<1>2. Now(cpu) = p /\ ~cpu.snp
  BY <1>1 DEF Now
<1>3. p \in ReadyOnes /\ Pri[p] = cpu.pri
  BY <1>1, <1>2 DEF Placed
<1>4. st[p] = "ready" /\ p \notin Sleepers
  BY <1>3, ReadyAwake DEF ReadyOnes
<1> QED BY <1>1, <1>2, <1>3, <1>4 DEF PlaceInv, EnablingRuns

\* IntEnabled is set.
LEMMA OnPlaced ==
  ASSUME PlaceInv, NEW p \in Proc, pc = "exec", cpu.wptr = p
  PROVE  /\ Placed(On, ReadyOnes, Sleepers) /\ Now(On) = p /\ On.int = TRUE
         /\ On.wptr = p /\ On.pri = Pri[p] /\ On.snp = FALSE /\ On.tq = cpu.tq
<1>1. /\ Placed(cpu, ReadyOnes, Sleepers) /\ Now(cpu) = p /\ cpu.pri = Pri[p] /\ ~cpu.snp
      /\ cpu \in Regs
  BY Running DEF Placed
<1>2. Placed(On, ReadyOnes, Sleepers)
  BY <1>1, FlagsPlaced DEF On
<1>3. /\ On.wptr = p /\ On.pri = Pri[p] /\ On.snp = FALSE /\ On.tq = cpu.tq /\ On.int = TRUE
  BY <1>1 DEF On, Regs
<1>4. Now(On) = p
  BY <1>3, Priorities DEF Now
<1> QED BY <1>2, <1>3, <1>4

\* An iteration of mainloop() ends.
LEMMA IterationEnds ==
  ASSUME PlaceInv, pc' = "tickHi", ret' = ret, Placed(cpu', ReadyOnes', Sleepers')
  PROVE  Places'
BY DEF PlaceInv, Places

\* pfix, nfix, and what the scheduler does not see.
LEMMA OtherKeeps == ASSUME PlaceInv, NEW p \in Proc, Prefix(p) \/ Other(p) PROVE PlaceInv'
<1>1. /\ pc = "exec" /\ cpu.wptr = p /\ pc' = "tickHi" /\ ret' = ret
      /\ UNCHANGED <<chan, slot, altVars, parVars, st>>
  BY DEF Prefix, Other, Executes
<1>2. /\ Typed' /\ ChanWords' /\ LinkWords' /\ Alts' /\ Joins'
      /\ ReadyOnes' = ReadyOnes /\ Sleepers' = Sleepers
  BY <1>1, RestSame
<1>3. Placed(cpu', ReadyOnes, Sleepers) /\ Now(cpu') = p /\ Now(cpu) = p
  <2>1. CASE cpu' = On
    BY <1>1, <2>1, OnPlaced, Running
  <2>2. CASE cpu' = [cpu EXCEPT !.int = FALSE]
    <3>1. Placed(cpu, ReadyOnes, Sleepers) /\ Now(cpu) = p /\ ~cpu.snp /\ cpu \in Regs
      BY <1>1, Running DEF Placed
    <3>2. Placed(cpu', ReadyOnes, Sleepers)
      BY <2>2, <3>1, FlagsPlaced
    <3>3. cpu'.wptr = cpu.wptr /\ cpu'.pri = cpu.pri /\ cpu'.snp = cpu.snp
      BY <2>2, <3>1 DEF Regs
    <3> QED BY <3>1, <3>2, <3>3 DEF Now
  <2> QED BY <2>1, <2>2 DEF Prefix, Other
<1>4. EnablingRuns'
  BY <1>1, <1>3 DEF PlaceInv, EnablingRuns, altVars
<1>5. Places'
  BY <1>1, <1>2, <1>3, IterationEnds
<1> QED BY <1>2, <1>4, <1>5 DEF PlaceInv

\* j and lend.
LEMMA JumpKeeps == ASSUME Restricted, PlaceInv, NEW p \in Proc, Jump(p) PROVE PlaceInv'
<1>1. /\ pc = "exec" /\ cpu.wptr = p /\ pc' = "tickHi" /\ ret' = ret
      /\ UNCHANGED <<slot, altVars, parVars>>
  BY DEF Jump, Executes
<1>2. /\ Placed(On, ReadyOnes, Sleepers) /\ Now(On) = p /\ On.int = TRUE /\ On.wptr = p
      /\ On.snp = FALSE /\ p \in ReadyOnes /\ p \notin Sleepers /\ p # NoProc
  BY <1>1, OnPlaced, Running, Priorities
<1>3. ReadyOnes \cap Sleepers = {}
  BY ReadyAwake
<1>4. EnablingRuns'
  <2>1. \A q \in Proc : alt[q] # "enabling"
    BY <1>1, Running DEF Jump, Restricted
  <2> QED BY <1>1, <2>1 DEF EnablingRuns, altVars
<1>5. CASE cpu' = DCheck(On) /\ UNCHANGED <<chan, st>>
  <2>1. /\ Typed' /\ ChanWords' /\ LinkWords' /\ Alts' /\ Joins'
        /\ ReadyOnes' = ReadyOnes /\ Sleepers' = Sleepers
    BY <1>1, <1>5, RestSame
  <2>2. Placed(cpu', ReadyOnes, Sleepers)
    BY <1>2, <1>3, <1>5, DCheckPlaced
  <2>3. Places'
    BY <1>1, <2>1, <2>2, IterationEnds
  <2> QED BY <1>4, <2>1, <2>3 DEF PlaceInv
<1>6. ASSUME NEW l \in Link, LinkFreed(l), cpu' = DCheck(Completed(On, l)) PROVE PlaceInv'
  <2>1. PICK w : w = User[l]
    OBVIOUS
  <2>2. /\ w \in Proc /\ chan[l] = w /\ st[w] = "link"
        /\ st' = [st EXCEPT ![w] = "ready"] /\ \A c \in Chan : chan'[c] = chan[c]
        /\ chan' \in [Chan \cup Link -> Proc \cup {NoProc}]
        /\ LinkWords'
    BY <1>6, <2>1, FreedWords DEF PlaceInv
  <2>3. w \notin Alter /\ slot[w] # "Ready" /\ w \notin ReadyOnes /\ w \notin Sleepers
    BY <2>1, <2>2 DEF Restricted, PlaceInv, Alts, AltOf, Apart, ReadyOnes, Sleepers, Sleeps
  <2>4. PICK s : s = Schedule(On, w, slot[w])
    OBVIOUS
  <2>5. /\ Placed(s, ReadyOnes \cup {w}, Sleepers) /\ s.int = TRUE /\ Now(s) \in {p, w}
    BY <1>2, <2>2, <2>3, <2>4, SchedulePlaced
  <2>6. ReadyOnes' = ReadyOnes \cup {w} /\ Sleepers' = Sleepers
    <3>1. ReadyOnes' = ReadyOnes \cup {w} /\ Sleepers' = Sleepers \ {w}
      BY <2>2, SetsChange DEF PlaceInv
    <3> QED BY <2>3, <3>1
  <2>7. cpu' = DCheck(s)
    BY <1>6, <2>2, <2>4 DEF Completed
  <2>8. Now(s) # NoProc /\ (ReadyOnes \cup {w}) \cap Sleepers = {}
    BY <1>2, <1>3, <2>2, <2>3, <2>5, Priorities
  <2>9. Placed(cpu', ReadyOnes \cup {w}, Sleepers)
    BY <2>5, <2>7, <2>8, DCheckPlaced
  <2>10. Places'
    BY <1>1, <2>6, <2>9, IterationEnds
  <2>11. ChanWords' /\ Alts' /\ Joins'
    BY <1>1, <2>2, <2>3, ReadyRest DEF altVars
  <2>12. Typed'
    BY <1>1, <2>2 DEF PlaceInv, Typed, altVars, parVars, State
  <2> QED BY <1>4, <2>2, <2>10, <2>11, <2>12 DEF PlaceInv
<1> QED BY <1>5, <1>6 DEF Jump

\* The process p, that does no ALT, stops to be ready and waits for nothing in
\* an internal channel.
LEMMA LeavesRest ==
  ASSUME PlaceInv, NEW p \in Proc, st[p] = "ready", alt[p] = "none",
         NEW x \in State \ {"ready", "comm", "alt"}, x = "timer" => p \in Sleeper,
         st' = [st EXCEPT ![p] = x],
         \A c \in Chan : chan'[c] = chan[c], UNCHANGED <<slot, altVars>>
  PROVE  ChanWords' /\ Alts'
<1>1. st'[p] = x /\ \A q \in Proc \ {p} : st'[q] = st[q]
  BY DEF PlaceInv, Typed
<1>2. ChanWords'
  BY <1>1, ChanWordsSame DEF PlaceInv, altVars
<1>3. ASSUME NEW q \in Proc \ {p} PROVE AltOf(q)'
  BY <1>1, AltSame DEF PlaceInv, Alts, KeptAlt, altVars
<1>4. AltOf(p)'
  <2>1. alt'[p] = "none" /\ slot'[p] = slot[p] /\ (slot[p] # "other" => p \in Alter)
    BY DEF PlaceInv, Alts, AltOf, Apart, altVars
  <2> QED BY <1>1, <2>1, AltNone
<1> QED BY <1>2, <1>3, <1>4 DEF Alts

\* While somebody outside an ALT executes, nobody enables guards.
LEMMA NoneEnabling ==
  ASSUME PlaceInv, NEW p \in Proc, pc = "exec", cpu.wptr = p, alt[p] # "enabling", alt' = alt
  PROVE  EnablingRuns'
BY Running DEF EnablingRuns

\* in and out on a link.
LEMMA LinkIoKeeps == ASSUME PlaceInv, NEW p \in Proc, NEW l \in Link, LinkIo(p, l) PROVE PlaceInv'
<1>1. /\ pc = "exec" /\ cpu.wptr = p /\ User[l] = p /\ alt[p] = "none"
      /\ chan' = [chan EXCEPT ![l] = p] /\ cpu' = Deschedule(On)
      /\ st' = [st EXCEPT ![p] = "link"] /\ pc' = "start" /\ ret' = "tickHi"
      /\ UNCHANGED <<slot, altVars, parVars>>
  BY DEF LinkIo, Awaits
<1>2. /\ Placed(On, ReadyOnes, Sleepers) /\ Now(On) = p /\ On.int = TRUE
      /\ st[p] = "ready" /\ p \notin Sleepers /\ p # NoProc
  BY <1>1, OnPlaced, Running, Priorities
<1>3. Placed(cpu', ReadyOnes \ {p}, Sleepers) /\ Now(cpu') = NoProc
  BY <1>1, <1>2, DeschedulePlaced
<1>4. ReadyOnes' = ReadyOnes \ {p} /\ Sleepers' = Sleepers
  <2>1. PICK x : x = "link"
    OBVIOUS
  <2>2. Typed /\ st' = [st EXCEPT ![p] = x] /\ x # "ready" /\ x # "timer" /\ x # "alt"
    BY <1>1, <2>1 DEF PlaceInv
  <2>3. ReadyOnes' = ReadyOnes \ {p} /\ Sleepers' = Sleepers \ {p}
    BY <2>2, SetsChange
  <2> QED BY <1>2, <2>3
<1>5. Places'
  BY <1>1, <1>3, <1>4 DEF Places
<1>6. /\ chan'[l] = p /\ \A c \in (Chan \cup Link) \ {l} : chan'[c] = chan[c]
      /\ st'[p] = "link" /\ \A q \in Proc \ {p} : st'[q] = st[q]
      /\ l \notin Chan
  BY <1>1, ChannelAssumption DEF PlaceInv, Typed
<1>7. ChanWords' /\ Alts'
  BY <1>1, <1>2, <1>6, LeavesRest DEF State
<1>8. Joins'
  BY <1>1, <1>2, <1>6, JoinsSame DEF PlaceInv
<1>9. LinkWords'
  <2>1. \A k \in Link : chan[k] # p
    BY <1>1, <1>2 DEF PlaceInv, LinkWords
  <2>2. ASSUME NEW k \in Link, chan'[k] # NoProc PROVE chan'[k] = User[k] /\ st'[User[k]] = "link"
    <3>1. CASE k = l
      BY <1>1, <1>6, <3>1
    <3>2. CASE k # l
      <4>1. chan'[k] = chan[k] /\ chan[k] = User[k] /\ st[User[k]] = "link" /\ User[k] # p
        BY <1>6, <2>1, <2>2, <3>2 DEF PlaceInv, LinkWords
      <4>2. User[k] \in Proc
        BY ChannelAssumption
      <4> QED BY <1>6, <4>1, <4>2
    <3> QED BY <3>1, <3>2
  <2>3. ASSUME NEW q \in Proc, st'[q] = "link"
        PROVE  \E m \in Link : chan'[m] = q /\ \A k \in Link : chan'[k] = q => k = m
    <3>1. CASE q = p
      BY <1>6, <2>1, <3>1
    <3>2. CASE q # p
      <4>1. PICK m \in Link : chan[m] = q /\ \A k \in Link : chan[k] = q => k = m
        BY <1>6, <2>3, <3>2 DEF PlaceInv, LinkWords, LinkOf
      <4>2. m # l
        <5>1. chan[l] # NoProc => chan[l] = p
          BY <1>1 DEF PlaceInv, LinkWords
        <5> QED BY <3>2, <4>1, <5>1, Priorities
      <4> QED BY <1>6, <3>2, <4>1, <4>2
    <3> QED BY <3>1, <3>2
  <2> QED BY <2>2, <2>3 DEF LinkWords, LinkOf
<1>10. Typed'
  BY <1>1 DEF PlaceInv, Typed, altVars, parVars, State
<1>11. EnablingRuns'
  BY <1>1, NoneEnabling DEF altVars
<1> QED BY <1>5, <1>7, <1>8, <1>9, <1>10, <1>11 DEF PlaceInv

\* The current process goes to sleep in the timer queue of its priority.
LEMMA InsertedPlaced ==
  ASSUME PlaceInv, NEW p \in Low, pc = "exec", cpu.wptr = p, NEW s \in Inserted(p)
  PROVE  Placed(Deschedule(s), ReadyOnes \ {p}, Sleepers \cup {p}) /\ Now(Deschedule(s)) = NoProc
<1>1. p \in Proc /\ p \notin HiProc
  BY DEF Low
<1>2. PICK u : u = On
  OBVIOUS
<1>3. /\ Placed(u, ReadyOnes, Sleepers) /\ Now(u) = p /\ u.int = TRUE /\ u.tq = cpu.tq
      /\ p \in Low \ Sleepers /\ cpu.pri = "Lo"
  BY <1>1, <1>2, OnPlaced, Running, Priorities
<1>4. PICK k : Fits(u, k) /\ s = PutAt(u, k, p)
  BY <1>2, <1>3 DEF Inserted, PutAt, Fits
<1>5. LET v == Deschedule(PutAt(u, k, p)) IN
        Placed(v, ReadyOnes \ {p}, Sleepers \cup {p}) /\ Now(v) = NoProc
  <2>1. PICK R, T : R = ReadyOnes /\ T = Sleepers
    OBVIOUS
  <2>2. Placed(u, R, T) /\ p \in Low \ T /\ Now(u) = p /\ u.int = TRUE /\ Fits(u, k)
    BY <1>3, <1>4, <2>1
  <2>3. LET v == Deschedule(PutAt(u, k, p)) IN Placed(v, R \ {p}, T \cup {p}) /\ Now(v) = NoProc
    BY <2>2, SleepPlaced
  <2> QED BY <2>1, <2>3
<1> QED BY <1>4, <1>5

\* tin.
LEMMA TinKeeps == ASSUME Restricted, PlaceInv, NEW p \in Proc, Tin(p) PROVE PlaceInv'
<1>1. /\ pc = "exec" /\ cpu.wptr = p /\ alt[p] = "none" /\ p \in Sleeper
      /\ st' = [st EXCEPT ![p] = "timer"] /\ pc' = "tickHi" /\ ret' = ret
      /\ UNCHANGED <<chan, slot, altVars, parVars>>
  BY DEF Tin, Executes
<1>2. p \in Low /\ st[p] = "ready"
  BY <1>1, Running DEF Low, Restricted
<1>3. Placed(cpu', ReadyOnes \ {p}, Sleepers \cup {p})
  BY <1>1, <1>2, InsertedPlaced DEF Tin
<1>4. ReadyOnes' = ReadyOnes \ {p} /\ Sleepers' = Sleepers \cup {p}
  BY <1>1, SetsChange DEF PlaceInv
<1>5. Places'
  BY <1>1, <1>3, <1>4, IterationEnds
<1>6. st'[p] = "timer" /\ \A q \in Proc \ {p} : st'[q] = st[q]
  BY <1>1 DEF PlaceInv, Typed
<1>7. ChanWords' /\ Alts'
  BY <1>1, <1>2, LeavesRest DEF State
<1>8. Joins' /\ LinkWords'
  BY <1>1, <1>2, <1>6, JoinsSame, LinkWordsSame DEF PlaceInv
<1>9. Typed'
  BY <1>1 DEF PlaceInv, Typed, altVars, parVars, State
<1>10. EnablingRuns'
  BY <1>1, NoneEnabling DEF altVars
<1> QED BY <1>5, <1>7, <1>8, <1>9, <1>10 DEF PlaceInv

-----------------------------------------------------------------------------
(* Instructions that start and end processes                               *)

\* stopp.
LEMMA StoppKeeps == ASSUME PlaceInv, NEW p \in Proc, Stopp(p) PROVE PlaceInv'
<1>1. /\ pc = "exec" /\ cpu.wptr = p /\ alt[p] = "none" /\ Parent[p] = NoProc
      /\ cpu' = Deschedule(On) /\ st' = [st EXCEPT ![p] = "unborn"]
      /\ pc' = "tickHi" /\ ret' = ret /\ UNCHANGED <<chan, slot, altVars, parVars>>
  BY DEF Stopp, Executes
<1>2. /\ Placed(On, ReadyOnes, Sleepers) /\ Now(On) = p /\ On.int = TRUE
      /\ st[p] = "ready" /\ p \notin Sleepers /\ p # NoProc
  BY <1>1, OnPlaced, Running, Priorities
<1>3. Placed(cpu', ReadyOnes \ {p}, Sleepers)
  BY <1>1, <1>2, DeschedulePlaced
<1>4. ReadyOnes' = ReadyOnes \ {p} /\ Sleepers' = Sleepers
  <2>1. PICK x : x = "unborn"
    OBVIOUS
  <2>2. Typed /\ st' = [st EXCEPT ![p] = x] /\ x # "ready" /\ x # "timer" /\ x # "alt"
    BY <1>1, <2>1 DEF PlaceInv
  <2>3. ReadyOnes' = ReadyOnes \ {p} /\ Sleepers' = Sleepers \ {p}
    BY <2>2, SetsChange
  <2> QED BY <1>2, <2>3
<1>5. Places'
  BY <1>1, <1>3, <1>4, IterationEnds
<1>6. st'[p] = "unborn" /\ \A q \in Proc \ {p} : st'[q] = st[q]
  BY <1>1 DEF PlaceInv, Typed
<1>7. ChanWords' /\ Alts'
  BY <1>1, <1>2, LeavesRest DEF State
<1>8. LinkWords' /\ Joins'
  BY <1>1, <1>2, <1>6, LinkWordsSame, JoinsSame DEF PlaceInv
<1>9. Typed'
  BY <1>1 DEF PlaceInv, Typed, altVars, parVars, State
<1>10. EnablingRuns'
  BY <1>1, NoneEnabling DEF altVars
<1> QED BY <1>5, <1>7, <1>8, <1>9, <1>10 DEF PlaceInv

\* schedule() of a process q that is started or was waiting for its branches.
LEMMA StartedKeeps ==
  ASSUME PlaceInv, NEW p \in Proc, pc = "exec", cpu.wptr = p, alt[p] = "none",
         NEW q \in Proc, st[q] = "unborn",
         cpu' = Schedule(On, q, slot[q]), st' = [st EXCEPT ![q] = "ready"],
         pc' = "tickHi", ret' = ret, UNCHANGED <<chan, slot, altVars>>
  PROVE  Places' /\ ChanWords' /\ LinkWords' /\ Alts' /\ EnablingRuns'
<1>1. /\ Placed(On, ReadyOnes, Sleepers) /\ On.wptr = p /\ On.snp = FALSE
      /\ p \notin Sleepers
  BY OnPlaced, Running
<1>2. q \notin ReadyOnes /\ q \notin Sleepers
  BY DEF ReadyOnes, Sleepers, Sleeps
<1>3. Placed(cpu', ReadyOnes \cup {q}, Sleepers)
  BY <1>1, <1>2, SchedulePlaced
<1>4. ReadyOnes' = ReadyOnes \cup {q} /\ Sleepers' = Sleepers
  <2>1. ReadyOnes' = ReadyOnes \cup {q} /\ Sleepers' = Sleepers \ {q}
    BY SetsChange DEF PlaceInv
  <2> QED BY <1>2, <2>1
<1>5. Places'
  BY <1>3, <1>4, IterationEnds
<1>6. st'[q] = "ready" /\ \A r \in Proc \ {q} : st'[r] = st[r]
  BY DEF PlaceInv, Typed
<1>7. ChanWords' /\ LinkWords'
  BY <1>6, ChanWordsSame, LinkWordsSame DEF PlaceInv, altVars
<1>8. ASSUME NEW r \in Proc \ {q} PROVE AltOf(r)'
  BY <1>6, AltSame DEF PlaceInv, Alts, KeptAlt, altVars
<1>9. AltOf(q)'
  <2>1. alt[q] = "none" /\ (slot[q] # "other" => q \in Alter)
    BY DEF PlaceInv, Alts, AltOf, Apart
  <2> QED BY <1>6, <2>1, AltNone DEF altVars
<1>10. EnablingRuns'
  BY NoneEnabling DEF altVars
<1> QED BY <1>5, <1>7, <1>8, <1>9, <1>10 DEF Alts

\* runp of a process that is no branch of a PAR.
LEMMA RunpKeeps == ASSUME PlaceInv, NEW p \in Proc, NEW q \in Proc, Runp(p, q) PROVE PlaceInv'
<1>1. /\ pc = "exec" /\ cpu.wptr = p /\ alt[p] = "none" /\ Parent[q] = NoProc /\ st[q] = "unborn"
      /\ cpu' = Schedule(On, q, slot[q]) /\ st' = [st EXCEPT ![q] = "ready"]
      /\ pc' = "tickHi" /\ ret' = ret /\ UNCHANGED <<chan, slot, altVars, parVars>>
  BY DEF Runp, Executes
<1>2. Places' /\ ChanWords' /\ LinkWords' /\ Alts' /\ EnablingRuns'
  BY <1>1, StartedKeeps
<1>3. st'[q] = "ready" /\ \A r \in Proc \ {q} : st'[r] = st[r]
  BY <1>1 DEF PlaceInv, Typed
<1>4. Joins'
  BY <1>1, <1>3, JoinsSame DEF PlaceInv
<1>5. Typed'
  BY <1>1 DEF PlaceInv, Typed, altVars, parVars, State
<1> QED BY <1>2, <1>4, <1>5 DEF PlaceInv

\* The branches of p's PAR that have not ended.
Live(p) == {q \in Kids(p) : st[q] # "unborn" \/ q \in unstarted[p]}

\* Joins, for one process.
JoinOf(p) ==
  /\ unstarted[p] \subseteq Kids(p) /\ \A q \in unstarted[p] : st[q] = "unborn"
  /\ join[p] > 0 => join[p] = Cardinality(Live(p)) + IF st[p] = "joining" THEN 0 ELSE 1
  /\ join[p] = 0 => Live(p) = {} /\ st[p] # "joining"

\* It is Joins.
LEMMA JoinsOf == Joins <=> \A p \in Proc : JoinOf(p)
BY DEF Joins, Unstarted, JoinCounts, JoinOf, Live

\* It is Joins in the next state too.
LEMMA JoinsOfNext == (\A p \in Proc : JoinOf(p)') => Joins'
BY DEF Joins, Unstarted, JoinCounts, JoinOf, Live

\* A process whose PAR the step leaves alone.
LEMMA JoinSame ==
  ASSUME NEW p \in Proc, JoinOf(p), join'[p] = join[p], unstarted'[p] = unstarted[p],
         st'[p] = "joining" <=> st[p] = "joining",
         \A q \in Kids(p) : st'[q] = "unborn" <=> st[q] = "unborn"
  PROVE  JoinOf(p)'
<1>1. Live(p)' = Live(p)
  BY DEF Live
<1> QED BY <1>1 DEF JoinOf

\* startp of a branch.
LEMMA StartpKeeps == ASSUME PlaceInv, NEW p \in Proc, NEW q \in Proc, Startp(p, q) PROVE PlaceInv'
<1>1. /\ pc = "exec" /\ cpu.wptr = p /\ alt[p] = "none" /\ q \in unstarted[p]
      /\ cpu' = Schedule(On, q, slot[q]) /\ st' = [st EXCEPT ![q] = "ready"]
      /\ unstarted' = [unstarted EXCEPT ![p] = @ \ {q}]
      /\ pc' = "tickHi" /\ ret' = ret /\ UNCHANGED <<chan, slot, altVars, join>>
  BY DEF Startp, Executes
<1>2. \A r \in Proc : JoinOf(r)
  BY JoinsOf DEF PlaceInv
<1>3. st[q] = "unborn" /\ q \in Kids(p)
  BY <1>1, <1>2 DEF JoinOf
<1>4. Places' /\ ChanWords' /\ LinkWords' /\ Alts' /\ EnablingRuns'
  BY <1>1, <1>3, StartedKeeps
<1>5. /\ st'[q] = "ready" /\ \A r \in Proc \ {q} : st'[r] = st[r]
      /\ unstarted'[p] = unstarted[p] \ {q} /\ \A r \in Proc \ {p} : unstarted'[r] = unstarted[r]
  BY <1>1 DEF PlaceInv, Typed
<1>6. ASSUME NEW r \in Proc \ {p} PROVE JoinOf(r)'
  <2>1. q \notin Kids(r) /\ Kids(r) \subseteq Proc
    BY <1>3 DEF Kids
  <2>2. st'[r] = "joining" <=> st[r] = "joining"
    BY <1>3, <1>5
  <2> QED BY <1>1, <1>2, <1>5, <2>1, <2>2, JoinSame
<1>7. JoinOf(p)'
  <2>1. Live(p)' = Live(p)
    <3>1. Kids(p) \subseteq Proc
      BY DEF Kids
    <3> QED BY <1>1, <1>3, <1>5, <3>1 DEF Live
  <2>2. st'[p] = "joining" <=> st[p] = "joining"
    BY <1>3, <1>5
  <2>3. \A r \in unstarted'[p] : st'[r] = "unborn"
    <3>1. Kids(p) \subseteq Proc
      BY DEF Kids
    <3> QED BY <1>2, <1>5, <3>1 DEF JoinOf
  <2>4. join'[p] = join[p] /\ unstarted'[p] \subseteq Kids(p)
    BY <1>1, <1>2, <1>5 DEF JoinOf
  <2> QED BY <1>2, <2>1, <2>2, <2>3, <2>4 DEF JoinOf
<1>8. Joins'
  BY <1>6, <1>7, JoinsOfNext
<1>9. Typed'
  BY <1>1 DEF PlaceInv, Typed, altVars, State
<1> QED BY <1>4, <1>8, <1>9 DEF PlaceInv

\* The words of a PAR are set up.
LEMMA BeginParKeeps == ASSUME PlaceInv, NEW p \in Proc, BeginPar(p) PROVE PlaceInv'
<1>1. /\ pc = "exec" /\ cpu.wptr = p /\ alt[p] = "none" /\ cpu' = On
      /\ \A q \in Kids(p) : st[q] = "unborn"
      /\ join' = [join EXCEPT ![p] = Cardinality(Kids(p)) + 1]
      /\ unstarted' = [unstarted EXCEPT ![p] = Kids(p)]
      /\ pc' = "tickHi" /\ ret' = ret /\ UNCHANGED <<chan, slot, altVars, st>>
  BY DEF BeginPar, Executes
<1>2. st[p] = "ready" /\ Placed(On, ReadyOnes, Sleepers)
  BY <1>1, Running, OnPlaced
<1>3. ReadyOnes' = ReadyOnes /\ Sleepers' = Sleepers
  BY <1>1 DEF ReadyOnes, Sleepers, Sleeps
<1>4. Places'
  BY <1>1, <1>2, <1>3, IterationEnds
<1>5. ChanWords' /\ LinkWords'
  BY <1>1, ChanWordsSame, LinkWordsSame DEF PlaceInv, altVars
<1>6. Alts'
  BY <1>1, AltSame DEF PlaceInv, Alts, KeptAlt, altVars
<1>7. EnablingRuns'
  BY <1>1, NoneEnabling DEF altVars
<1>8. Kids(p) \subseteq Proc /\ IsFiniteSet(Kids(p)) /\ Cardinality(Kids(p)) \in Nat
  <2>1. Kids(p) \subseteq Proc
    BY DEF Kids
  <2> QED BY <2>1, ProcAssumption, FS_Subset, FS_CardinalityType
<1>9. /\ join'[p] = Cardinality(Kids(p)) + 1 /\ \A r \in Proc \ {p} : join'[r] = join[r]
      /\ unstarted'[p] = Kids(p) /\ \A r \in Proc \ {p} : unstarted'[r] = unstarted[r]
  BY <1>1 DEF PlaceInv, Typed
<1>10. Joins'
  <2>1. \A r \in Proc : JoinOf(r)
    BY JoinsOf DEF PlaceInv
  <2>2. ASSUME NEW r \in Proc \ {p} PROVE JoinOf(r)'
    BY <1>1, <1>9, <2>1, JoinSame
  <2>3. Live(p)' = Kids(p)
    BY <1>9 DEF Live
  <2>4. JoinOf(p)'
    BY <1>1, <1>2, <1>8, <1>9, <2>3 DEF JoinOf
  <2> QED BY <2>2, <2>4, JoinsOfNext
<1>11. Typed'
  BY <1>1, <1>8 DEF PlaceInv, Typed, altVars
<1> QED BY <1>4, <1>5, <1>6, <1>7, <1>10, <1>11 DEF PlaceInv

\* endp: a branch ends, and the last one goes on as the process after the PAR.
LEMMA EndpKeeps == ASSUME PlaceInv, NEW p \in Proc, Endp(p) PROVE PlaceInv'
<1> DEFINE last == LastBranch(p)
<1>1. PICK j : j = Join(p)
  OBVIOUS
<1>2. /\ pc = "exec" /\ cpu.wptr = p /\ alt[p] = "none" /\ join[j] > 0
      /\ join' = [join EXCEPT ![j] = @ - 1]
      /\ last => cpu' = [On EXCEPT !.wptr = j]
      /\ ~last => cpu' = Deschedule(On)
      /\ st' = [q \in Proc |-> IF q = j /\ last THEN "ready"
                               ELSE IF q = p THEN IF p = j THEN "joining" ELSE "unborn"
                               ELSE st[q]]
      /\ last <=> join[j] = 1
      /\ pc' = "tickHi" /\ ret' = ret /\ UNCHANGED <<chan, slot, altVars, unstarted>>
  BY <1>1 DEF Endp, Executes, LastBranch, Deschedule
<1> HIDE DEF last
<1>3. /\ Placed(On, ReadyOnes, Sleepers) /\ Now(On) = p /\ On.int = TRUE
      /\ st[p] = "ready" /\ p \in ReadyOnes /\ p \notin Sleepers /\ p # NoProc
  BY <1>2, OnPlaced, Running, Priorities
<1>4. /\ j \in Proc /\ Parent[j] = NoProc /\ Pri[j] = Pri[p] /\ NoProc \notin Proc
      /\ j # p => Parent[p] = j
      /\ j = p => Parent[p] = NoProc
  BY <1>1, ProcAssumption DEF Join
<1>5. \A q \in Proc : JoinOf(q)
  BY JoinsOf DEF PlaceInv
<1>6. join[j] \in Nat /\ join[p] \in Nat /\ \A q \in Proc : Kids(q) \subseteq Proc /\ p \in Kids(Parent[p])
  BY <1>4 DEF PlaceInv, Typed, Kids
<1>7. Live(j) \subseteq Proc /\ IsFiniteSet(Live(j)) /\ Cardinality(Live(j)) \in Nat
  <2>1. Live(j) \subseteq Proc
    BY DEF Live, Kids
  <2> QED BY <2>1, ProcAssumption, FS_Subset, FS_CardinalityType
<1>8. join[j] = Cardinality(Live(j)) + IF st[j] = "joining" THEN 0 ELSE 1
  BY <1>2, <1>4, <1>5 DEF JoinOf
\* The other branches and the process after the PAR.
<1>9. ASSUME j # p PROVE /\ p \in Live(j) /\ IsFiniteSet(Live(j) \ {p})
                         /\ Cardinality(Live(j) \ {p}) = Cardinality(Live(j)) - 1
                         /\ Cardinality(Live(j) \ {p}) \in Nat
  <2>1. p \in Live(j)
    BY <1>3, <1>4, <1>9 DEF Live, Kids
  <2> QED BY <1>7, <2>1, FS_RemoveElement, FS_CardinalityType
<1>10. last => st[j] = "joining" \/ j = p
  BY <1>2, <1>6, <1>7, <1>8, <1>9
<1>11. last /\ j = p => Live(j) = {}
  <2>1. last /\ j = p => Cardinality(Live(j)) = 0
    BY <1>2, <1>3, <1>7, <1>8
  <2> QED BY <1>7, <2>1, FS_EmptySet
<1>12. last /\ j # p => Live(j) \ {p} = {}
  <2>1. last /\ j # p => Cardinality(Live(j) \ {p}) = 0
    BY <1>2, <1>7, <1>8, <1>9, <1>10
  <2> QED BY <1>9, <2>1, FS_EmptySet
<1>13. /\ \A q \in Proc \ {j, p} : st'[q] = st[q]
       /\ last => st'[j] = "ready"
       /\ ~last /\ j # p => st'[j] = st[j] /\ st'[p] = "unborn"
       /\ last /\ j # p => st'[p] = "unborn"
       /\ ~last /\ j = p => st'[p] = "joining"
  BY <1>2, <1>4
<1>14. join'[j] = join[j] - 1 /\ \A q \in Proc \ {j} : join'[q] = join[q]
  BY <1>2, <1>4 DEF PlaceInv, Typed
<1>15. ReadyOnes' = (IF last THEN (ReadyOnes \ {p}) \cup {j} ELSE ReadyOnes \ {p}) /\ Sleepers' = Sleepers
  <2>1. \A q \in Proc : q \in ReadyOnes' <=> (IF last THEN q = j \/ (q \in ReadyOnes /\ q # p)
                                              ELSE q \in ReadyOnes /\ q # p)
    BY <1>3, <1>4, <1>10, <1>13 DEF ReadyOnes
  <2>2. ReadyOnes' \subseteq Proc /\ ReadyOnes \subseteq Proc
    BY DEF ReadyOnes
  <2>3. \A q \in Proc : Sleeps(q)' = Sleeps(q)
    BY <1>3, <1>4, <1>10, <1>13 DEF Sleeps
  <2> QED BY <1>4, <2>1, <2>2, <2>3 DEF Sleepers
<1>16. Placed(cpu', ReadyOnes', Sleepers')
  <2>1. CASE last
    <3>1. j \notin ReadyOnes \ {p}
      BY <1>10, <2>1 DEF ReadyOnes
    <3>2. Placed(cpu', (ReadyOnes \ {p}) \cup {j}, Sleepers)
      BY <1>2, <1>3, <1>4, <2>1, <3>1, JoinPlaced
    <3> QED BY <1>15, <2>1, <3>2
  <2>2. CASE ~last
    <3>1. Placed(cpu', ReadyOnes \ {p}, Sleepers)
      BY <1>2, <1>3, <2>2, DeschedulePlaced
    <3> QED BY <1>15, <2>2, <3>1
  <2> QED BY <2>1, <2>2
<1>17. Places'
  BY <1>2, <1>16, IterationEnds
<1>18. \A q \in Proc : /\ st'[q] = "comm" <=> st[q] = "comm"
                       /\ st'[q] = "link" <=> st[q] = "link"
  BY <1>3, <1>4, <1>10, <1>13
<1>19. ChanWords' /\ LinkWords'
  BY <1>2, <1>18, ChanWordsSame, LinkWordsSame DEF PlaceInv, altVars
<1>20. EnablingRuns'
  BY <1>2, NoneEnabling DEF altVars
<1>21. ASSUME NEW q \in Proc PROVE AltOf(q)'
  <2>1. CASE st'[q] = st[q]
    BY <1>2, <2>1, AltSame DEF PlaceInv, Alts, KeptAlt, altVars
  <2>2. CASE st'[q] # st[q]
    <3>1. st'[q] \in {"ready", "unborn", "joining"} /\ st[q] \in {"ready", "joining"}
      BY <1>3, <1>4, <1>10, <1>13, <2>2
    <3>2. alt[q] = "none" /\ (slot[q] # "other" => q \in Alter)
      <4>1. q = p \/ st[q] = "joining"
        BY <1>4, <1>10, <1>13, <2>2
      <4> QED BY <1>2, <4>1 DEF PlaceInv, Alts, AltOf, Apart
    <3> QED BY <1>2, <3>1, <3>2, AltNone DEF altVars
  <2> QED BY <2>1, <2>2
<1>22. ASSUME NEW q \in Proc PROVE JoinOf(q)'
  <2>1. ASSUME NEW r \in Kids(q) PROVE r # j /\ (r = p => q = j /\ j # p)
    BY <1>4, <2>1 DEF Kids
  <2>2. CASE q \notin {j, p}
    <3>1. \A r \in Kids(q) : st'[r] = st[r]
      BY <1>6, <1>13, <2>1, <2>2
    <3> QED BY <1>2, <1>5, <1>13, <1>14, <2>2, <3>1, JoinSame
  <2>3. CASE q = p /\ q # j
    <3>1. \A r \in Kids(q) : st'[r] = st[r]
      BY <1>6, <1>13, <2>1, <2>3
    <3>2. st'[q] = "joining" <=> st[q] = "joining"
      BY <1>3, <1>13, <2>3
    <3> QED BY <1>2, <1>5, <1>14, <2>3, <3>1, <3>2, JoinSame
  <2>4. CASE q = j
    <3>1. \A r \in Kids(j) \ {p} : r \in Proc /\ st'[r] = st[r]
      BY <1>6, <1>13, <2>1, <2>4
    <3>2. unstarted'[j] = unstarted[j] /\ p \notin unstarted[j] /\ unstarted[j] \subseteq Kids(j)
          /\ \A r \in unstarted[j] : st[r] = "unborn"
      BY <1>2, <1>3, <1>4, <1>5 DEF JoinOf
    <3>3. Live(j)' = Live(j) \ {p}
      <4>1. CASE j = p
        <5>1. \A r \in Kids(j) : r # p
          BY <2>1, <2>4, <4>1
        <5> QED BY <3>1, <3>2, <5>1 DEF Live
      <4>2. CASE j # p
        BY <1>13, <3>1, <3>2, <4>2 DEF Live
      <4> QED BY <4>1, <4>2
    <3>4. /\ unstarted'[j] \subseteq Kids(j) /\ \A r \in unstarted'[j] : st'[r] = "unborn"
      BY <3>1, <3>2
    <3>5. CASE last
      <4>1. join'[j] = 0 /\ st'[j] # "joining"
        BY <1>2, <1>13, <1>14, <3>5
      <4>2. Live(j) \ {p} = {}
        BY <1>11, <1>12, <3>5
      <4> QED BY <2>4, <3>3, <3>4, <4>1, <4>2 DEF JoinOf
    <3>6. CASE ~last /\ j = p
      <4>1. p \notin Live(p)
        BY <2>1, <2>4, <3>6 DEF Live
      <4>2. join'[j] = Cardinality(Live(j)) /\ st'[j] = "joining" /\ join'[j] # 0
        BY <1>2, <1>3, <1>6, <1>7, <1>8, <1>13, <1>14, <3>6
      <4>3. Live(j)' = Live(j)
        BY <3>3, <3>6, <4>1
      <4>4. JoinOf(j)'
        BY <1>7, <3>4, <4>2, <4>3 DEF JoinOf
      <4> QED BY <2>4, <4>4
    <3>7. CASE ~last /\ j # p
      <4>1. join'[j] = Cardinality(Live(j) \ {p}) + (IF st'[j] = "joining" THEN 0 ELSE 1) /\ join'[j] # 0
        BY <1>2, <1>6, <1>7, <1>8, <1>9, <1>13, <1>14, <3>7
      <4>2. JoinOf(j)'
        BY <3>3, <3>4, <4>1 DEF JoinOf
      <4> QED BY <2>4, <4>2
    <3> QED BY <3>5, <3>6, <3>7
  <2> QED BY <2>2, <2>3, <2>4
<1>23. Joins'
  BY <1>22, JoinsOfNext
<1>24. Typed'
  <2>1. join' \in [Proc -> Nat]
    <3>1. join[j] - 1 \in Nat /\ join \in [Proc -> Nat]
      BY <1>2, <1>6 DEF PlaceInv, Typed
    <3> QED BY <1>2, <3>1
  <2>2. st' \in [Proc -> State]
    BY <1>2 DEF PlaceInv, Typed, State
  <2> QED BY <1>2, <2>1, <2>2 DEF PlaceInv, Typed, altVars
<1> QED BY <1>17, <1>19, <1>20, <1>21, <1>23, <1>24 DEF PlaceInv, Alts

-----------------------------------------------------------------------------
(* Messages                                                                *)

\* A process that is ready, and not between the enabling and the disabling of
\* its guards, is in the word of no internal channel.
LEMMA NoWord ==
  ASSUME PlaceInv, NEW p \in Proc, st[p] = "ready", alt[p] \notin {"enabling", "disabling"}
  PROVE  \A d \in Chan : chan[d] # p
BY Priorities DEF PlaceInv, ChanWords, WordOf

\* The process p waits, but not for a time.
LEMMA WaitPlaces ==
  ASSUME PlaceInv, NEW p \in Proc, pc = "exec", cpu.wptr = p,
         NEW x, x \notin {"ready", "timer"}, x = "alt" => p \notin Timed,
         st' = [st EXCEPT ![p] = x], cpu' = Deschedule(On), pc' = "tickHi", ret' = ret
  PROVE  Places'
<1>1. /\ Placed(On, ReadyOnes, Sleepers) /\ Now(On) = p /\ On.int = TRUE
      /\ p \notin Sleepers /\ p # NoProc
  BY OnPlaced, Running, Priorities
<1>2. Placed(cpu', ReadyOnes \ {p}, Sleepers)
  BY <1>1, DeschedulePlaced
<1>3. ReadyOnes' = ReadyOnes \ {p} /\ Sleepers' = Sleepers
  <2>1. ReadyOnes' = ReadyOnes \ {p} /\ Sleepers' = Sleepers \ {p}
    BY SetsChange DEF PlaceInv
  <2> QED BY <1>1, <2>1
<1> QED BY <1>2, <1>3, IterationEnds

\* The process w, which waited in a channel, is scheduled.
LEMMA MeetPlaces ==
  ASSUME PlaceInv, NEW p \in Proc, pc = "exec", cpu.wptr = p,
         NEW w \in Proc, st[w] = "comm", st' = [st EXCEPT ![w] = "ready"],
         cpu' = Schedule(On, w, slot[w]), pc' = "tickHi", ret' = ret
  PROVE  Places'
<1>1. /\ Placed(On, ReadyOnes, Sleepers) /\ On.wptr = p /\ On.snp = FALSE /\ p \notin Sleepers
  BY OnPlaced, Running
<1>2. w \notin ReadyOnes /\ w \notin Sleepers
  BY DEF ReadyOnes, Sleepers, Sleeps
<1>3. Placed(cpu', ReadyOnes \cup {w}, Sleepers)
  BY <1>1, <1>2, SchedulePlaced
<1>4. ReadyOnes' = ReadyOnes \cup {w} /\ Sleepers' = Sleepers
  <2>1. ReadyOnes' = ReadyOnes \cup {w} /\ Sleepers' = Sleepers \ {w}
    BY SetsChange DEF PlaceInv
  <2> QED BY <1>2, <2>1
<1> QED BY <1>3, <1>4, IterationEnds

\* The process p waits in the word of channel c; whoever was there is doing an
\* ALT.
LEMMA AwaitsWords ==
  ASSUME PlaceInv, NEW p \in Proc, NEW c \in Chan, p \in {Reader[c], Writer[c]},
         \A d \in Chan : chan[d] # p,
         chan[c] # NoProc => st[chan[c]] # "comm",
         chan' = [chan EXCEPT ![c] = p], st'[p] = "comm",
         \A q \in Proc \ {p} : /\ st'[q] = "comm" <=> st[q] = "comm"
                               /\ alt'[q] = alt[q] /\ guards'[q] = guards[q]
  PROVE  ChanWords'
<1>0. Reader \in [Chan -> Proc] /\ Writer \in [Chan -> Proc] /\ Reader[c] # Writer[c] /\ NoProc \notin Proc
  BY ChannelAssumption, ProcAssumption
<1>1. chan'[c] = p /\ \A d \in Chan \ {c} : chan'[d] = chan[d]
  BY DEF PlaceInv, Typed
<1>2. \A d \in Chan : WordOf(d)
  BY DEF PlaceInv, ChanWords
<1>3. ASSUME NEW d \in Chan PROVE WordOf(d)'
  <2>1. CASE d = c
    BY <1>0, <1>1, <2>1 DEF WordOf
  <2>2. CASE d # c
    <3>1. chan'[d] = chan[d] /\ chan[d] # p /\ Reader[d] \in Proc /\ Writer[d] \in Proc
      BY <1>0, <1>1, <2>2
    <3> QED BY <1>2, <3>1 DEF WordOf
  <2> QED BY <2>1, <2>2
<1>4. ASSUME NEW q \in Proc, st'[q] = "comm"
      PROVE  \E m \in Chan : chan'[m] = q /\ \A d \in Chan : chan'[d] = q => d = m
  <2>1. CASE q = p
    BY <1>1, <2>1
  <2>2. CASE q # p
    <3>1. st[q] = "comm"
      BY <1>4, <2>2
    <3>2. PICK m \in Chan : chan[m] = q /\ \A d \in Chan : chan[d] = q => d = m
      BY <3>1 DEF PlaceInv, ChanWords, CommOf
    <3>3. m # c
      BY <1>0, <3>1, <3>2
    <3> QED BY <1>1, <2>2, <3>2, <3>3
  <2> QED BY <2>1, <2>2
<1> QED BY <1>3, <1>4 DEF ChanWords, CommOf

\* The process w leaves the word of channel c.
LEMMA MeetsWords ==
  ASSUME PlaceInv, NEW p \in Proc, \A d \in Chan : chan[d] # p,
         NEW c \in Chan, NEW w \in Proc, chan[c] = w, st[w] = "comm",
         chan' = [chan EXCEPT ![c] = NoProc], st' = [st EXCEPT ![w] = "ready"],
         \A q \in Proc \ {p} : alt'[q] = alt[q] /\ guards'[q] = guards[q]
  PROVE  ChanWords'
<1>0. Reader \in [Chan -> Proc] /\ Writer \in [Chan -> Proc] /\ NoProc \notin Proc
  BY ChannelAssumption, ProcAssumption
<1>1. chan'[c] = NoProc /\ \A d \in Chan \ {c} : chan'[d] = chan[d]
  BY DEF PlaceInv, Typed
<1>2. /\ \A d \in Chan : WordOf(d)
      /\ \A d \in Chan : chan[d] = w => d = c
  BY DEF PlaceInv, ChanWords, CommOf
<1>3. st'[w] = "ready" /\ \A q \in Proc \ {w} : st'[q] = st[q]
  BY DEF PlaceInv, Typed
<1>4. ASSUME NEW d \in Chan PROVE WordOf(d)'
  <2>1. CASE d = c
    BY <1>0, <1>1, <2>1 DEF WordOf
  <2>2. CASE d # c
    <3>1. /\ chan'[d] = chan[d] /\ chan[d] # p /\ chan[d] # w
          /\ Reader[d] \in Proc /\ Writer[d] \in Proc
      BY <1>0, <1>1, <1>2, <2>2
    <3> QED BY <1>2, <1>3, <3>1 DEF WordOf
  <2> QED BY <2>1, <2>2
<1>5. ASSUME NEW q \in Proc, st'[q] = "comm"
      PROVE  \E m \in Chan : chan'[m] = q /\ \A d \in Chan : chan'[d] = q => d = m
  <2>1. q # w /\ st[q] = "comm"
    BY <1>3, <1>5
  <2>2. PICK m \in Chan : chan[m] = q /\ \A d \in Chan : chan[d] = q => d = m
    BY <2>1 DEF PlaceInv, ChanWords, CommOf
  <2>3. m # c
    BY <2>1, <2>2
  <2> QED BY <1>0, <1>1, <2>2, <2>3
<1> QED BY <1>4, <1>5 DEF ChanWords, CommOf

\* One process waits or is scheduled that is no branch starting or ending, and
\* no user of a link.
LEMMA StatesRest ==
  ASSUME PlaceInv, UNCHANGED parVars, \A l \in Link : chan'[l] = chan[l],
         \A q \in Proc : st'[q] = st[q] \/ {st[q], st'[q]} \subseteq {"ready", "comm", "alt", "timer"}
  PROVE  LinkWords' /\ Joins'
<1>1. \A q \in Proc : /\ st'[q] = "unborn" <=> st[q] = "unborn"
                      /\ st'[q] = "joining" <=> st[q] = "joining"
                      /\ st'[q] = "link" <=> st[q] = "link"
  OBVIOUS
<1> QED BY <1>1, LinkWordsSame, JoinsSame DEF PlaceInv

\* in on an internal channel.
LEMMA InKeeps == ASSUME PlaceInv, NEW p \in Proc, NEW c \in Chan, In(p, c) PROVE PlaceInv'
<1>1. /\ pc = "exec" /\ cpu.wptr = p /\ Reader[c] = p /\ alt[p] \notin {"enabling", "disabling"}
      /\ alt' = [alt EXCEPT ![p] = "none"] /\ pc' = "tickHi" /\ ret' = ret
      /\ UNCHANGED <<guards, open, chosen, parVars>>
  BY DEF In, Executes
<1>2. st[p] = "ready" /\ p # NoProc /\ p # Writer[c]
  BY <1>1, Running, Priorities, ChannelAssumption
<1>3. \A d \in Chan : chan[d] # p
  BY <1>1, <1>2, NoWord
<1>4. alt'[p] = "none" /\ \A q \in Proc \ {p} : alt'[q] = alt[q]
  BY <1>1 DEF PlaceInv, Typed
<1>5. EnablingRuns'
  BY <1>1, <1>4, Running DEF EnablingRuns
<1>6. Typed'
  BY <1>1 DEF PlaceInv, Typed, In, Awaits, Meets, parVars, Slot, State
<1>7. c \notin Link
  BY ChannelAssumption
<1>8. CASE /\ chan[c] = NoProc /\ chan' = [chan EXCEPT ![c] = p] /\ cpu' = Deschedule(On)
           /\ slot' = [slot EXCEPT ![p] = "other"] /\ st' = [st EXCEPT ![p] = "comm"]
  <2>1. Places'
    BY <1>1, <1>8, WaitPlaces
  <2>2. /\ st'[p] = "comm" /\ \A q \in Proc \ {p} : st'[q] = st[q]
        /\ slot'[p] = "other" /\ \A q \in Proc \ {p} : slot'[q] = slot[q]
        /\ \A d \in (Chan \cup Link) \ {c} : chan'[d] = chan[d]
    BY <1>8 DEF PlaceInv, Typed
  <2>3. ChanWords'
    BY <1>1, <1>3, <1>4, <1>8, <2>2, AwaitsWords
  <2>4. LinkWords' /\ Joins'
    BY <1>1, <1>2, <1>7, <2>2, StatesRest
  <2>5. AltOf(p)'
    BY <1>4, <2>2, AltNone
  <2>6. ASSUME NEW q \in Proc \ {p} PROVE AltOf(q)'
    <3>1. AltOf(q) /\ KeptAlt(q) /\ st'[q] = st[q]
      BY <1>1, <1>4, <2>2 DEF PlaceInv, Alts, KeptAlt
    <3>2. \A d \in Chan : Reader[d] = q => chan'[d] = chan[d]
      BY <1>1, <2>2
    <3> QED BY <3>1, <3>2, AltSame
  <2> QED BY <1>5, <1>6, <2>1, <2>3, <2>4, <2>5, <2>6 DEF PlaceInv, Alts
<1>9. CASE chan[c] # NoProc /\ Meets(c) /\ UNCHANGED slot
  <2>1. PICK w : w = chan[c]
    OBVIOUS
  <2>2. w \in Proc /\ w = Writer[c] /\ st[w] = "comm" /\ w # p
    BY <1>1, <1>2, <1>3, <1>9, <2>1, ChannelAssumption DEF PlaceInv, ChanWords, WordOf
  <2>3. /\ chan' = [chan EXCEPT ![c] = NoProc] /\ cpu' = Schedule(On, w, slot[w])
        /\ st' = [st EXCEPT ![w] = "ready"]
    BY <1>9, <2>1 DEF Meets
  <2>4. Places'
    BY <1>1, <2>2, <2>3, MeetPlaces
  <2>5. /\ st'[w] = "ready" /\ \A q \in Proc \ {w} : st'[q] = st[q]
        /\ \A d \in (Chan \cup Link) \ {c} : chan'[d] = chan[d]
    BY <2>2, <2>3 DEF PlaceInv, Typed
  <2>6. ChanWords'
    BY <1>1, <1>3, <1>4, <2>1, <2>2, <2>3, MeetsWords
  <2>7. LinkWords' /\ Joins'
    BY <1>1, <1>7, <2>2, <2>5, StatesRest
  <2>8. slot'[p] # "other" => p \in Alter
    BY <1>9 DEF PlaceInv, Alts, AltOf, Apart
  <2>9. AltOf(p)'
    BY <1>2, <1>4, <2>2, <2>5, <2>8, AltNone
  <2>10. AltOf(w)'
    <3>1. alt[w] = "none" /\ slot[w] = "other"
      BY <2>2 DEF PlaceInv, Alts, AltOf, Apart
    <3> QED BY <1>4, <1>9, <2>2, <2>5, <3>1, AltNone
  <2>11. ASSUME NEW q \in Proc \ {p, w} PROVE AltOf(q)'
    <3>1. AltOf(q) /\ KeptAlt(q) /\ st'[q] = st[q]
      BY <1>1, <1>4, <1>9, <2>5 DEF PlaceInv, Alts, KeptAlt
    <3>2. \A d \in Chan : Reader[d] = q => chan'[d] = chan[d]
      BY <1>1, <2>5
    <3> QED BY <3>1, <3>2, AltSame
  <2> QED BY <1>5, <1>6, <2>4, <2>6, <2>7, <2>9, <2>10, <2>11 DEF PlaceInv, Alts
<1> QED BY <1>8, <1>9 DEF In, Awaits

\* The writer of a channel waits in its word: its reader, if it is doing an
\* ALT and goes on, has a guard that is ready.
LEMMA ReaderGoesOn ==
  ASSUME NEW c \in Chan, NEW r \in Proc, r = Reader[c], AltOf(r), alt[r] # "enabling",
         KeptAlt(r), st'[r] = st[r], st[r] # "alt",
         \A d \in Chan : Reader[d] = r /\ d # c => chan'[d] = chan[d],
         chan'[c] = Writer[c]
  PROVE  AltOf(r)'
<1>1. Apart(r)'
  BY DEF AltOf, Apart, KeptAlt
<1>2. \A e \in Guards(r) : Opened(r, e) => Opened(r, e)'
  <2>1. \A e \in Guards(r) : e \in Chan => Reader[e] = r
    BY ChannelAssumption DEF Guards
  <2> QED BY <2>1 DEF Opened, KeptAlt
<1>3. alt[r] = "disabling" => DisablingOf(r)'
  BY <1>2 DEF AltOf, DisablingOf, KeptAlt
<1>4. alt[r] \in {"disabling", "chosen"} /\ chosen[r] \in Chan => TakenOf(r)'
  BY DEF AltOf, TakenOf, KeptAlt
<1> QED BY <1>1, <1>3, <1>4 DEF AltOf, KeptAlt

\* out on an internal channel.
LEMMA OutKeeps == ASSUME Restricted, PlaceInv, NEW p \in Proc, NEW c \in Chan, Out(p, c) PROVE PlaceInv'
<1>1. /\ pc = "exec" /\ cpu.wptr = p /\ Writer[c] = p /\ alt[p] = "none"
      /\ pc' = "tickHi" /\ ret' = ret /\ UNCHANGED <<altVars, parVars>>
  BY DEF Out, Executes
<1>2. PICK r : r = Reader[c]
  OBVIOUS
<1>3. st[p] = "ready" /\ p # NoProc /\ p # r /\ r \in Proc /\ r # NoProc
  BY <1>1, <1>2, Running, Priorities, ChannelAssumption
<1>4. \A d \in Chan : chan[d] # p
  BY <1>1, <1>3, NoWord
<1>5. chan[c] \in {NoProc, r}
  BY <1>1, <1>2, <1>4 DEF PlaceInv, ChanWords, WordOf
<1>6. alt[r] # "enabling" /\ AltOf(r)
  BY <1>1, <1>3, Running DEF PlaceInv, Alts
<1>7. chan[c] = r => st[r] = "comm" \/ (alt[r] = "disabling" /\ c \in guards[r])
  BY <1>2, <1>3, <1>6 DEF PlaceInv, ChanWords, WordOf
<1>8. EnablingRuns'
  BY <1>1, NoneEnabling DEF altVars
<1>9. Typed'
  <2>1. chan' \in [Chan \cup Link -> Proc \cup {NoProc}]
    BY DEF PlaceInv, Typed, Out, Awaits, Meets
  <2>2. st' \in [Proc -> State]
    BY DEF PlaceInv, Typed, Out, Meets, State
  <2>3. slot' \in [Proc -> Slot]
    BY DEF PlaceInv, Typed, Out, Slot
  <2> QED BY <1>1, <2>1, <2>2, <2>3 DEF PlaceInv, Typed, altVars, parVars
<1>10. c \notin Link
  BY ChannelAssumption
\* The writer waits, and no other process is disturbed.
<1>11. ASSUME chan[c] # NoProc => st[r] # "comm", st[r] # "alt",
              chan' = [chan EXCEPT ![c] = p], cpu' = Deschedule(On),
              slot' = [slot EXCEPT ![p] = "other"], st' = [st EXCEPT ![p] = "comm"]
       PROVE  PlaceInv'
  <2>1. Places'
    BY <1>1, <1>11, WaitPlaces
  <2>2. /\ st'[p] = "comm" /\ \A q \in Proc \ {p} : st'[q] = st[q]
        /\ slot'[p] = "other" /\ \A q \in Proc \ {p} : slot'[q] = slot[q]
        /\ chan'[c] = p /\ \A d \in (Chan \cup Link) \ {c} : chan'[d] = chan[d]
    BY <1>11 DEF PlaceInv, Typed
  <2>3. ChanWords'
    BY <1>1, <1>4, <1>5, <1>11, <2>2, AwaitsWords DEF altVars
  <2>4. LinkWords' /\ Joins'
    BY <1>1, <1>3, <1>10, <2>2, StatesRest
  <2>5. AltOf(p)'
    BY <1>1, <2>2, AltNone DEF altVars
  <2>6. AltOf(r)'
    <3>1. KeptAlt(r) /\ st'[r] = st[r]
      BY <1>1, <1>3, <2>2 DEF KeptAlt, altVars
    <3> QED BY <1>1, <1>2, <1>3, <1>6, <1>11, <2>2, <3>1, ReaderGoesOn
  <2>7. ASSUME NEW q \in Proc \ {p, r} PROVE AltOf(q)'
    <3>1. AltOf(q) /\ KeptAlt(q) /\ st'[q] = st[q]
      BY <1>1, <2>2 DEF PlaceInv, Alts, KeptAlt, altVars
    <3>2. \A d \in Chan : Reader[d] = q => chan'[d] = chan[d]
      BY <1>2, <2>2
    <3> QED BY <3>1, <3>2, AltSame
  <2> QED BY <1>8, <1>9, <2>1, <2>3, <2>4, <2>5, <2>6, <2>7 DEF PlaceInv, Alts
<1>12. CASE /\ chan[c] = NoProc /\ Awaits(p, c)
            /\ slot' = [slot EXCEPT ![p] = "other"] /\ st' = [st EXCEPT ![p] = "comm"]
  <2>1. st[r] # "alt"
    BY <1>2, <1>3, <1>6, <1>12 DEF AltOf, WaitingOf
  <2> QED BY <1>11, <1>12, <2>1 DEF Awaits
<1>13. CASE /\ chan[c] # NoProc /\ InAlt(c) /\ slot[chan[c]] = "Ready" /\ Awaits(p, c)
            /\ slot' = [slot EXCEPT ![p] = "other"] /\ st' = [st EXCEPT ![p] = "comm"]
  <2>1. chan[c] = r /\ slot[r] = "Ready"
    BY <1>5, <1>13
  <2>2. st[r] # "comm" /\ st[r] # "alt"
    BY <1>6, <2>1 DEF AltOf, Apart, WaitingOf
  <2> QED BY <1>11, <1>13, <2>2 DEF Awaits
<1>14. CASE /\ chan[c] # NoProc /\ InAlt(c) /\ slot[chan[c]] # "Ready"
            /\ chan' = [chan EXCEPT ![c] = p]
            /\ slot' = [slot EXCEPT ![p] = "other", ![chan[c]] = "Ready"]
            /\ cpu' = Schedule(Deschedule(On), chan[c], "Ready")
            /\ st' = [st EXCEPT ![p] = "comm", ![chan[c]] = "ready"]
  <2>1. chan[c] = r /\ slot[r] \notin {"Ready", "other"}
    BY <1>5, <1>14 DEF InAlt
  <2>2. st[r] # "comm" /\ alt[r] = "disabling" /\ c \in guards[r] /\ r \in Alter
    BY <1>6, <1>7, <2>1 DEF AltOf, Apart
  <2>3. r \notin Timed /\ r \notin HiProc
    BY <1>2, <2>2 DEF Restricted
  <2>4. st[r] = "alt" /\ WaitingOf(r)
    BY <1>6, <2>1, <2>2, <2>3 DEF AltOf, Apart, DisablingOf
  <2>5. /\ st'[p] = "comm" /\ st'[r] = "ready" /\ \A q \in Proc \ {p, r} : st'[q] = st[q]
        /\ slot'[p] = "other" /\ slot'[r] = "Ready" /\ \A q \in Proc \ {p, r} : slot'[q] = slot[q]
        /\ chan'[c] = p /\ \A d \in (Chan \cup Link) \ {c} : chan'[d] = chan[d]
    BY <1>3, <1>14, <2>1 DEF PlaceInv, Typed
  <2>6. Places'
    <3>1. /\ Placed(On, ReadyOnes, Sleepers) /\ Now(On) = p /\ On.int = TRUE /\ On.wptr = p
          /\ p \notin Sleepers /\ p \in ReadyOnes
      BY <1>1, OnPlaced, Running
    <3>2. PICK s : s = Deschedule(On)
      OBVIOUS
    <3>3. Placed(s, ReadyOnes \ {p}, Sleepers) /\ s.wptr = p
      <4>1. On \in Regs
        BY <3>1 DEF Placed
      <4>2. s.wptr = On.wptr
        BY <3>2, <4>1 DEF Deschedule, Regs
      <4> QED BY <1>3, <3>1, <3>2, <4>2, DeschedulePlaced
    <3>4. r \notin ReadyOnes \ {p}
      BY <2>4 DEF ReadyOnes
    <3>5. cpu' = Schedule(s, r, "Ready")
      BY <1>14, <2>1, <3>2
    <3>6. Placed(cpu', (ReadyOnes \ {p}) \cup {r}, Sleepers)
      BY <1>3, <2>3, <3>1, <3>3, <3>4, <3>5, SchedulePlaced
    <3>7. ReadyOnes' = (ReadyOnes \ {p}) \cup {r}
      BY <1>3, <2>4, <2>5 DEF ReadyOnes
    <3>8. Sleepers' = Sleepers
      <4>1. \A q \in Proc : Sleeps(q)' = Sleeps(q)
        BY <1>3, <2>3, <2>4, <2>5 DEF Sleeps
      <4> QED BY <4>1 DEF Sleepers
    <3> QED BY <1>1, <3>6, <3>7, <3>8, IterationEnds
  <2>7. ChanWords'
    <3>1. \A q \in Proc \ {p} : st'[q] = "comm" <=> st[q] = "comm"
      BY <2>4, <2>5
    <3>2. \A q \in Proc \ {p} : alt'[q] = alt[q] /\ guards'[q] = guards[q]
      BY <1>1 DEF altVars
    <3> QED BY <1>1, <1>4, <1>14, <2>1, <2>2, <2>5, <3>1, <3>2, AwaitsWords
  <2>8. LinkWords' /\ Joins'
    BY <1>1, <1>3, <1>10, <2>4, <2>5, StatesRest
  <2>9. AltOf(p)'
    BY <1>1, <2>5, AltNone DEF altVars
  <2>10. AltOf(r)'
    <3>1. /\ alt'[r] = "disabling" /\ guards'[r] = Guards(r) /\ chosen'[r] = NoProc /\ NoProc \notin Chan
      BY <1>1, <2>4, ChannelAssumption DEF WaitingOf, altVars
    <3>2. Opened(r, c)' /\ c \in guards'[r]
      BY <1>1, <2>2, <2>5 DEF Opened, altVars
    <3>3. DisablingOf(r)'
      BY <2>5, <3>1, <3>2 DEF DisablingOf
    <3>4. Apart(r)'
      BY <2>2, <2>5 DEF Apart
    <3> QED BY <2>5, <3>1, <3>3, <3>4 DEF AltOf
  <2>11. ASSUME NEW q \in Proc \ {p, r} PROVE AltOf(q)'
    <3>1. AltOf(q) /\ KeptAlt(q) /\ st'[q] = st[q]
      BY <1>1, <2>5 DEF PlaceInv, Alts, KeptAlt, altVars
    <3>2. \A d \in Chan : Reader[d] = q => chan'[d] = chan[d]
      BY <1>2, <2>5
    <3> QED BY <3>1, <3>2, AltSame
  <2> QED BY <1>8, <1>9, <2>6, <2>7, <2>8, <2>9, <2>10, <2>11 DEF PlaceInv, Alts
<1>15. CASE chan[c] # NoProc /\ ~InAlt(c) /\ Meets(c) /\ UNCHANGED slot
  <2>1. chan[c] = r /\ slot[r] = "other"
    BY <1>5, <1>15 DEF InAlt
  <2>2. st[r] = "comm"
    BY <1>6, <1>7, <2>1 DEF AltOf, DisablingOf
  <2>3. /\ chan' = [chan EXCEPT ![c] = NoProc] /\ cpu' = Schedule(On, r, slot[r])
        /\ st' = [st EXCEPT ![r] = "ready"]
    BY <1>15, <2>1 DEF Meets
  <2>4. Places'
    BY <1>1, <1>3, <2>2, <2>3, MeetPlaces
  <2>5. /\ st'[r] = "ready" /\ \A q \in Proc \ {r} : st'[q] = st[q]
        /\ \A d \in (Chan \cup Link) \ {c} : chan'[d] = chan[d]
    BY <1>3, <2>3 DEF PlaceInv, Typed
  <2>6. ChanWords'
    BY <1>1, <1>3, <1>4, <2>1, <2>2, <2>3, MeetsWords DEF altVars
  <2>7. LinkWords' /\ Joins'
    BY <1>1, <1>10, <2>2, <2>5, StatesRest
  <2>8. AltOf(r)'
    <3>1. alt[r] = "none"
      BY <1>6, <2>2 DEF AltOf, Apart
    <3> QED BY <1>1, <1>3, <1>15, <2>1, <2>5, <3>1, AltNone DEF altVars
  <2>9. ASSUME NEW q \in Proc \ {r} PROVE AltOf(q)'
    <3>1. AltOf(q) /\ KeptAlt(q) /\ st'[q] = st[q]
      BY <1>1, <1>15, <2>5 DEF PlaceInv, Alts, KeptAlt, altVars
    <3>2. \A d \in Chan : Reader[d] = q => chan'[d] = chan[d]
      BY <1>2, <2>5
    <3> QED BY <3>1, <3>2, AltSame
  <2> QED BY <1>8, <1>9, <2>4, <2>6, <2>7, <2>8, <2>9 DEF PlaceInv, Alts
<1> QED BY <1>12, <1>13, <1>14, <1>15 DEF Out

-----------------------------------------------------------------------------
(* ALT                                                                     *)

\* A step of p's ALT changes only the words of the channels p reads, and only
\* puts p there or takes it away.
LEMMA AltRest ==
  ASSUME PlaceInv, NEW p \in Proc, pc = "exec", cpu.wptr = p, UNCHANGED parVars,
         st'[p] \in {"ready", "alt"}, \A q \in Proc \ {p} : KeptAlt(q) /\ st'[q] = st[q],
         \A l \in Link : chan'[l] = chan[l],
         \A d \in Chan : Reader[d] # p => chan'[d] = chan[d],
         \A d \in Chan : chan'[d] # chan[d] => {chan[d], chan'[d]} \subseteq {NoProc, p},
         \A d \in Chan : Reader[d] = p /\ chan'[d] = p =>
           \/ alt'[p] = "enabling" /\ d \notin guards'[p]
           \/ alt'[p] = "disabling" /\ d \in guards'[p]
  PROVE  ChanWords' /\ LinkWords' /\ Joins' /\ \A q \in Proc \ {p} : AltOf(q)'
<1>0. /\ Reader \in [Chan -> Proc] /\ Writer \in [Chan -> Proc] /\ NoProc \notin Proc
      /\ \A d \in Chan : Reader[d] # Writer[d]
  BY ChannelAssumption, ProcAssumption
<1>1. st[p] = "ready"
  BY Running
<1>2. \A d \in Chan : WordOf(d)
  BY DEF PlaceInv, ChanWords
<1>3. \A q \in Proc \ {p} : st'[q] = st[q] /\ alt'[q] = alt[q] /\ guards'[q] = guards[q]
  BY DEF KeptAlt
<1>4. ASSUME NEW d \in Chan PROVE WordOf(d)'
  <2>1. CASE chan'[d] = p
    <3>1. Reader[d] = p
      BY <1>0, <1>1, <1>2, <2>1 DEF WordOf
    <3> QED BY <1>0, <2>1, <3>1 DEF WordOf
  <2>2. CASE chan'[d] = NoProc
    BY <1>0, <2>2 DEF WordOf
  <2>3. CASE chan'[d] \notin {p, NoProc}
    <3>1. chan'[d] = chan[d] /\ Reader[d] \in Proc /\ Writer[d] \in Proc
      BY <1>0, <2>3
    <3> QED BY <1>2, <1>3, <2>3, <3>1 DEF WordOf
  <2> QED BY <2>1, <2>2, <2>3
<1>5. ASSUME NEW q \in Proc, st'[q] = "comm"
      PROVE  \E m \in Chan : chan'[m] = q /\ \A d \in Chan : chan'[d] = q => d = m
  <2>1. q # p /\ st[q] = "comm" /\ q # NoProc
    BY <1>0, <1>3, <1>5
  <2>2. PICK m \in Chan : chan[m] = q /\ \A d \in Chan : chan[d] = q => d = m
    BY <2>1 DEF PlaceInv, ChanWords, CommOf
  <2> QED BY <2>1, <2>2
<1>6. ChanWords'
  BY <1>4, <1>5 DEF ChanWords, CommOf
<1>7. LinkWords' /\ Joins'
  BY <1>1, <1>3, StatesRest
<1>8. ASSUME NEW q \in Proc \ {p} PROVE AltOf(q)'
  <2>1. \A d \in Chan : Reader[d] = q => chan'[d] = chan[d]
    OBVIOUS
  <2> QED BY <2>1, AltSame DEF PlaceInv, Alts
<1> QED BY <1>6, <1>7, <1>8

\* The current process goes on.
LEMMA GoesOnPlaces ==
  ASSUME PlaceInv, NEW p \in Proc, pc = "exec", cpu.wptr = p, cpu' = On, st' = st,
         pc' = "tickHi", ret' = ret, \A q \in Proc \ {p} : alt'[q] = alt[q]
  PROVE  Places' /\ EnablingRuns' /\ Now(cpu') = p
<1>1. Placed(On, ReadyOnes, Sleepers) /\ Now(On) = p
  BY OnPlaced
<1>2. ReadyOnes' = ReadyOnes /\ Sleepers' = Sleepers
  BY DEF ReadyOnes, Sleepers, Sleeps
<1>3. Places'
  BY <1>1, <1>2, IterationEnds
<1>4. EnablingRuns'
  BY <1>1, Running DEF EnablingRuns
<1> QED BY <1>1, <1>3, <1>4

\* alt and talt.
LEMMA AltKeeps == ASSUME PlaceInv, NEW p \in Proc, Alt(p) PROVE PlaceInv'
<1>1. /\ pc = "exec" /\ cpu.wptr = p /\ p \in Alter /\ alt[p] = "none" /\ cpu' = On
      /\ slot' = [slot EXCEPT ![p] = "Enabling"] /\ alt' = [alt EXCEPT ![p] = "enabling"]
      /\ guards' = [guards EXCEPT ![p] = Guards(p)]
      /\ pc' = "tickHi" /\ ret' = ret /\ UNCHANGED <<chan, chosen, parVars, st>>
  BY DEF Alt, Executes
<1>2. PICK g \in SUBSET (Guards(p) \cap {Skip}) : open' = [open EXCEPT ![p] = g]
  BY DEF Alt
<1>3. st[p] = "ready" /\ \A d \in Chan : chan[d] # p
  BY <1>1, Running, NoWord
<1>4. /\ slot'[p] = "Enabling" /\ alt'[p] = "enabling" /\ guards'[p] = Guards(p)
      /\ \A q \in Proc \ {p} : KeptAlt(q)
  BY <1>1, <1>2 DEF PlaceInv, Typed, KeptAlt
<1>5. ChanWords' /\ LinkWords' /\ Joins' /\ \A q \in Proc \ {p} : AltOf(q)'
  BY <1>1, <1>3, <1>4, AltRest
<1>6. Places' /\ EnablingRuns'
  BY <1>1, <1>4, GoesOnPlaces DEF KeptAlt
<1>7. AltOf(p)'
  <2>1. \A c \in Chan : Reader[c] = p => c \in Guards(p)
    BY DEF Guards
  <2> QED BY <1>1, <1>3, <1>4, <2>1 DEF AltOf, Apart, EnablingOf
<1>8. Typed'
  <2>1. Guards(p) \subseteq Chan \cup {Time, Skip} /\ g \subseteq {Time, Skip}
    BY DEF Guards
  <2> QED BY <1>1, <1>2, <2>1 DEF PlaceInv, Typed, parVars, Slot
<1> QED BY <1>5, <1>6, <1>7, <1>8 DEF PlaceInv, Alts

\* What the instructions that enable a guard have in common.
LEMMA EnablesFacts ==
  ASSUME PlaceInv, NEW p \in Proc, NEW g, Enables(p, g)
  PROVE  /\ pc = "exec" /\ cpu.wptr = p /\ cpu' = On /\ alt[p] = "enabling" /\ g \in guards[p]
         /\ g \in Guards(p) /\ p \in Alter
         /\ EnablingOf(p) /\ st[p] = "ready" /\ st' = st
         /\ guards' \in [Proc -> SUBSET (Chan \cup {Time, Skip})]
         /\ guards'[p] = guards[p] \ {g} /\ \A q \in Proc \ {p} : guards'[q] = guards[q]
         /\ pc' = "tickHi" /\ ret' = ret /\ UNCHANGED <<alt, open, chosen, parVars>>
         /\ \A d \in Chan : chan[d] = p /\ Reader[d] = p => d \notin guards[p]
         /\ Places' /\ EnablingRuns'
<1>1. /\ pc = "exec" /\ cpu.wptr = p /\ cpu' = On /\ alt[p] = "enabling" /\ g \in guards[p]
      /\ guards' = [guards EXCEPT ![p] = @ \ {g}]
      /\ pc' = "tickHi" /\ ret' = ret /\ UNCHANGED <<alt, open, chosen, parVars, st>>
  BY DEF Enables, Executes
<1>2. /\ guards' \in [Proc -> SUBSET (Chan \cup {Time, Skip})]
      /\ guards'[p] = guards[p] \ {g} /\ \A q \in Proc \ {p} : guards'[q] = guards[q]
  BY <1>1 DEF PlaceInv, Typed
<1>3. st[p] = "ready" /\ AltOf(p)
  BY <1>1, Running DEF PlaceInv, Alts
<1>4. EnablingOf(p) /\ p \in Alter /\ g \in Guards(p)
  BY <1>1, <1>3 DEF AltOf, Apart, EnablingOf
<1>5. \A d \in Chan : chan[d] = p /\ Reader[d] = p => d \notin guards[p]
  BY <1>1, <1>3 DEF PlaceInv, ChanWords, WordOf
<1>6. Places' /\ EnablingRuns'
  BY <1>1, GoesOnPlaces
<1> QED BY <1>1, <1>2, <1>3, <1>4, <1>5, <1>6

\* A process that enables guard g.
LEMMA EnabledAlt ==
  ASSUME PlaceInv, NEW p \in Proc, NEW g, Enables(p, g),
         slot'[p] \in {slot[p], "Ready"}, \A q \in Proc \ {p} : slot'[q] = slot[q],
         slot'[p] = "Ready" => \E e \in Guards(p) : Opened(p, e)',
         \A d \in Chan : Reader[d] = p /\ d # g => chan'[d] = chan[d],
         slot'[p] = "Enabling" => (g \in Chan => chan'[g] = p)
  PROVE  AltOf(p)' /\ \A q \in Proc \ {p} : KeptAlt(q)
<1>1. /\ alt[p] = "enabling" /\ p \in Alter /\ EnablingOf(p) /\ st'[p] = "ready"
      /\ guards'[p] = guards[p] \ {g} /\ \A q \in Proc \ {p} : guards'[q] = guards[q]
      /\ UNCHANGED <<alt, open, chosen, parVars>>
  BY EnablesFacts
<1>2. EnablingOf(p)'
  <2>1. slot'[p] \in {"Enabling", "Ready"} /\ guards'[p] \subseteq Guards(p)
    BY <1>1 DEF EnablingOf
  <2>2. ASSUME slot'[p] = "Enabling", NEW c \in Chan, Reader[c] = p, c \notin guards'[p]
        PROVE  chan'[c] = p
    <3>1. CASE c = g
      BY <2>2, <3>1
    <3>2. CASE c # g
      BY <1>1, <2>2, <3>2 DEF EnablingOf
    <3> QED BY <3>1, <3>2
  <2> QED BY <1>1, <2>1, <2>2 DEF EnablingOf
<1>3. AltOf(p)'
  BY <1>1, <1>2 DEF AltOf, Apart
<1> QED BY <1>1, <1>3 DEF KeptAlt

\* A guard that is no channel is enabled.
LEMMA EnbtStep ==
  ASSUME PlaceInv, NEW p \in Proc, NEW g, g \notin Chan, Enables(p, g), chan' = chan,
         slot' = slot \/ (g \in open[p] /\ slot' = [slot EXCEPT ![p] = "Ready"])
  PROVE  PlaceInv'
<1>3. /\ pc = "exec" /\ cpu.wptr = p /\ alt[p] = "enabling" /\ EnablingOf(p) /\ st[p] = "ready" /\ st' = st
      /\ g \in Guards(p)
      /\ guards' \in [Proc -> SUBSET (Chan \cup {Time, Skip})] /\ guards'[p] = guards[p] \ {g}
      /\ UNCHANGED <<alt, open, chosen, parVars>>
      /\ \A d \in Chan : chan[d] = p /\ Reader[d] = p => d \notin guards[p]
      /\ Places' /\ EnablingRuns'
  BY EnablesFacts
<1>4. slot'[p] \in {slot[p], "Ready"} /\ \A q \in Proc \ {p} : slot'[q] = slot[q]
  BY DEF PlaceInv, Typed
<1>5. slot'[p] = "Ready" => \E e \in Guards(p) : Opened(p, e)'
  <2>1. CASE slot' = slot
    BY <1>3, <2>1 DEF EnablingOf, Opened
  <2>2. CASE g \in open[p]
    BY <1>3, <2>2 DEF Opened
  <2> QED BY <2>1, <2>2
<1>6. AltOf(p)' /\ \A q \in Proc \ {p} : KeptAlt(q)
  BY <1>4, <1>5, EnabledAlt
<1>7. ChanWords' /\ LinkWords' /\ Joins' /\ \A q \in Proc \ {p} : AltOf(q)'
  BY <1>3, <1>6, AltRest
<1>8. Typed'
  BY <1>3 DEF PlaceInv, Typed, parVars, Slot
<1> QED BY <1>3, <1>6, <1>7, <1>8 DEF PlaceInv, Alts

\* enbt and enbs.
LEMMA EnbtKeeps == ASSUME PlaceInv, NEW p \in Proc, Enbt(p) \/ Enbs(p) PROVE PlaceInv'
<1>1. Time \notin Chan /\ Skip \notin Chan
  BY ChannelAssumption
<1>2. CASE Enbt(p)
  BY <1>1, <1>2, EnbtStep DEF Enbt
<1>3. CASE Enbs(p)
  BY <1>1, <1>3, EnbtStep DEF Enbs
<1> QED BY <1>2, <1>3

\* enbc.
LEMMA EnbcKeeps == ASSUME PlaceInv, NEW p \in Proc, NEW c \in Chan, Enbc(p, c) PROVE PlaceInv'
<1>1. /\ Enables(p, c)
      /\ chan' = IF chan[c] = NoProc THEN [chan EXCEPT ![c] = p] ELSE chan
      /\ slot' = IF chan[c] \in {NoProc, p} THEN slot ELSE [slot EXCEPT ![p] = "Ready"]
  BY DEF Enbc
<1>2. /\ pc = "exec" /\ cpu.wptr = p /\ alt[p] = "enabling" /\ EnablingOf(p) /\ st[p] = "ready" /\ st' = st
      /\ c \in Guards(p)
      /\ guards' \in [Proc -> SUBSET (Chan \cup {Time, Skip})] /\ guards'[p] = guards[p] \ {c}
      /\ UNCHANGED <<alt, open, chosen, parVars>>
      /\ \A d \in Chan : chan[d] = p /\ Reader[d] = p => d \notin guards[p]
      /\ Places' /\ EnablingRuns'
  BY <1>1, EnablesFacts
<1>3. Reader[c] = p /\ c \notin Link /\ Writer[c] # p /\ NoProc \notin Proc /\ Writer[c] \in Proc
  BY <1>2, ChannelAssumption, ProcAssumption DEF Guards
<1>4. /\ \A d \in (Chan \cup Link) \ {c} : chan'[d] = chan[d]
      /\ chan'[c] = IF chan[c] = NoProc THEN p ELSE chan[c]
  BY <1>1 DEF PlaceInv, Typed
<1>5. slot'[p] \in {slot[p], "Ready"} /\ \A q \in Proc \ {p} : slot'[q] = slot[q]
  BY <1>1 DEF PlaceInv, Typed
<1>6. chan[c] \in {NoProc, p, Writer[c]}
  BY <1>3 DEF PlaceInv, ChanWords, WordOf
<1>7. slot'[p] = "Ready" => \E e \in Guards(p) : Opened(p, e)'
  <2>1. CASE chan[c] \in {NoProc, p}
    <3>1. ASSUME slot'[p] = "Ready" PROVE \E e \in Guards(p) : Opened(p, e)'
      <4>1. PICK e \in Guards(p) : Opened(p, e)
        BY <1>1, <1>2, <2>1, <3>1 DEF EnablingOf
      <4>2. e # c \/ e \in open[p]
        BY <1>3, <2>1, <4>1 DEF Opened
      <4> QED BY <1>2, <1>4, <4>1, <4>2 DEF Opened
    <3> QED BY <3>1
  <2>2. CASE chan[c] \notin {NoProc, p}
    BY <1>2, <1>4, <1>6, <2>2 DEF Opened
  <2> QED BY <2>1, <2>2
<1>8. slot'[p] = "Enabling" => chan'[c] = p
  <2>1. CASE chan[c] \in {NoProc, p}
    BY <1>4, <2>1
  <2>2. CASE chan[c] \notin {NoProc, p}
    BY <1>1, <2>2 DEF PlaceInv, Typed
  <2> QED BY <2>1, <2>2
<1>9. AltOf(p)' /\ \A q \in Proc \ {p} : KeptAlt(q)
  BY <1>1, <1>4, <1>5, <1>7, <1>8, EnabledAlt
<1>10. ChanWords' /\ LinkWords' /\ Joins' /\ \A q \in Proc \ {p} : AltOf(q)'
  <2>1. \A d \in Chan : Reader[d] # p => chan'[d] = chan[d]
    BY <1>3, <1>4
  <2>2. \A d \in Chan : chan'[d] # chan[d] => {chan[d], chan'[d]} \subseteq {NoProc, p}
    BY <1>4
  <2>3. \A d \in Chan : Reader[d] = p /\ chan'[d] = p => alt'[p] = "enabling" /\ d \notin guards'[p]
    BY <1>2, <1>4
  <2>4. \A l \in Link : chan'[l] = chan[l]
    BY <1>3, <1>4
  <2> QED BY <1>2, <1>9, <2>1, <2>2, <2>3, <2>4, AltRest
<1>11. Typed'
  BY <1>1, <1>2 DEF PlaceInv, Typed, parVars, Slot
<1> QED BY <1>2, <1>9, <1>10, <1>11 DEF PlaceInv, Alts

\* A step that takes the process out of the enabling of its guards.
LEMMA EnablingEnds ==
  ASSUME PlaceInv, NEW p \in Proc, pc = "exec", cpu.wptr = p, alt'[p] # "enabling",
         \A q \in Proc \ {p} : alt'[q] = alt[q]
  PROVE  EnablingRuns'
BY Running DEF EnablingRuns

\* altwt and taltwt.
LEMMA AltwtKeeps == ASSUME Restricted, PlaceInv, NEW p \in Proc, Altwt(p) PROVE PlaceInv'
<1>1. /\ pc = "exec" /\ cpu.wptr = p /\ pc' = "tickHi" /\ ret' = ret
      /\ alt[p] = "enabling" /\ guards[p] = {}
      /\ alt' = [alt EXCEPT ![p] = "disabling"]
      /\ guards' = [guards EXCEPT ![p] = Guards(p)]
      /\ chosen' = [chosen EXCEPT ![p] = NoProc]
      /\ chan' = chan /\ open' = open /\ UNCHANGED parVars
  BY DEF Altwt, Executes
<1>2. /\ alt'[p] = "disabling" /\ guards'[p] = Guards(p) /\ chosen'[p] = NoProc
      /\ \A q \in Proc \ {p} : alt'[q] = alt[q] /\ guards'[q] = guards[q] /\ chosen'[q] = chosen[q]
  BY <1>1 DEF PlaceInv, Typed
<1>3. st[p] = "ready" /\ AltOf(p)
  BY <1>1, Running DEF PlaceInv, Alts
<1>4. EnablingOf(p) /\ p \in Alter
  BY <1>1, <1>3 DEF AltOf, Apart
<1>5. NoProc \notin Chan /\ \A c \in Chan : Reader[c] = p => c \in Guards(p)
  BY ChannelAssumption DEF Guards
<1>6. EnablingRuns'
  BY <1>1, <1>2, EnablingEnds
<1>7. CASE slot[p] = "Ready"
  <2>1. cpu' = On /\ slot' = slot /\ st' = st
    BY <1>7 DEF Altwt
  <2>2. Places'
    BY <1>1, <1>2, <2>1, GoesOnPlaces
  <2>3. AltOf(p)'
    <3>1. \E e \in Guards(p) : Opened(p, e)'
      BY <1>1, <1>4, <1>7 DEF EnablingOf, Opened
    <3>2. DisablingOf(p)'
      BY <1>2, <1>7, <2>1, <3>1 DEF DisablingOf
    <3> QED BY <1>2, <1>3, <1>4, <1>5, <1>7, <2>1, <3>2 DEF AltOf, Apart
  <2>4. \A q \in Proc \ {p} : KeptAlt(q) /\ st'[q] = st[q]
    BY <1>1, <1>2, <2>1 DEF KeptAlt
  <2>5. ChanWords' /\ LinkWords' /\ Joins' /\ \A q \in Proc \ {p} : AltOf(q)'
    BY <1>1, <1>2, <1>3, <1>5, <2>1, <2>4, AltRest
  <2>6. Typed'
    <3>1. Guards(p) \subseteq Chan \cup {Time, Skip}
      BY DEF Guards
    <3> QED BY <1>1, <2>1, <3>1 DEF PlaceInv, Typed, parVars
  <2> QED BY <1>6, <2>2, <2>3, <2>5, <2>6 DEF PlaceInv, Alts
<1>8. CASE slot[p] # "Ready"
  <2>1. /\ \E s \in IF p \in Timed THEN Inserted(p) ELSE {On} : cpu' = Deschedule(s)
        /\ slot' = [slot EXCEPT ![p] = "Waiting"] /\ st' = [st EXCEPT ![p] = "alt"]
    BY <1>8 DEF Altwt
  <2>2. Places'
    <3>1. PICK x : x = "alt"
      OBVIOUS
    <3>2. CASE p \in Timed
      <4>1. PICK s \in Inserted(p) : cpu' = Deschedule(s)
        BY <2>1, <3>2
      <4>2. p \in Low
        BY <1>4 DEF Low, Restricted
      <4>3. Placed(cpu', ReadyOnes \ {p}, Sleepers \cup {p})
        BY <1>1, <4>1, <4>2, InsertedPlaced
      <4>4. ReadyOnes' = ReadyOnes \ {p} /\ Sleepers' = Sleepers \cup {p}
        <5>1. Typed /\ st' = [st EXCEPT ![p] = x] /\ x # "ready" /\ x = "alt"
          BY <2>1, <3>1 DEF PlaceInv
        <5> QED BY <3>2, <5>1, SetsChange
      <4> QED BY <1>1, <4>3, <4>4, IterationEnds
    <3>3. CASE p \notin Timed
      <4>1. cpu' = Deschedule(On)
        BY <2>1, <3>3
      <4>2. x \notin {"ready", "timer"} /\ st' = [st EXCEPT ![p] = x]
        BY <2>1, <3>1
      <4> QED BY <1>1, <3>3, <4>1, <4>2, WaitPlaces
    <3> QED BY <3>2, <3>3
  <2>3. /\ slot'[p] = "Waiting" /\ st'[p] = "alt"
        /\ \A q \in Proc \ {p} : slot'[q] = slot[q] /\ st'[q] = st[q]
    BY <2>1 DEF PlaceInv, Typed
  <2>4. AltOf(p)'
    <3>1. \A c \in Chan : Reader[c] = p => chan'[c] = p
      BY <1>1, <1>4, <1>8 DEF EnablingOf
    <3>2. WaitingOf(p)' /\ DisablingOf(p)'
      BY <1>2, <2>3, <3>1 DEF WaitingOf, DisablingOf
    <3> QED BY <1>2, <1>4, <1>5, <2>3, <3>2 DEF AltOf, Apart
  <2>5. \A q \in Proc \ {p} : KeptAlt(q) /\ st'[q] = st[q]
    BY <1>1, <1>2, <2>3 DEF KeptAlt
  <2>6. ChanWords' /\ LinkWords' /\ Joins' /\ \A q \in Proc \ {p} : AltOf(q)'
    BY <1>1, <1>2, <1>5, <2>3, <2>5, AltRest
  <2>7. Typed'
    <3>1. Guards(p) \subseteq Chan \cup {Time, Skip}
      BY DEF Guards
    <3> QED BY <1>1, <2>1, <3>1 DEF PlaceInv, Typed, parVars, Slot, State
  <2> QED BY <1>6, <2>2, <2>4, <2>6, <2>7 DEF PlaceInv, Alts
<1> QED BY <1>7, <1>8

\* A process that disables guard g, found ready or not.  The branch taken is
\* that of a guard that could be chosen.
LEMMA DisabledAlt ==
  ASSUME PlaceInv, NEW p \in Proc, NEW g, NEW r \in BOOLEAN, Disables(p, g, r),
         \A d \in Chan : d # g => chan'[d] = chan[d],
         \A q \in Proc \ {p} : open'[q] = open[q],
         \A e \in Guards(p) \ {g} : Opened(p, e) => Opened(p, e)',
         Opened(p, g) => r,
         g \in Chan /\ r => chan[g] = Writer[g] /\ chan'[g] = chan[g],
         g \in Chan => chan'[g] # p /\ (chan'[g] # chan[g] => chan[g] = p /\ chan'[g] = NoProc),
         chan' \in [Chan \cup Link -> Proc \cup {NoProc}], \A l \in Link : chan'[l] = chan[l],
         open' \in [Proc -> SUBSET {Time, Skip}]
  PROVE  PlaceInv'
<1>1. /\ pc = "exec" /\ cpu.wptr = p /\ alt[p] = "disabling" /\ g \in guards[p] /\ cpu' = On
      /\ chosen' = IF r /\ chosen[p] = NoProc THEN [chosen EXCEPT ![p] = g] ELSE chosen
      /\ guards' = [guards EXCEPT ![p] = @ \ {g}]
      /\ pc' = "tickHi" /\ ret' = ret /\ slot' = slot /\ alt' = alt /\ UNCHANGED parVars /\ st' = st
  BY DEF Disables, Executes
<1>2. /\ guards'[p] = guards[p] \ {g} /\ \A q \in Proc \ {p} : guards'[q] = guards[q]
      /\ chosen'[p] = IF r /\ chosen[p] = NoProc THEN g ELSE chosen[p]
      /\ \A q \in Proc \ {p} : chosen'[q] = chosen[q]
  BY <1>1 DEF PlaceInv, Typed
<1>3. st[p] = "ready" /\ AltOf(p) /\ \A d \in Chan : WordOf(d)
  BY <1>1, Running DEF PlaceInv, Alts, ChanWords
<1>4. DisablingOf(p) /\ p \in Alter /\ g \in Guards(p) /\ guards[p] \subseteq Guards(p)
  BY <1>1, <1>3 DEF AltOf, Apart, DisablingOf
<1>5. \A c \in Chan : (c \in Guards(p) => Reader[c] = p) /\ Reader[c] \in Proc /\ Reader[c] # Writer[c]
  BY ChannelAssumption DEF Guards
<1>6. g # NoProc
  BY <1>4, ChannelAssumption DEF Guards
<1>7. Places' /\ EnablingRuns'
  BY <1>1, GoesOnPlaces
<1>8. AltOf(p)'
  <2>1. DisablingOf(p)'
    <3>1. ASSUME chosen'[p] = NoProc PROVE \E e \in guards'[p] : Opened(p, e)'
      <4>1. chosen[p] = NoProc /\ ~r
        BY <1>2, <1>6, <3>1
      <4>2. PICK e \in guards[p] : Opened(p, e)
        BY <1>3, <1>4, <4>1 DEF DisablingOf
      <4>3. e # g
        BY <4>1, <4>2
      <4> QED BY <1>2, <1>4, <4>2, <4>3
    <3> QED BY <1>1, <1>2, <1>3, <1>4, <3>1 DEF DisablingOf
  <2>2. ASSUME chosen'[p] \in Chan PROVE TakenOf(p)'
    <3>1. CASE chosen'[p] = g
      <4>1. r \/ chosen[p] = g
        BY <1>2, <3>1
      <4>2. CASE r
        BY <1>4, <1>5, <2>2, <3>1, <4>2 DEF TakenOf
      <4>3. CASE chosen[p] = g /\ ~r
        <5>1. chan[g] = Writer[g] /\ g \in Chan
          BY <1>1, <1>3, <2>2, <3>1, <4>3 DEF AltOf, TakenOf
        <5>2. Opened(p, g)
          BY <5>1 DEF Opened
        <5> QED BY <4>3, <5>2
      <4> QED BY <4>1, <4>2, <4>3
    <3>2. CASE chosen'[p] # g
      <4>1. chosen'[p] = chosen[p]
        BY <1>2, <3>2
      <4>2. TakenOf(p)
        BY <1>1, <1>3, <2>2, <4>1 DEF AltOf
      <4> QED BY <2>2, <3>2, <4>1, <4>2 DEF TakenOf
    <3> QED BY <3>1, <3>2
  <2> QED BY <1>1, <1>3, <2>1, <2>2 DEF AltOf, Apart
<1>9. ChanWords' /\ LinkWords' /\ Joins' /\ \A q \in Proc \ {p} : AltOf(q)'
  <2>1. \A q \in Proc \ {p} : KeptAlt(q) /\ st'[q] = st[q]
    BY <1>1, <1>2 DEF KeptAlt
  <2>2. \A d \in Chan : Reader[d] # p => chan'[d] = chan[d]
    BY <1>4, <1>5
  <2>3. \A d \in Chan : chan'[d] # chan[d] => {chan[d], chan'[d]} \subseteq {NoProc, p}
    OBVIOUS
  <2>4. ASSUME NEW d \in Chan, Reader[d] = p, chan'[d] = p
        PROVE  alt'[p] = "disabling" /\ d \in guards'[p]
    <3>1. d # g /\ chan[d] = p
      BY <2>4
    <3>2. d \in guards[p]
      BY <1>1, <1>3, <2>4, <3>1 DEF WordOf
    <3> QED BY <1>1, <1>2, <3>1, <3>2
  <2> QED BY <1>1, <1>3, <2>1, <2>2, <2>3, <2>4, AltRest
<1>10. Typed'
  <2>1. g \in Chan \cup {Time, Skip}
    BY <1>4 DEF Guards
  <2> QED BY <1>1, <2>1 DEF PlaceInv, Typed, parVars
<1> QED BY <1>7, <1>8, <1>9, <1>10 DEF PlaceInv, Alts

\* disc.
LEMMA DiscKeeps == ASSUME PlaceInv, NEW p \in Proc, NEW c \in Chan, Disc(p, c) PROVE PlaceInv'
<1>1. PICK r \in BOOLEAN : r = (chan[c] \notin {NoProc, p})
  OBVIOUS
<1>2. /\ Disables(p, c, r) /\ open' = open
      /\ chan' = IF chan[c] = p THEN [chan EXCEPT ![c] = NoProc] ELSE chan
  BY <1>1 DEF Disc
<1>3. alt[p] = "disabling" /\ c \in guards[p] /\ pc = "exec" /\ cpu.wptr = p
  BY <1>2 DEF Disables, Executes
<1>4. AltOf(p) /\ WordOf(c) /\ NoProc \notin Proc /\ Typed
  BY ProcAssumption DEF PlaceInv, Alts, ChanWords
<1>5. c \in Guards(p)
  BY <1>3, <1>4 DEF AltOf, DisablingOf
<1>6. Reader[c] = p /\ Writer[c] # p /\ Writer[c] \in Proc /\ c \notin Link /\ c \notin {Time, Skip}
  BY <1>5, ChannelAssumption DEF Guards
<1>7. /\ chan' \in [Chan \cup Link -> Proc \cup {NoProc}]
      /\ \A d \in (Chan \cup Link) \ {c} : chan'[d] = chan[d]
      /\ chan'[c] = IF chan[c] = p THEN NoProc ELSE chan[c]
  BY <1>2, <1>4 DEF Typed
<1>8. r => chan[c] = Writer[c]
  BY <1>1, <1>4, <1>6 DEF WordOf
<1>9. Opened(p, c) => r
  BY <1>1, <1>4, <1>6 DEF Opened, Typed
<1>10. \A e \in Guards(p) \ {c} : Opened(p, e) => Opened(p, e)'
  BY <1>2, <1>7 DEF Opened
<1>11. open' \in [Proc -> SUBSET {Time, Skip}] /\ \A l \in Link : chan'[l] = chan[l]
  BY <1>2, <1>4, <1>6, <1>7 DEF Typed
<1>12. /\ r => chan[c] = Writer[c] /\ chan'[c] = chan[c]
       /\ chan'[c] # p /\ (chan'[c] # chan[c] => chan[c] = p /\ chan'[c] = NoProc)
  BY <1>1, <1>4, <1>7, <1>8
<1> QED BY <1>2, <1>7, <1>9, <1>10, <1>11, <1>12, DisabledAlt

\* dist.
LEMMA DistKeeps == ASSUME PlaceInv, NEW p \in Proc, Dist(p) PROVE PlaceInv'
<1>1. PICK o \in {open[p], open[p] \cup {Time}} :
        /\ Disables(p, Time, Time \in o)
        /\ open' = [open EXCEPT ![p] = o] /\ chan' = chan
  BY DEF Dist
<1>2. PICK r : r = (Time \in o)
  OBVIOUS
<1>7. r \in BOOLEAN
  BY <1>2
<1>3. PICK g : g = Time
  OBVIOUS
<1>4. Disables(p, g, r) /\ g \notin Chan
  BY <1>1, <1>2, <1>3, ChannelAssumption
<1>5. /\ chan' \in [Chan \cup Link -> Proc \cup {NoProc}]
      /\ open' \in [Proc -> SUBSET {Time, Skip}]
      /\ open[p] \subseteq open'[p] /\ \A q \in Proc \ {p} : open'[q] = open[q]
  BY <1>1 DEF PlaceInv, Typed
<1>6. /\ Opened(p, g) => r
      /\ \A e \in Guards(p) \ {g} : Opened(p, e) => Opened(p, e)'
  BY <1>1, <1>2, <1>3, <1>4, <1>5 DEF Opened
<1> QED BY <1>1, <1>4, <1>5, <1>6, <1>7, DisabledAlt

\* diss.
LEMMA DissKeeps == ASSUME PlaceInv, NEW p \in Proc, Diss(p) PROVE PlaceInv'
<1>1. PICK r : r = (Skip \in open[p])
  OBVIOUS
<1>6. r \in BOOLEAN
  BY <1>1
<1>2. PICK g : g = Skip
  OBVIOUS
<1>3. Disables(p, g, r) /\ g \notin Chan /\ chan' = chan /\ open' = open
  BY <1>1, <1>2, ChannelAssumption DEF Diss
<1>4. /\ chan' \in [Chan \cup Link -> Proc \cup {NoProc}]
      /\ open' \in [Proc -> SUBSET {Time, Skip}]
  BY <1>3 DEF PlaceInv, Typed
<1>5. /\ Opened(p, g) => r
      /\ \A e \in Guards(p) \ {g} : Opened(p, e) => Opened(p, e)'
  BY <1>1, <1>2, <1>3 DEF Opened
<1> QED BY <1>3, <1>4, <1>5, <1>6, DisabledAlt

\* altend.
LEMMA AltendKeeps == ASSUME PlaceInv, NEW p \in Proc, Altend(p) PROVE PlaceInv'
<1>1. /\ pc = "exec" /\ cpu.wptr = p /\ alt[p] = "disabling" /\ guards[p] = {} /\ cpu' = On
      /\ alt' = [alt EXCEPT ![p] = IF chosen[p] \in {Time, Skip} THEN "none" ELSE "chosen"]
      /\ pc' = "tickHi" /\ ret' = ret
      /\ UNCHANGED <<chan, slot, guards, open, chosen, parVars, st>>
  BY DEF Altend, Executes
<1>2. /\ alt'[p] = IF chosen[p] \in {Time, Skip} THEN "none" ELSE "chosen"
      /\ \A q \in Proc \ {p} : alt'[q] = alt[q]
      /\ chosen[p] \in Chan \cup {Time, Skip, NoProc}
  BY <1>1 DEF PlaceInv, Typed
<1>3. st[p] = "ready" /\ AltOf(p) /\ \A d \in Chan : WordOf(d)
  BY <1>1, Running DEF PlaceInv, Alts, ChanWords
<1>4. p \in Alter /\ chosen[p] # NoProc
  BY <1>1, <1>3 DEF AltOf, Apart, DisablingOf
<1>5. AltOf(p)'
  BY <1>1, <1>2, <1>3, <1>4 DEF AltOf, Apart, TakenOf
<1>6. ChanWords' /\ LinkWords' /\ Joins' /\ \A q \in Proc \ {p} : AltOf(q)'
  <2>1. \A q \in Proc \ {p} : KeptAlt(q) /\ st'[q] = st[q]
    BY <1>1, <1>2 DEF KeptAlt
  <2>2. \A d \in Chan : Reader[d] = p => chan'[d] # p
    BY <1>1, <1>3 DEF WordOf
  <2> QED BY <1>1, <1>3, <2>1, <2>2, AltRest
<1>7. Places' /\ EnablingRuns'
  BY <1>1, <1>2, GoesOnPlaces
<1>8. Typed'
  BY <1>1 DEF PlaceInv, Typed, parVars
<1> QED BY <1>5, <1>6, <1>7, <1>8 DEF PlaceInv, Alts

-----------------------------------------------------------------------------
(* Theorems                                                                *)

\* Every step keeps the invariant.
LEMMA StepKeepsPlaces == ASSUME Restricted, PlaceInv, [Next]_vars PROVE PlaceInv'
<1>1. CASE TickHi \/ TickLo
  BY <1>1, TickKeeps
<1>2. CASE Start
  BY <1>2, StartKeeps
<1>3. CASE Server
  BY <1>3, ServerKeeps
<1>4. ASSUME NEW p \in Proc, Instruction(p) PROVE PlaceInv'
  <2>1. CASE Prefix(p) \/ Other(p)
    BY <2>1, OtherKeeps
  <2>2. CASE Jump(p)
    BY <2>2, JumpKeeps
  <2>3. CASE Tin(p)
    BY <2>3, TinKeeps
  <2>4. ASSUME NEW c \in Chan, In(p, c) \/ Out(p, c) \/ Enbc(p, c) \/ Disc(p, c) PROVE PlaceInv'
    BY <2>4, InKeeps, OutKeeps, EnbcKeeps, DiscKeeps
  <2>5. ASSUME NEW l \in Link, LinkIo(p, l) PROVE PlaceInv'
    BY <2>5, LinkIoKeeps
  <2>6. CASE Alt(p) \/ Altwt(p) \/ Altend(p)
    BY <2>6, AltKeeps, AltwtKeeps, AltendKeeps
  <2>7. CASE Enbt(p) \/ Enbs(p)
    BY <2>7, EnbtKeeps
  <2>8. CASE Dist(p) \/ Diss(p)
    BY <2>8, DistKeeps, DissKeeps
  <2>9. CASE BeginPar(p) \/ Endp(p) \/ Stopp(p)
    BY <2>9, BeginParKeeps, EndpKeeps, StoppKeeps
  <2>10. ASSUME NEW q \in Proc, Startp(p, q) \/ Runp(p, q) PROVE PlaceInv'
    BY <2>10, StartpKeeps, RunpKeeps
  <2> QED BY <1>4, <2>1, <2>2, <2>3, <2>4, <2>5, <2>6, <2>7, <2>8, <2>9, <2>10 DEF Instruction
<1>5. CASE UNCHANGED vars
  <2>1. /\ UNCHANGED <<chan, slot, altVars, parVars, st>>
        /\ pc' = pc /\ ret' = ret /\ cpu' = cpu /\ alt' = alt
    BY <1>5 DEF vars, altVars, parVars
  <2>2. /\ Typed' /\ ChanWords' /\ LinkWords' /\ Alts' /\ Joins'
        /\ ReadyOnes' = ReadyOnes /\ Sleepers' = Sleepers
    BY <2>1, RestSame
  <2>3. Places'
    BY <2>1, <2>2 DEF PlaceInv, Places
  <2>4. EnablingRuns'
    BY <2>1 DEF PlaceInv, EnablingRuns
  <2> QED BY <2>2, <2>3, <2>4 DEF PlaceInv
<1> QED BY <1>1, <1>2, <1>3, <1>4, <1>5 DEF Next

\* For restricted programs the queues hold exactly the processes that can run
\* and that sleep, and the words of the channels those that wait there.
THEOREM PlacesInvariance == ASSUME Restricted PROVE Spec => []PlaceInv
<1>1. Init => PlaceInv
  BY InitPlaceInv
<1>2. PlaceInv /\ [Next]_vars => PlaceInv'
  BY StepKeepsPlaces
<1> QED BY <1>1, <1>2, PTL DEF Spec

\* Every process that can run is found in exactly one place.
LEMMA PlacedOnce == PlaceInv => RunsOnce
<1> SUFFICES ASSUME PlaceInv, NEW p \in Proc
             PROVE  Runs(p) = IF st[p] = "ready" THEN 1 ELSE 0
  BY DEF RunsOnce
<1>1. PICK s, R, T : s = cpu /\ R = ReadyOnes /\ T = Sleepers
  OBVIOUS
<1>2. Placed(s, R, T) /\ (st[p] = "ready" <=> p \in R)
  BY <1>1 DEF PlaceInv, Places, ReadyOnes
<1>3. /\ Times(s.rq["Hi"], p) = IF p \in (R \cap HiProc) \ {Now(s)} THEN 1 ELSE 0
      /\ Times(s.rq["Lo"], p) = IF p \in (R \ HiProc) \ {Now(s), s.saved.wptr} THEN 1 ELSE 0
  BY <1>2, ListedTimes DEF Placed
<1>4. Current(p) <=> Now(s) = p
  BY <1>1, Priorities DEF Current, Now
<1>5. /\ Now(s) # NoProc => Now(s) \in R
      /\ s.saved.wptr # NoProc => s.saved.wptr \in (R \ HiProc) \ {Now(s)}
      /\ p # NoProc
  BY <1>2, Priorities DEF Placed
<1> QED BY <1>1, <1>2, <1>3, <1>4, <1>5 DEF Runs

\* Whoever waits can be woken.
LEMMA PlacedFindable == ASSUME Restricted PROVE PlaceInv => WaitersFindable
<1> SUFFICES ASSUME PlaceInv, NEW p \in Proc
             PROVE  /\ Times(cpu.tq[Pri[p]], p) = IF Sleeps(p) THEN 1 ELSE 0
                    /\ Sleeps(p) => slot[p] # "Ready"
                    /\ st[p] = "comm" => \E c \in Chan : p \in {Reader[c], Writer[c]} /\ chan[c] = p
                    /\ st[p] = "link" => \E l \in Link : User[l] = p /\ chan[l] = p
                    /\ st[p] = "alt"  => \A c \in Chan : Reader[c] = p => chan[c] = p
  BY DEF WaitersFindable
<1>1. AltOf(p) /\ CommOf(p) /\ LinkOf(p) /\ p # NoProc
  BY Priorities DEF PlaceInv, Alts, ChanWords, LinkWords
<1>2. Times(cpu.tq[Pri[p]], p) = IF Sleeps(p) THEN 1 ELSE 0
  <2>1. PICK s, R, T : s = cpu /\ R = ReadyOnes /\ T = Sleepers
    OBVIOUS
  <2>2. Placed(s, R, T) /\ (Sleeps(p) <=> p \in T)
    BY <2>1 DEF PlaceInv, Places, Sleepers
  <2>3. CASE p \in HiProc
    <3>1. Pri[p] = "Hi" /\ p \notin T /\ s.tq["Hi"] = <<>> /\ Listed(<<>>, {}) /\ p \notin {}
      BY <2>2, <2>3, Priorities, ListedNone DEF Placed, Low
    <3>2. Times(<<>>, p) = 0
      BY <3>1, ListedTimes
    <3> QED BY <2>1, <2>2, <3>1, <3>2
  <2>4. CASE p \notin HiProc
    <3>1. Pri[p] = "Lo" /\ Listed(s.tq["Lo"], T)
      BY <2>2, <2>4, Priorities DEF Placed
    <3>2. Times(s.tq["Lo"], p) = IF p \in T THEN 1 ELSE 0
      BY <3>1, ListedTimes
    <3> QED BY <2>1, <2>2, <3>1, <3>2
  <2> QED BY <2>3, <2>4
<1>3. Sleeps(p) => slot[p] # "Ready"
  <2>1. CASE st[p] = "timer"
    BY <1>1, <2>1 DEF AltOf, Apart, Restricted
  <2>2. CASE st[p] = "alt"
    BY <1>1, <2>2 DEF AltOf, WaitingOf
  <2> QED BY <2>1, <2>2 DEF Sleeps
<1>4. st[p] = "comm" => \E c \in Chan : p \in {Reader[c], Writer[c]} /\ chan[c] = p
  BY <1>1 DEF CommOf, PlaceInv, ChanWords, WordOf
<1>5. st[p] = "link" => \E l \in Link : User[l] = p /\ chan[l] = p
  BY <1>1 DEF LinkOf, PlaceInv, LinkWords
<1>6. st[p] = "alt" => \A c \in Chan : Reader[c] = p => chan[c] = p
  BY <1>1 DEF AltOf, WaitingOf
<1> QED BY <1>2, <1>3, <1>4, <1>5, <1>6

\* Every process that can run is found by the scheduler in exactly one place,
\* and no other in any.
THEOREM RunnableOnce == ASSUME Restricted PROVE Spec => []RunsOnce
BY PlacesInvariance, PlacedOnce, PTL

\* A process that waits is where whoever wakes it looks for it.
THEOREM WaitersAreFound == ASSUME Restricted PROVE Spec => []WaitersFindable
BY PlacesInvariance, PlacedFindable, PTL

\* Instructions are executed by a ready process, at its own priority.
THEOREM ReadyExecute == ASSUME Restricted PROVE Spec => []OnlyReadyExecute
<1>1. ASSUME PlaceInv PROVE OnlyReadyExecute
  <2>1. pc = "exec" => /\ Placed(cpu, ReadyOnes, Sleepers) /\ Now(cpu) # NoProc
    BY <1>1 DEF PlaceInv, Places
  <2>2. Now(cpu) # NoProc => Now(cpu) = cpu.wptr
    BY DEF Now
  <2> QED BY <2>1, <2>2 DEF OnlyReadyExecute, Placed, ReadyOnes
<1> QED BY <1>1, PlacesInvariance, PTL

\* Every ALT has a guard.
Guarded == \A p \in Alter : Guards(p) # {}

\* An ALT that goes on has a branch to take, and takes the message of a writer
\* that is waiting.
THEOREM AltTakesABranch == ASSUME Restricted, Guarded PROVE Spec => []AltChooses
<1>1. ASSUME PlaceInv, NEW p \in Proc, alt[p] = "disabling", guards[p] = {} PROVE chosen[p] # NoProc
  <2>1. AltOf(p)
    BY <1>1 DEF PlaceInv, Alts
  <2>2. p \in Alter /\ st[p] \in {"ready", "alt"} /\ DisablingOf(p)
    BY <1>1, <2>1 DEF AltOf, Apart
  <2>3. st[p] = "ready"
    BY <1>1, <2>1, <2>2 DEF AltOf, WaitingOf, Guarded
  <2> QED BY <1>1, <2>2, <2>3 DEF DisablingOf
<1>2. ASSUME PlaceInv, NEW p \in Proc, alt[p] = "chosen" PROVE chan[chosen[p]] = Writer[chosen[p]]
  <2>1. AltOf(p)
    BY <1>2 DEF PlaceInv, Alts
  <2> QED BY <1>2, <2>1 DEF AltOf, TakenOf
<1>3. PlaceInv => AltChooses
  BY <1>1, <1>2 DEF AltChooses
<1> QED BY <1>3, PlacesInvariance, PTL

\* The join word counts the branches of a PAR that have not ended.
THEOREM JoinWordCounts == ASSUME Restricted PROVE Spec => []JoinCounts
<1>1. PlaceInv => JoinCounts
  BY DEF PlaceInv, Joins
<1> QED BY <1>1, PlacesInvariance, PTL

\* The variables have their types, and a process is on queues of its own
\* priority only.
THEOREM TypeCorrect == ASSUME Restricted PROVE Spec => []TypeOK
<1>1. ASSUME PlaceInv PROVE TypeOK
  <2>1. PICK s, R, T : s = cpu /\ R = ReadyOnes /\ T = Sleepers
    OBVIOUS
  <2>2. Placed(s, R, T)
    BY <1>1, <2>1 DEF PlaceInv, Places
  <2>3. /\ s.wptr \in Proc /\ s.pri \in Level \cup {"None"} /\ s.saved.snp \in BOOLEAN
        /\ s.snp \in BOOLEAN /\ s.int \in BOOLEAN /\ s.slice \in BOOLEAN
        /\ s.saved \in [wptr : Proc \cup {NoProc}, snp : BOOLEAN]
    BY <2>2 DEF Placed, Regs, Level
  <2>4. s.saved \in [wptr : (Proc \ HiProc) \cup {NoProc}, snp : BOOLEAN]
    <3>1. s.saved.wptr \in (Proc \ HiProc) \cup {NoProc}
      BY <2>2 DEF Placed
    <3> QED BY <2>3, <3>1
  <2>5. ASSUME NEW l \in Level, NEW U, U = {p \in Proc : Pri[p] = l}
        PROVE  s.rq[l] \in Seq(U) /\ s.tq[l] \in Seq(U)
    <3>1. CASE l = "Hi"
      <4>1. U = Proc \cap HiProc /\ (R \cap HiProc) \ {Now(s)} \subseteq U
        BY <2>2, <2>5, <3>1, Priorities DEF Placed
      <4>2. s.rq["Hi"] \in Seq((R \cap HiProc) \ {Now(s)}) /\ s.tq["Hi"] = <<>>
        BY <2>2 DEF Placed, Listed
      <4>3. s.rq["Hi"] \in Seq(U)
        BY <4>1, <4>2, SeqMonotonic
      <4> QED BY <3>1, <4>2, <4>3
    <3>2. CASE l = "Lo"
      <4>1. T \subseteq U /\ (R \ HiProc) \ {Now(s), s.saved.wptr} \subseteq U
        BY <2>2, <2>5, <3>2, Priorities DEF Placed, Low
      <4>2. s.rq["Lo"] \in Seq((R \ HiProc) \ {Now(s), s.saved.wptr}) /\ s.tq["Lo"] \in Seq(T)
        BY <2>2 DEF Placed, Listed
      <4> QED BY <3>2, <4>1, <4>2, SeqMonotonic
    <3> QED BY <3>1, <3>2 DEF Level
  <2>6. \A l \in Level : /\ cpu.rq[l] \in Seq({p \in Proc : Pri[p] = l})
                          /\ cpu.tq[l] \in Seq({p \in Proc : Pri[p] = l})
    BY <2>1, <2>5
  <2>7. Typed /\ pc \in {"tickHi", "tickLo", "start", "server", "exec"} /\ ret \in {"exec", "tickHi"}
    BY <1>1 DEF PlaceInv, Places
  <2> QED BY <2>1, <2>3, <2>4, <2>6, <2>7 DEF TypeOK, Typed
<1> QED BY <1>1, PlacesInvariance, PTL
=============================================================================
