------------------------------ MODULE Scheduler ------------------------------
(***************************************************************************)
(* The process scheduler of the emulated transputer: mainloop(),           *)
(* update_time(), start_process(), run_process(), schedule(),              *)
(* deschedule(), reschedule(), D_check(), interrupt() and purge_timer() of *)
(* p.c, and the instructions that start, stop, delay, join and connect     *)
(* processes.                                                              *)
(*                                                                         *)
(* One iteration of mainloop() is several steps here (pc): update_time()   *)
(* wakes sleepers one at a time, start_process() may go round its loop,    *)
(* then one instruction is executed.  The programs are not modelled: a     *)
(* process executes any instruction an occam program could contain at that *)
(* point, and the constants say which processes use which instructions.    *)
(***************************************************************************)
EXTENDS Naturals, FiniteSets, SequencesExt

CONSTANTS
  Proc,      \* the processes (workspaces)
  NoProc,    \* NotProcess_p
  Boot,      \* the process booted, at low priority
  HiProc,    \* processes of high priority
  Parent,    \* the process whose PAR a process is a branch of, or NoProc
  Chan,      \* internal channels
  Reader,    \* the process that inputs from a channel
  Writer,    \* the process that outputs to it
  Alter,     \* processes that input from their channels by ALT
  Time,      \* a guard that waits for a time
  Skip,      \* a SKIP guard
  Timed,     \* processes whose ALT has a time guard
  Skipper,   \* processes whose ALT has a SKIP guard
  Sleeper,   \* processes that use tin
  Link,      \* the hard channels Link0In and Link0Out
  User,      \* the process that communicates on a link
  Jumper,    \* processes that use j and lend (a loop may be closed by cj)
  LoopsInAlt \* the enabling sequence of an ALT may contain j and lend

Pri == [p \in Proc |-> IF p \in HiProc THEN "Hi" ELSE "Lo"]
\* The guards of p's ALT.
Guards(p) == {c \in Chan : Reader[c] = p}
             \cup (IF p \in Timed THEN {Time} ELSE {})
             \cup (IF p \in Skipper THEN {Skip} ELSE {})
Kids(p) == {q \in Proc : Parent[q] = p}

ASSUME ProcAssumption ==
  /\ IsFiniteSet(Proc) /\ NoProc \notin Proc
  /\ HiProc \subseteq Proc /\ Boot \in Proc \ HiProc
  /\ Parent \in [Proc -> Proc \cup {NoProc}]
  /\ \A q \in Proc : Parent[q] # NoProc =>
       Parent[q] # q /\ Parent[Parent[q]] = NoProc /\ Pri[Parent[q]] = Pri[q]
  /\ Parent[Boot] = NoProc
ASSUME ChannelAssumption ==
  /\ Reader \in [Chan -> Proc] /\ Writer \in [Chan -> Proc]
  /\ \A c \in Chan : Reader[c] # Writer[c]
  /\ Alter \subseteq Proc /\ Sleeper \subseteq Proc /\ Jumper \subseteq Proc
  /\ Timed \subseteq Alter /\ Skipper \subseteq Alter
  /\ Time # Skip /\ {Time, Skip} \cap (Chan \cup {NoProc}) = {} /\ NoProc \notin Chan
  /\ User \in [Link -> Proc] /\ Chan \cap Link = {}
  /\ LoopsInAlt \in BOOLEAN

VARIABLES
  pc,      \* where mainloop() is
  ret,     \* where start_process() returns to
  cpu,     \* the registers and queues of the scheduler
  chan,    \* the channel words: NoProc or a process
  slot,    \* the workspace word State_s, which is also Pointer_s
  alt,     \* the part of an ALT a process is in
  guards,  \* the guards it has still to enable or disable
  open,    \* of its guards Time and Skip, those that can be chosen
  chosen,  \* workspace word 0: the branch selected, or NoProc
  join,    \* the count endp decrements
  unstarted, \* branches of its PAR a process has still to start
  st       \* history: what each process is waiting for, if anything

vars == <<pc, ret, cpu, chan, slot, alt, guards, open, chosen, join, unstarted, st>>
altVars == <<alt, guards, open, chosen>>
parVars == <<join, unstarted>>

State == {"unborn", "ready", "comm", "alt", "timer", "link", "joining", "stopped"}
Level == {"Hi", "Lo"}
\* What a process's State_s word holds: an ALT state, or anything else.
Slot == {"Enabling", "Waiting", "Ready", "other"}

Init ==
  /\ pc = "tickHi"
  /\ ret = "exec"
  /\ cpu = [wptr  |-> Boot,                              \* WPtr
            pri   |-> "Lo",                              \* ProcPriority
            snp   |-> FALSE,                             \* GotoSNPBit
            int   |-> TRUE,                              \* IntEnabled
            slice |-> FALSE,                             \* timeslice > 1
            saved |-> [wptr |-> NoProc, snp |-> FALSE],  \* words 11 and 16
            rq    |-> [l \in Level |-> <<>>],            \* FPtrReg, BPtrReg
            tq    |-> [l \in Level |-> <<>>]]            \* TPtrLoc
  /\ chan = [c \in Chan \cup Link |-> NoProc]
  /\ slot = [p \in Proc |-> "other"]
  /\ alt = [p \in Proc |-> "none"]
  /\ guards = [p \in Proc |-> {}]
  /\ open = [p \in Proc |-> {}]
  /\ chosen = [p \in Proc |-> NoProc]
  /\ join = [p \in Proc |-> 0]
  /\ unstarted = [p \in Proc |-> {}]
  /\ st = [p \in Proc |-> IF p = Boot THEN "ready" ELSE "unborn"]

-----------------------------------------------------------------------------
(* The functions of the scheduler, on the record s of its registers        *)

Without(q, p) == IF p \in Range(q) THEN SelectSeq(q, LAMBDA x : x # p) ELSE q

\* purge_timer(): it is the current process that is removed, from the queue
\* of the current priority.
PurgeTimer(s) ==
  LET l == IF s.pri = "Hi" THEN "Hi" ELSE "Lo" IN
  [s EXCEPT !.tq[l] = Without(@, s.wptr)]

\* Definitions named X_Fault are plausible bugs in X: nothing uses them, and
\* each is put in X's place to show that a property depends on X.

Interrupt_NotSaved(s, w) == [s EXCEPT !.snp = FALSE, !.pri = "Hi", !.wptr = w]

\* interrupt(), and what schedule() does after it.
Interrupt(s, w) ==
  [s EXCEPT !.saved = [wptr |-> s.wptr, snp |-> s.snp],
            !.snp = FALSE, !.pri = "Hi", !.wptr = w]

Enqueue_CurrentPri(s, w) ==
  [s EXCEPT !.rq[IF s.pri = "Hi" THEN "Hi" ELSE "Lo"] = Append(@, w)]

Enqueue(s, w) == [s EXCEPT !.rq[Pri[w]] = Append(@, w)]

Schedule_NoInterrupt(s, w, state) ==
  Enqueue(IF state = "Ready" THEN PurgeTimer(s) ELSE s, w)

Schedule_PurgeAlways(s, w, state) ==
  LET u == PurgeTimer(s) IN
  IF Pri[w] = "Hi" /\ u.pri = "Lo" THEN Interrupt(u, w) ELSE Enqueue(u, w)

\* schedule(w), when w's State_s word is state.
Schedule(s, w, state) ==
  LET u == IF state = "Ready" THEN PurgeTimer(s) ELSE s IN
  IF Pri[w] = "Hi" /\ u.pri = "Lo" THEN Interrupt(u, w) ELSE Enqueue(u, w)

Deschedule_Never(s) == s

Deschedule(s) == [s EXCEPT !.snp = TRUE]

\* run_process(), when something can be run.
RunProcess(s) ==
  IF s.rq["Hi"] # <<>>
  THEN [s EXCEPT !.pri = "Hi", !.wptr = Head(s.rq["Hi"]), !.rq["Hi"] = Tail(@)]
  ELSE IF s.saved.wptr # NoProc
  THEN [s EXCEPT !.pri = "Lo", !.wptr = s.saved.wptr, !.snp = s.saved.snp,
                 !.saved = [wptr |-> NoProc, snp |-> FALSE]]
  ELSE [s EXCEPT !.pri = "Lo", !.wptr = Head(s.rq["Lo"]), !.rq["Lo"] = Tail(@)]

Runnable(s) == s.rq["Hi"] # <<>> \/ s.saved.wptr # NoProc \/ s.rq["Lo"] # <<>>

-----------------------------------------------------------------------------
(* update_time()                                                           *)

MayWake_Always == TRUE

MayWake == cpu.pri = "Hi" \/ cpu.int

TimePassed(p) ==
  /\ st' = [st EXCEPT ![p] = "ready"]
  /\ open' = [open EXCEPT ![p] = @ \cup ({Time} \cap Guards(p))]

Wake_NotRemoved(l) ==
  LET p == Head(cpu.tq[l]) IN
  /\ MayWake
  /\ cpu.tq[l] # <<>>
  /\ cpu' = Schedule(cpu, p, slot[p])
  /\ TimePassed(p)
  /\ UNCHANGED <<ret, chan, slot, alt, guards, chosen, parVars>>

\* The time of the first process of a timer queue has passed: it is
\* scheduled, and only then taken off the queue.  (WaitersFindable says that
\* schedule() does not take it off before.)
Wake(l) ==
  LET p == Head(cpu.tq[l])
      s == Schedule(cpu, p, slot[p]) IN
  /\ MayWake
  /\ cpu.tq[l] # <<>>
  /\ cpu' = [s EXCEPT !.tq[l] = IF @ = <<>> THEN @ ELSE Tail(@)]
  /\ TimePassed(p)
  /\ UNCHANGED <<ret, chan, slot, alt, guards, chosen, parVars>>

TickHi ==
  /\ pc = "tickHi"
  /\ \/ Wake("Hi") /\ pc' = pc
     \/ pc' = "tickLo" /\ UNCHANGED <<ret, cpu, chan, slot, altVars, parVars, st>>

\* The timeslice counter moves on with the low priority clock.
TickLo ==
  /\ pc = "tickLo"
  /\ \/ Wake("Lo") /\ pc' = pc
     \/ /\ \E b \in {cpu.slice, TRUE} : cpu' = [cpu EXCEPT !.slice = b]
        /\ IF cpu.snp \/ cpu.pri = "None"
           THEN pc' = "start" /\ ret' = IF cpu.snp THEN "exec" ELSE ret
           ELSE pc' = "exec" /\ UNCHANGED ret
        /\ UNCHANGED <<chan, slot, altVars, parVars, st>>

-----------------------------------------------------------------------------
(* start_process()                                                         *)

Start ==
  /\ pc = "start"
  /\ IF cpu.pri = "Lo" /\ ~cpu.int
     THEN pc' = ret /\ UNCHANGED cpu
     ELSE LET s == [cpu EXCEPT !.snp = FALSE] IN
          IF Runnable(s)
          THEN pc' = ret /\ cpu' = [RunProcess(s) EXCEPT !.slice = FALSE]
          ELSE pc' = "server" /\ cpu' = [s EXCEPT !.pri = "None"]
  /\ UNCHANGED <<ret, chan, slot, altVars, parVars, st>>

\* linkloop() has completed the transfer of link l: its process is
\* scheduled, and the channel word reset.
Completed(s, l) == Schedule(s, chan[l], slot[chan[l]])

LinkFreed(l) ==
  /\ chan[l] # NoProc
  /\ chan' = [chan EXCEPT ![l] = NoProc]
  /\ st' = [st EXCEPT ![chan[l]] = "ready"]

\* server(), called from the idle loop, which then calls update_time().
Server ==
  /\ pc = "server"
  /\ \/ \E l \in Link : LinkFreed(l) /\ cpu' = Completed(cpu, l)
     \/ UNCHANGED <<cpu, chan, st>>
  /\ pc' = "tickHi"
  /\ UNCHANGED <<ret, slot, altVars, parVars>>

-----------------------------------------------------------------------------
(* Instructions.  Each ends an iteration of mainloop().                    *)

\* Process p executes an operation, which sets IntEnabled; the next
\* iteration begins.
Executes(p) ==
  /\ pc = "exec"
  /\ cpu.wptr = p
  /\ pc' = "tickHi"

On == [cpu EXCEPT !.int = TRUE]

\* pfix or nfix: the next instruction belongs to this one.
Prefix(p) ==
  /\ Executes(p)
  /\ cpu' = [cpu EXCEPT !.int = FALSE]
  /\ UNCHANGED <<ret, chan, slot, altVars, parVars, st>>

\* Any instruction that the scheduler does not see.
Other(p) ==
  /\ Executes(p)
  /\ cpu' = On
  /\ UNCHANGED <<ret, chan, slot, altVars, parVars, st>>

DCheck_GoesOn(s) ==
  IF s.pri = "Lo" /\ s.slice
  THEN Schedule([s EXCEPT !.slice = FALSE], s.wptr, slot[s.wptr])
  ELSE s

DCheck_NoSlice(s) == s

\* j or lend: D_check().  server() may complete a transfer, which may
\* interrupt the process; a timeslice that is over sends it to the end of
\* its queue.
DCheck(s) ==
  IF s.pri = "Lo" /\ s.slice
  THEN Deschedule(Schedule([s EXCEPT !.slice = FALSE], s.wptr, slot[s.wptr]))
  ELSE s

Jump(p) ==
  /\ Executes(p)
  /\ p \in Jumper
  /\ alt[p] = "enabling" => LoopsInAlt
  /\ \/ cpu' = DCheck(On) /\ UNCHANGED <<chan, st>>
     \/ \E l \in Link : LinkFreed(l) /\ cpu' = DCheck(Completed(On, l))
  /\ UNCHANGED <<ret, slot, altVars, parVars>>

Awaits_NoWord(p, c) == cpu' = Deschedule(On) /\ UNCHANGED chan

\* p waits on channel word c.
Awaits(p, c) ==
  /\ chan' = [chan EXCEPT ![c] = p]
  /\ cpu' = Deschedule(On)

\* The message moves, and the process at the other end goes on.
Meets(c) ==
  /\ chan' = [chan EXCEPT ![c] = NoProc]
  /\ cpu' = Schedule(On, chan[c], slot[chan[c]])
  /\ st' = [st EXCEPT ![chan[c]] = "ready"]

In(p, c) ==
  /\ Executes(p)
  /\ Reader[c] = p
  /\ alt[p] = "none" \/ (alt[p] = "chosen" /\ chosen[p] = c)
  /\ \/ /\ chan[c] = NoProc
        /\ Awaits(p, c)
        /\ slot' = [slot EXCEPT ![p] = "other"]
        /\ st' = [st EXCEPT ![p] = "comm"]
     \/ /\ chan[c] # NoProc
        /\ Meets(c)
        /\ UNCHANGED slot
  /\ alt' = [alt EXCEPT ![p] = "none"]
  /\ UNCHANGED <<ret, guards, open, chosen, parVars>>

\* The word of the channel holds a process that is doing an ALT.
InAlt(c) == slot[chan[c]] # "other"

Out(p, c) ==
  /\ Executes(p)
  /\ Writer[c] = p
  /\ alt[p] = "none"
  /\ \/ /\ chan[c] = NoProc
        /\ Awaits(p, c)
        /\ slot' = [slot EXCEPT ![p] = "other"]
        /\ st' = [st EXCEPT ![p] = "comm"]
     \/ /\ chan[c] # NoProc /\ InAlt(c) /\ slot[chan[c]] = "Ready"
        /\ Awaits(p, c)
        /\ slot' = [slot EXCEPT ![p] = "other"]
        /\ st' = [st EXCEPT ![p] = "comm"]
     \/ /\ chan[c] # NoProc /\ InAlt(c) /\ slot[chan[c]] # "Ready"
        /\ chan' = [chan EXCEPT ![c] = p]
        /\ slot' = [slot EXCEPT ![p] = "other", ![chan[c]] = "Ready"]
        /\ cpu' = Schedule(Deschedule(On), chan[c], "Ready")
        /\ st' = [st EXCEPT ![p] = "comm", ![chan[c]] = "ready"]
     \/ /\ chan[c] # NoProc /\ ~InAlt(c)
        /\ Meets(c)
        /\ UNCHANGED slot
  /\ UNCHANGED <<ret, altVars, parVars>>

\* in or out on a link: receive_linkin_message() and send_linkout_message()
\* call start_process() themselves.
LinkIo(p, l) ==
  /\ pc = "exec" /\ cpu.wptr = p
  /\ User[l] = p
  /\ alt[p] = "none"
  /\ Awaits(p, l)
  /\ st' = [st EXCEPT ![p] = "link"]
  /\ pc' = "start" /\ ret' = "tickHi"
  /\ UNCHANGED <<slot, altVars, parVars>>

\* insert() puts the current process somewhere into the timer queue of its
\* priority.
Inserted(p) == {[On EXCEPT !.tq[cpu.pri] = InsertAt(@, i, p)] :
                  i \in 1..(Len(cpu.tq[cpu.pri]) + 1)}

\* tin, when its time has not come.
Tin(p) ==
  /\ Executes(p)
  /\ p \in Sleeper /\ alt[p] = "none"
  /\ \E s \in Inserted(p) : cpu' = Deschedule(s)
  /\ st' = [st EXCEPT ![p] = "timer"]
  /\ UNCHANGED <<ret, chan, slot, altVars, parVars>>

-----------------------------------------------------------------------------
(* ALT                                                                     *)

\* alt or talt.  The condition of a SKIP guard is true or false.
Alt(p) ==
  /\ Executes(p)
  /\ p \in Alter /\ alt[p] = "none"
  /\ cpu' = On
  /\ slot' = [slot EXCEPT ![p] = "Enabling"]
  /\ alt' = [alt EXCEPT ![p] = "enabling"]
  /\ guards' = [guards EXCEPT ![p] = Guards(p)]
  /\ \E g \in SUBSET (Guards(p) \cap {Skip}) : open' = [open EXCEPT ![p] = g]
  /\ UNCHANGED <<ret, chan, chosen, parVars, st>>

\* Guard g of p's ALT is enabled.
Enables(p, g) ==
  /\ Executes(p)
  /\ alt[p] = "enabling" /\ g \in guards[p]
  /\ cpu' = On
  /\ guards' = [guards EXCEPT ![p] = @ \ {g}]
  /\ UNCHANGED <<ret, alt, open, chosen, parVars, st>>

Enbc(p, c) ==
  /\ c \in Chan /\ Enables(p, c)
  /\ chan' = IF chan[c] = NoProc THEN [chan EXCEPT ![c] = p] ELSE chan
  /\ slot' = IF chan[c] \in {NoProc, p} THEN slot ELSE [slot EXCEPT ![p] = "Ready"]

Enbt(p) == Enables(p, Time) /\ UNCHANGED <<chan, slot>>

Enbs(p) ==
  /\ Enables(p, Skip)
  /\ slot' = IF Skip \in open[p] THEN [slot EXCEPT ![p] = "Ready"] ELSE slot
  /\ UNCHANGED chan

\* altwt or taltwt, which puts the process into the timer queue.
Altwt(p) ==
  /\ Executes(p)
  /\ alt[p] = "enabling" /\ guards[p] = {}
  /\ IF slot[p] = "Ready"
     THEN cpu' = On /\ UNCHANGED <<slot, st>>
     ELSE /\ \E s \in IF p \in Timed THEN Inserted(p) ELSE {On} : cpu' = Deschedule(s)
          /\ slot' = [slot EXCEPT ![p] = "Waiting"]
          /\ st' = [st EXCEPT ![p] = "alt"]
  /\ alt' = [alt EXCEPT ![p] = "disabling"]
  /\ guards' = [guards EXCEPT ![p] = Guards(p)]
  /\ chosen' = [chosen EXCEPT ![p] = NoProc]
  /\ UNCHANGED <<ret, chan, open, parVars>>

\* Guard g is disabled, and its branch taken if it is the first that is ready.
Disables(p, g, ready) ==
  /\ Executes(p)
  /\ alt[p] = "disabling" /\ g \in guards[p]
  /\ cpu' = On
  /\ chosen' = IF ready /\ chosen[p] = NoProc THEN [chosen EXCEPT ![p] = g] ELSE chosen
  /\ guards' = [guards EXCEPT ![p] = @ \ {g}]
  /\ UNCHANGED <<ret, slot, alt, parVars, st>>

Disc_OwnWord(p, c) ==
  /\ c \in Chan /\ Disables(p, c, chan[c] # NoProc)
  /\ chan' = IF chan[c] = p THEN [chan EXCEPT ![c] = NoProc] ELSE chan
  /\ UNCHANGED open

Disc(p, c) ==
  /\ c \in Chan /\ Disables(p, c, chan[c] \notin {NoProc, p})
  /\ chan' = IF chan[c] = p THEN [chan EXCEPT ![c] = NoProc] ELSE chan
  /\ UNCHANGED open

\* The time may have passed although no timer has woken the process.
Dist(p) ==
  \E o \in {open[p], open[p] \cup {Time}} :
    /\ Disables(p, Time, Time \in o)
    /\ open' = [open EXCEPT ![p] = o]
    /\ UNCHANGED chan

Diss(p) == Disables(p, Skip, Skip \in open[p]) /\ UNCHANGED <<chan, open>>

\* altend jumps to the branch selected, which inputs from its channel, if it
\* has one.
Altend(p) ==
  /\ Executes(p)
  /\ alt[p] = "disabling" /\ guards[p] = {}
  /\ cpu' = On
  /\ alt' = [alt EXCEPT ![p] = IF chosen[p] \in {Time, Skip} THEN "none" ELSE "chosen"]
  /\ UNCHANGED <<ret, chan, slot, guards, open, chosen, parVars, st>>

-----------------------------------------------------------------------------
(* PAR                                                                     *)

\* A process sets up a PAR by stores of its own (the program is external): the
\* join word is the number of its branches, of which it is one itself.
BeginPar(p) ==
  /\ Executes(p)
  /\ alt[p] = "none" /\ join[p] = 0 /\ Kids(p) # {}
  /\ \A q \in Kids(p) : st[q] = "unborn"
  /\ cpu' = On
  /\ join' = [join EXCEPT ![p] = Cardinality(Kids(p)) + 1]
  /\ unstarted' = [unstarted EXCEPT ![p] = Kids(p)]
  /\ UNCHANGED <<ret, chan, slot, altVars, st>>

Startp(p, q) ==
  /\ Executes(p)
  /\ alt[p] = "none" /\ q \in unstarted[p]
  /\ cpu' = Schedule(On, q, slot[q])
  /\ unstarted' = [unstarted EXCEPT ![p] = @ \ {q}]
  /\ st' = [st EXCEPT ![q] = "ready"]
  /\ UNCHANGED <<ret, chan, slot, altVars, join>>

\* The booted process starts a process that is no branch of a PAR.
Runp(p, q) ==
  /\ Executes(p)
  /\ p = Boot /\ alt[p] = "none"
  /\ q # Boot /\ Parent[q] = NoProc /\ st[q] = "unborn"
  /\ cpu' = Schedule(On, q, slot[q])
  /\ st' = [st EXCEPT ![q] = "ready"]
  /\ UNCHANGED <<ret, chan, slot, altVars, parVars>>

\* The PAR process p is a branch of.
Join(p) == IF Parent[p] = NoProc THEN p ELSE Parent[p]

LastBranch(p) == join[Join(p)] = 1

\* The last branch to end goes on as the process after the PAR.
Endp(p) ==
  LET j == Join(p) IN
  /\ Executes(p)
  /\ alt[p] = "none" /\ join[j] > 0 /\ unstarted[p] = {}
  /\ join' = [join EXCEPT ![j] = @ - 1]
  /\ IF LastBranch(p)
     THEN cpu' = [On EXCEPT !.wptr = j]
     ELSE cpu' = [On EXCEPT !.snp = TRUE]
  /\ st' = [q \in Proc |-> IF q = j /\ LastBranch(p) THEN "ready"
                           ELSE IF q = p THEN IF p = j THEN "joining" ELSE "unborn"
                           ELSE st[q]]
  /\ UNCHANGED <<ret, chan, slot, altVars, unstarted>>

Stopp(p) ==
  /\ Executes(p)
  /\ alt[p] = "none" /\ p # Boot /\ Parent[p] = NoProc
  /\ cpu' = Deschedule(On)
  /\ st' = [st EXCEPT ![p] = "unborn"]
  /\ UNCHANGED <<ret, chan, slot, altVars, parVars>>

Instruction(p) ==
  \/ Prefix(p) \/ Other(p) \/ Jump(p) \/ Tin(p)
  \/ \E c \in Chan : In(p, c) \/ Out(p, c) \/ Enbc(p, c) \/ Disc(p, c)
  \/ \E l \in Link : LinkIo(p, l)
  \/ Alt(p) \/ Altwt(p) \/ Altend(p)
  \/ Enbt(p) \/ Enbs(p) \/ Dist(p) \/ Diss(p)
  \/ BeginPar(p) \/ Endp(p) \/ Stopp(p)
  \/ \E q \in Proc : Startp(p, q) \/ Runp(p, q)

Next == TickHi \/ TickLo \/ Start \/ Server \/ \E p \in Proc : Instruction(p)

Spec == Init /\ [][Next]_vars

\* The processor does not stop, a timeslice comes to its end, and no program
\* goes on for ever without a j or lend, or stays in the middle of an ALT.
AltStep(p) ==
  \/ Altwt(p) \/ Altend(p) \/ Enbt(p) \/ Enbs(p) \/ Dist(p) \/ Diss(p)
  \/ \E c \in Chan : Enbc(p, c) \/ Disc(p, c)

Fairness ==
  /\ WF_vars(Next)
  /\ SF_vars(TickLo /\ cpu'.slice)
  /\ \A p \in Proc : SF_vars(Jump(p)) /\ SF_vars(AltStep(p))

FairSpec == Spec /\ Fairness

-----------------------------------------------------------------------------
(* Properties                                                              *)

Times(q, p) == Cardinality({i \in DOMAIN q : q[i] = p})

\* p is the current process, and is to execute the next instruction.
Current(p) == cpu.wptr = p /\ cpu.pri # "None" /\ ~cpu.snp

\* In how many places the scheduler would find p to run it.
Runs(p) ==
  Times(cpu.rq["Hi"], p) + Times(cpu.rq["Lo"], p)
  + (IF cpu.saved.wptr = p THEN 1 ELSE 0) + (IF Current(p) THEN 1 ELSE 0)

\* Type invariant.  A process is on queues of its own priority only.
TypeOK ==
  /\ pc \in {"tickHi", "tickLo", "start", "server", "exec"}
  /\ ret \in {"exec", "tickHi"}
  /\ cpu.wptr \in Proc /\ cpu.pri \in Level \cup {"None"}
  /\ cpu.snp \in BOOLEAN /\ cpu.int \in BOOLEAN /\ cpu.slice \in BOOLEAN
  /\ cpu.saved \in [wptr : (Proc \ HiProc) \cup {NoProc}, snp : BOOLEAN]
  /\ \A l \in Level : /\ cpu.rq[l] \in Seq({p \in Proc : Pri[p] = l})
                       /\ cpu.tq[l] \in Seq({p \in Proc : Pri[p] = l})
  /\ chan \in [Chan \cup Link -> Proc \cup {NoProc}]
  /\ slot \in [Proc -> Slot] /\ st \in [Proc -> State]
  /\ alt \in [Proc -> {"none", "enabling", "disabling", "chosen"}]
  /\ guards \in [Proc -> SUBSET (Chan \cup {Time, Skip})]
  /\ open \in [Proc -> SUBSET {Time, Skip}]
  /\ chosen \in [Proc -> Chan \cup {Time, Skip, NoProc}]
  /\ join \in [Proc -> Nat] /\ unstarted \in [Proc -> SUBSET Proc]

\* Every process that can run is found by the scheduler in exactly one
\* place, and no other process in any: none is lost, none runs twice.
RunsOnce == \A p \in Proc : Runs(p) = IF st[p] = "ready" THEN 1 ELSE 0

\* Only a process that is neither waiting nor ended executes instructions,
\* and at its own priority.
OnlyReadyExecute ==
  pc = "exec" => st[cpu.wptr] = "ready" /\ cpu.pri = Pri[cpu.wptr]

\* A process waits for a time.
Sleeps(p) == st[p] = "timer" \/ (st[p] = "alt" /\ p \in Timed)

\* A process that waits can be woken: a sleeper is on its timer queue once,
\* and nobody else is; no sleeper is taken for an ALT that is ready, and purged
\* from the queue by its own wake-up; a process waiting to communicate is in
\* the word of one of its channels.
WaitersFindable ==
  \A p \in Proc :
    /\ Times(cpu.tq[Pri[p]], p) = IF Sleeps(p) THEN 1 ELSE 0
    /\ Sleeps(p) => slot[p] # "Ready"
    /\ st[p] = "comm" => \E c \in Chan : p \in {Reader[c], Writer[c]} /\ chan[c] = p
    /\ st[p] = "link" => \E l \in Link : User[l] = p /\ chan[l] = p
    /\ st[p] = "alt"  => \A c \in Chan : Reader[c] = p => chan[c] = p

\* Low priority processes run only when no high priority process can.
HiFirst == cpu.pri = "Lo" => cpu.rq["Hi"] = <<>> /\ cpu.saved.wptr = NoProc

\* An ALT that goes on has a branch to take: altend never jumps by
\* NoneSelected, and the writer of the chosen channel is waiting.
AltChooses ==
  \A p \in Proc :
    /\ alt[p] = "disabling" /\ guards[p] = {} => chosen[p] # NoProc
    /\ alt[p] = "chosen" => chan[chosen[p]] = Writer[chosen[p]]

\* The join word counts the branches of a PAR that have not ended, so the
\* successor starts when the last has, and not before.
JoinCounts ==
  \A p \in Proc :
    LET live == {q \in Kids(p) : st[q] # "unborn" \/ q \in unstarted[p]} IN
    /\ join[p] > 0 => join[p] = Cardinality(live) + IF st[p] = "joining" THEN 0 ELSE 1
    /\ join[p] = 0 => live = {} /\ st[p] # "joining"

\* Timeslicing is fair: among processes of low priority, each one that can
\* run does.
EveryReadyRuns ==
  \A p \in Proc : st[p] = "ready" ~> pc = "exec" /\ cpu.wptr = p

\* Between a prefix and the instruction it belongs to no low priority
\* process is interrupted: the operand register is not saved.
PrefixAtomic ==
  [][cpu.pri = "Lo" /\ ~cpu.int /\ pc # "exec" =>
       cpu'.wptr = cpu.wptr /\ cpu'.saved = cpu.saved]_vars
=============================================================================
