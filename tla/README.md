# Picoputer: a TLA+ verification development

The picoputer is a transputer emulated on a Raspberry Pi Pico: the T414/T800
emulator of `picoputer/p.c` with INMOS links driven by the Pico's PIO state
machines. It is booted over a link, usually through an Arduino with an INMOS
C011 link adapter (`ard-link-monitor/`), which a host server
(`ardlink-server/`) drives over a serial line.

These modules model what makes the machine a *parallel* computer, the links and
the process scheduler; the chain from the host's boot file to the program's calls; and
the integer instructions. Paths below are relative to the repository's root.

## 1. Inventory

| part | code | state it keeps | operations | talks to |
|---|---|---|---|---|
| Link protocol | `picoputer/server.c` `linkloop`, `send_linkout_message`, `receive_linkin_message` | `LinkOut[i]` (source, length, `ack_wait`, `done_on_ack`, channel word), `LinkIn[i]` (destination, length, `have_stored`, `stored_byte`, channel word) | one call of `linkloop()` sends at most one byte and fetches at most one packet per link | scheduler (`schedule`), PIO FIFOs |
| Link wire format | `picoputer/picoputer.pio`, `get_data_from_link` | shift registers of two PIO state machines | a start bit, ten bits, two idle bits out; ten bits in | the C011's own packets |
| Process scheduler | `picoputer/p.c` `mainloop`, `update_time`, `start_process`, `run_process`, `schedule`, `deschedule`, `D_check`, `interrupt`, `purge_timer` and the communication, ALT and PAR instructions | `WPtr`, `ProcPriority`, `STATUSReg` (`GotoSNP`), `IntEnabled`, `timeslice`, two run queues, two timer queues, the saved low priority process, channel words, `State_s`/`Pointer_s` of each workspace | one instruction per iteration, between two looks at the timers and `GotoSNP` | links (`server()` is called from the idle loop and from `j`/`lend`) |
| Timer queues | `p.c` `insert`, `purge_timer`, `update_time`, `tin` | `ClockReg0/1`, `TPtrLoc0/1`, `TLink_s`, `Time_s` | insert by time, purge, wake | scheduler |
| Run queue lists | `p.c` `schedule`, `run_process` | `FPtrReg0/1`, `BPtrReg0/1`, `Link_s` | append, take the head | scheduler |
| Integer instructions | `p.c`, `arithmetic.c` | evaluation stack, error flag | pure functions | - |
| Bootstrap | `picoputer1.c` 2505-2590, `server.c` `bootloop` | `link_in_data_fp`, `boot_length_remaining`, `boot_write_index`, `boot_done`, `WPtr` | the length byte, each byte of the bootstrap, its start | links, scheduler |
| Link adapter firmware | `ard-link-monitor.ino` `loop` | the C011's pins (`IValid`, `IAck`, `QValid`, `QAck`, the data pins), packet buffer | packets from the serial line to the pins, `IAck` and bytes from the pins to the serial line | C011, host server |
| Host server | `ardlink-server.c` `packet_loop`, `process_packet`, `process_sp_traffic` | `frame`, `frame_n`, `in_frame`, `handle_map`, open files | sends the boot file, collects the bytes of a request, serves it, sends the reply | adapter, files |
| Floating point, libm, memory, display, host ports | see `PROJECT.json` | | | not modelled |

What is hard here, and hard to test:

- *Links*: two independent directions share each wire with the other's ACKs; a
  byte may arrive before a process wants it (`have_stored`); the last ACK, not
  the last byte, releases a sender; `linkloop()` is called at unpredictable
  points of the program.
- *Scheduler*: a timer or a link may make a high priority process ready in any
  iteration of `mainloop()`, including the one between an instruction that
  descheduled its process (`SetGotoSNP`) and the `start_process()` that acts on
  it. ALT is a protocol of several instructions of one process which outputs of
  others meet at any point. The same workspace word is `State_s`, `Pointer_s`,
  or left over.
- *Timers*: times are words that wrap, compared as signed differences.
- *The chain to the host*: three programs, two of which poll, paced by nothing but
  ACKs. The host's `packet_loop()` is entered from inside itself: while it waits
  for an ACK it throws away any data it reads. The adapter looks at `IAck` and
  `QValid` one after the other, with time for several bytes between, so the order in which it
  reports them is not that in which they happened. Requests and replies carry their own lengths, on which
  two programs by different people have to agree.
- *Arithmetic*: carries between the words of a long operand, and the most negative word.

What makes each part correct: a link is a rendezvous that loses, repeats and
reorders nothing, lets nobody go on early and everybody in the end; every
process that can run is found by the scheduler in exactly one place, and every
process that waits can be found by what will wake it; low priority never runs
when high priority can; timer queues hold the sleepers in order and wake them in
time; a byte from the host is never overwritten, each call of the program
is served once and answered as a whole, and the program that starts is the one in the boot
file; an integer instruction is exact or sets the error flag. `PROJECT.json` lists the hazards with their lines and the properties aimed
at each.

## 2. Modules

| module | models |
|---|---|
| `ByteChannel` | abstract specification: what a link promises to the processes at its ends |
| `Link` | `linkloop()` at picoputer ends, the C011 at the others, PIO FIFOs between them |
| `LinkProofs` | theorems about `Link` |
| `LinkWire` | one direction of a link bit by bit |
| `LinkWireProofs` | theorems about the words of `LinkWire` and the bits they are sent as |
| `Scheduler` | `mainloop()` and everything that starts, stops, wakes and connects processes |
| `SchedulerProofs` | theorems about `Scheduler` |
| `TimerQueue` | one timer queue with its pointers and a clock of any width |
| `TimerQueueProofs` | theorems about `TimerQueue` |
| `Cables` | the serial line and the link between host, adapter and picoputer |
| `LinkAdapter` | `loop()` of the Arduino and the pins of the C011 |
| `SpProtocol` | what the host server does with one request |
| `HostServer` | how it boots, waits for ACKs, collects requests and sends replies |
| `Picoputer` | the bootstrap, and a program that makes calls |
| `HostSystem` | the chain of these three |
| `HostSystemProofs` | theorems about `HostSystem`: the way a byte goes, and the boot file |
| `SpProofs` | lemmas about the requests and replies of `SpProtocol` |
| `HostCallProofs` | theorems about the calls: `HostSystem` implements `SpCall` |
| `SpCall` | abstract specification: a call, served once and answered |
| `Arithmetic` | the routines of `arithmetic.c`, for words of any width |
| `EvalStack` | the three registers, the error flag and the integer instructions |
| `ArithmeticProofs` | theorems about `EvalStack` |
| `MCLink`, `MCWire`, `MCScheduler`, `MCTimer`, `MCHost`, `MCArith` | the instances TLC checks |

Definitions named `X_Fault` are plausible bugs in `X` (a dropped guard, a missing
reset, an off-by-one). Nothing uses them: each replaces `X` in an experiment that
shows a property to depend on `X` (`PROJECT.json`, `mutants`).

### Link

`linkloop()` is one action with two halves, as in the code: `SendHalf` computes
what the first half does (`MaySend`), and exactly one of `TakeStored`,
`FetchAck`, `FetchWanted`, `FetchUnwanted`, `NothingFetched` is the second; the
ACK is appended after the byte the same call may have sent. `out` and `in` leave
a descriptor in the channel word and a message or length in the structure. One
boolean stands for a channel word, because a link has one process per
direction. `Sequential` ends have a single process for both directions. The C011
(external) sends when nothing is unacknowledged, takes ACKs always and
acknowledges a byte when its user takes it. A picoputer is wired only to a C011:
section 4 says why two picoputers do not understand each other. Messages are at
least one byte long. The idle `else` branch of an unexpected ACK is not an action:
`StopAndWait` shows it cannot be reached. The bytes of a message have no address.

### LinkWire

A step is one bit time. `PicoFrame` is the line as `picoputerlinkout` drives it,
`PicoSample` the state machine `picoputerlinkin`, `Decode` is
`get_data_from_link()`; `ChipFrame` and `ChipSample` are the C011's packets.
`Quiet = 9` says that a C011 leaves the line idle nine bit times after a
packet: its user, an Arduino, needs several microseconds to present the next
byte, and bit times are a tenth of one. Without it an ACK followed at once by a
packet would be sampled as one word. A picoputer's ACK word, `0x2ff`, contains a
second `10` eight bit times later. A C011 that hears it has nothing outstanding
any more, so `Link` does not model it, and `MCWire` leaves ACKs from a picoputer
to a C011 out. `isr` is the word the sampled bits make so far and `x` how many there are
(`picoputerlinkin` counts the other way, from 9 down).

### Scheduler

`pc` walks through one iteration of `mainloop()`: `tickHi` and `tickLo` are the
two halves of `update_time()`, `start` and `server` the loop of
`start_process()`, `exec` the execution of one instruction. `ret` is where
`start_process()` returns to, because `in` and `out` on a link call it
directly. `cpu` has the registers; run queues and timer queues are sequences.

- Programs are not modelled. A process executes any instruction an occam program
  may contain at that point; constants say who may use which channels, ALT,
  timers, links and jumps, and who is whose branch in a PAR.
- Clocks are not modelled here: the head of a timer queue may be found expired at
  any look, `tin` and `taltwt` insert at any position. `TimerQueue` has the order.
- An ALT is the sequence of instructions a compiler emits: `alt` or `talt`, one
  `enbc`, `enbt` or `enbs` per guard, `altwt` or `taltwt`, one `disc`, `dist` or
  `diss` per guard, `altend`, and the input from the channel chosen. `open` has the
  condition of a SKIP guard, and the time of a time guard once it has passed. The
  conditions of channel and time guards are true.
- `slot` is the workspace word `State_s`, which is also `Pointer_s`: an ALT state
  or `other`. Words start as `other`.
- The link is one hard link, with two channels. `LinkFreed` is what `linkloop()` does to the scheduler: it completes at most one
  transfer per call. That is an abstraction of `Link`, whose `FetchAck` and
  `Deliver` clear the channel word in the same steps.
- `init_processor()` does not set the run queue pointers; a booted program is
  assumed to do so (`sthf`, `stlf`, ...) before its first scheduling instruction.
- `Stopp` and an ended branch make a workspace `unborn`: it can be started again,
  with whatever its words hold.

### TimerQueue

`Walk` is the loop of `insert()` with the variables `ptr`, `nextptr` and
`timetemp`, including that from the second round on the time compared is `ptr`'s.
`Time_s` is the time asked for plus one. `due` is history: the ticks until the time
asked for. `Wake` is a round of the loop of `update_time()`: `schedule()` first, which reads
`State_s` of the process it is given and, where it finds `Ready_p`, purges the process of `wptr`
(`WPtr`, who ran last), and then the step to the next on the list. `Stale` is
the set of processes that may have `Ready_p` left in `State_s`: those that take ALTs besides. Setting the clock
(`sttimer`) is left out.

### HostSystem

`HostSystem` composes `HostServer`, `LinkAdapter` and `Picoputer` over the
variables of `Cables`, one step of one machine at a time. A byte on the link stays in `down`
or `up` until it is acknowledged: the protocol below that is `Link`, which
implements `ByteChannel`. A packet on the serial line is the sequence of the numbers in
it: none in an ACK, one in a byte.

- `HostServer`. `sending` is the rest of the `send_byte()` calls of the loop or
  case being executed, and `awaiting` whether control is in the
  `packet_loop(link, done_on_ack)` after one of them. `ProcessPacket` is the outer
  `packet_loop(link, process_packet)`: it sends the ACK first and then does what the
  byte completes. The host computes a whole reply when the request is complete and
  sends it afterwards; in the code each byte is sent as it is read from the
  file, which is the same because nobody else uses the file. `sscanf()` of a stray ACK leaves
  its variable unset (`Garbage`).
- `SpProtocol` has the cases that reply, with what they get wrong: the length of
  `SP_READ`, the last character `SP_GETS` strips whether or not it is a newline,
  the count `SP_PUTS` takes from the length of the frame, `SP_OK` for a file that is not
  there, and that nothing takes a stream out of `handle_map`. A stream number out of range
  ends the server at once (`Exits`, `Crash`), a `NULL` stream when it is used: `SP_READ` has sent five bytes of
  its reply by then, `SP_WRITE` of no bytes does not use it. A NUL in the line that `SP_GETS` reads ends it.
  Console input is a line somebody types.
- `LinkAdapter`. A pass of `loop()` is `ReadSerial`, the look at `IAck` (`LookAtIAck`), the look at
  `QValid` (`LookAtQValid`) and, if that was high, the busy loop (`QValidFell`). The two looks
  are steps of their own: a `digitalRead()` takes several microseconds, and the link carries a byte in a little more
  than one, so an ACK and the byte after it may both come in between. Numbers of more than
  two digits are not data packets (`Shown`). The C011 is external.
- `Picoputer`. `BootStart` and `BootLoad` are the two values of
  `link_in_data_fp`; `StartProgram` is `init_processor()`. Addresses count
  from `MemStart`. The program is external: it reads the rest of the boot file, as the second
  stage of a loader does, and then makes calls.
- `SpCall` says what all this is for. Under the refinement mapping of `HostSystem` a call
  is served when `served` is ahead of `calls`, and `result` is what has returned.

### Arithmetic and EvalStack

`Arithmetic` has the 64-bit variants of the routines, which the build uses (`HAVE_UINT64`), with
the width of a word a parameter; `Pow2` gives the weights of the bits, so that no
definition is recursive and proofs can be made about them. `t4_carry`, `t4_overflow` and
`t4_normlen` are fields of the result. `EvalStack` has one operator per instruction,
from registers to registers. `ldc` pushes any word and so
stands for all loads. Instructions that only make addresses, operate bitwise, or stop
the machine on an error are left out. Prefixes are in `Scheduler`; here the operand is any word.

## 3. Runs

| run | instance | what it shows |
|---|---|---|
| `MCLink` | one picoputer, one C011, two byte values, messages of 1-2 bytes, 2 bytes sent by the picoputer and 3 by the C011 | stop-and-wait, short FIFOs, order, nobody stranded, rendezvous, `Link` implements `ByteChannel`, and (with fairness) every sender goes on |
| `MCLinkSeq` | the picoputer has one process | **violation**: an ACK is not processed while an unwanted byte is stored |
| `MCWire` | picoputer to C011 with data, C011 to picoputer with data and ACKs; 18 bytes, 3 packets | each packet is understood, none split or merged |
| `MCSchedPar` | a PAR of three at low priority, ALT over two channels, a timer, the link, timeslices | `RunsOnce`, `WaitersFindable`, and (with fairness) `EveryReadyRuns` |
| `MCSchedPri` | two low priority processes, one of high; an ALT over channels from both with a SKIP guard, one with a time guard, the link in both directions | the same across interrupts, and `AltChooses`, `OnlyReadyExecute`, `HiFirst` |
| `MCSchedHi` | two high priority processes, one of which sleeps, over one low priority process | `RunsOnce`, and no interrupt inside a prefixed instruction |
| `MCSchedInt` | high priority sleeper, two timesliced processes | **violation** of `RunsOnce` |
| `MCTimer` | three sleepers, none of which takes ALTs, a clock of four bits (`Half = 8`), delays up to 5, clock steps up to 3 | the list is the set of sleepers, sorted, on time, never early |
| `MCHost` | a boot file with a bootstrap of three bytes and two more; three calls out of eight kinds, and three kinds that leave the two ends out of step as the last one | bytes are flow controlled, the bootstrap is stored whole, replies end where the program thinks they do, at most the first byte of a request is thrown away and that stops the call, streams keep their file, the chain implements `SpCall`, and (with fairness) the program starts and its calls are answered unless that byte is lost |
| `MCHostAck` | a program that writes a line on the console | **violation** of `HostAcknowledges` |
| `MCHostRead` | a program that opens a file and reads from it | **violation** of `InStep` |
| `MCArith` | words of four bits, all operands, any sequence of instructions | type correctness; sums, double-length sums, products, quotients, remainders, fractions and changes of length are exact or set the error flag |

Why the bounds are enough. *Link*: three bytes make a two-byte message followed
by another one, two make a two-byte message or two messages, and both directions
are busy at once, so that every interleaving of a byte, an ACK for the other
direction and a stored byte occurs; at most one byte per direction is ever in
flight, so longer messages repeat the same states.
*Wire*: the bytes have one bit set, one clear, none, or all, so that no bit
position can be exchanged, lost or inverted unseen; three packets follow one another
with every pause up to the longest that matters. *Scheduler*: three processes are
the fewest for an ALT between two writers, a PAR with a branch that ends first,
and a queue with a second place while one runs. *TimerQueue*: three sleepers
reach each branch of `insert()`, and the clock goes round.
*Host*: two calls are the fewest for the end of a reply to matter to the next one, and
three for two streams and an access; a bootstrap of three bytes
leaves the first word incomplete, and the bytes that follow it show that the host's loop goes on across
the start of the program. `MAX_HANDLE_MAP` is 6, so a third stream fits and no
call finds the map full. *Arithmetic*: with four bits all pairs of operands,
all carries and all pairs of double-length operands occur; the routines treat no
width specially, and the theorems of section 5 are about every width.

The passing scheduler runs leave out what is known to fail; each restriction is a
constant of the configuration:

- no ALT has both a time guard and channels. With one, `RunsOnce` fails (a timer ALT woken by its
  timer keeps the state `Waiting_p`, so an output that comes before it has run
  schedules it again, p.c:1223), and so does `WaitersFindable` (`schedule()` tests
  the state of the process scheduled and purges the *current* one, `WPtr`, so an ALT woken by
  an output stays on the timer queue, p.c:3133);
- no process both uses ALT and sleeps by `tin` (`Alter` and `Sleeper` are
  disjoint): its state word still says `Ready_p`, and waking it purges the
  process that ran last from the timer queue (`schedule()`, p.c:3133, section 4);
- no process that does an ALT uses a link (`User`): while a transfer goes on,
  `State_s` still says `Ready_p`, which `receive_linkin_message()` and
  `send_linkout_message()` do not overwrite, so its end purges the
  process that ran last, too;
- where a high priority process sleeps there is no `j` (`Jumper = {}`,
  `MCSchedInt`), and the low priority process is never descheduled: `interrupt()`
  saves `STATUSReg` with `GotoSNP` set, which `run_process()` restores after
  `mainloop()` has tested the flag, so that the process executes one more
  instruction before it stops (`OnlyReadyExecute` fails);
- for the same reason no low priority process writes to a high priority ALT;
- `LoopsInAlt` is `FALSE`: with it, an ALT timesliced while it enables guards (a
  replicated ALT enables in a loop with `lend`) is queued twice by an output that
  finds it in state `Enabling_p`.

The calls of `MCHost` that leave the two ends out of step (`SP_READ`, a tag without
a reply, a short frame) come last, because after them the program
takes the wrong bytes for a length and the two have nothing more to say that makes sense. Its characters and
keys are below 128: a `char` above is a negative number, which the adapter does
not take for a packet, and the host waits for the ACK for ever
(`Answered` fails). Nor does `Answered` speak of a call whose first byte has been thrown away
(`dropped`), which `MCHostAck` shows and `LossStopsTheCall` bounds: the program comes no further than the second byte, and
the host neither reads nor serves a request with a byte missing. `MCTimer` has no `Stale` process and keeps
`Horizon` at `Half - 3`, the most for which the order holds: `insert()` compares `Time_s`, which is one later
than the time, with the time of someone who may be two ticks late; with longer delays `INT32(x - y) > 0`
takes the one for the other. That no look at the queue comes later than `Half - 2` ticks after
the last is the same for `update_time()` (`Ample`, section 5). `Sorted` allows the one tick that `Time_s` is late, and
`OnTime` the two ticks it takes to become visible.

### Fairness

- `Link`: weak fairness of `linkloop()`, which runs in the idle loop and in each
  `j` and `lend`; of the wire and of the chip, which run by themselves; and of
  `In`, because no link can complete a message nobody receives. Nothing is
  assumed of senders.
- `Scheduler`: weak fairness of `Next` (the processor does not stop); strong
  fairness of a timeslice coming to its end (the clock ticks), of a process's
  `j` or `lend`, and of the steps of an ALT it is in. The latter two
  are about programs: code is finite, so a process that executes for ever goes
  round a loop, and compilers close loops with `j` or `lend`; an ALT is a
  finite sequence of instructions. A loop closed by `cj` alone is never
  timesliced, by design, and is excluded (`Jumper`).
- `HostSystem`: weak fairness of each of the machines, which run by themselves,
  and strong fairness of `ReadSerial` with something to read: a pass of `loop()` may always find
  that a character has not arrived yet, but not for ever. `Answered` supposes
  that somebody types a line or presses a key when asked.

## 4. Findings

1. `MCLinkSeq`. `linkloop()` does not look at the FIFO while an unwanted byte is
   stored (server.c:863), so ACKs wait behind it, which the comment at 866 says must
   not happen. If both ends send first, and each has one process, they wait for
   ever.
2. `MCSchedInt`. After a timeslice the process is on its queue with `GotoSNP` set.
   A high priority timer in the next `update_time()` interrupts it: it is saved as
   well, and runs twice.
3. `MCHostAck`. The ACK of the last byte to the picoputer and the first byte of the next call both come
   between the two looks of `loop()`. The byte is reported first; the host still waits for that ACK in
   `packet_loop(link, done_on_ack)`, reads the byte and throws it away, and nobody acknowledges it: `QAck` stays high and
   the program waits for ever, although the comment at ard-link-monitor.ino:1272 counts on an ACK from the host.
4. `MCHostRead`. The reply to `SP_READ` announces two bytes fewer than it has; the
   program takes the rest for the length of its next reply.

Other disagreements that the modelling brought up, without a run of their own:
two picoputers wired to one another do not understand each other's ACKs
(`LinkWireProofs!AckReadAsData`: the ACK word is decoded as the byte `#80`,
although the comment at `picoputer.pio:7` speaks of two Picos connected together);
the two failures of an ALT with channels and a time (section 3); two of the timer queue, below; and the
bootstrap leaves `WPtr` at the last byte loaded, which `init_processor()` only
rounds up, so that with a length of 4n+1 the workspace begins on that byte.

- From its second round on the loop of `insert()` looks at the time of `ptr`, which it has passed
  already, where its comment says `nextptr` (p.c:3523, 3532). It takes four sleepers: on the list b, a, c with the
  times 1, 1 and 4 from the clock on, the walk of a fourth, d, for 2, passes a, and then c on the time of a once
  more, so that d is queued behind c, which is due later. With the time of `nextptr` it stops at a. (`Sorted` fails
  with a fourth sleeper for another reason, too: section 5.)
- `schedule()` purges the process of `WPtr` and not the one it schedules (p.c:3131). When `update_time()` wakes
  a sleeper whose `State_s` still holds the `Ready_p` of an ALT, the process that went to sleep last is taken off the
  list and sleeps for ever: `ListOfSleepers` fails with two sleepers of which one is `Stale`. `MCTimer` has none.

## 5. Proofs

TLC checked each inductive invariant below on the instances of section 3 before it was proved.
What the runs bound is a constant of the theorems. `Spec` is the specification with its fairness,
which no safety proof uses.

### Link

`LinkProofs`, for every set of ends wired in pairs, every set of bytes, every
bound on lengths and every FIFO of at least four words (`EndAssumption`,
`ByteAssumption`, `BoundAssumption` in `Link`):

- `TypeCorrect`: `Spec => []TypeOK`.
- `Invariance`: `Spec => []IInv`. `IInv` adds to `TypeOK` that each FIFO holds at
  most one byte and one ACK (`OneEach`), and for each end `DirAt`: of its
  transmit FIFO, the peer's receive FIFO, the peer's stored byte, and the ACKs on
  the way back at most one is occupied, `ack_wait` says whether one is, and the
  histories differ by just the byte that has not been taken. None of the properties
  is inductive by itself: `InOrder` needs to know that the byte in the FIFO is the
  missing one, and that no second one follows; that follows from `ack_wait`, which
  needs to know where the ACK is. `Direction` states this of eight values, so that the
  lemmas `DirSend`, `DirShift`, `DirReceive`, ... are about values and not about
  states; `TwoEnds` then lifts them to the two directions of one link.
- `LinkStopsAndWaits`, `FifosStayShort`, `BytesArriveInOrder` follow from `IInv`.
- `NobodyIsStranded` has its own invariant (`Bound`), step by step.
- `LinkIsRendezvous` is the action property, from both.
- `LinkIsChannel`: `Spec => ImplementsChannel`, the refinement of `ByteChannel` by each
  direction of a link. Every action maps to a step of the channel or to a stutter; that the last ACK is
  one that lets a sender go on, and that no ACK comes to an end that does not wait for one, needs
  `Owes` (an end with `ack_wait` has a transfer under way) besides `IInv` and `NobodyStranded`.

`LinkWireProofs`. Every data byte is decoded to itself; the ACK word of a
picoputer is decoded as `#80`. Then, for any bytes and any number of packets between
a picoputer and a C011 (`Wired`: only the C011 sends ACKs, which is what section 2 says of a
C011 that hears one, and `Quiet >= 9`):

- `WireInvariance`: `Spec => []WireInv`. `InPacket(p, j)` says that the `j`-th level of the packet
  `p` has been driven: what is left is the rest of the frame, and up to the tenth bit the
  receiver is inside the packet, has sampled `j - 1` bits and holds the low bits of what
  `p` carries; after that it is at rest and has heard `p`. `Understood` alone says nothing of what
  is in the shift registers.
- `FrameCarries`: a frame of any of the three kinds is a start bit, the ten bits of `Carried(p)`
  and levels of 1. For an ACK of a C011 eight of the ten are those of the idle line, which is
  what `Quiet` is for. `BitShiftedIn` and `WordIsRead` are the arithmetic: the bits
  shifted in make the word, and both receivers read the packet from it.
- `PacketsAreUnderstood` (`Understood`) and `TypeCorrect` follow: of data both ways and of the ACKs of the
  C011. Of the ACKs of a picoputer it says nothing: a C011 may take their second `10` for another one.

### Scheduler

`SchedulerProofs` has two groups. The first has no assumption on processes, channels, timers or ALTs, so it
is also about programs that the runs leave out:

- `Invariance`: `Spec => []IInv`. `IInv` says that `cpu` is the record of registers,
  that a low priority process is the current one only while the high priority queue and
  the interrupted process are empty (`Good`), that the idle loop runs with no current
  process (`IdleIsNone`), and where `start_process()` can return to. Each function of
  the scheduler has a lemma that it preserves `Good` (`ScheduleGood`,
  `RunProcessGood`, `DCheckGood`, ...), each instruction a step that it changes `cpu` by
  these functions only.
- `HighPriorityFirst`: `Spec => []HiFirst`, from `Good`.
- `PrefixesAreAtomic`: `Spec => PrefixAtomic`. It needs `IdleIsNone`: `server()` could
  otherwise complete a transfer, and interrupt, where `IntEnabled` is not looked at.

The second is about where a process is to be found, for any number of processes, channels, links,
ALTs and PARs of the programs that section 3 restricts the runs to (`Restricted`: nobody of high
priority sleeps or does an ALT; nobody does both, nor an ALT and a link; no ALT has both
a time and channels; no timeslice ends inside an ALT). `MCSchedPar` and `MCSchedPri` are
instances of it; `MCSchedHi` and `MCSchedInt` are not. Section 3 says what goes wrong without each of them. The first is
wider than it has to be: it leaves out also an ALT of high priority whose writers are all of high priority.

- `PlacesInvariance`: `Spec => []PlaceInv`. Its centre is `Placed(s, R, T)`: of the registers `s`,
  the processes in `R` can be run, each from exactly one of current process, interrupted process
  and the queue of its priority, nobody else can, and the low priority timer queue lists `T`.
  Every function of the scheduler has a lemma on how it changes `R` and `T`: `schedule()` adds
  one to `R`, `deschedule()` takes one out, `insert()` adds to `T`, and so on;
  `Places` says that `R` is who is ready and `T` who sleeps. To know that whoever is
  scheduled was not in `R` before takes the rest of the invariant: the word of a channel holds somebody who
  waits there, or the reader in the middle of its ALT (`ChanWords`); that of a link its user
  (`LinkWords`); the state word of a process that does an ALT says in which phase it is and, with
  `guards`, `open` and `chosen`, which guard is ready (`Alts`); while it enables guards it is the
  current process, so no other can run an instruction in between (`EnablingRuns`); the branches that
  a PAR has not started yet are unborn and the join word counts the others (`Joins`). `RunsOnce` is not
  inductive without `ChanWords`, that is not without `Alts`, which needs `EnablingRuns`, hence `Places`
  again: they are proved together, one lemma per instruction and conjunct.
- `RunnableOnce`, `WaitersAreFound`, `ReadyExecute`, `JoinWordCounts` (`JoinCounts`, which no run checks:
  `endp` is one instruction, and nothing comes between its steps), `TypeCorrect` follow,
  and `AltTakesABranch` for ALTs that have guards (`Guarded`): an `altend` finds
  a branch, and the writer of the channel chosen is still there.

### Timer queues

`TimerQueueProofs`, for any number of sleepers, any width of the clock, delays of less
than half its range and looks at the queue less than half of it apart (`TimerAssumption`):

- `Invariance`: `Spec => []TimeInv`. `TimeInv` says that `Time_s` of a sleeper is, modulo the
  range of the clock, `ClockReg` plus the ticks still to wait and the one that `insert()`
  adds, and that no more than `Horizon` ticks are to wait. `NeverEarly` alone says nothing of what is
  written in `Time_s`, on which the wake-up decides.
- `NobodyIsWokenEarly`: `Spec => NeverEarly`. A time that `INT32(ClockReg - Time_s) > 0` passes
  is at most half a turn behind, so it cannot be one that is still ahead (`PassedIsDue`). Nothing is
  used of the order of the list, so this holds with four sleepers too, where `Sorted` fails, and with `Stale` ones.
  What follows is about sleepers of which none is `Stale` (`NoneStale`): section 4 says why.
- `ListInvariance`: `ListInv` says that some sequence of as many places as there are sleepers leads
  from `TPtrLoc` along `TLink_s` through each of them once (`Path`). `PathInsert` and its converse say what
  writing a link or two does to such a sequence; `Walk`, the loop of `insert()`, keeps `ptr` and `nextptr`
  neighbours in it and ends. These are recursive functions: that they
  exist (`Recursion`) and what holds of all their values is proved by `SetInduction`, which
  is induction on a set of numbers, from the theorem that such a set has a least element (`WFMin`).
- `ListHoldsTheSleepers` (`ListOfSleepers`) and `TypeCorrect` follow.
- `OrderInvariance`, for at most three processes (`FewSleepers`; with a fourth `Sorted` is false: `insert()` can put one behind
  another that is due later (section 4), and, since `Time_s` is one more than the time while the comparison is strict, put
  one in front of another that is due a tick earlier, twice in a row) and delays and clock steps two or three ticks short of half the range (`Ample`). With `TimeInv` and
  `ListInv` goes `OrderInv`: the head is due first and neighbours are in order, to within a tick (`InOrder`),
  and nobody is later than two ticks and what the clock has gone on since the last look (`NotLate`).
  `Sorted` needs the times to be less than half the range apart, which is `NotLate`;
  `OnTime` needs that nobody behind a head that is not late is later than it, which is `InOrder`: neither is
  inductive alone. `AfterIsOrder` says when `After` is the order of two times, `ShortWalk` where the loop
  of `insert()` stops, `OrderWithout` that taking one out keeps the order. `InOrder` speaks of the head and of neighbours
  only, which is the whole order for three and not for four; that is where `purge_timer()` and
  the wake-up, and not only `insert()`, need `FewSleepers`.
- `ListIsSorted` (`Sorted`) and `NobodyIsLate` (`OnTime`) follow.

### The chain to the host

`HostSystemProofs`, for every boot file, program, set of calls and files, and every
answer the host can give (`NoByteAssumption`: no byte on the link is not a byte):

- `Invariance`: `Spec => []IInv`. `IInv` says that a serial line holds at most one byte and
  one ACK (`AtMostOneEach`), and for each direction that the byte, or the ACK it is owed, is in
  one place only: downwards (`DownInv`) on the serial line, on the I pins, on the link or on
  its way back, with `awaiting` as long as it is in any of them; upwards (`UpInv`) the same for the
  Q pins. `FlowControlled` is not inductive by itself: that the host has no second byte
  to send depends on where the ACK of the first one is, and that the serial line to the
  adapter stays short on ACKs and bytes not meeting a second of their kind. The
  content of messages plays no part, so that the theorem holds also for programs that disagree
  with the host on the length of a reply, where `InStep` fails.
- `ByteFlowIsControlled`: `Spec => []FlowControlled`, from `IInv`.
- `BootFileArrives`: `Spec => []BootImage`, for every boot file that fits the memory
  (`BootAssumption`, `MemoryAssumption`). With `IInv` goes `BootInv`: what the host has still to send,
  what is between (`DownStream`), and what the picoputer has taken (`BootTaken`) make up the boot file,
  and the memory or `rest` holds the latter. As long as the picoputer boots nothing comes
  up to the host (`BootQuiet`), so nothing makes it send anything else.

`HostCallProofs`, for calls that fit the buffers of the server (`WellMade`, `CallAssumption`:
1024 bytes in a frame, names below 40 characters, lines below 2000, the widths of fields; `SpAssumption` on
files and on what is typed):

- `SystemInv` is `IInv`, `BootInv` and `CallInv`. `CallInv` says how far the call has
  come (`Exchange`): `frame` is the part of the request that the host has read, `reply` the part of the answer
  that the program has, and what lies between them in either direction is the rest (`DownStream`,
  `UpStream`). What the host has read (`HostRead`) counts the byte it has thrown away, and `Loss` says what that is: the
  first of the request, for which `loop()` holds `QAck`, so that neither a byte nor an ACK follows (`Lost`). `SpProofs` says what this rests on: a request announces the bytes it has, `frame` is complete exactly
  when it is the whole request, and an answer has the length that the program reads (`Fits`).
- `HostStaysInStep` (`InStep`), `OneByteIsLost` (`LossStopsTheCall`) and `TypeCorrect` follow under `Matched`: the boot file ends where the
  program has read all it wants, and `SP_READ` is at most the last call, because after it the two are
  out of step (`MCHostRead`).
- `ChainIsCall`: `Spec => ImplementsCall`, the refinement of `SpCall`, also under `Matched`. The step in which
  the host completes a frame maps to `DoServe`, the one in which the program takes the last byte to `DoReturn`,
  all others to stutters. That the result is what was served is `Exchange`.
- `StreamsAreKept`: `Spec => []StreamsKeepTheirFile`, under `Matched` and `Room`, which says that
  `handle_map` has an entry for each call. Its invariant adds that no call takes more than one entry, and
  to whom a stream belongs between the `fopen()` and the reply (`StreamsInv`).

### Integer instructions

`ArithmeticProofs`, for every width of at least two bits (`WidthAssumption`:
`Pow2` is what its name says, and a shift count fits a word; `StackAssumption`):

- `TypeCorrect`: `Spec => []TypeOK`, which is inductive. There is one lemma for each
  routine of `Arithmetic` that it returns words and one for each group of
  instructions.
- `SumsAreExact`, `ChainsAreExact`: from `TypeOK`, every checked sum and difference
  is the exact one or sets the error flag, and a chain of two is a sum of double length.
  `WrapOnce` is the argument: a sum of two words and a carry passes the modulus at
  most once, so `carry` tells where the exact sum lies (`AddIsSum`,
  `SubIsDifference`), and comparing the signs tells whether it fits (`AddChecked`, `SubChecked`).
- `ProductsAreExact`: `Spec => []ProductsExact`. The solver does not multiply variables, so all products
  go through `TimesMonotone` (multiplication keeps the order) and `ProductBound`, and all quotients through
  `DivMod` and `DivUnique` (there is one quotient and one remainder). Each routine has a lemma of its
  own: `MulIsProduct`, `EMulIsProduct` and `EMulChecked` (negating over both words, and when the
  upper word says that the lower one is enough), `LongDivIs`, `QuotientIs` (the one quotient
  that is no signed word) and `FMulIsNearest`, for which `FractionBound` shows that rounding
  up never leaves the fractions.
- `LengthsDoAgree`: `Spec => []LengthsAgree`. `NormLenIs` says that there is a shift that brings the first
  one bit to the top: the least one that passes half the range (`LeastMember`), which `UpperWeights`
  shows to exist. `NormIsUndone`, `SingleFits`, `ExtendIs` and `HalvesWrap` are the instructions, one by one.

### Model-checked only

- Liveness (`OutCompletes`, `EveryReadyRuns`, `Started`, `Answered`) needs fairness and ENABLED.
- `Sorted` and `OnTime` for more than three sleepers: the one is false, and how late a sleeper
  can be then depends on how far out of order the list can get.

## 6. Not modelled

- Floating point and libm: IEEE arithmetic is out of TLC's reach, and libm is third
  party code.
- Memory, SPI RAM, display and board set-up: I/O.
- The SP handlers of `server.c` (`message()` and `sp_*`), which this build never calls.
- The ports of the original emulator (`main.c`, `t4main.c`, ...), which are not part
  of the firmware, and `arithmetic.c`'s 32-bit variants, which it does not compile.
- `picoputer/picoputer1/` and the directory of the same name inside it: older copies of the
  files in `picoputer/`. Most of the repository's lines are these copies, pin
  and font tables, generated headers and examples, so the mapped lines are a small part of them.
- The run queues' linked lists (`FPtrReg`, `BPtrReg`, `Link_s`) are sequences in
  `Scheduler`.

Within the modelled parts: ALT, `outbyte` and `outword` on links (marked unsupported
in the code), false conditions of channel and time guards, `resetch`, the
queue-pointer instructions, error and halt handling, `sttimer`; bitwise
instructions, bit counts and CRC; the characters of a serial packet; the monitor commands and
display of the adapter; command line options of the server and append and
update modes of files; the links of the picoputer other than the one it boots from.

## 7. Plan

1. `RunQueue`: the linked lists of `schedule()` and `run_process()`, shown to
   implement the sequences of `Scheduler`.
2. The times of ALT guards: `enbt` keeps the earliest, and `taltwt` inserts a time
   even when no guard has set one.
3. Proofs: a bound on how late a sleeper on a list of any length can be; what still
   holds of the chain to the host after an `SP_READ` that is not the last call.
