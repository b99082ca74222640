------------------------------ MODULE LinkWire ------------------------------
(***************************************************************************)
(* One direction of a link, bit by bit: the words linkloop() puts into the *)
(* transmit FIFO, the PIO programs picoputerlinkout and picoputerlinkin,   *)
(* get_data_from_link(), and the C011 chip that may be at either end.      *)
(*                                                                         *)
(* A step is one bit time.  Levels are those of the picoputer's pins: the  *)
(* line idles at 1 and a start bit is 0, the inverse of the INMOS packets  *)
(* "11dddddddd0" (data) and "10" (ACK).                                    *)
(***************************************************************************)
EXTENDS Naturals, SequencesExt

CONSTANTS
  Byte,        \* data bytes that are sent
  Ack,         \* an ACK packet
  Line,        \* the lines considered: who sends what to whom
  Quiet,       \* bit times a C011 leaves the line idle after a packet
  MaxPackets   \* bound: packets sent in a behaviour

Chip == {"picoputer", "C011"}

ASSUME WireAssumption ==
  /\ Byte \subseteq 0..255
  /\ Ack \notin 0..255
  /\ Line \subseteq [sender : Chip, receiver : Chip, packets : SUBSET (Byte \cup {Ack})]
  /\ Quiet \in Nat /\ MaxPackets \in Nat

VARIABLES
  line,    \* the line this is
  osr,     \* bits the sender has still to put on the line
  busy,    \* the receiver is inside a packet
  x,       \* how many bits the receiver has sampled of it
  isr,     \* the word these bits make
  sent,    \* history: packets sent
  heard    \* history: packets the receiving end has got

vars == <<line, osr, busy, x, isr, sent, heard>>

\* What the bits of a word weigh, the first on the line first.
Weight == <<1, 2, 4, 8, 16, 32, 64, 128, 256, 512, 1024>>

\* Bit i of a word, and its n low bits in the order in which they are shifted
\* out.
Bit(w, i)  == (w \div Weight[i]) % 2
Bits(w, n) == [i \in 1..n |-> Bit(w, i)]
Ones(n)    == [i \in 1..n |-> 1]

\* The word linkloop() puts for a packet: 0x200 | ((data ^ 0xff) << 1), or
\* 0x2ff for an ACK.
Word(p) == IF p = Ack THEN 767 ELSE 512 + 2 * (255 - p)

\* picoputerlinkout: the hard-coded start bit, ten bits of the word, and two
\* bit times at the idle level before the next pull.
PicoFrame(p) == <<0>> \o Bits(Word(p), 10) \o Ones(2)

\* A C011's packets.
ChipFrame(p) ==
  (IF p = Ack THEN <<0, 1>> ELSE <<0, 0>> \o Bits(255 - p, 8) \o <<1>>) \o Ones(Quiet)

Frame(p) == IF line.sender = "picoputer" THEN PicoFrame(p) ELSE ChipFrame(p)

\* Definitions named X_Fault are plausible bugs in X: nothing uses them, and
\* each is put in X's place to show that a property depends on X.

Decode_NotShifted(raw) ==
  LET inv == 1023 - raw IN IF inv = 0 THEN Ack ELSE inv % 256

\* get_data_from_link(): the word is inverted and brought down to ten bits.
Decode(raw) ==
  LET inv == 1023 - raw IN IF inv = 0 THEN Ack ELSE (inv \div 2) % 256

Init ==
  /\ line \in Line
  /\ osr = <<>>
  /\ busy = FALSE
  /\ x = 0
  /\ isr = 0
  /\ sent = <<>>
  /\ heard = <<>>

-----------------------------------------------------------------------------
(* The receiving end samples one level.                                    *)

Shifted(b) == isr + b * Weight[x + 1]

\* It waits for a start bit.
Waits(b) == busy' = (b = 0) /\ UNCHANGED <<x, isr, heard>>

ShiftsIn(b) == x' = x + 1 /\ isr' = Shifted(b) /\ UNCHANGED <<busy, heard>>

\* The packet is complete.
Pushes(p) == busy' = FALSE /\ x' = 0 /\ isr' = 0 /\ heard' = Append(heard, p)

PicoSample_OneMore(b) ==
  \/ ~busy /\ Waits(b)
  \/ busy /\ x < 10 /\ ShiftsIn(b)
  \/ busy /\ x = 10 /\ Pushes(Decode(Shifted(b)))

\* picoputerlinkin: after a start bit ten bits are shifted in and pushed.
PicoSample(b) ==
  \/ ~busy /\ Waits(b)
  \/ busy /\ x < 9 /\ ShiftsIn(b)
  \/ busy /\ x = 9 /\ Pushes(Decode(Shifted(b)))

\* The chip: a 1 after the start bit is an ACK, a 0 starts a data packet.
ChipSample(b) ==
  \/ ~busy /\ Waits(b)
  \/ busy /\ x = 0 /\ b = 1 /\ Pushes(Ack)
  \/ busy /\ x < 9 /\ (x = 0 => b = 0) /\ ShiftsIn(b)
  \/ busy /\ x = 9 /\ Pushes(255 - ((Shifted(b) \div 2) % 256))

Sample(b) == IF line.receiver = "picoputer" THEN PicoSample(b) ELSE ChipSample(b)

-----------------------------------------------------------------------------
(* The sending end drives one level.                                       *)

\* The state machine is stalled on pull with the line idle.
Idle ==
  /\ osr = <<>>
  /\ Sample(1)
  /\ UNCHANGED <<line, osr, sent>>

\* A word is pulled, and the start bit driven.
Start ==
  /\ osr = <<>>
  /\ Len(sent) < MaxPackets
  /\ \E p \in line.packets :
       /\ osr' = Tail(Frame(p))
       /\ sent' = Append(sent, p)
       /\ Sample(Head(Frame(p)))
  /\ UNCHANGED line

\* The next bit is shifted out.
Shift ==
  /\ osr # <<>>
  /\ osr' = Tail(osr)
  /\ Sample(Head(osr))
  /\ UNCHANGED <<line, sent>>

Next == Idle \/ Start \/ Shift

Spec == Init /\ [][Next]_vars

-----------------------------------------------------------------------------
(* Properties                                                              *)

\* The receiver never holds more than nine bits of a packet, and none when
\* it is waiting for a start bit; the word has no more bits than that.
TypeOK ==
  /\ line \in Line
  /\ osr \in Seq({0, 1})
  /\ busy \in BOOLEAN
  /\ x \in 0..9 /\ isr \in 0..(Weight[x + 1] - 1) /\ (~busy => x = 0)
  /\ sent \in Seq(line.packets) /\ heard \in Seq(0..255 \cup {Ack})

\* What the receiving end gets is what was sent: nothing is misread, and a
\* packet is neither split into two nor merged with the next one.
Understood ==
  /\ IsPrefix(heard, sent)
  /\ osr = <<>> /\ ~busy => heard = sent
=============================================================================
