-------------------------- MODULE LinkWireProofs ---------------------------
(* What the receiving end of a link makes of the packets that are sent.    *)
EXTENDS LinkWire, SequenceTheorems, TLAPS

-----------------------------------------------------------------------------
(* What get_data_from_link() makes of the words linkloop() puts            *)

\* Every data byte a picoputer sends is read back as that byte, and never
\* as an ACK.
THEOREM DataRoundTrip == \A d \in 0..255 : Decode(Word(d)) = d
<1> TAKE d \in 0..255
<1>1. Word(d) = 512 + 2 * (255 - d)
  BY WireAssumption DEF Word
<1>2. 1023 - Word(d) = 2 * d + 1
  BY <1>1
<1>3. (2 * d + 1) \div 2 = d /\ d % 256 = d
  OBVIOUS
<1>4. QED
  BY <1>2, <1>3 DEF Decode

\* The ACK word of a picoputer is read by another picoputer as the byte #80.
THEOREM AckReadAsData == Decode(Word(Ack)) = 128
<1>1. 1023 - Word(Ack) = 256
  BY DEF Word
<1>2. 256 \div 2 = 128 /\ 128 % 256 = 128
  OBVIOUS
<1>3. QED
  BY <1>1, <1>2 DEF Decode

-----------------------------------------------------------------------------
(* Wiring                                                                  *)

\* A picoputer and a C011, of which the C011 alone sends ACKs and leaves the
\* line idle for so long that they are sampled whole.
Wired ==
  /\ Quiet >= 9
  /\ \A l \in Line :
       \/ l.sender = "picoputer" /\ l.receiver = "C011" /\ Ack \notin l.packets
       \/ l.sender = "C011" /\ l.receiver = "picoputer"

\* The ten bits after the start bit, as the receiver samples them.
Carried(p) == IF p = Ack THEN 1023 ELSE 512 + 2 * (255 - p)

Levels == {0, 1}

\* What has been shifted in before bit j.
LowBits(w, j) == w % Weight[j]

\* The bits of a frame: a start bit, those of the word, and the idle level.
Frames(f, w) ==
  /\ f \in Seq(Levels) /\ Len(f) >= 11
  /\ f[1] = 0
  /\ \A i \in 1..10 : f[i + 1] = Bit(w, i)
  /\ \A i \in 12..Len(f) : f[i] = 1

-----------------------------------------------------------------------------
(* The invariant                                                           *)

Rests == ~busy /\ x = 0 /\ isr = 0 /\ heard = sent

\* The j-th bit of packet p has been driven.
InPacket(p, j) ==
  /\ osr = SubSeq(Frame(p), j + 1, Len(Frame(p)))
  /\ IF j <= 10
     THEN busy /\ x = j - 1 /\ isr = LowBits(Carried(p), j) /\ sent = Append(heard, p)
     ELSE Rests

WireInv ==
  /\ line \in Line /\ sent \in Seq(line.packets) /\ heard \in Seq(line.packets)
  /\ \/ osr = <<>> /\ Rests
     \/ \E p \in line.packets : \E j \in 1..(Len(Frame(p)) - 1) : InPacket(p, j)

-----------------------------------------------------------------------------
(* Bits and words                                                          *)

\* The weights are the powers of two.
LEMMA Weights ==
  /\ Weight[1] = 1 /\ Weight[2] = 2 /\ Weight[3] = 4 /\ Weight[4] = 8 /\ Weight[5] = 16
  /\ Weight[6] = 32 /\ Weight[7] = 64 /\ Weight[8] = 128 /\ Weight[9] = 256
  /\ Weight[10] = 512 /\ Weight[11] = 1024
BY DEF Weight

\* The bit that is shifted in next is the next bit of the word.
LEMMA BitShiftedIn ==
  ASSUME NEW w \in 0..1023, NEW j \in 1..10
  PROVE  /\ LowBits(w, j) + Bit(w, j) * Weight[j] = LowBits(w, j + 1)
         /\ Bit(w, j) \in Levels
<1>1. CASE j = 1
  BY <1>1, Weights DEF Bit, LowBits, Levels
<1>2. CASE j = 2
  BY <1>2, Weights DEF Bit, LowBits, Levels
<1>3. CASE j = 3
  BY <1>3, Weights DEF Bit, LowBits, Levels
<1>4. CASE j = 4
  BY <1>4, Weights DEF Bit, LowBits, Levels
<1>5. CASE j = 5
  BY <1>5, Weights DEF Bit, LowBits, Levels
<1>6. CASE j = 6
  BY <1>6, Weights DEF Bit, LowBits, Levels
<1>7. CASE j = 7
  BY <1>7, Weights DEF Bit, LowBits, Levels
<1>8. CASE j = 8
  BY <1>8, Weights DEF Bit, LowBits, Levels
<1>9. CASE j = 9
  BY <1>9, Weights DEF Bit, LowBits, Levels
<1>10. CASE j = 10
  BY <1>10, Weights DEF Bit, LowBits, Levels
<1> QED BY <1>1, <1>2, <1>3, <1>4, <1>5, <1>6, <1>7, <1>8, <1>9, <1>10

\* What Bits and Ones return.
LEMMA BitsAre ==
  ASSUME NEW w \in 0..1023, NEW n \in 0..10
  PROVE  /\ Bits(w, n) \in Seq(Levels) /\ Len(Bits(w, n)) = n
         /\ \A i \in 1..n : Bits(w, n)[i] = Bit(w, i)
<1>1. ASSUME NEW i \in 1..n PROVE Bit(w, i) \in Levels
  <2>1. i \in 1..10
    OBVIOUS
  <2> QED BY <2>1, BitShiftedIn
<1> QED BY <1>1 DEF Bits

\* The line idles at 1.
LEMMA OnesAre ==
  ASSUME NEW n \in Nat
  PROVE  /\ Ones(n) \in Seq(Levels) /\ Len(Ones(n)) = n
         /\ \A i \in 1..n : Ones(n)[i] = 1
BY DEF Ones, Levels

\* One sequence of levels after another.
LEMMA Joined ==
  ASSUME NEW s \in Seq(Levels), NEW u \in Seq(Levels)
  PROVE  /\ s \o u \in Seq(Levels) /\ Len(s \o u) = Len(s) + Len(u)
         /\ \A i \in 1..Len(s) : (s \o u)[i] = s[i]
         /\ \A i \in 1..Len(u) : (s \o u)[Len(s) + i] = u[i]
<1>1. /\ s \o u \in Seq(Levels) /\ Len(s \o u) = Len(s) + Len(u)
      /\ \A i \in 1..Len(s) + Len(u) :
           (s \o u)[i] = IF i <= Len(s) THEN s[i] ELSE u[i - Len(s)]
  BY ConcatProperties
<1>2. ASSUME NEW i \in 1..Len(s) PROVE (s \o u)[i] = s[i]
  BY <1>1
<1>3. ASSUME NEW i \in 1..Len(u) PROVE (s \o u)[Len(s) + i] = u[i]
  <2>1. /\ Len(s) + i \in 1..Len(s) + Len(u) /\ ~(Len(s) + i <= Len(s))
        /\ (Len(s) + i) - Len(s) = i
    OBVIOUS
  <2> QED BY <1>1, <2>1
<1> QED BY <1>1, <1>2, <1>3

\* The bits of a byte are those of the word that carries it, one place on.
LEMMA ByteBits ==
  ASSUME NEW d \in 0..255, NEW i \in 2..9
  PROVE  Bit(512 + 2 * d, i) = Bit(d, i - 1)
<1>1. CASE i = 2
  BY <1>1, Weights DEF Bit
<1>2. CASE i = 3
  BY <1>2, Weights DEF Bit
<1>3. CASE i = 4
  BY <1>3, Weights DEF Bit
<1>4. CASE i = 5
  BY <1>4, Weights DEF Bit
<1>5. CASE i = 6
  BY <1>5, Weights DEF Bit
<1>6. CASE i = 7
  BY <1>6, Weights DEF Bit
<1>7. CASE i = 8
  BY <1>7, Weights DEF Bit
<1>8. CASE i = 9
  BY <1>8, Weights DEF Bit
<1> QED BY <1>1, <1>2, <1>3, <1>4, <1>5, <1>6, <1>7, <1>8

\* The word of a frame has ten bits.
LEMMA CarriedBits == \A p \in 0..255 \cup {Ack} : Carried(p) \in 0..1023
BY DEF Carried

\* picoputerlinkout's frame of a byte.
LEMMA PicoFrames == ASSUME NEW p \in 0..255 PROVE Frames(PicoFrame(p), Carried(p))
<1>1. PICK w : w = Carried(p)
  OBVIOUS
<1>2. w \in 0..1023 /\ Word(p) = w
  BY <1>1, CarriedBits, WireAssumption DEF Word, Carried
<1>3. PICK s, b, o : s = <<0>> /\ b = Bits(w, 10) /\ o = Ones(2)
  OBVIOUS
<1>4. s \in Seq(Levels) /\ Len(s) = 1 /\ s[1] = 0
  BY <1>3 DEF Levels
<1>5. 10 \in 0..10 /\ 2 \in Nat
  OBVIOUS
<1>6. b \in Seq(Levels) /\ Len(b) = 10 /\ \A i \in 1..10 : b[i] = Bit(w, i)
  <2>1. /\ Bits(w, 10) \in Seq(Levels) /\ Len(Bits(w, 10)) = 10
        /\ \A i \in 1..10 : Bits(w, 10)[i] = Bit(w, i)
    <3>1. w \in 0..1023 /\ 10 \in 0..10
      BY <1>2, <1>5
    <3> QED BY <3>1, BitsAre, Zenon
  <2> QED BY <1>3, <2>1
<1>7. o \in Seq(Levels) /\ Len(o) = 2 /\ \A i \in 1..2 : o[i] = 1
  BY <1>3, <1>5, OnesAre
<1>8. PICK h : h = s \o b
  OBVIOUS
<1>9. /\ h \in Seq(Levels) /\ Len(h) = Len(s) + Len(b)
      /\ \A i \in 1..Len(s) : h[i] = s[i]
      /\ \A i \in 1..Len(b) : h[Len(s) + i] = b[i]
  BY <1>4, <1>6, <1>8, Joined
<1>10. PICK f : f = h \o o
  OBVIOUS
<1>11. /\ f \in Seq(Levels) /\ Len(f) = Len(h) + Len(o)
       /\ \A i \in 1..Len(h) : f[i] = h[i]
       /\ \A i \in 1..Len(o) : f[Len(h) + i] = o[i]
  BY <1>7, <1>9, <1>10, Joined
<1>12. Len(h) = 11
  BY <1>4, <1>6, <1>9
<1>13. Len(f) = 13
  BY <1>7, <1>11, <1>12
<1>14. f[1] = 0
  BY <1>4, <1>9, <1>11, <1>12
<1>15. ASSUME NEW i \in 1..10 PROVE f[i + 1] = Bit(w, i)
  <2>1. i + 1 \in 1..Len(h) /\ i + 1 = Len(s) + i /\ i \in 1..Len(b)
    BY <1>4, <1>6, <1>12
  <2>2. f[i + 1] = h[i + 1] /\ h[i + 1] = b[i]
    BY <1>9, <1>11, <2>1
  <2> QED BY <1>6, <2>2
<1>16. ASSUME NEW i \in 12..Len(f) PROVE f[i] = 1
  <2>1. i - 11 \in 1..Len(o) /\ Len(h) + (i - 11) = i /\ i - 11 \in 1..2
    BY <1>7, <1>12, <1>13
  <2>2. f[i] = o[i - 11]
    BY <1>11, <2>1
  <2> QED BY <1>7, <2>1, <2>2
<1>17. Len(f) >= 11
  BY <1>13
<1>18. Frames(f, w)
  BY <1>11, <1>14, <1>15, <1>16, <1>17 DEF Frames
<1> QED BY <1>1, <1>2, <1>3, <1>8, <1>10, <1>18 DEF PicoFrame

\* A C011's frame of an ACK: the ones after it are those of the idle line.
LEMMA AckFrames == ASSUME Wired PROVE Frames(ChipFrame(Ack), Carried(Ack))
<1>1. Quiet \in Nat /\ Quiet >= 9
  BY WireAssumption DEF Wired
<1>2. PICK s, o : s = <<0, 1>> /\ o = Ones(Quiet)
  OBVIOUS
<1>3. s \in Seq(Levels) /\ Len(s) = 2 /\ s[1] = 0 /\ s[2] = 1
  BY <1>2 DEF Levels
<1>4. o \in Seq(Levels) /\ Len(o) = Quiet /\ \A i \in 1..Quiet : o[i] = 1
  BY <1>1, <1>2, OnesAre
<1>5. PICK f : f = s \o o
  OBVIOUS
<1>6. /\ f \in Seq(Levels) /\ Len(f) = Len(s) + Len(o)
      /\ \A i \in 1..Len(s) : f[i] = s[i]
      /\ \A i \in 1..Len(o) : f[Len(s) + i] = o[i]
  BY <1>3, <1>4, <1>5, Joined
<1>7. ASSUME NEW i \in 2..Len(f) PROVE f[i] = 1
  <2>1. CASE i = 2
    BY <1>3, <1>6, <2>1
  <2>2. CASE i # 2
    <3>1. i - 2 \in 1..Len(o) /\ Len(s) + (i - 2) = i /\ i - 2 \in 1..Quiet
      BY <1>1, <1>3, <1>4, <1>6, <2>2
    <3>2. f[i] = o[i - 2]
      BY <1>6, <3>1
    <3> QED BY <1>4, <3>1, <3>2
  <2> QED BY <2>1, <2>2
<1>8. Len(f) >= 11
  BY <1>1, <1>3, <1>4, <1>6
<1>9. ASSUME NEW i \in 1..10 PROVE f[i + 1] = Bit(1023, i)
  <2>1. i + 1 \in 2..Len(f)
    BY <1>6, <1>8
  <2>2. f[i + 1] = 1
    BY <1>7, <2>1
  <2>3. Bit(1023, i) = 1
    BY Weights DEF Bit
  <2> QED BY <2>2, <2>3
<1>10. f[1] = 0
  BY <1>3, <1>6
<1>11. ASSUME NEW i \in 12..Len(f) PROVE f[i] = 1
  <2>1. i \in 2..Len(f)
    BY <1>6
  <2> QED BY <1>7, <2>1
<1>12. Frames(f, 1023)
  BY <1>6, <1>8, <1>9, <1>10, <1>11 DEF Frames
<1> QED BY <1>2, <1>5, <1>12 DEF ChipFrame, Carried

\* A C011's frame of a byte.
LEMMA ChipFrames == ASSUME NEW p \in 0..255 PROVE Frames(ChipFrame(p), Carried(p))
<1>1. Quiet \in Nat /\ p # Ack /\ 8 \in 0..10
  BY WireAssumption
<1>2. PICK w, d : w = Carried(p) /\ d = 255 - p
  OBVIOUS
<1>3. w \in 0..1023 /\ d \in 0..255 /\ d \in 0..1023 /\ w = 512 + 2 * d
  BY <1>1, <1>2 DEF Carried
<1>4. PICK s, b, e, o : s = <<0, 0>> /\ b = Bits(d, 8) /\ e = <<1>> /\ o = Ones(Quiet)
  OBVIOUS
<1>5. /\ s \in Seq(Levels) /\ Len(s) = 2 /\ s[1] = 0 /\ s[2] = 0
      /\ e \in Seq(Levels) /\ Len(e) = 1 /\ e[1] = 1
  BY <1>4 DEF Levels
<1>6. b \in Seq(Levels) /\ Len(b) = 8 /\ \A i \in 1..8 : b[i] = Bit(d, i)
  <2>1. /\ Bits(d, 8) \in Seq(Levels) /\ Len(Bits(d, 8)) = 8
        /\ \A i \in 1..8 : Bits(d, 8)[i] = Bit(d, i)
    <3>1. d \in 0..1023 /\ 8 \in 0..10
      BY <1>1, <1>3
    <3> QED BY <3>1, BitsAre, Zenon
  <2> QED BY <1>4, <2>1
<1>7. o \in Seq(Levels) /\ Len(o) = Quiet /\ \A i \in 1..Quiet : o[i] = 1
  BY <1>1, <1>4, OnesAre
<1>8. PICK g : g = s \o b
  OBVIOUS
<1>9. /\ g \in Seq(Levels) /\ Len(g) = Len(s) + Len(b)
      /\ \A i \in 1..Len(s) : g[i] = s[i]
      /\ \A i \in 1..Len(b) : g[Len(s) + i] = b[i]
  BY <1>5, <1>6, <1>8, Joined
<1>10. PICK h : h = g \o e
  OBVIOUS
<1>11. /\ h \in Seq(Levels) /\ Len(h) = Len(g) + Len(e)
       /\ \A i \in 1..Len(g) : h[i] = g[i]
       /\ \A i \in 1..Len(e) : h[Len(g) + i] = e[i]
  BY <1>5, <1>9, <1>10, Joined
<1>12. PICK f : f = h \o o
  OBVIOUS
<1>13. /\ f \in Seq(Levels) /\ Len(f) = Len(h) + Len(o)
       /\ \A i \in 1..Len(h) : f[i] = h[i]
       /\ \A i \in 1..Len(o) : f[Len(h) + i] = o[i]
  BY <1>7, <1>11, <1>12, Joined
<1>14. Len(g) = 10 /\ Len(h) = 11 /\ Len(f) = 11 + Quiet
  BY <1>5, <1>6, <1>7, <1>9, <1>11, <1>13
<1>15. ASSUME NEW i \in 1..10 PROVE f[i] = g[i]
  <2>1. i \in 1..Len(g) /\ i \in 1..Len(h)
    BY <1>14
  <2> QED BY <1>11, <1>13, <2>1
<1>16. f[1] = 0 /\ f[2] = 0
  BY <1>5, <1>9, <1>15
<1>17. f[11] = 1
  <2>1. 1 \in 1..Len(e) /\ Len(g) + 1 = 11 /\ 11 \in 1..Len(h)
    BY <1>5, <1>14
  <2>2. h[11] = e[1] /\ f[11] = h[11]
    BY <1>11, <1>13, <2>1
  <2> QED BY <1>5, <2>2
<1>18. ASSUME NEW i \in 1..10 PROVE f[i + 1] = Bit(w, i)
  <2>1. CASE i = 1
    BY <1>3, <1>16, <2>1, Weights DEF Bit
  <2>2. CASE i = 10
    BY <1>3, <1>17, <2>2, Weights DEF Bit
  <2>3. CASE i \in 2..9
    <3>1. /\ i - 1 \in 1..8 /\ i + 1 \in 1..10
          /\ i - 1 \in 1..Len(b) /\ Len(s) + (i - 1) = i + 1
      BY <1>5, <1>6, <2>3
    <3>2. f[i + 1] = g[i + 1] /\ g[i + 1] = b[i - 1]
      BY <1>9, <1>15, <3>1
    <3>3. b[i - 1] = Bit(d, i - 1)
      BY <1>6, <3>1
    <3> QED BY <1>3, <2>3, <3>2, <3>3, ByteBits
  <2> QED BY <2>1, <2>2, <2>3
<1>19. ASSUME NEW i \in 12..Len(f) PROVE f[i] = 1
  <2>1. i - 11 \in 1..Len(o) /\ Len(h) + (i - 11) = i /\ i - 11 \in 1..Quiet
    BY <1>1, <1>7, <1>14
  <2>2. f[i] = o[i - 11]
    BY <1>13, <2>1
  <2> QED BY <1>7, <2>1, <2>2
<1>20. Len(f) >= 11
  BY <1>1, <1>14
<1>21. Frames(f, w)
  BY <1>13, <1>16, <1>18, <1>19, <1>20 DEF Frames
<1>22. ChipFrame(p) = ((s \o b) \o e) \o o
  BY <1>1, <1>2, <1>4 DEF ChipFrame
<1> QED BY <1>2, <1>8, <1>10, <1>12, <1>21, <1>22

\* Whatever is sent, the frame carries its word.
LEMMA FrameCarries ==
  ASSUME Wired, line \in Line, NEW p \in line.packets
  PROVE  Frames(Frame(p), Carried(p)) /\ p \in 0..255 \cup {Ack}
<1>1. p \in 0..255 \cup {Ack} /\ line.sender \in Chip
  BY WireAssumption
<1>2. line.sender = "picoputer" => p # Ack
  BY DEF Wired
<1> QED BY <1>1, <1>2, PicoFrames, ChipFrames, AckFrames DEF Frame, Chip

-----------------------------------------------------------------------------
(* The receiving end                                                       *)

\* Outside a packet the receiver only looks for a start bit.
LEMMA WaitsForStart ==
  ASSUME ~busy, NEW b, Sample(b)
  PROVE  (b = 0 => busy') /\ (b = 1 => ~busy') /\ UNCHANGED <<x, isr, heard>>
<1>1. PicoSample(b) \/ ChipSample(b)
  BY DEF Sample
<1>2. busy' = (b = 0) /\ UNCHANGED <<x, isr, heard>>
  BY <1>1 DEF PicoSample, ChipSample, Waits
<1>3. b = 1 => ~(b = 0)
  OBVIOUS
<1> QED BY <1>2, <1>3

\* Decode and the chip read the packet from the ten bits.
LEMMA WordIsRead ==
  ASSUME NEW p \in 0..255 \cup {Ack}
  PROVE  /\ Decode(Carried(p)) = p
         /\ p # Ack => 255 - ((Carried(p) \div 2) % 256) = p
<1>1. CASE p = Ack
  BY <1>1 DEF Carried, Decode
<1>2. CASE p \in 0..255
  <2>1. p # Ack
    BY <1>2, WireAssumption
  <2>2. PICK w, d : w = Carried(p) /\ d = 255 - p
    OBVIOUS
  <2>3. d \in 0..255 /\ w = 512 + 2 * d /\ p = 255 - d
    BY <1>2, <2>1, <2>2 DEF Carried
  <2>4. w \div 2 = 256 + d
    BY <2>3
  <2>5. (256 + d) % 256 = d
    BY <2>3
  <2>6. 255 - ((w \div 2) % 256) = p
    BY <2>3, <2>4, <2>5
  <2>7. 1023 - w = 2 * (255 - d) + 1
    BY <2>3
  <2>8. 1023 - w # 0 /\ (1023 - w) \div 2 = 255 - d
    BY <2>3, <2>7
  <2>9. (255 - d) % 256 = p
    BY <2>3
  <2>10. Decode(w) = p
    BY <2>8, <2>9 DEF Decode
  <2> QED BY <2>2, <2>6, <2>10
<1> QED BY <1>1, <1>2

\* One of the first nine bits after the start bit is shifted in.
LEMMA TakesBit ==
  ASSUME NEW p \in 0..255 \cup {Ack}, NEW j \in 1..9, NEW b,
         line.receiver \in Chip, line.receiver = "C011" => p # Ack,
         busy, x = j - 1, isr = LowBits(Carried(p), j), b = Bit(Carried(p), j),
         Sample(b)
  PROVE  busy' /\ x' = j /\ isr' = LowBits(Carried(p), j + 1) /\ heard' = heard
<1>1. Carried(p) \in 0..1023 /\ j \in 1..10
  <2>1. Carried(p) \in 0..1023
    BY CarriedBits
  <2> QED BY <2>1
<1>2. Shifted(b) = LowBits(Carried(p), j + 1)
  <2>1. x + 1 = j
    OBVIOUS
  <2> QED BY <1>1, <2>1, BitShiftedIn DEF Shifted
<1>3. ShiftsIn(b)
  <2>1. CASE line.receiver = "picoputer"
    <3>1. PicoSample(b) /\ x # 9
      BY <2>1 DEF Sample
    <3> QED BY <3>1 DEF PicoSample
  <2>2. CASE line.receiver = "C011"
    <3>1. ChipSample(b) /\ x # 9
      BY <2>2 DEF Sample
    <3>2. x = 0 => b = 0
      <4>1. SUFFICES ASSUME x = 0 PROVE b = 0
        OBVIOUS
      <4>2. j = 1
        BY <4>1
      <4>3. PICK d : d = 255 - p
        OBVIOUS
      <4>4. d \in 0..255 /\ Carried(p) = 512 + 2 * d
        <5>1. p # Ack /\ p \in 0..255
          BY <2>2
        <5> QED BY <4>3, <5>1 DEF Carried
      <4>5. (512 + 2 * d) \div 1 = 512 + 2 * d /\ (512 + 2 * d) % 2 = 0
        BY <4>4
      <4> QED BY <4>2, <4>4, <4>5, Weights DEF Bit
    <3> QED BY <3>1, <3>2 DEF ChipSample
  <2> QED BY <2>1, <2>2 DEF Chip
<1> QED BY <1>2, <1>3 DEF ShiftsIn

\* With the tenth bit the packet is complete, and it is the one that was sent.
LEMMA TakesPacket ==
  ASSUME NEW p \in 0..255 \cup {Ack}, NEW b,
         line.receiver \in Chip, line.receiver = "C011" => p # Ack,
         busy, x = 9, isr = LowBits(Carried(p), 10), b = Bit(Carried(p), 10),
         Sample(b)
  PROVE  ~busy' /\ x' = 0 /\ isr' = 0 /\ heard' = Append(heard, p)
<1>1. Carried(p) \in 0..1023 /\ 10 \in 1..10
  <2>1. Carried(p) \in 0..1023
    BY CarriedBits
  <2> QED BY <2>1
<1>2. Shifted(b) = LowBits(Carried(p), 11)
  <2>1. x + 1 = 10 /\ 10 + 1 = 11
    OBVIOUS
  <2> QED BY <1>1, <2>1, BitShiftedIn DEF Shifted
<1>3. Shifted(b) = Carried(p)
  BY <1>1, <1>2, Weights DEF LowBits
<1>4. Pushes(p)
  <2>1. CASE line.receiver = "picoputer"
    <3>1. PicoSample(b)
      BY <2>1 DEF Sample
    <3>2. Pushes(Decode(Shifted(b)))
      BY <3>1 DEF PicoSample
    <3> QED BY <1>3, <3>2, WordIsRead
  <2>2. CASE line.receiver = "C011"
    <3>1. ChipSample(b)
      BY <2>2 DEF Sample
    <3>2. Pushes(255 - ((Shifted(b) \div 2) % 256))
      BY <3>1 DEF ChipSample
    <3> QED BY <1>3, <2>2, <3>2, WordIsRead
  <2> QED BY <2>1, <2>2 DEF Chip
<1> QED BY <1>4 DEF Pushes

-----------------------------------------------------------------------------
(* The line is understood                                                  *)

\* A packet's first j bits on the line, if there are as many, and its last.
\* (The history grows with the packet, whatever is on the line.)
LEMMA PacketGoesOn ==
  ASSUME Wired, line \in Line, NEW p \in line.packets, NEW j \in Nat \ {0},
         j < Len(Frame(p)), line' = line,
         osr' = SubSeq(Frame(p), j + 1, Len(Frame(p))),
         j <= 10 => /\ busy' /\ x' = j - 1 /\ isr' = LowBits(Carried(p), j)
                    /\ sent' = Append(heard', p),
         j > 10 => ~busy' /\ x' = 0 /\ isr' = 0 /\ heard' = sent'
  PROVE  \E q \in line'.packets : \E i \in 1..(Len(Frame(q)') - 1) : InPacket(q, i)'
<1>1. Frame(p)' = Frame(p)
  BY DEF Frame
<1>2. Len(Frame(p)) \in Nat /\ j \in 1..(Len(Frame(p)') - 1)
  <2>1. Len(Frame(p)) \in Nat
    BY FrameCarries DEF Frames
  <2> QED BY <1>1, <2>1
<1>3. InPacket(p, j)'
  BY <1>1, <1>2 DEF InPacket, Rests
<1> QED BY <1>2, <1>3

\* The invariant holds at the start.
LEMMA WireInvInit == Init => WireInv
<1> SUFFICES ASSUME Init PROVE WireInv
  OBVIOUS
<1>1. <<>> \in Seq(line.packets)
  OBVIOUS
<1> QED BY <1>1 DEF Init, WireInv, Rests

\* While the sender has nothing to send, the receiver sees the idle level.
LEMMA IdleKeeps == ASSUME WireInv, Wired, Idle PROVE WireInv'
<1>1. Rests
  <2>1. SUFFICES ASSUME NEW p \in line.packets, NEW j \in 1..(Len(Frame(p)) - 1), InPacket(p, j)
                 PROVE  FALSE
    BY DEF WireInv
  <2>2. Frame(p) \in Seq(Levels) /\ Len(Frame(p)) \in Nat
    BY FrameCarries DEF Frames, WireInv
  <2>3. j + 1 \in 1..Len(Frame(p)) /\ Len(Frame(p)) \in j + 1..Len(Frame(p))
    BY <2>2
  <2>4. osr = <<Frame(p)[j + 1]>> \o SubSeq(Frame(p), (j + 1) + 1, Len(Frame(p)))
    BY <2>1, <2>2, <2>3, SubSeqRecursiveFirst DEF InPacket
  <2>5. osr # <<>>
    BY <2>4
  <2> QED BY <2>5 DEF Idle
<1>2. ~busy' /\ UNCHANGED <<x, isr, heard>>
  BY <1>1, WaitsForStart DEF Rests, Idle
<1>3. UNCHANGED <<line, osr, sent>> /\ osr = <<>>
  BY DEF Idle
<1> QED BY <1>1, <1>2, <1>3 DEF WireInv, Rests

\* A start bit takes the receiver into the packet.
LEMMA StartKeeps == ASSUME WireInv, Wired, Start PROVE WireInv'
<1>1. Rests
  <2>1. SUFFICES ASSUME NEW p \in line.packets, NEW j \in 1..(Len(Frame(p)) - 1), InPacket(p, j)
                 PROVE  FALSE
    BY DEF WireInv
  <2>2. Frame(p) \in Seq(Levels) /\ Len(Frame(p)) \in Nat
    BY FrameCarries DEF Frames, WireInv
  <2>3. j + 1 \in 1..Len(Frame(p)) /\ Len(Frame(p)) \in j + 1..Len(Frame(p))
    BY <2>2
  <2>4. osr = <<Frame(p)[j + 1]>> \o SubSeq(Frame(p), (j + 1) + 1, Len(Frame(p)))
    BY <2>1, <2>2, <2>3, SubSeqRecursiveFirst DEF InPacket
  <2>5. osr # <<>>
    BY <2>4
  <2> QED BY <2>5 DEF Start
<1>2. PICK p \in line.packets : /\ osr' = Tail(Frame(p))
                                /\ sent' = Append(sent, p)
                                /\ Sample(Head(Frame(p)))
  BY DEF Start
<1>3. line' = line /\ line \in Line /\ sent \in Seq(line.packets) /\ heard \in Seq(line.packets)
  BY DEF Start, WireInv
<1>4. Frames(Frame(p), Carried(p)) /\ p \in 0..255 \cup {Ack}
  BY <1>3, FrameCarries
<1>5. Frame(p) \in Seq(Levels) /\ Len(Frame(p)) >= 11 /\ Frame(p)[1] = 0 /\ Frame(p) # <<>>
  BY <1>4 DEF Frames
<1>6. Head(Frame(p)) = 0
  BY <1>5
<1>7. osr' = SubSeq(Frame(p), 1 + 1, Len(Frame(p)))
  BY <1>2, <1>5, TailIsSubSeq
<1>8. busy' /\ UNCHANGED <<x, isr, heard>>
  BY <1>1, <1>2, <1>6, WaitsForStart DEF Rests
<1>9. /\ x' = 1 - 1 /\ isr' = LowBits(Carried(p), 1) /\ sent' = Append(heard', p)
  <2>1. Carried(p) \in 0..1023
    BY <1>4, CarriedBits
  <2>2. LowBits(Carried(p), 1) = 0
    BY <2>1, Weights DEF LowBits
  <2> QED BY <1>1, <1>2, <1>8, <2>2 DEF Rests
<1>10. \E q \in line'.packets : \E i \in 1..(Len(Frame(q)') - 1) : InPacket(q, i)'
  <2>1. 1 \in Nat \ {0} /\ 1 < Len(Frame(p)) /\ 1 <= 10 /\ ~(1 > 10)
    BY <1>5
  <2> QED BY <1>3, <1>7, <1>8, <1>9, <2>1, PacketGoesOn
<1>11. sent' \in Seq(line'.packets) /\ heard' \in Seq(line'.packets)
  BY <1>2, <1>3, <1>8
<1> QED BY <1>3, <1>10, <1>11 DEF WireInv

\* Each bit finds the receiver where the sender is.
LEMMA ShiftKeeps == ASSUME WireInv, Wired, Shift PROVE WireInv'
<1>0. PICK p \in line.packets : \E j \in 1..(Len(Frame(p)) - 1) : InPacket(p, j)
  BY DEF Shift, WireInv
<1>1. PICK j \in 1..(Len(Frame(p)) - 1) : InPacket(p, j)
  BY <1>0
<1>2. line' = line /\ line \in Line /\ sent' = sent /\ sent \in Seq(line.packets) /\ heard \in Seq(line.packets)
  BY DEF Shift, WireInv
<1>3. Frames(Frame(p), Carried(p)) /\ p \in 0..255 \cup {Ack}
  BY <1>2, FrameCarries
<1>4. PICK f, w : f = Frame(p) /\ w = Carried(p)
  OBVIOUS
<1>5. /\ f \in Seq(Levels) /\ Len(f) \in Nat /\ Len(f) >= 11
      /\ \A i \in 1..10 : f[i + 1] = Bit(w, i)
      /\ \A i \in 12..Len(f) : f[i] = 1
  BY <1>3, <1>4 DEF Frames
<1>6. j \in 1..(Len(f) - 1) /\ j + 1 \in 1..Len(f) /\ Len(f) \in j + 1..Len(f)
  BY <1>4, <1>5
<1>7. osr = SubSeq(f, j + 1, Len(f))
  BY <1>1, <1>4 DEF InPacket
<1>8. Head(osr) = f[j + 1] /\ Tail(osr) = SubSeq(f, (j + 1) + 1, Len(f))
  BY <1>5, <1>6, <1>7, HeadTailOfSubSeq
<1>9. osr' = SubSeq(f, (j + 1) + 1, Len(f)) /\ Sample(f[j + 1])
  BY <1>8 DEF Shift
<1>10. line.receiver \in Chip /\ (line.receiver = "C011" => p # Ack)
  BY <1>2, WireAssumption DEF Wired
<1>11. CASE j <= 9
  <2>1. j \in 1..9 /\ j \in 1..10 /\ j + 1 <= 10 /\ ~(j + 1 > 10)
    BY <1>6, <1>11
  <2>2. busy /\ x = j - 1 /\ isr = LowBits(Carried(p), j) /\ sent = Append(heard, p)
    BY <1>1, <2>1 DEF InPacket
  <2>3. f[j + 1] = Bit(Carried(p), j)
    BY <1>4, <1>5, <2>1
  <2>4. busy' /\ x' = j /\ isr' = LowBits(Carried(p), j + 1) /\ heard' = heard
    BY <1>3, <1>9, <1>10, <2>1, <2>2, <2>3, TakesBit
  <2>5. /\ j + 1 \in Nat \ {0} /\ j + 1 < Len(f) /\ x' = (j + 1) - 1
        /\ sent' = Append(heard', p)
    BY <1>2, <1>5, <2>1, <2>2, <2>4
  <2>6. \E q \in line'.packets : \E i \in 1..(Len(Frame(q)') - 1) : InPacket(q, i)'
    BY <1>2, <1>4, <1>9, <2>1, <2>4, <2>5, PacketGoesOn
  <2> QED BY <1>2, <2>4, <2>6 DEF WireInv
<1>12. CASE j > 9
  <2>1. ~busy' /\ x' = 0 /\ isr' = 0 /\ heard' = sent' /\ heard' \in Seq(line.packets)
    <3>1. CASE j = 10
      <4>1. busy /\ x = 9 /\ isr = LowBits(Carried(p), 10) /\ sent = Append(heard, p)
        BY <1>1, <3>1 DEF InPacket
      <4>2. f[j + 1] = Bit(Carried(p), 10)
        BY <1>4, <1>5, <3>1
      <4>3. ~busy' /\ x' = 0 /\ isr' = 0 /\ heard' = Append(heard, p)
        BY <1>3, <1>9, <1>10, <4>1, <4>2, TakesPacket
      <4> QED BY <1>2, <4>1, <4>3
    <3>2. CASE j > 10
      <4>1. j + 1 \in 12..Len(f) /\ ~(j <= 10)
        BY <1>6, <3>2
      <4>2. Rests /\ f[j + 1] = 1
        BY <1>1, <1>5, <4>1 DEF InPacket
      <4>3. ~busy' /\ UNCHANGED <<x, isr, heard>>
        BY <1>9, <4>2, WaitsForStart DEF Rests
      <4> QED BY <1>2, <4>2, <4>3 DEF Rests
    <3> QED BY <1>6, <1>12, <3>1, <3>2
  <2>2. CASE j + 1 < Len(f)
    <3>1. j + 1 \in Nat \ {0} /\ ~(j + 1 <= 10) /\ j + 1 > 10
      BY <1>6, <1>12
    <3>2. \E q \in line'.packets : \E i \in 1..(Len(Frame(q)') - 1) : InPacket(q, i)'
      BY <1>2, <1>4, <1>9, <2>1, <2>2, <3>1, PacketGoesOn
    <3> QED BY <1>2, <2>1, <3>2 DEF WireInv
  <2>3. CASE ~(j + 1 < Len(f))
    <3>1. (j + 1) + 1 \in Int /\ Len(f) \in Int /\ Len(f) < (j + 1) + 1
      BY <1>5, <1>6, <2>3
    <3>2. osr' = <<>>
      BY <1>9, <3>1, SubSeqEmpty
    <3> QED BY <1>2, <2>1, <3>2 DEF WireInv, Rests
  <2> QED BY <2>2, <2>3
<1> QED BY <1>6, <1>11, <1>12

\* Whatever has been sent, the receiver is as many bits into the packet on
\* the line as the sender, and has made of them what the packet carries.
THEOREM WireInvariance == ASSUME Wired PROVE Spec => []WireInv
<1>1. WireInv /\ [Next]_vars => WireInv'
  <2> SUFFICES ASSUME WireInv, [Next]_vars PROVE WireInv'
    OBVIOUS
  <2>1. CASE Next
    BY <2>1, IdleKeeps, StartKeeps, ShiftKeeps DEF Next
  <2>2. CASE UNCHANGED vars
    <3>1. UNCHANGED <<line, osr, busy, x, isr, sent, heard>>
      BY <2>2 DEF vars
    <3> QED BY <3>1 DEF WireInv, Rests, InPacket, Frame
  <2> QED BY <2>1, <2>2
<1> QED BY <1>1, WireInvInit, PTL DEF Spec

\* What the receiving end gets is what linkloop() or the chip sent, in that
\* order: data from a picoputer to a C011, and data and ACKs from the C011,
\* are not misread, split or merged.  A picoputer's ACKs are outside Wired.
THEOREM PacketsAreUnderstood == ASSUME Wired PROVE Spec => []Understood
<1>1. WireInv => Understood
  <2> SUFFICES ASSUME WireInv PROVE Understood
    OBVIOUS
  <2>1. CASE osr = <<>> /\ Rests
    <3>1. SubSeq(heard, 1, Len(heard)) = SubSeq(sent, 1, Len(heard)) /\ Len(heard) <= Len(sent)
      BY <2>1 DEF Rests, WireInv
    <3> QED BY <2>1, <3>1 DEF Understood, Rests, IsPrefix
  <2>2. ASSUME NEW p \in line.packets, NEW j \in 1..(Len(Frame(p)) - 1), InPacket(p, j)
        PROVE  Understood
    <3>1. CASE j <= 10
      <4>1. busy /\ sent = Append(heard, p)
        BY <2>2, <3>1 DEF InPacket
      <4>2. heard \in Seq(line.packets) /\ Len(heard) \in Nat
        BY DEF WireInv
      <4>3. Len(sent) = Len(heard) + 1 /\ \A i \in 1..Len(heard) : sent[i] = heard[i]
        BY <4>1, <4>2, AppendProperties
      <4>4. SubSeq(heard, 1, Len(heard)) = SubSeq(sent, 1, Len(heard))
        BY <4>2, <4>3
      <4> QED BY <4>1, <4>2, <4>3, <4>4 DEF Understood, IsPrefix
    <3>2. CASE ~(j <= 10)
      <4>1. Rests
        BY <2>2, <3>2 DEF InPacket
      <4>2. SubSeq(heard, 1, Len(heard)) = SubSeq(sent, 1, Len(heard)) /\ Len(heard) <= Len(sent)
        BY <4>1 DEF Rests, WireInv
      <4> QED BY <4>1, <4>2 DEF Understood, Rests, IsPrefix
    <3> QED BY <3>1, <3>2
  <2> QED BY <2>1, <2>2 DEF WireInv
<1> QED BY <1>1, WireInvariance, PTL

\* The low bits of a word before bit j weigh less than that bit.
LEMMA LowBitsBound ==
  ASSUME NEW w \in 0..1023, NEW j \in 1..10
  PROVE  LowBits(w, j) \in 0..(Weight[j] - 1)
<1>1. CASE j = 1
  BY <1>1, Weights DEF LowBits
<1>2. CASE j = 2
  BY <1>2, Weights DEF LowBits
<1>3. CASE j = 3
  BY <1>3, Weights DEF LowBits
<1>4. CASE j = 4
  BY <1>4, Weights DEF LowBits
<1>5. CASE j = 5
  BY <1>5, Weights DEF LowBits
<1>6. CASE j = 6
  BY <1>6, Weights DEF LowBits
<1>7. CASE j = 7
  BY <1>7, Weights DEF LowBits
<1>8. CASE j = 8
  BY <1>8, Weights DEF LowBits
<1>9. CASE j = 9
  BY <1>9, Weights DEF LowBits
<1>10. CASE j = 10
  BY <1>10, Weights DEF LowBits
<1> QED BY <1>1, <1>2, <1>3, <1>4, <1>5, <1>6, <1>7, <1>8, <1>9, <1>10

\* The variables have their types: the receiver never holds more than nine
\* bits of a packet, and none while it waits for a start bit.
THEOREM TypeCorrect == ASSUME Wired PROVE Spec => []TypeOK
<1>1. Init => busy \in BOOLEAN
  BY DEF Init
<1>2. (busy \in BOOLEAN) /\ [Next]_vars => (busy \in BOOLEAN)'
  <2>1. ASSUME NEW b, Sample(b), busy \in BOOLEAN PROVE busy' \in BOOLEAN
    <3>1. PicoSample(b) \/ ChipSample(b)
      BY <2>1 DEF Sample
    <3>2. busy' = (b = 0) \/ busy' = busy \/ busy' = FALSE
      BY <3>1 DEF PicoSample, ChipSample, Waits, ShiftsIn, Pushes
    <3>3. (b = 0) \in BOOLEAN
      OBVIOUS
    <3> QED BY <2>1, <3>2, <3>3
  <2>2. Next => \E b : Sample(b)
    BY DEF Next, Idle, Start, Shift
  <2> QED BY <2>1, <2>2 DEF vars
<1>3. WireInv /\ (busy \in BOOLEAN) => TypeOK
  <2> SUFFICES ASSUME WireInv, busy \in BOOLEAN PROVE TypeOK
    OBVIOUS
  <2>1. line.packets \subseteq 0..255 \cup {Ack}
    BY WireAssumption DEF WireInv
  <2>2. heard \in Seq(0..255 \cup {Ack})
    BY <2>1 DEF WireInv
  <2>3. x = 0 /\ isr = 0 => x \in 0..9 /\ isr \in 0..(Weight[x + 1] - 1)
    BY Weights
  <2>4. CASE osr = <<>> /\ Rests
    BY <2>2, <2>3, <2>4 DEF Rests, TypeOK, WireInv
  <2>5. ASSUME NEW p \in line.packets, NEW j \in 1..(Len(Frame(p)) - 1), InPacket(p, j)
        PROVE  TypeOK
    <3>1. /\ Frame(p) \in Seq(Levels) /\ Len(Frame(p)) \in Nat
          /\ Carried(p) \in 0..1023
      <4>1. Frames(Frame(p), Carried(p)) /\ p \in 0..255 \cup {Ack}
        BY FrameCarries DEF WireInv
      <4>2. Carried(p) \in 0..1023
        BY <4>1, CarriedBits
      <4>3. Frame(p) \in Seq(Levels)
        BY <4>1 DEF Frames
      <4> QED BY <4>2, <4>3
    <3>2. osr \in Seq(Levels)
      <4>1. \A i \in j + 1..Len(Frame(p)) : Frame(p)[i] \in Levels
        BY <3>1
      <4>2. j + 1 \in Int /\ Len(Frame(p)) \in Int
        BY <3>1
      <4> QED BY <2>5, <4>1, <4>2, SubSeqProperties DEF InPacket
    <3>3. x \in 0..9 /\ isr \in 0..(Weight[x + 1] - 1) /\ (~busy => x = 0)
      <4>1. CASE j <= 10
        <5>1. j \in 1..10 /\ busy /\ x = j - 1 /\ isr = LowBits(Carried(p), j)
          BY <2>5, <3>1, <4>1 DEF InPacket
        <5>2. x \in 0..9 /\ x + 1 = j
          BY <5>1
        <5> QED BY <3>1, <5>1, <5>2, LowBitsBound
      <4>2. CASE ~(j <= 10)
        BY <2>3, <2>5, <4>2 DEF InPacket, Rests
      <4> QED BY <4>1, <4>2
    <3> QED BY <2>2, <3>2, <3>3 DEF TypeOK, WireInv, Levels
  <2> QED BY <2>4, <2>5 DEF WireInv
<1>4. Spec => []WireInv
  BY WireInvariance
<1>5. Spec => [](busy \in BOOLEAN)
  BY <1>1, <1>2, PTL DEF Spec
<1> QED BY <1>3, <1>4, <1>5, PTL
=============================================================================
