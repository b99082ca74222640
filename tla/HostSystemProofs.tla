-------------------------- MODULE HostSystemProofs --------------------------
(***************************************************************************)
(* The ACKs pace the host, the link adapter and the picoputer, whatever    *)
(* the boot file, the program, its calls, and what the host answers; and   *)
(* the boot file arrives as it is.                                         *)
(***************************************************************************)
EXTENDS HostSystem, SequenceTheorems, TLAPS

\* What is on a serial line: at most one ACK and one number.
AtMostOneEach(q) ==
  \/ q = <<>>
  \/ q = <<Ack>>
  \/ \E n : q = <<Number(n)>>
  \/ \E n : q = <<Number(n), Ack>>
  \/ \E n : q = <<Ack, Number(n)>>

HasAck(q) == \E i \in DOMAIN q : ~IsData(q[i])
HasNumber(q) == \E i \in DOMAIN q : IsData(q[i])

\* A byte to the picoputer, or its ACK, is in one place at most: on the
\* serial line, on the I pins, or on the way back to the host, which waits.
\* The C011 holds IAck, or a byte it has sent on, only while IValid is high.
DownInv ==
  /\ iAck => iValid /\ ~iBusy
  /\ iBusy => iValid
  /\ down # NoByte => iBusy
  /\ HasNumber(toAdapter) => ~iValid
  /\ HasAck(toHost) => ~iValid /\ ~HasNumber(toAdapter)
  /\ HasNumber(toAdapter) \/ iValid \/ HasAck(toHost) => awaiting

\* A byte from the picoputer, or its ACK, likewise: QAck stays high from the
\* moment loop() latches the byte until it reads the ACK.
UpInv ==
  /\ ard = "wait" => qAck
  /\ qValid /\ qAck => ard = "wait"
  /\ HasNumber(toHost) => qAck /\ ard # "wait" /\ ~HasAck(toAdapter)
  /\ HasAck(toAdapter) => qAck /\ ard # "wait"

PinTypes ==
  /\ ard \in {"serial", "iack", "qvalid", "wait"}
  /\ iData \in 0..255
  /\ awaiting \in BOOLEAN /\ iValid \in BOOLEAN /\ iAck \in BOOLEAN
  /\ iBusy \in BOOLEAN /\ qValid \in BOOLEAN /\ qAck \in BOOLEAN

IInv ==
  /\ PinTypes
  /\ AtMostOneEach(toAdapter) /\ AtMostOneEach(toHost)
  /\ DownInv
  /\ UpInv

-----------------------------------------------------------------------------
(* The serial lines.                                                       *)

\* An ACK is no number.
LEMMA Packets == ~IsData(Ack) /\ \A n : IsData(Number(n))
BY DEF IsData, Ack, Number

\* What is in a line of each of the five shapes.
LEMMA Shapes ==
  /\ ~HasAck(<<>>) /\ ~HasNumber(<<>>)
  /\ HasAck(<<Ack>>) /\ ~HasNumber(<<Ack>>)
  /\ \A n : ~HasAck(<<Number(n)>>) /\ HasNumber(<<Number(n)>>)
  /\ \A n : HasAck(<<Number(n), Ack>>) /\ HasNumber(<<Number(n), Ack>>)
  /\ \A n : HasAck(<<Ack, Number(n)>>) /\ HasNumber(<<Ack, Number(n)>>)
<1> USE Packets DEF HasAck, HasNumber
<1>1. ~HasAck(<<>>) /\ ~HasNumber(<<>>)
  OBVIOUS
<1>2. HasAck(<<Ack>>) /\ ~HasNumber(<<Ack>>)
  OBVIOUS
<1>3. ASSUME NEW n PROVE ~HasAck(<<Number(n)>>) /\ HasNumber(<<Number(n)>>)
  OBVIOUS
<1>4. ASSUME NEW n PROVE HasAck(<<Number(n), Ack>>) /\ HasNumber(<<Number(n), Ack>>)
  OBVIOUS
<1>5. ASSUME NEW n PROVE HasAck(<<Ack, Number(n)>>) /\ HasNumber(<<Ack, Number(n)>>)
  OBVIOUS
<1> QED BY <1>1, <1>2, <1>3, <1>4, <1>5

\* A sequence is the tuple of its elements.
LEMMA Tuples ==
  ASSUME NEW S, NEW s \in Seq(S)
  PROVE  /\ Len(s) = 1 => s = <<s[1]>>
         /\ Len(s) = 2 => s = <<s[1], s[2]>>
<1>1. ASSUME Len(s) = 1 PROVE s = <<s[1]>>
  <2>1. <<s[1]>> \in Seq(S) /\ Len(<<s[1]>>) = 1
    BY <1>1, ElementOfSeq
  <2> QED BY <1>1, <2>1, SeqEqual
<1>2. ASSUME Len(s) = 2 PROVE s = <<s[1], s[2]>>
  <2>1. s[1] \in S /\ s[2] \in S
    BY <1>2, ElementOfSeq
  <2>2. <<s[1], s[2]>> \in Seq(S) /\ Len(<<s[1], s[2]>>) = 2
    BY <2>1
  <2>3. \A i \in 1..2 : s[i] = <<s[1], s[2]>>[i]
    OBVIOUS
  <2> QED BY <1>2, <2>2, <2>3, SeqEqual
<1> QED BY <1>1, <1>2

\* Append, on lines of no and of one packet.
LEMMA AppendShapes ==
  ASSUME NEW x, NEW y
  PROVE  Append(<<>>, x) = <<x>> /\ Append(<<x>>, y) = <<x, y>>
<1> DEFINE S == {x, y}
<1>1. <<>> \in Seq(S) /\ <<x>> \in Seq(S) /\ x \in S /\ y \in S
  OBVIOUS
<1> HIDE DEF S
<1>2. /\ Append(<<>>, x) \in Seq(S)
      /\ Len(Append(<<>>, x)) = 1
      /\ Append(<<>>, x)[1] = x
  BY <1>1, AppendProperties
<1>3. /\ Append(<<x>>, y) \in Seq(S)
      /\ Len(Append(<<x>>, y)) = 2
      /\ Append(<<x>>, y)[1] = x
      /\ Append(<<x>>, y)[2] = y
  BY <1>1, AppendProperties
<1> QED BY <1>2, <1>3, Tuples

\* SubSeq, on lines of one and of two packets.
LEMMA SubSeqShapes ==
  ASSUME NEW x, NEW y
  PROVE  /\ SubSeq(<<>>, 1, 0) = <<>>
         /\ SubSeq(<<x>>, 1, 1) = <<x>> /\ SubSeq(<<x>>, 2, 1) = <<>>
         /\ SubSeq(<<x, y>>, 1, 2) = <<x, y>> /\ SubSeq(<<x, y>>, 2, 2) = <<y>>
         /\ SubSeq(<<x, y>>, 3, 2) = <<>>
<1> DEFINE S == {x, y}
<1>1. <<x>> \in Seq(S) /\ Len(<<x>>) = 1 /\ <<x, y>> \in Seq(S) /\ Len(<<x, y>>) = 2
  OBVIOUS
<1>2. \A i \in 2..2 : <<x, y>>[i] \in S
  OBVIOUS
<1> HIDE DEF S
<1>3. SubSeq(<<x>>, 1, 1) = <<x>> /\ SubSeq(<<x, y>>, 1, 2) = <<x, y>>
  BY <1>1, SubSeqFull
<1>4. SubSeq(<<>>, 1, 0) = <<>> /\ SubSeq(<<x>>, 2, 1) = <<>> /\ SubSeq(<<x, y>>, 3, 2) = <<>>
  BY SubSeqEmpty
<1>5. /\ SubSeq(<<x, y>>, 2, 2) \in Seq(S)
      /\ Len(SubSeq(<<x, y>>, 2, 2)) = 1
      /\ SubSeq(<<x, y>>, 2, 2)[1] = <<x, y>>[2]
  BY <1>2, SubSeqProperties
<1> QED BY <1>3, <1>4, <1>5, Tuples

\* A line is a sequence.
LEMMA LineIsSeq ==
  ASSUME NEW q, AtMostOneEach(q)
  PROVE  \E S : q \in Seq(S)
<1>1. <<>> \in Seq({Ack}) /\ <<Ack>> \in Seq({Ack})
  OBVIOUS
<1>2. ASSUME NEW n PROVE <<Number(n)>> \in Seq({Number(n)})
  OBVIOUS
<1>3. ASSUME NEW n
      PROVE  /\ <<Number(n), Ack>> \in Seq({Number(n), Ack})
             /\ <<Ack, Number(n)>> \in Seq({Number(n), Ack})
  OBVIOUS
<1> QED
  BY <1>1, <1>2, <1>3, Zenon DEF AtMostOneEach

\* A line holds two packets at most, and two numbers on it are the same.
LEMMA OneNumber ==
  ASSUME NEW q, AtMostOneEach(q)
  PROVE  /\ Len(q) <= 2
         /\ \A i, j \in DOMAIN q : IsData(q[i]) /\ IsData(q[j]) => i = j
         /\ \A n \in 0..Len(q) : \A i, j \in 1..n :
              IsData(q[i]) /\ IsData(q[j]) => i = j
<1>0. PICK S : q \in Seq(S)
  BY LineIsSeq
<1>1. CASE q = <<>> \/ q = <<Ack>> \/ \E m : q = <<Number(m)>>
  <2>1. Len(q) <= 1 /\ \A i, j \in DOMAIN q : i = j
    <3>1. ASSUME NEW m, q = <<m>> PROVE Len(q) = 1 /\ DOMAIN q = {1}
      BY <3>1
    <3>2. q = <<>> => Len(q) = 0 /\ DOMAIN q = {}
      OBVIOUS
    <3>3. (\E m : q = <<Number(m)>>) => Len(q) = 1 /\ DOMAIN q = {1}
      BY <3>1
    <3>4. q = <<Ack>> => Len(q) = 1 /\ DOMAIN q = {1}
      BY <3>1
    <3>5. CASE Len(q) = 0 /\ DOMAIN q = {}
      BY <3>5
    <3>6. CASE Len(q) = 1 /\ DOMAIN q = {1}
      BY <3>6
    <3> QED BY <1>1, <3>2, <3>3, <3>4, <3>5, <3>6, Zenon
  <2> QED BY <2>1
<1>2. CASE \E m : q = <<Number(m), Ack>>
  <2>1. Len(q) = 2 /\ DOMAIN q = {1, 2} /\ q[2] = Ack
    BY <1>2
  <2> QED BY <2>1, Packets
<1>3. CASE \E m : q = <<Ack, Number(m)>>
  <2>1. Len(q) = 2 /\ DOMAIN q = {1, 2} /\ q[1] = Ack
    BY <1>3
  <2> QED BY <2>1, Packets
<1>4. Len(q) <= 2 /\ \A i, j \in DOMAIN q : IsData(q[i]) /\ IsData(q[j]) => i = j
  BY <1>1, <1>2, <1>3 DEF AtMostOneEach
<1>5. Len(q) \in Nat /\ DOMAIN q = 1..Len(q)
  BY <1>0, LenProperties
<1>6. \A n \in 0..Len(q) : \A i \in 1..n : i \in DOMAIN q
  BY <1>5
<1> QED BY <1>4, <1>6

\* An ACK is written to a line without one.
LEMMA WriteAck ==
  ASSUME NEW q, AtMostOneEach(q), ~HasAck(q)
  PROVE  /\ AtMostOneEach(Append(q, Ack))
         /\ HasNumber(Append(q, Ack)) <=> HasNumber(q)
<1>1. CASE q = <<>>
  BY <1>1, Shapes, AppendShapes DEF AtMostOneEach
<1>2. CASE \E n : q = <<Number(n)>>
  <2>1. PICK n : q = <<Number(n)>>
    BY <1>2
  <2>2. Append(q, Ack) = <<Number(n), Ack>>
    BY <2>1, AppendShapes
  <2> QED BY <2>1, <2>2, Shapes DEF AtMostOneEach
<1> QED BY <1>1, <1>2, Shapes DEF AtMostOneEach

\* A number is written to a line without one.
LEMMA WriteNumber ==
  ASSUME NEW q, NEW n, AtMostOneEach(q), ~HasNumber(q)
  PROVE  /\ AtMostOneEach(Append(q, Number(n)))
         /\ HasAck(Append(q, Number(n))) <=> HasAck(q)
<1>1. CASE q = <<>>
  BY <1>1, Shapes, AppendShapes DEF AtMostOneEach
<1>2. CASE q = <<Ack>>
  <2>1. Append(q, Number(n)) = <<Ack, Number(n)>>
    BY <1>2, AppendShapes
  <2> QED BY <1>2, <2>1, Shapes DEF AtMostOneEach
<1> QED BY <1>1, <1>2, Shapes DEF AtMostOneEach

\* A packet is read.
LEMMA ReadOne ==
  ASSUME NEW q, AtMostOneEach(q), q # <<>>
  PROVE  /\ AtMostOneEach(Tail(q))
         /\ IF IsData(Head(q))
            THEN HasNumber(q) /\ ~HasNumber(Tail(q)) /\ (HasAck(Tail(q)) <=> HasAck(q))
            ELSE HasAck(q) /\ ~HasAck(Tail(q)) /\ (HasNumber(Tail(q)) <=> HasNumber(q))
<1>1. CASE q = <<Ack>>
  <2>1. Head(q) = Ack /\ Tail(q) = <<>>
    BY <1>1
  <2> QED BY <1>1, <2>1, Packets, Shapes DEF AtMostOneEach
<1>2. ASSUME NEW n, q = <<Number(n)>> PROVE Head(q) = Number(n) /\ Tail(q) = <<>>
  BY <1>2
<1>3. ASSUME NEW n, q = <<Number(n), Ack>> PROVE Head(q) = Number(n) /\ Tail(q) = <<Ack>>
  BY <1>3
<1>4. ASSUME NEW n, q = <<Ack, Number(n)>> PROVE Head(q) = Ack /\ Tail(q) = <<Number(n)>>
  BY <1>4
<1>5. CASE \E n : q = <<Number(n)>>
  BY <1>5, <1>2, Packets, Shapes DEF AtMostOneEach
<1>6. CASE \E n : q = <<Number(n), Ack>>
  BY <1>6, <1>3, Packets, Shapes DEF AtMostOneEach
<1>7. CASE \E n : q = <<Ack, Number(n)>>
  BY <1>7, <1>4, Packets, Shapes DEF AtMostOneEach
<1> QED BY <1>1, <1>5, <1>6, <1>7 DEF AtMostOneEach

\* The packets that have arrived are read, the first n.
LEMMA ReadSome ==
  ASSUME NEW q, AtMostOneEach(q), NEW n \in 0..Len(q),
         NEW r, r = SubSeq(q, n + 1, Len(q))
  PROVE  /\ AtMostOneEach(r)
         /\ HasAck(r) => HasAck(q) /\ \A i \in 1..n : IsData(q[i])
         /\ HasNumber(r) => HasNumber(q) /\ \A i \in 1..n : ~IsData(q[i])
         /\ \A i \in 1..n : IF IsData(q[i]) THEN HasNumber(q) ELSE HasAck(q)
<1> USE Packets, Shapes
<1>0. (1..0 = {}) /\ (1..1 = {1}) /\ (1..2 = {1, 2})
  OBVIOUS
<1>1. CASE q = <<>>
  <2>1. Len(q) = 0 /\ n = 0
    BY <1>1
  <2>2. r = <<>>
    BY <1>1, <2>1, SubSeqShapes
  <2> QED BY <1>0, <1>1, <2>1, <2>2 DEF AtMostOneEach
<1>2. ASSUME NEW x, q = <<x>>
      PROVE  (n = 0 /\ r = <<x>>) \/ (n = 1 /\ r = <<>>)
  <2>1. Len(q) = 1 /\ n \in 0..1
    BY <1>2
  <2>2. CASE n = 0
    <3>1. r = SubSeq(<<x>>, 1, 1)
      BY <1>2, <2>1, <2>2
    <3> QED BY <2>2, <3>1, SubSeqShapes
  <2>3. CASE n = 1
    <3>1. r = SubSeq(<<x>>, 2, 1)
      BY <1>2, <2>1, <2>3
    <3> QED BY <2>3, <3>1, SubSeqShapes
  <2> QED BY <2>1, <2>2, <2>3
<1>3. ASSUME NEW x, NEW y, q = <<x, y>>
      PROVE  (n = 0 /\ r = <<x, y>>) \/ (n = 1 /\ r = <<y>>) \/ (n = 2 /\ r = <<>>)
  <2>1. Len(q) = 2 /\ n \in 0..2
    BY <1>3
  <2>2. CASE n = 0
    <3>1. r = SubSeq(<<x, y>>, 1, 2)
      BY <1>3, <2>1, <2>2
    <3> QED BY <2>2, <3>1, SubSeqShapes
  <2>3. CASE n = 1
    <3>1. r = SubSeq(<<x, y>>, 2, 2)
      BY <1>3, <2>1, <2>3
    <3> QED BY <2>3, <3>1, SubSeqShapes
  <2>4. CASE n = 2
    <3>1. r = SubSeq(<<x, y>>, 3, 2)
      BY <1>3, <2>1, <2>4
    <3> QED BY <2>4, <3>1, SubSeqShapes
  <2> QED BY <2>1, <2>2, <2>3, <2>4
<1>4. CASE q = <<Ack>>
  <2>1. (n = 0 /\ r = q) \/ (n = 1 /\ r = <<>>)
    BY <1>4, <1>2
  <2>2. q[1] = Ack
    BY <1>4
  <2> QED BY <1>0, <1>4, <2>1, <2>2 DEF AtMostOneEach
<1>5. CASE \E m : q = <<Number(m)>>
  <2> PICK m : q = <<Number(m)>>
    BY <1>5
  <2>1. (n = 0 /\ r = q) \/ (n = 1 /\ r = <<>>)
    BY <1>2
  <2>2. q[1] = Number(m)
    OBVIOUS
  <2> QED BY <1>0, <2>1, <2>2 DEF AtMostOneEach
<1>6. CASE \E m : q = <<Number(m), Ack>>
  <2> PICK m : q = <<Number(m), Ack>>
    BY <1>6
  <2>1. (n = 0 /\ r = q) \/ (n = 1 /\ r = <<Ack>>) \/ (n = 2 /\ r = <<>>)
    BY <1>3
  <2>2. q[1] = Number(m) /\ q[2] = Ack
    OBVIOUS
  <2> QED BY <1>0, <2>1, <2>2 DEF AtMostOneEach
<1>7. CASE \E m : q = <<Ack, Number(m)>>
  <2> PICK m : q = <<Ack, Number(m)>>
    BY <1>7
  <2>1. (n = 0 /\ r = q) \/ (n = 1 /\ r = <<Number(m)>>) \/ (n = 2 /\ r = <<>>)
    BY <1>3
  <2>2. q[1] = Ack /\ q[2] = Number(m)
    OBVIOUS
  <2> QED BY <1>0, <2>1, <2>2 DEF AtMostOneEach
<1> QED BY <1>1, <1>4, <1>5, <1>6, <1>7 DEF AtMostOneEach

-----------------------------------------------------------------------------
(* Every step of every machine keeps the invariant.                        *)

\* What a step leaves alone.
Quiet == UNCHANGED <<toAdapter, toHost, down, awaiting, ard, iData, iValid, iAck,
                     iBusy, qValid, qAck>>

\* Steps of no concern to the cables, but for the byte the program sends.
LEMMA QuietStep == IInv /\ Quiet => IInv'
BY DEF Quiet, IInv, PinTypes, DownInv, UpInv, AtMostOneEach, HasAck, HasNumber

\* send_byte() is called only when nothing is under way.
LEMMA SendByteIInv ==
  ASSUME IInv, SendByte, UNCHANGED adapterVars
  PROVE  IInv'
<1>1. ~HasNumber(toAdapter) /\ ~iValid /\ ~HasAck(toHost)
  BY DEF IInv, DownInv, SendByte
<1>2. /\ AtMostOneEach(toAdapter')
      /\ HasAck(toAdapter') <=> HasAck(toAdapter)
  BY <1>1, WriteNumber DEF IInv, SendByte
<1>3. awaiting' = TRUE /\ UNCHANGED <<toHost, down, ard, iData, iValid, iAck, iBusy, qValid, qAck>>
  BY DEF SendByte, adapterVars, pins
<1>4. DownInv'
  BY <1>1, <1>3 DEF IInv, DownInv, HasAck
<1>5. UpInv'
  BY <1>2, <1>3 DEF IInv, UpInv, HasNumber
<1> QED BY <1>2, <1>3, <1>4, <1>5 DEF IInv, PinTypes, AtMostOneEach

\* The ACK releases the host, and nothing is under way then.
LEMMA DoneOnAckIInv ==
  ASSUME IInv, DoneOnAck, UNCHANGED adapterVars
  PROVE  IInv'
<1>1. /\ toHost # <<>> /\ toHost' = Tail(toHost) /\ awaiting' = IsData(Head(toHost))
      /\ UNCHANGED <<toAdapter, down, ard, iData, iValid, iAck, iBusy, qValid, qAck>>
  BY DEF DoneOnAck, adapterVars, pins
<1>2. /\ AtMostOneEach(toHost')
      /\ IF IsData(Head(toHost))
         THEN /\ HasNumber(toHost) /\ ~HasNumber(toHost')
              /\ HasAck(toHost') <=> HasAck(toHost)
         ELSE /\ HasAck(toHost) /\ ~HasAck(toHost')
              /\ HasNumber(toHost') <=> HasNumber(toHost)
  BY <1>1, ReadOne DEF IInv
<1>3. awaiting' \in BOOLEAN /\ awaiting
  BY <1>1 DEF IsData, DoneOnAck
<1>4. DownInv'
  <2>1. HasNumber(toAdapter)' <=> HasNumber(toAdapter)
    BY <1>1 DEF HasNumber
  <2> QED BY <1>1, <1>2, <1>3, <2>1 DEF IInv, DownInv
<1>5. UpInv'
  <2>1. HasAck(toAdapter)' <=> HasAck(toAdapter)
    BY <1>1 DEF HasAck
  <2> QED BY <1>1, <1>2, <2>1 DEF IInv, UpInv
<1> QED BY <1>1, <1>2, <1>3, <1>4, <1>5 DEF IInv, PinTypes, AtMostOneEach

\* Each byte from the picoputer is answered with one ACK.
LEMMA ProcessPacketIInv ==
  ASSUME IInv, ProcessPacket, UNCHANGED adapterVars
  PROVE  IInv'
<1>1. /\ toHost # <<>> /\ toHost' = Tail(toHost) /\ toAdapter' = Append(toAdapter, Ack)
      /\ ~awaiting
      /\ UNCHANGED <<awaiting, down, ard, iData, iValid, iAck, iBusy, qValid, qAck>>
  BY DEF ProcessPacket, adapterVars, pins
<1>2. /\ AtMostOneEach(toHost') /\ HasNumber(toHost) /\ ~HasNumber(toHost')
      /\ ~HasAck(toHost')
  BY <1>1, ReadOne DEF IInv, DownInv
<1>3. ~HasAck(toAdapter)
  BY <1>2 DEF IInv, UpInv
<1>4. /\ AtMostOneEach(toAdapter')
      /\ HasNumber(toAdapter') <=> HasNumber(toAdapter)
  BY <1>1, <1>3, WriteAck DEF IInv
<1>5. DownInv'
  BY <1>1, <1>2, <1>4 DEF IInv, DownInv
<1>6. UpInv'
  BY <1>1, <1>2 DEF IInv, UpInv
<1> QED BY <1>1, <1>2, <1>4, <1>5, <1>6 DEF IInv, PinTypes

\* A number on the serial line finds the I pins free; an ACK lowers QAck.
LEMMA ReadSerialIInv ==
  ASSUME IInv, ReadSerial, UNCHANGED hostVars
  PROVE  IInv'
<1>1. PICK n \in 0..Len(toAdapter) :
        LET shown == {i \in 1..n : Shown(toAdapter[i])}
            last  == CHOOSE i \in shown : \A j \in shown : j <= i
        IN /\ toAdapter' = SubSeq(toAdapter, n + 1, Len(toAdapter))
           /\ qAck' = QAckAfter(n)
           /\ iData' = IF shown = {} THEN iData ELSE toAdapter[last][1]
           /\ iValid' = (iValid \/ shown # {})
  BY DEF ReadSerial
<1> DEFINE shown == {i \in 1..n : Shown(toAdapter[i])}
           last  == CHOOSE i \in shown : \A j \in shown : j <= i
<1>2. /\ ard = "serial" /\ ard' = "iack"
      /\ UNCHANGED <<toHost, awaiting, down, iAck, iBusy, qValid>>
  BY DEF ReadSerial, hostVars
<1>3. /\ AtMostOneEach(toAdapter')
      /\ HasAck(toAdapter') => HasAck(toAdapter) /\ \A i \in 1..n : IsData(toAdapter[i])
      /\ HasNumber(toAdapter') => HasNumber(toAdapter) /\ \A i \in 1..n : ~IsData(toAdapter[i])
      /\ \A i \in 1..n : IF IsData(toAdapter[i]) THEN HasNumber(toAdapter) ELSE HasAck(toAdapter)
  BY <1>1, ReadSome DEF IInv
<1>4. shown # {} => HasNumber(toAdapter) /\ ~HasNumber(toAdapter')
  BY <1>3 DEF Shown
<1>5. \A i, j \in shown : i = j
  BY OneNumber DEF IInv, Shown
<1>6. iData' \in 0..255
  <2>1. CASE shown = {}
    BY <1>1, <2>1 DEF IInv, PinTypes
  <2>2. CASE shown # {}
    <3>1. PICK k \in shown : TRUE
      BY <2>2
    <3>2. k \in 1..n /\ \A j \in shown : j <= k
      BY <1>5
    <3>3. last \in shown
      BY <3>1, <3>2
    <3>4. toAdapter[last][1] \in 0..255
      BY <3>3 DEF Shown
    <3> QED BY <1>1, <2>2, <3>4
  <2> QED BY <2>1, <2>2
<1>7. qAck' = (qAck /\ \A i \in 1..n : IsData(toAdapter[i]))
  BY <1>1 DEF QAckAfter
<1>8. iValid' = (iValid \/ shown # {})
  BY <1>1
<1>9. PinTypes'
  BY <1>2, <1>6, <1>7, <1>8 DEF IInv, PinTypes
<1> HIDE DEF shown, last
<1>10. DownInv'
  <2>1. HasAck(toHost)' <=> HasAck(toHost)
    BY <1>2 DEF HasAck
  <2> QED BY <1>2, <1>3, <1>4, <1>8, <2>1 DEF IInv, DownInv, PinTypes
<1>11. UpInv'
  <2>1. HasNumber(toHost)' <=> HasNumber(toHost)
    BY <1>2 DEF HasNumber
  <2>2. HasNumber(toHost) => qAck'
    BY <1>3, <1>7 DEF IInv, UpInv, PinTypes
  <2>3. HasAck(toAdapter') => qAck'
    BY <1>3, <1>7 DEF IInv, UpInv, PinTypes
  <2> QED BY <1>2, <1>3, <1>7, <2>1, <2>2, <2>3 DEF IInv, UpInv, PinTypes
<1> QED BY <1>2, <1>3, <1>9, <1>10, <1>11 DEF IInv, AtMostOneEach

\* IAck is passed on once, because IValid falls in the same pass.
LEMMA LookAtIAckIInv ==
  ASSUME IInv, LookAtIAck, UNCHANGED hostVars
  PROVE  IInv'
<1>1. /\ ard = "iack" /\ ard' = "qvalid"
      /\ toHost' = IF iAck THEN Append(toHost, Ack) ELSE toHost
      /\ iValid' = (iValid /\ ~iAck)
      /\ iAck' = (iAck /\ iValid')
      /\ UNCHANGED <<awaiting, toAdapter, down, iData, iBusy, qValid, qAck>>
  BY DEF LookAtIAck, PassIAckOn, IValidAfter, hostVars
<1>2. iAck => ~HasAck(toHost) /\ ~HasNumber(toAdapter) /\ iValid /\ ~iBusy /\ awaiting
  BY DEF IInv, DownInv
<1>3. /\ AtMostOneEach(toHost')
      /\ HasNumber(toHost') <=> HasNumber(toHost)
      /\ HasAck(toHost') => iAck \/ HasAck(toHost)
  <2>1. CASE iAck
    BY <1>1, <1>2, <2>1, WriteAck DEF IInv
  <2>2. CASE ~iAck
    BY <1>1, <2>2 DEF IInv
  <2> QED BY <2>1, <2>2
<1>4. PinTypes'
  BY <1>1 DEF IInv, PinTypes
<1>5. HasNumber(toAdapter)' = HasNumber(toAdapter) /\ HasAck(toAdapter)' = HasAck(toAdapter)
  BY <1>1 DEF HasNumber, HasAck
<1>6. DownInv'
  BY <1>1, <1>2, <1>3, <1>5 DEF IInv, DownInv, PinTypes
<1>7. UpInv'
  BY <1>1, <1>3, <1>5 DEF IInv, UpInv, PinTypes
<1> QED BY <1>1, <1>3, <1>4, <1>6, <1>7 DEF IInv, AtMostOneEach

\* A byte is on the Q pins only when the last one is acknowledged: no number
\* is on the way to the host, and no ACK on the way back.
LEMMA LookAtQValidIInv ==
  ASSUME IInv, LookAtQValid, UNCHANGED hostVars
  PROVE  IInv'
<1>1. /\ ard = "qvalid"
      /\ UNCHANGED <<awaiting, toAdapter, toHost, down, iData, iValid, iAck, iBusy, qValid>>
      /\ IF qValid THEN qAck' = TRUE /\ ard' = "wait" ELSE ard' = "serial" /\ qAck' = qAck
  BY DEF LookAtQValid, hostVars, cables
<1>2. /\ HasNumber(toAdapter)' = HasNumber(toAdapter) /\ HasAck(toAdapter)' = HasAck(toAdapter)
      /\ HasNumber(toHost)' = HasNumber(toHost) /\ HasAck(toHost)' = HasAck(toHost)
      /\ AtMostOneEach(toAdapter') /\ AtMostOneEach(toHost')
  BY <1>1 DEF HasNumber, HasAck, IInv
<1>3. PinTypes' /\ DownInv'
  BY <1>1, <1>2 DEF IInv, PinTypes, DownInv
<1>4. UpInv'
  BY <1>1, <1>2 DEF IInv, UpInv
<1> QED BY <1>2, <1>3, <1>4 DEF IInv

\* The byte is sent on to the host, which has had the last one.
LEMMA QValidFellIInv ==
  ASSUME IInv, QValidFell, UNCHANGED hostVars
  PROVE  IInv'
<1>1. /\ ard = "wait" /\ ~qValid /\ ard' = "serial"
      /\ toHost' = Append(toHost, Number(qval))
      /\ UNCHANGED <<awaiting, toAdapter, down, iData, iValid, iAck, iBusy, qValid, qAck>>
  BY DEF QValidFell, hostVars, pins
<1>2. ~HasNumber(toHost) /\ ~HasAck(toAdapter) /\ qAck
  BY <1>1 DEF IInv, UpInv
<1>3. AtMostOneEach(toHost') /\ (HasAck(toHost') <=> HasAck(toHost))
  BY <1>1, <1>2, WriteNumber DEF IInv
<1>4. HasNumber(toAdapter)' = HasNumber(toAdapter) /\ HasAck(toAdapter)' = HasAck(toAdapter)
  BY <1>1 DEF HasNumber, HasAck
<1>5. DownInv'
  BY <1>1, <1>3, <1>4 DEF IInv, DownInv
<1>6. UpInv'
  BY <1>1, <1>2, <1>4 DEF IInv, UpInv
<1> QED BY <1>1, <1>3, <1>5, <1>6 DEF IInv, PinTypes, AtMostOneEach

\* What the C011 does.
LEMMA ChipIInv ==
  ASSUME IInv, Chip, UNCHANGED hostVars
  PROVE  IInv'
<1>1. UNCHANGED <<toAdapter, toHost, awaiting, ard, iData, iValid, qAck>>
  BY DEF Chip, ChipSend, ChipAcked, ChipPresents, ChipTaken, hostVars, cables
<1>2. /\ HasNumber(toAdapter)' = HasNumber(toAdapter) /\ HasAck(toAdapter)' = HasAck(toAdapter)
      /\ HasNumber(toHost)' = HasNumber(toHost) /\ HasAck(toHost)' = HasAck(toHost)
      /\ AtMostOneEach(toAdapter') /\ AtMostOneEach(toHost')
  BY <1>1 DEF HasNumber, HasAck, IInv
<1>3. CASE ChipSend
  <2>1. PinTypes' /\ DownInv' /\ UpInv'
    BY <1>1, <1>2, <1>3 DEF ChipSend, IInv, PinTypes, DownInv, UpInv
  <2> QED BY <1>2, <2>1 DEF IInv
<1>4. CASE ChipAcked
  <2>1. /\ iBusy /\ down = NoByte /\ iAck' = TRUE /\ iBusy' = FALSE
        /\ UNCHANGED <<down, qValid>>
    BY <1>4 DEF ChipAcked, cables
  <2>2. PinTypes'
    BY <1>1, <2>1 DEF IInv, PinTypes
  <2>3. DownInv'
    BY <1>1, <1>2, <2>1 DEF IInv, DownInv
  <2>4. UpInv'
    BY <1>1, <1>2, <2>1 DEF IInv, UpInv
  <2> QED BY <1>2, <2>2, <2>3, <2>4 DEF IInv
<1>5. CASE ChipPresents
  <2>1. PinTypes' /\ DownInv' /\ UpInv'
    BY <1>1, <1>2, <1>5 DEF ChipPresents, IInv, PinTypes, DownInv, UpInv, cables
  <2> QED BY <1>2, <2>1 DEF IInv
<1>6. CASE ChipTaken
  <2>1. /\ qValid /\ qAck /\ qValid' = FALSE
        /\ UNCHANGED <<down, iAck, iBusy>>
    BY <1>6 DEF ChipTaken
  <2>2. PinTypes'
    BY <1>1, <2>1 DEF IInv, PinTypes
  <2>3. DownInv'
    BY <1>1, <1>2, <2>1 DEF IInv, DownInv
  <2>4. UpInv'
    BY <1>1, <1>2, <2>1 DEF IInv, UpInv
  <2> QED BY <1>2, <2>2, <2>3, <2>4 DEF IInv
<1> QED BY <1>3, <1>4, <1>5, <1>6 DEF Chip

\* The bootstrap and the program take bytes off the link and put bytes on it.
LEMMA PicoIInv ==
  ASSUME IInv, Boot \/ Program, UNCHANGED <<hostVars, adapterVars>>
  PROVE  IInv'
<1>1. /\ UNCHANGED <<toAdapter, toHost, awaiting, ard, iData, iValid, iAck, iBusy, qValid, qAck>>
      /\ down' = down \/ down' = NoByte
  BY DEF Boot, BootStart, BootLoad, StartProgram, Program, ReadRest, Ask, SendRequest,
         RequestSent, ReceiveReply, hostVars, adapterVars, pins, cables
<1>2. /\ HasNumber(toAdapter)' = HasNumber(toAdapter) /\ HasAck(toAdapter)' = HasAck(toAdapter)
      /\ HasNumber(toHost)' = HasNumber(toHost) /\ HasAck(toHost)' = HasAck(toHost)
      /\ AtMostOneEach(toAdapter') /\ AtMostOneEach(toHost')
  BY <1>1 DEF HasNumber, HasAck, IInv
<1>3. PinTypes' /\ DownInv' /\ UpInv'
  BY <1>1, <1>2 DEF IInv, PinTypes, DownInv, UpInv
<1> QED BY <1>2, <1>3 DEF IInv

-----------------------------------------------------------------------------
(* The theorems.                                                           *)

\* The invariant: down the link and up it there is one byte or ACK at a
\* time, in one place, and the flags of host, loop() and C011 say where.
THEOREM Invariance == Spec => []IInv
<1>1. Init => IInv
  <2> SUFFICES ASSUME Init PROVE IInv
    OBVIOUS
  <2>1. /\ toAdapter = <<>> /\ toHost = <<>> /\ down = NoByte /\ awaiting = FALSE
        /\ ard = "serial" /\ iData = 0 /\ iValid = FALSE /\ iAck = FALSE
        /\ iBusy = FALSE /\ qValid = FALSE /\ qAck = FALSE
    BY DEF Init, CablesInit, AdapterInit, HostInit
  <2>2. ~HasAck(toAdapter) /\ ~HasNumber(toAdapter) /\ ~HasAck(toHost) /\ ~HasNumber(toHost)
    BY <2>1, Shapes
  <2>3. PinTypes
    <3>1. ard \in {"serial", "iack", "qvalid", "wait"}
      BY <2>1
    <3>2. iData \in 0..255
      BY <2>1
    <3>3. FALSE \in BOOLEAN
      OBVIOUS
    <3> QED BY <2>1, <3>1, <3>2, <3>3, Zenon DEF PinTypes
  <2>4. DownInv /\ UpInv
    BY <2>1, <2>2 DEF DownInv, UpInv
  <2> QED BY <2>1, <2>3, <2>4 DEF IInv, AtMostOneEach
<1>2. IInv /\ [Next]_vars => IInv'
  <2> SUFFICES ASSUME IInv, [Next]_vars PROVE IInv'
    OBVIOUS
  <2>1. CASE Host /\ UNCHANGED <<adapterVars, picoVars>>
    BY <2>1, SendByteIInv, DoneOnAckIInv, ProcessPacketIInv DEF Host
  <2>2. CASE Arduino /\ UNCHANGED <<hostVars, picoVars>>
    BY <2>2, ReadSerialIInv, LookAtIAckIInv, LookAtQValidIInv, QValidFellIInv DEF Arduino
  <2>3. CASE Chip /\ UNCHANGED <<hostVars, picoVars>>
    BY <2>3, ChipIInv
  <2>4. CASE (Boot \/ Program) /\ UNCHANGED <<hostVars, adapterVars>>
    BY <2>4, PicoIInv
  <2>5. CASE UNCHANGED vars
    BY <2>5, QuietStep DEF vars, Quiet, cables, adapterVars, hostVars, pins
  <2> QED BY <2>1, <2>2, <2>3, <2>4, <2>5 DEF Next
<1> QED BY <1>1, <1>2, PTL DEF Spec

\* No byte runs over another one and no buffer fills, for any boot file,
\* program and answers: what send_byte(), packet_loop() and loop() are paired
\* for, also when host and program disagree on the length of a reply.
THEOREM ByteFlowIsControlled == Spec => []FlowControlled
<1>2. IInv => FlowControlled
  <2> SUFFICES ASSUME IInv PROVE FlowControlled
    OBVIOUS
  <2>1. SerialBounded /\ \A i, j \in OnSerial : i = j
    BY OneNumber DEF IInv, SerialBounded, OnSerial
  <2>2. OnSerial # {} <=> HasNumber(toAdapter)
    BY DEF OnSerial, HasNumber
  <2> QED BY <2>1, <2>2 DEF IInv, DownInv, PinTypes, FlowControlled, OneByteDown, OnPins
<1> QED BY <1>2, Invariance, PTL

-----------------------------------------------------------------------------
(* Downwards.                                                              *)

\* The picoputer has been given the last number the host has sent.
Taken ==
  \/ ~awaiting
  \/ HasAck(toHost)
  \/ iValid /\ down = NoByte /\ (iAck \/ iBusy)

\* The only numbers in q are v.
NumberIs(q, v) == \A i \in DOMAIN q : IsData(q[i]) => q[i] = Number(v)

\* Wherever the last number the host has sent is on its way, it is v.
OnItsWay(v) ==
  /\ NumberIs(toAdapter, v)
  /\ iValid => iData = v
  /\ down # NoByte => down = v

\* The host is sending the numbers E, and the picoputer has been given c.
DownStream(E, c) ==
  \E p \in 0..Len(E) :
    /\ sending = SubSeq(E, p + 1, Len(E))
    /\ Taken => c = p
    /\ ~Taken => c = p - 1 /\ OnItsWay(E[p])

-----------------------------------------------------------------------------
(* Upwards.                                                                *)

\* How many bytes of the request the C011 has passed to loop().
Passed == IF up # NoByte THEN sent - 1 ELSE sent

\* The last of them is on its way to the host.
InFlight == (ard = "wait" /\ ~qValid) \/ HasNumber(toHost)

\* Each byte the program sends is on the link, on the Q pins or on the serial
\* line to the host, which has read n.
UpStream(n) ==
  /\ up # NoByte => sent > 0 /\ up = request[sent]
  /\ qValid => up # NoByte /\ qData = up
  /\ ard = "wait" /\ qValid => qval = up
  /\ ard = "wait" /\ ~qValid => qval = request[Passed]
  /\ NumberIs(toHost, request[Passed])
  /\ n = IF InFlight THEN Passed - 1 ELSE Passed

-----------------------------------------------------------------------------
(* Lines and streams.                                                      *)

\* The numbers on a line when a packet is written to it, or read from it.
LEMMA NumberWritten ==
  ASSUME NEW q, AtMostOneEach(q), NEW v
  PROVE  /\ NumberIs(q, v) => NumberIs(Append(q, Ack), v)
         /\ ~HasNumber(q) => NumberIs(Append(q, Number(v)), v)
<1>1. PICK S : q \in Seq(S)
  BY LineIsSeq
<1> DEFINE T == S \cup {v, Ack, Number(v)}
<1>2. q \in Seq(T) /\ v \in T /\ Ack \in T /\ Number(v) \in T
  BY <1>1, SeqMonotonic
<1> HIDE DEF T
<1>3. Len(q) \in Nat /\ DOMAIN q = 1..Len(q)
  BY <1>2, LenProperties
<1>4. ASSUME NEW x \in T
      PROVE  /\ DOMAIN Append(q, x) = 1..(Len(q) + 1)
             /\ \A i \in 1..Len(q) : Append(q, x)[i] = q[i]
             /\ Append(q, x)[Len(q) + 1] = x
  BY <1>2, AppendProperties, LenProperties
<1>5. \A i \in 1..(Len(q) + 1) : i \in 1..Len(q) \/ i = Len(q) + 1
  BY <1>3
<1>6. NumberIs(q, v) => NumberIs(Append(q, Ack), v)
  BY <1>2, <1>3, <1>4, <1>5, Packets DEF NumberIs
<1>7. ~HasNumber(q) => NumberIs(Append(q, Number(v)), v)
  BY <1>2, <1>3, <1>4, <1>5 DEF NumberIs, HasNumber
<1> QED BY <1>6, <1>7

\* The same of a packet, or several, that is read from it.
LEMMA NumberRead ==
  ASSUME NEW q, AtMostOneEach(q), NEW v, NumberIs(q, v)
  PROVE  /\ q # <<>> => /\ NumberIs(Tail(q), v)
                        /\ IsData(Head(q)) => Head(q) = Number(v)
         /\ \A n \in 0..Len(q) : NumberIs(SubSeq(q, n + 1, Len(q)), v)
         /\ \A n \in 0..Len(q) : \A i \in 1..n : IsData(q[i]) => q[i] = Number(v)
<1>1. PICK S : q \in Seq(S)
  BY LineIsSeq
<1>2. Len(q) \in Nat /\ DOMAIN q = 1..Len(q)
  BY <1>1, LenProperties
<1>3. ASSUME q # <<>>
      PROVE  NumberIs(Tail(q), v) /\ (IsData(Head(q)) => Head(q) = Number(v))
  <2>1. /\ Tail(q) \in Seq(S) /\ Len(Tail(q)) = Len(q) - 1 /\ Len(q) > 0
        /\ \A i \in 1..Len(Tail(q)) : Tail(q)[i] = q[i + 1]
        /\ Head(q) = q[1]
    BY <1>1, <1>2, <1>3, HeadTailProperties, EmptySeq
  <2>2. DOMAIN Tail(q) = 1..Len(Tail(q))
    BY <2>1, LenProperties
  <2>3. \A i \in 1..Len(Tail(q)) : i + 1 \in 1..Len(q)
    BY <1>2, <2>1
  <2>4. 1 \in 1..Len(q)
    BY <1>2, <2>1
  <2> QED BY <1>2, <2>1, <2>2, <2>3, <2>4 DEF NumberIs
<1>4. ASSUME NEW n \in 0..Len(q)
      PROVE  NumberIs(SubSeq(q, n + 1, Len(q)), v)
  <2> DEFINE r == SubSeq(q, n + 1, Len(q))
  <2>1. \A i \in (n + 1)..Len(q) : q[i] \in S
    BY <1>1, <1>2, ElementOfSeq
  <2>2. /\ r \in Seq(S) /\ Len(r) = Len(q) - n
        /\ \A i \in 1..(Len(q) - n) : r[i] = q[n + i]
    <3>1. /\ r \in Seq(S)
          /\ Len(r) = IF n + 1 <= Len(q) THEN Len(q) - (n + 1) + 1 ELSE 0
          /\ \A i \in 1..(Len(q) - (n + 1) + 1) : r[i] = q[n + 1 + i - 1]
      BY <1>2, <2>1, SubSeqProperties
    <3> HIDE DEF r
    <3>2. Len(q) - (n + 1) + 1 = Len(q) - n /\ \A i \in 1..(Len(q) - n) : n + 1 + i - 1 = n + i
      BY <1>2
    <3>3. Len(r) = Len(q) - n
      <4>1. CASE n + 1 <= Len(q)
        BY <3>1, <3>2, <4>1
      <4>2. CASE n = Len(q)
        BY <1>2, <3>1, <4>2
      <4>3. n + 1 <= Len(q) \/ n = Len(q)
        <5>1. Len(q) \in Int /\ n \in Int /\ n <= Len(q)
          BY <1>2
        <5> QED BY <5>1
      <4> QED BY <4>1, <4>2, <4>3, Zenon
    <3>4. ASSUME NEW i \in 1..(Len(q) - n) PROVE r[i] = q[n + i]
      <4>1. i \in 1..(Len(q) - (n + 1) + 1) /\ n + 1 + i - 1 = n + i
        BY <3>2
      <4>2. r[i] = q[n + 1 + i - 1]
        BY <3>1, <4>1
      <4> QED BY <4>1, <4>2
    <3> QED BY <3>1, <3>3, <3>4
  <2>3. DOMAIN r = 1..(Len(q) - n)
    BY <2>2, LenProperties
  <2> HIDE DEF r
  <2>4. \A i \in 1..(Len(q) - n) : n + i \in 1..Len(q)
    BY <1>2
  <2>5. NumberIs(r, v)
    BY <1>2, <2>2, <2>3, <2>4 DEF NumberIs
  <2> QED BY <2>5 DEF r
<1>5. \A n \in 0..Len(q) : \A i \in 1..n : i \in 1..Len(q)
  BY <1>2
<1> QED BY <1>2, <1>3, <1>4, <1>5 DEF NumberIs

\* A packet that is written to a line is on it.
LEMMA AckWritten ==
  ASSUME NEW q, AtMostOneEach(q)
  PROVE  HasAck(Append(q, Ack)) /\ \A n : HasNumber(Append(q, Number(n)))
<1>1. PICK S : q \in Seq(S)
  BY LineIsSeq
<1>2. ASSUME NEW x
      PROVE  \E i \in DOMAIN Append(q, x) : Append(q, x)[i] = x
  <2> DEFINE T == S \cup {x}
  <2>1. q \in Seq(T) /\ x \in T
    BY <1>1, SeqMonotonic
  <2> HIDE DEF T
  <2>2. /\ Append(q, x)[Len(q) + 1] = x
        /\ DOMAIN Append(q, x) = 1..(Len(q) + 1)
        /\ Len(q) \in Nat
    BY <2>1, AppendProperties, LenProperties
  <2>3. Len(q) + 1 \in DOMAIN Append(q, x)
    BY <2>2
  <2> QED BY <2>2, <2>3
<1> QED BY <1>2, Packets, Zenon DEF HasAck, HasNumber

\* A line without numbers has any number.
LEMMA NoNumber ==
  ASSUME NEW q, ~HasNumber(q), NEW v
  PROVE  NumberIs(q, v)
BY DEF HasNumber, NumberIs

\* The first of the numbers still to be sent, and the others.
LEMMA NextToSend ==
  ASSUME NEW E \in Seq(Int), NEW p \in 0..Len(E), SubSeq(E, p + 1, Len(E)) # <<>>
  PROVE  /\ p + 1 \in 0..Len(E)
         /\ Head(SubSeq(E, p + 1, Len(E))) = E[p + 1]
         /\ Tail(SubSeq(E, p + 1, Len(E))) = SubSeq(E, p + 2, Len(E))
<1>1. Len(E) \in Nat
  BY LenProperties
<1>2. p + 1 <= Len(E)
  BY <1>1, SubSeqEmpty
<1>3. p + 1 \in 1..Len(E) /\ Len(E) \in (p + 1)..Len(E) /\ p + 1 + 1 = p + 2
  BY <1>1, <1>2
<1> QED BY <1>1, <1>3, HeadTailOfSubSeq

-----------------------------------------------------------------------------
(* What each machine does to the stream downwards.                         *)

\* send_byte(): the next number is on the serial line, and nothing else is.
LEMMA DownSendByte ==
  ASSUME IInv, SendByte, UNCHANGED adapterVars,
         NEW E \in Seq(Int), NEW c, DownStream(E, c)
  PROVE  DownStream(E, c)'
<1>1. PICK p \in 0..Len(E) : /\ sending = SubSeq(E, p + 1, Len(E))
                             /\ Taken => c = p
  BY DEF DownStream
<1>2. /\ ~awaiting /\ sending # <<>> /\ sending' = Tail(sending) /\ awaiting' = TRUE
      /\ toAdapter' = Append(toAdapter, Number(Head(sending)))
      /\ UNCHANGED <<toHost, down, iValid, iAck, iBusy>>
  BY DEF SendByte, adapterVars, pins
<1>3. c = p
  BY <1>1, <1>2 DEF Taken
<1>4. /\ p + 1 \in 0..Len(E) /\ Head(sending) = E[p + 1]
      /\ Tail(sending) = SubSeq(E, p + 2, Len(E))
  BY <1>1, <1>2, NextToSend
<1>5. ~HasNumber(toAdapter) /\ ~iValid /\ ~HasAck(toHost) /\ AtMostOneEach(toAdapter) /\ down = NoByte
  BY <1>2 DEF IInv, DownInv
<1>6. ~Taken'
  BY <1>2, <1>5 DEF Taken, HasAck
<1>7. OnItsWay(E[p + 1])'
  BY <1>2, <1>4, <1>5, NumberWritten DEF OnItsWay
<1> DEFINE r == p + 1
<1>8. r + 1 = p + 2 /\ c = r - 1
  BY <1>3
<1>9. r \in 0..Len(E) /\ sending' = SubSeq(E, r + 1, Len(E)) /\ OnItsWay(E[r])'
  BY <1>2, <1>4, <1>7, <1>8
<1> HIDE DEF r
<1> QED BY <1>6, <1>8, <1>9 DEF DownStream

\* A step that sends nothing and takes nothing.
LEMMA DownKept ==
  ASSUME NEW E, NEW c, DownStream(E, c), sending' = sending, Taken' <=> Taken,
         \A v : ~Taken /\ OnItsWay(v) => OnItsWay(v)'
  PROVE  DownStream(E, c)'
<1>1. PICK p \in 0..Len(E) : /\ sending = SubSeq(E, p + 1, Len(E))
                             /\ Taken => c = p
                             /\ ~Taken => c = p - 1 /\ OnItsWay(E[p])
  BY DEF DownStream
<1>2. ~Taken => OnItsWay(E[p])'
  BY <1>1
<1> QED BY <1>1, <1>2 DEF DownStream

\* The ACK is read: the number it is for has been taken.  A number that is
\* read instead changes nothing.
LEMMA DownDoneOnAck ==
  ASSUME IInv, DoneOnAck, UNCHANGED adapterVars, NEW E, NEW c, DownStream(E, c)
  PROVE  DownStream(E, c)'
<1>1. /\ toHost # <<>> /\ toHost' = Tail(toHost) /\ awaiting /\ awaiting' = IsData(Head(toHost))
      /\ UNCHANGED <<sending, toAdapter, down, iData, iValid, iAck, iBusy>>
  BY DEF DoneOnAck, adapterVars, pins
<1>2. CASE IsData(Head(toHost))
  <2>1. HasAck(toHost') <=> HasAck(toHost)
    BY <1>1, <1>2, ReadOne DEF IInv
  <2>2. (Taken' <=> Taken) /\ \A v : OnItsWay(v) => OnItsWay(v)'
    BY <1>1, <1>2, <2>1 DEF Taken, OnItsWay
  <2> QED BY <1>1, <2>2, DownKept
<1>3. CASE ~IsData(Head(toHost))
  <2>1. HasAck(toHost)
    BY <1>1, <1>3, ReadOne DEF IInv
  <2>2. Taken /\ Taken'
    BY <1>1, <1>3, <2>1 DEF Taken
  <2> QED BY <1>1, <2>2, DownKept
<1> QED BY <1>2, <1>3

\* loop() puts the number on the I pins.
LEMMA DownReadSerial ==
  ASSUME IInv, ReadSerial, UNCHANGED hostVars, NEW E, NEW c, DownStream(E, c)
  PROVE  DownStream(E, c)'
<1>1. PICK n \in 0..Len(toAdapter) :
        LET shown == {i \in 1..n : Shown(toAdapter[i])}
            last  == CHOOSE i \in shown : \A j \in shown : j <= i
        IN /\ toAdapter' = SubSeq(toAdapter, n + 1, Len(toAdapter))
           /\ qAck' = QAckAfter(n)
           /\ iData' = IF shown = {} THEN iData ELSE toAdapter[last][1]
           /\ iValid' = (iValid \/ shown # {})
  BY DEF ReadSerial
<1> DEFINE shown == {i \in 1..n : Shown(toAdapter[i])}
           last  == CHOOSE i \in shown : \A j \in shown : j <= i
<1>2. UNCHANGED <<toHost, sending, awaiting, down, iAck, iBusy>>
  BY DEF ReadSerial, hostVars
<1>3. iData' = IF shown = {} THEN iData ELSE toAdapter[last][1]
  BY <1>1
<1>4. iValid' = (iValid \/ shown # {}) /\ toAdapter' = SubSeq(toAdapter, n + 1, Len(toAdapter))
  BY <1>1
<1>5. Taken' <=> Taken
  BY <1>2, <1>4 DEF Taken, HasAck, IInv, DownInv
<1>6. ASSUME NEW v, ~Taken, OnItsWay(v)
      PROVE  OnItsWay(v)'
  <2>1. NumberIs(toAdapter, v) /\ AtMostOneEach(toAdapter)
    BY <1>6 DEF OnItsWay, IInv
  <2>2. NumberIs(toAdapter', v) /\ \A i \in 1..n : IsData(toAdapter[i]) => toAdapter[i] = Number(v)
    BY <1>4, <2>1, NumberRead
  <2>3. CASE shown = {}
    BY <1>2, <1>3, <1>4, <1>6, <2>2, <2>3 DEF OnItsWay
  <2>4. CASE shown # {}
    <3>1. HasNumber(toAdapter)
      BY <2>4, ReadSome DEF Shown, IInv
    <3>2. down = NoByte
      BY <3>1 DEF IInv, DownInv
    <3>3. \A i \in shown : toAdapter[i] = Number(v)
      BY <2>2 DEF Shown
    <3>4. last \in shown
      <4>1. \A i, j \in shown : i = j
        BY OneNumber DEF IInv, Shown
      <4>2. PICK k \in shown : TRUE
        BY <2>4
      <4>3. k \in 1..n /\ \A j \in shown : j <= k
        BY <4>1
      <4> QED BY <4>2, <4>3
    <3>5. toAdapter[last] = Number(v)
      BY <3>3, <3>4
    <3>6. Number(v)[1] = v
      BY DEF Number
    <3> HIDE DEF shown, last
    <3>7. iData' = v
      BY <1>3, <2>4, <3>5, <3>6
    <3> QED BY <1>2, <2>2, <3>2, <3>7 DEF OnItsWay
  <2> QED BY <2>3, <2>4
<1> QED BY <1>2, <1>5, <1>6, DownKept

\* loop() passes IAck on.
LEMMA DownLookAtIAck ==
  ASSUME IInv, LookAtIAck, UNCHANGED hostVars, NEW E, NEW c, DownStream(E, c)
  PROVE  DownStream(E, c)'
<1>1. /\ toHost' = IF iAck THEN Append(toHost, Ack) ELSE toHost
      /\ iValid' = (iValid /\ ~iAck)
      /\ iAck' = (iAck /\ iValid')
      /\ UNCHANGED <<toAdapter, sending, awaiting, down, iData, iBusy>>
  BY DEF LookAtIAck, PassIAckOn, IValidAfter, hostVars
<1>2. CASE iAck
  <2>1. iValid /\ ~iBusy /\ down = NoByte /\ ~HasAck(toHost)
    BY <1>2 DEF IInv, DownInv
  <2>2. HasAck(Append(toHost, Ack))
    BY AckWritten DEF IInv
  <2>3. Taken /\ Taken'
    BY <1>1, <1>2, <2>1, <2>2 DEF Taken
  <2> QED BY <1>1, <2>3, DownKept
<1>3. CASE ~iAck
  <2>1. UNCHANGED <<toHost, iValid, iAck>>
    BY <1>1, <1>3 DEF IInv, PinTypes
  <2>2. (Taken' <=> Taken) /\ \A v : OnItsWay(v) => OnItsWay(v)'
    BY <1>1, <2>1 DEF Taken, HasAck, OnItsWay
  <2> QED BY <1>1, <2>2, DownKept
<1> QED BY <1>2, <1>3

\* loop() looks at the Q pins, which are of no concern downwards.
LEMMA DownLookAtQValid ==
  ASSUME LookAtQValid, UNCHANGED hostVars, NEW E, NEW c, DownStream(E, c)
  PROVE  DownStream(E, c)'
<1>1. UNCHANGED <<toAdapter, toHost, sending, awaiting, down, iData, iValid, iAck, iBusy>>
  BY DEF LookAtQValid, hostVars, cables
<1>2. (Taken' <=> Taken) /\ \A v : OnItsWay(v) => OnItsWay(v)'
  BY <1>1 DEF Taken, HasAck, OnItsWay
<1> QED BY <1>1, <1>2, DownKept

\* A byte of the program is passed to the host.
LEMMA DownQValidFell ==
  ASSUME IInv, QValidFell, UNCHANGED hostVars, NEW E, NEW c, DownStream(E, c)
  PROVE  DownStream(E, c)'
<1>1. /\ ard = "wait" /\ toHost' = Append(toHost, Number(qval))
      /\ UNCHANGED <<toAdapter, sending, awaiting, down, iData, iValid, iAck, iBusy>>
  BY DEF QValidFell, hostVars, pins
<1>2. HasAck(toHost') <=> HasAck(toHost)
  BY <1>1, WriteNumber DEF IInv, UpInv
<1>3. (Taken' <=> Taken) /\ \A v : OnItsWay(v) => OnItsWay(v)'
  BY <1>1, <1>2 DEF Taken, OnItsWay
<1> QED BY <1>1, <1>3, DownKept

\* The C011 sends the byte on its I pins, and shows when it has been taken.
LEMMA DownChip ==
  ASSUME IInv, Chip, UNCHANGED hostVars, NEW E, NEW c, DownStream(E, c)
  PROVE  DownStream(E, c)'
<1>1. UNCHANGED <<toAdapter, toHost, sending, awaiting, iData, iValid>>
  BY DEF Chip, ChipSend, ChipAcked, ChipPresents, ChipTaken, hostVars, cables
<1>2. CASE ChipSend
  <2>1. /\ iValid /\ ~iAck /\ ~iBusy /\ down = NoByte /\ down' = iData /\ iAck' = iAck
        /\ awaiting /\ ~HasAck(toHost) /\ iData \in 0..255
    BY <1>2 DEF ChipSend, IInv, DownInv, PinTypes
  <2>2. ~Taken /\ ~Taken'
    BY <1>1, <2>1, NoByteAssumption DEF Taken, HasAck
  <2>3. \A v : OnItsWay(v) => OnItsWay(v)'
    BY <1>1, <2>1 DEF OnItsWay
  <2> QED BY <1>1, <2>2, <2>3, DownKept
<1>3. CASE ChipAcked
  <2>1. iBusy /\ iValid /\ down = NoByte /\ iAck' = TRUE /\ down' = down
    BY <1>3 DEF ChipAcked, cables, IInv, DownInv
  <2>2. Taken /\ Taken'
    BY <1>1, <2>1 DEF Taken
  <2> QED BY <1>1, <2>2, DownKept
<1>4. CASE ChipPresents \/ ChipTaken
  <2>1. UNCHANGED <<down, iAck, iBusy>>
    BY <1>4 DEF ChipPresents, ChipTaken, cables
  <2>2. (Taken' <=> Taken) /\ \A v : OnItsWay(v) => OnItsWay(v)'
    BY <1>1, <2>1 DEF Taken, HasAck, OnItsWay
  <2> QED BY <1>1, <2>2, DownKept
<1> QED BY <1>2, <1>3, <1>4 DEF Chip

\* The picoputer takes the byte on the link: it is the next one.
LEMMA DownTake ==
  ASSUME IInv, down # NoByte, down' = NoByte,
         UNCHANGED <<sending, awaiting, toAdapter, toHost, iData, iValid, iAck, iBusy>>,
         NEW E \in Seq(Int), NEW c \in Nat, DownStream(E, c)
  PROVE  /\ c + 1 <= Len(E) /\ down = E[c + 1] /\ down \in 0..255
         /\ DownStream(E, c + 1)'
<1>1. PICK p \in 0..Len(E) : /\ sending = SubSeq(E, p + 1, Len(E))
                             /\ ~Taken => c = p - 1 /\ OnItsWay(E[p])
  BY DEF DownStream
<1>2. iBusy /\ iValid /\ awaiting /\ ~HasAck(toHost)
  BY DEF IInv, DownInv
<1>3. ~Taken /\ Taken'
  BY <1>2 DEF Taken
<1>4. Len(E) \in Nat /\ p \in Int /\ p <= Len(E)
  BY LenProperties
<1>5. c = p - 1 /\ c + 1 = p
  BY <1>1, <1>3, <1>4
<1>6. down = E[p] /\ iData = E[p] /\ iData \in 0..255
  BY <1>1, <1>2, <1>3 DEF OnItsWay, IInv, PinTypes
<1> QED BY <1>1, <1>3, <1>4, <1>5, <1>6 DEF DownStream

\* All of it has been taken: nothing is under way.
LEMMA DownEnds ==
  ASSUME NEW E \in Seq(Int), DownStream(E, Len(E))
  PROVE  sending = <<>> /\ Taken
<1>1. PICK p \in 0..Len(E) : /\ sending = SubSeq(E, p + 1, Len(E))
                             /\ ~Taken => Len(E) = p - 1
                             /\ Taken => Len(E) = p
  BY DEF DownStream
<1>2. Len(E) \in Nat /\ p \in Int /\ p <= Len(E)
  BY LenProperties
<1>3. Taken /\ p = Len(E)
  BY <1>1, <1>2
<1>4. sending = <<>>
  BY <1>1, <1>2, <1>3, SubSeqEmpty
<1> QED BY <1>3, <1>4

\* A reply, or the boot file, before its first number is sent.
LEMMA DownBegins ==
  ASSUME NEW E \in Seq(Int), sending = E, Taken
  PROVE  DownStream(E, 0)
<1>1. SubSeq(E, 0 + 1, Len(E)) = E /\ Len(E) \in Nat
  BY SubSeqFull, LenProperties
<1>2. 0 \in 0..Len(E)
  BY <1>1
<1> QED BY <1>1, <1>2 DEF DownStream

-----------------------------------------------------------------------------
(* What each machine does to the stream upwards.                           *)

\* The host has read all that the program has sent: nothing is under way.
LEMMA UpIdle ==
  ASSUME NEW n \in Nat, n = sent, UpStream(n)
  PROVE  up = NoByte /\ ~InFlight /\ ~qValid /\ ard # "wait" /\ ~HasNumber(toHost)
<1>1. up = NoByte /\ ~InFlight
  <2>1. CASE up = NoByte
    BY <2>1 DEF UpStream, Passed
  <2>2. CASE up # NoByte
    BY <2>2 DEF UpStream, Passed
  <2> QED BY <2>1, <2>2
<1> QED BY <1>1 DEF UpStream, InFlight

\* And the other way round.
LEMMA UpNothing ==
  ASSUME up = NoByte, ~InFlight, ~qValid, NEW n, n = sent
  PROVE  UpStream(n)
<1>1. ard # "wait" /\ ~HasNumber(toHost)
  BY DEF InFlight
<1>2. NumberIs(toHost, request[Passed])
  BY <1>1, NoNumber
<1> QED BY <1>1, <1>2 DEF UpStream, Passed, InFlight

\* send_byte() is called while nothing is under way.
LEMMA UpSendByte ==
  ASSUME SendByte, UNCHANGED <<adapterVars, picoVars>>, NEW n \in Nat, n = sent, UpStream(n)
  PROVE  UpStream(n)'
<1>1. up = NoByte /\ ard # "wait" /\ ~HasNumber(toHost) /\ ~qValid
  BY UpIdle
<1>2. up' = NoByte /\ ard' # "wait" /\ ~HasNumber(toHost)' /\ ~qValid' /\ n = sent'
  BY <1>1 DEF SendByte, HasNumber, adapterVars, pins, picoVars, progVars
<1>3. (up = NoByte)' /\ ~InFlight' /\ ~qValid' /\ (n = sent)'
  BY <1>2 DEF InFlight
<1>4. NumberIs(toHost, request[Passed])'
  BY <1>2 DEF HasNumber, NumberIs
<1> QED BY <1>2, <1>3, <1>4 DEF UpStream, Passed, InFlight

\* done_on_ack() finds the ACK.
LEMMA UpDoneOnAck ==
  ASSUME IInv, DoneOnAck, ~IsData(Head(toHost)), UNCHANGED <<adapterVars, picoVars>>,
         NEW n, UpStream(n)
  PROVE  UpStream(n)'
<1>1. /\ toHost # <<>> /\ toHost' = Tail(toHost)
      /\ UNCHANGED <<up, ard, qData, qValid, qval, sent, request>>
  BY DEF DoneOnAck, adapterVars, pins, picoVars, progVars
<1>2. HasNumber(toHost') <=> HasNumber(toHost)
  BY <1>1, ReadOne DEF IInv
<1>3. NumberIs(toHost', request[Passed])
  BY <1>1, NumberRead DEF IInv, UpStream
<1>4. Passed' = Passed /\ (InFlight' <=> InFlight)
  BY <1>1, <1>2 DEF Passed, InFlight, HasNumber
<1> QED BY <1>1, <1>3, <1>4 DEF UpStream

\* Steps that leave the way upwards as it is.
UpSame == UNCHANGED <<up, ard, qData, qValid, qval, sent, request, toHost>>

\* They keep what is on it.
LEMMA UpKept ==
  ASSUME UpSame, NEW n, UpStream(n)
  PROVE  UpStream(n)'
<1>1. HasNumber(toHost)' <=> HasNumber(toHost)
  BY DEF UpSame, HasNumber
<1>2. Passed' = Passed /\ (InFlight' <=> InFlight)
  BY <1>1 DEF UpSame, Passed, InFlight
<1>3. NumberIs(toHost, request[Passed])'
  BY <1>2 DEF UpSame, NumberIs, UpStream
<1> QED BY <1>1, <1>2, <1>3 DEF UpStream, UpSame

\* A pass of loop() begins.
LEMMA UpReadSerial ==
  ASSUME ReadSerial, UNCHANGED <<hostVars, picoVars>>, NEW n, UpStream(n)
  PROVE  UpStream(n)'
<1>1. /\ ard = "serial" /\ ard' = "iack"
      /\ UNCHANGED <<up, qData, qValid, qval, sent, request, toHost>>
  BY DEF ReadSerial, hostVars, picoVars, progVars
<1>2. HasNumber(toHost)' <=> HasNumber(toHost)
  BY <1>1 DEF HasNumber
<1>3. Passed' = Passed /\ (InFlight' <=> InFlight)
  BY <1>1, <1>2 DEF Passed, InFlight
<1>4. NumberIs(toHost, request[Passed])'
  BY <1>1, <1>3 DEF NumberIs, UpStream
<1> QED BY <1>1, <1>2, <1>3, <1>4 DEF UpStream

\* loop() passes IAck on.
LEMMA UpLookAtIAck ==
  ASSUME IInv, LookAtIAck, UNCHANGED <<hostVars, picoVars>>, NEW n, UpStream(n)
  PROVE  UpStream(n)'
<1>1. /\ ard = "iack" /\ ard' = "qvalid"
      /\ toHost' = IF iAck THEN Append(toHost, Ack) ELSE toHost
      /\ UNCHANGED <<up, qData, qValid, qval, sent, request>>
  BY DEF LookAtIAck, PassIAckOn, hostVars, picoVars, progVars
<1>2. /\ HasNumber(toHost') <=> HasNumber(toHost)
      /\ NumberIs(toHost', request[Passed])
  <2>1. CASE iAck
    BY <1>1, <2>1, WriteAck, NumberWritten DEF UpStream, IInv, DownInv
  <2>2. CASE ~iAck
    BY <1>1, <2>2 DEF UpStream
  <2> QED BY <2>1, <2>2
<1>3. Passed' = Passed /\ (InFlight' <=> InFlight)
  BY <1>1, <1>2 DEF Passed, InFlight, HasNumber
<1> QED BY <1>1, <1>2, <1>3 DEF UpStream

\* loop() latches the byte on the Q pins.
LEMMA UpLookAtQValid ==
  ASSUME LookAtQValid, UNCHANGED <<hostVars, picoVars>>, NEW n, UpStream(n)
  PROVE  UpStream(n)'
<1>1. /\ ard = "qvalid"
      /\ UNCHANGED <<toHost, up, qData, qValid, sent, request>>
      /\ qValid => qval' = qData /\ ard' = "wait"
      /\ ~qValid => qval' = qval /\ ard' = "serial"
  BY DEF LookAtQValid, hostVars, picoVars, progVars, cables
<1>2. HasNumber(toHost)' <=> HasNumber(toHost)
  BY <1>1 DEF HasNumber
<1>3. Passed' = Passed /\ (InFlight' <=> InFlight)
  BY <1>1, <1>2 DEF Passed, InFlight
<1>4. NumberIs(toHost, request[Passed])'
  BY <1>1, <1>3 DEF NumberIs, UpStream
<1> QED BY <1>1, <1>3, <1>4 DEF UpStream

\* The byte is on the serial line.
LEMMA UpQValidFell ==
  ASSUME IInv, QValidFell, UNCHANGED <<hostVars, picoVars>>, NEW n, UpStream(n)
  PROVE  UpStream(n)'
<1>1. /\ ard = "wait" /\ ~qValid /\ toHost' = Append(toHost, Number(qval)) /\ ard' = "serial"
      /\ UNCHANGED <<up, qData, qValid, qval, sent, request>>
  BY DEF QValidFell, hostVars, pins, picoVars, progVars
<1>2. AtMostOneEach(toHost) /\ ~HasNumber(toHost) /\ qval = request[Passed] /\ InFlight
  BY <1>1 DEF IInv, UpInv, UpStream, InFlight
<1>3. Passed' = Passed /\ request' = request
  BY <1>1 DEF Passed
<1>4. NumberIs(toHost', request[Passed])
  BY <1>1, <1>2, NumberWritten
<1>5. HasNumber(toHost')
  BY <1>1, <1>2, AckWritten
<1>6. InFlight'
  BY <1>5 DEF InFlight, HasNumber
<1> QED BY <1>1, <1>2, <1>3, <1>4, <1>6 DEF UpStream

\* The C011 presents a byte, and passes it once loop() has latched it.
LEMMA UpChip ==
  ASSUME IInv, Chip, UNCHANGED <<hostVars, picoVars>>, sent \in Nat, NEW n, UpStream(n)
  PROVE  UpStream(n)'
<1>1. UNCHANGED <<ard, qval, sent, request, toHost>>
  BY DEF Chip, ChipSend, ChipAcked, ChipPresents, ChipTaken, picoVars, progVars, cables
<1>2. CASE ChipSend \/ ChipAcked
  <2>1. UpSame
    BY <1>1, <1>2 DEF ChipSend, ChipAcked, UpSame, cables
  <2> QED BY <2>1, UpKept
<1>3. HasNumber(toHost)' <=> HasNumber(toHost)
  BY <1>1 DEF HasNumber
<1>4. CASE ChipPresents
  <2>1. /\ up # NoByte /\ ~qValid /\ ~qAck
        /\ qData' = up /\ qValid' = TRUE /\ up' = up
    BY <1>4 DEF ChipPresents, cables
  <2>2. ard # "wait" /\ ~HasNumber(toHost)
    BY <2>1 DEF IInv, UpInv
  <2>3. Passed' = Passed /\ ~InFlight /\ ~InFlight'
    BY <1>1, <1>3, <2>1, <2>2 DEF Passed, InFlight
  <2>4. NumberIs(toHost, request[Passed])'
    BY <1>1, <2>3 DEF NumberIs, UpStream
  <2> QED BY <1>1, <1>3, <2>1, <2>2, <2>3, <2>4 DEF UpStream
<1>5. CASE ChipTaken
  <2>1. qValid /\ qAck /\ qValid' = FALSE /\ up' = NoByte /\ UNCHANGED qData
    BY <1>5 DEF ChipTaken
  <2>2. ard = "wait" /\ ~HasNumber(toHost) /\ up # NoByte /\ qval = up /\ up = request[sent]
    BY <2>1 DEF IInv, UpInv, UpStream
  <2>3. Passed = sent - 1 /\ ~InFlight /\ Passed' = sent /\ InFlight'
    BY <1>1, <2>1, <2>2 DEF Passed, InFlight
  <2>4. NumberIs(toHost, request[Passed])'
    BY <1>3, <2>2 DEF NumberIs, HasNumber
  <2> QED BY <1>1, <1>3, <2>1, <2>2, <2>3, <2>4 DEF UpStream
<1> QED BY <1>2, <1>4, <1>5 DEF Chip

\* The program puts the next byte of its request on the link.
LEMMA UpSend ==
  ASSUME up = NoByte, up' = request[sent + 1], up' # NoByte, sent \in Nat, sent' = sent + 1,
         UNCHANGED <<ard, qData, qValid, qval, request, toHost>>,
         NEW n, UpStream(n)
  PROVE  UpStream(n)'
<1>1. HasNumber(toHost)' <=> HasNumber(toHost)
  BY DEF HasNumber
<1>2. ~qValid
  BY DEF UpStream
<1>3. Passed' = Passed /\ (InFlight' <=> InFlight)
  BY <1>1 DEF Passed, InFlight
<1>4. NumberIs(toHost, request[Passed])'
  BY <1>3 DEF NumberIs, UpStream
<1> QED BY <1>1, <1>2, <1>3, <1>4 DEF UpStream

\* process_packet(), or a packet_loop() that waits for an ACK: the number the
\* host reads is the next byte of the request.
LEMMA UpRead ==
  ASSUME IInv, toHost # <<>>, IsData(Head(toHost)), toHost' = Tail(toHost),
         UNCHANGED <<up, ard, qData, qValid, qval, sent, request>>,
         sent \in Nat, NEW n \in Nat, UpStream(n)
  PROVE  /\ Head(toHost) = Number(request[n + 1]) /\ n + 1 <= sent
         /\ UpStream(n + 1)'
<1>1. HasNumber(toHost) /\ ~HasNumber(toHost')
  BY ReadOne DEF IInv
<1>2. ard # "wait" /\ InFlight /\ ~InFlight'
  BY <1>1 DEF IInv, UpInv, InFlight, HasNumber
<1>3. Passed' = Passed /\ Passed <= sent /\ Passed = n + 1
  <2>1. CASE up = NoByte
    BY <1>2, <2>1 DEF Passed, UpStream
  <2>2. CASE up # NoByte
    BY <1>2, <2>2 DEF Passed, UpStream
  <2> QED BY <2>1, <2>2
<1>4. Head(toHost) = Number(request[n + 1])
  BY <1>1, <1>3, NumberRead DEF IInv, UpStream
<1>5. NumberIs(toHost, request[Passed])'
  BY <1>1 DEF NumberIs, HasNumber
<1> QED BY <1>2, <1>3, <1>4, <1>5 DEF UpStream

-----------------------------------------------------------------------------
(* The phases.                                                             *)

Booting == prog \in {"off", "rest"}
InCall  == prog \in {"asking", "waiting"}
Called  == InCall /\ served = calls
Served  == InCall /\ served # calls

\* How many bytes of the boot file the picoputer has taken.
BootTaken == IF handler = "start" THEN 0 ELSE 1 + boot_write_index + Len(rest)

\* What the host is sending, how much of it the picoputer has taken, and how
\* much of the request the host has read, a byte it threw away included.
Sends == IF prog = "ready" \/ Called THEN <<>> ELSE answer
Got == IF prog \in {"waiting", "done"} /\ ~Called THEN Len(reply) ELSE 0
HostRead == IF Called THEN Len(frame) + (IF dropped THEN 1 ELSE 0) ELSE sent

\* What the bootstrap and the program have made of the boot file so far.
LoadInv ==
  /\ BootTaken \in Nat /\ boot_write_index \in Nat
  /\ memory \in [0..(MemSize - 1) -> 0..255]
  /\ rest \in Seq(0..255)
  /\ handler \in {"start", "booting"}
  /\ handler = "start" => boot_write_index = 0 /\ boot_done = FALSE
  /\ handler = "booting" => /\ BootFile # <<>> /\ BootFile[1] >= 2
                            /\ boot_length_remaining = BootFile[1] - boot_write_index
                            /\ boot_write_index <= BootFile[1]
                            /\ boot_done = (boot_write_index = BootFile[1])
  /\ prog \in {"off", "rest", "ready", "asking", "waiting", "done"}
  /\ prog # "off" => boot_done
  /\ prog = "off" => rest = <<>>
  /\ \A a \in 0..(boot_write_index - 1) : memory[a] = BootFile[a + 2]
  /\ \A i \in 1..Len(rest) : rest[i] = BootFile[BootFile[1] + 1 + i]
  /\ prog = "rest" => Len(rest) < RestLength

\* Until then no byte goes upwards.
BootQuiet ==
  /\ request = <<>> /\ sent = 0 /\ frame = <<>> /\ served = calls
  /\ up = NoByte /\ ~InFlight /\ ~qValid
  /\ DownStream(BootFile, BootTaken)

BootInv == LoadInv /\ (Booting => BootQuiet)

-----------------------------------------------------------------------------
(* The boot file.                                                          *)

\* Its bytes are numbers.
LEMMA BootNumbers == BootFile \in Seq(Int)
<1>1. 0..255 \subseteq Int
  OBVIOUS
<1> QED BY <1>1, BootAssumption, SeqMonotonic

\* A step of the host, the adapter or the C011 leaves the bootstrap alone.
LEMMA LoadKept ==
  ASSUME UNCHANGED picoVars
  PROVE  /\ LoadInv => LoadInv'
         /\ Booting' <=> Booting
         /\ BootTaken' = BootTaken
         /\ UNCHANGED <<request, sent, calls>>
BY DEF picoVars, bootVars, progVars, LoadInv, Booting, BootTaken

\* As long as the stream downwards goes on and nothing goes upwards.
LEMMA BootKept ==
  ASSUME BootInv, UNCHANGED picoVars, NEW c, c = BootTaken,
         Booting => /\ UNCHANGED <<frame, served, up>> /\ ~InFlight' /\ ~qValid'
                    /\ DownStream(BootFile, c)'
  PROVE  BootInv'
<1>1. LoadInv' /\ (Booting' <=> Booting) /\ BootTaken' = c /\ UNCHANGED <<request, sent, calls>>
  BY LoadKept DEF BootInv
<1>2. ASSUME Booting PROVE DownStream(BootFile, BootTaken)'
  BY <1>1, <1>2 DEF DownStream
<1> QED BY <1>1, <1>2 DEF BootInv, BootQuiet

\* The host sends, and reads only ACKs.
LEMMA BootHost ==
  ASSUME IInv, BootInv, Host, UNCHANGED <<adapterVars, picoVars>>
  PROVE  BootInv'
<1>1. PICK c : c = BootTaken
  OBVIOUS
<1>2. ASSUME Booting
      PROVE  /\ UNCHANGED <<frame, served, up>> /\ ~InFlight' /\ ~qValid'
             /\ DownStream(BootFile, c)'
  <2>1. up = NoByte /\ ~InFlight /\ ~qValid /\ DownStream(BootFile, c)
    BY <1>1, <1>2 DEF BootInv, BootQuiet, DownStream
  <2>2. AtMostOneEach(toHost) /\ ~HasNumber(toHost)
    BY <2>1 DEF IInv, InFlight
  <2>3. UNCHANGED <<ard, qValid>>
    BY DEF adapterVars, pins
  <2>4. CASE SendByte
    <3>1. UNCHANGED <<frame, served, up, toHost>>
      BY <2>4 DEF SendByte
    <3>2. DownStream(BootFile, c)'
      BY <2>1, <2>4, DownSendByte, BootNumbers
    <3> QED BY <2>1, <2>3, <3>1, <3>2 DEF InFlight, HasNumber
  <2>5. CASE DoneOnAck
    <3>1. UNCHANGED <<frame, served, up>> /\ toHost # <<>> /\ toHost' = Tail(toHost)
      BY <2>5 DEF DoneOnAck
    <3>2. ~IsData(Head(toHost)) /\ ~HasNumber(toHost')
      BY <2>2, <3>1, ReadOne
    <3>3. DownStream(BootFile, c)'
      BY <2>1, <2>5, <3>2, DownDoneOnAck
    <3> QED BY <2>1, <2>3, <3>1, <3>2, <3>3 DEF InFlight, HasNumber
  <2>6. CASE ProcessPacket
    <3>1. ~awaiting /\ toHost # <<>>
      BY <2>6 DEF ProcessPacket
    <3> QED BY <2>2, <3>1, ReadOne DEF IInv, DownInv
  <2> QED BY <2>4, <2>5, <2>6 DEF Host
<1> QED BY <1>1, <1>2, BootKept

\* loop() passes ACKs on.
LEMMA BootArduino ==
  ASSUME IInv, BootInv, Arduino, UNCHANGED <<hostVars, picoVars>>
  PROVE  BootInv'
<1>1. PICK c : c = BootTaken
  OBVIOUS
<1>2. ASSUME Booting
      PROVE  /\ UNCHANGED <<frame, served, up>> /\ ~InFlight' /\ ~qValid'
             /\ DownStream(BootFile, c)'
  <2>1. /\ up = NoByte /\ ~HasNumber(toHost) /\ ard # "wait" /\ ~qValid
        /\ DownStream(BootFile, c)
    BY <1>1, <1>2 DEF BootInv, BootQuiet, DownStream, InFlight
  <2>2. UNCHANGED <<frame, served>>
    BY DEF hostVars
  <2>3. CASE ReadSerial
    <3>1. UNCHANGED <<up, qValid, toHost>> /\ ard' = "iack"
      BY <2>3 DEF ReadSerial
    <3>2. DownStream(BootFile, c)'
      BY <2>1, <2>3, DownReadSerial
    <3> QED BY <2>1, <2>2, <3>1, <3>2 DEF InFlight, HasNumber
  <2>4. CASE LookAtIAck
    <3>1. /\ UNCHANGED <<up, qValid>> /\ ard' = "qvalid"
          /\ toHost' = IF iAck THEN Append(toHost, Ack) ELSE toHost
      BY <2>4 DEF LookAtIAck, PassIAckOn
    <3>2. ~HasNumber(toHost')
      BY <2>1, <3>1, WriteAck DEF IInv, DownInv
    <3>3. DownStream(BootFile, c)'
      BY <2>1, <2>4, DownLookAtIAck
    <3> QED BY <2>1, <2>2, <3>1, <3>2, <3>3 DEF InFlight, HasNumber
  <2>5. CASE LookAtQValid
    <3>1. UNCHANGED <<up, qValid, toHost>> /\ ard' = "serial"
      BY <2>1, <2>5 DEF LookAtQValid, cables
    <3>2. DownStream(BootFile, c)'
      BY <2>1, <2>5, DownLookAtQValid
    <3> QED BY <2>1, <2>2, <3>1, <3>2 DEF InFlight, HasNumber
  <2>6. CASE QValidFell
    BY <2>1, <2>6 DEF QValidFell
  <2> QED BY <2>3, <2>4, <2>5, <2>6 DEF Arduino
<1> QED BY <1>1, <1>2, BootKept

\* The C011 sends the bytes on.
LEMMA BootChip ==
  ASSUME IInv, BootInv, Chip, UNCHANGED <<hostVars, picoVars>>
  PROVE  BootInv'
<1>1. PICK c : c = BootTaken
  OBVIOUS
<1>2. ASSUME Booting
      PROVE  /\ UNCHANGED <<frame, served, up>> /\ ~InFlight' /\ ~qValid'
             /\ DownStream(BootFile, c)'
  <2>1. /\ up = NoByte /\ ~HasNumber(toHost) /\ ard # "wait" /\ ~qValid
        /\ DownStream(BootFile, c)
    BY <1>1, <1>2 DEF BootInv, BootQuiet, DownStream, InFlight
  <2>2. UNCHANGED <<frame, served>>
    BY DEF hostVars
  <2>3. UNCHANGED <<up, qValid, ard, toHost>>
    BY <2>1 DEF Chip, ChipSend, ChipAcked, ChipPresents, ChipTaken, cables
  <2>4. DownStream(BootFile, c)'
    BY <2>1, DownChip
  <2> QED BY <2>1, <2>2, <2>3, <2>4 DEF InFlight, HasNumber
<1> QED BY <1>1, <1>2, BootKept

\* A byte is taken.
LEMMA BootByte ==
  ASSUME IInv, BootInv, Booting, down # NoByte, down' = NoByte,
         UNCHANGED <<hostVars, adapterVars, up, request, sent, calls>>, toAdapter' = toAdapter,
         toHost' = toHost, NEW c \in Nat, c = BootTaken, BootTaken' = c + 1
  PROVE  /\ c + 1 <= Len(BootFile) /\ down = BootFile[c + 1] /\ down \in 0..255
         /\ BootQuiet'
<1>1. DownStream(BootFile, c) /\ BootQuiet
  BY DEF BootInv, BootQuiet, DownStream
<1>2. UNCHANGED <<sending, awaiting, iData, iValid, iAck, iBusy, frame, served, ard, qValid>>
  BY DEF hostVars, adapterVars, pins
<1>3. /\ c + 1 <= Len(BootFile) /\ down = BootFile[c + 1] /\ down \in 0..255
      /\ DownStream(BootFile, c + 1)'
  BY <1>1, <1>2, BootNumbers, DownTake
<1>4. DownStream(BootFile, BootTaken)'
  BY <1>3 DEF DownStream
<1>5. ~InFlight'
  BY <1>1, <1>2 DEF BootQuiet, InFlight, HasNumber
<1> QED BY <1>1, <1>2, <1>3, <1>4, <1>5 DEF BootQuiet

\* The length.
LEMMA BootStartInv ==
  ASSUME IInv, BootInv, BootStart, UNCHANGED <<hostVars, adapterVars>>
  PROVE  BootInv'
<1>1. /\ handler = "start" /\ boot_write_index = 0 /\ prog = "off" /\ rest = <<>>
      /\ boot_done = FALSE /\ handler' = "booting" /\ boot_length_remaining' = down /\ down >= 2
      /\ UNCHANGED <<boot_write_index, boot_done, memory, prog, rest, request, sent, calls>>
  BY DEF BootStart, BootInv, LoadInv, progVars
<1>2. Booting /\ BootTaken = 0 /\ Len(<<>>) = 0
  BY <1>1 DEF Booting, BootTaken
<1>3. BootTaken' = 1
  BY <1>1, <1>2 DEF BootTaken
<1>4. 1 <= Len(BootFile) /\ down = BootFile[1] /\ down \in 0..255 /\ BootQuiet'
  <2>1. down # NoByte /\ down' = NoByte /\ up' = up /\ toAdapter' = toAdapter /\ toHost' = toHost
    BY DEF BootStart
  <2>2. 0 \in Nat /\ BootTaken' = 0 + 1 /\ 0 = BootTaken
    BY <1>2, <1>3
  <2> QED BY <1>1, <1>2, <2>1, <2>2, BootByte
<1>5. BootFile # <<>>
  BY <1>4
<1>6. LoadInv'
  <2>1. 0 \in Nat /\ 1 \in Nat /\ down = down - 0 /\ 0 <= down /\ 0 # down /\ 0..(0 - 1) = {}
    BY <1>1, <1>4
  <2>2. /\ memory' \in [0..(MemSize - 1) -> 0..255] /\ rest' \in Seq(0..255)
        /\ prog' = "off" /\ rest' = <<>>
    BY <1>1 DEF BootInv, LoadInv
  <2>3. \A a \in 0..(boot_write_index' - 1) : memory'[a] = BootFile[a + 2]
    BY <1>1, <2>1
  <2>4. \A i \in 1..Len(rest') : rest'[i] = BootFile[BootFile[1] + 1 + i]
    BY <1>2, <2>2
  <2> QED BY <1>1, <1>3, <1>4, <1>5, <2>1, <2>2, <2>3, <2>4 DEF LoadInv
<1> QED BY <1>4, <1>6 DEF BootInv

\* A byte of the first part.
LEMMA BootLoadInv ==
  ASSUME IInv, BootInv, BootLoad, UNCHANGED <<hostVars, adapterVars>>
  PROVE  BootInv'
<1> DEFINE w == boot_write_index
<1>1. /\ handler = "booting" /\ prog = "off" /\ rest = <<>> /\ boot_done = FALSE
      /\ UNCHANGED <<handler, prog, rest, request, sent, calls>>
      /\ memory' = [memory EXCEPT ![w] = down]
      /\ w' = w + 1 /\ boot_length_remaining' = boot_length_remaining - 1
      /\ boot_done' = (boot_length_remaining = 1)
  BY DEF BootLoad, BootAddress, LastByte, BootInv, LoadInv, progVars
<1>2. /\ w \in Nat /\ BootFile # <<>> /\ BootFile[1] >= 2 /\ w <= BootFile[1] /\ w # BootFile[1]
      /\ boot_length_remaining = BootFile[1] - w
      /\ memory \in [0..(MemSize - 1) -> 0..255]
      /\ \A a \in 0..(w - 1) : memory[a] = BootFile[a + 2]
  BY <1>1 DEF BootInv, LoadInv
<1>3. BootFile[1] \in 0..255
  <2>1. 1 \in 1..Len(BootFile)
    BY <1>2, BootAssumption, EmptySeq
  <2> QED BY <2>1, BootAssumption, ElementOfSeq
<1>4. Len(<<>>) = 0 /\ Booting
  BY <1>1 DEF Booting
<1>5. BootTaken = w + 1 /\ BootTaken' = w + 1 + 1
  <2>1. BootTaken = 1 + w + 0 /\ BootTaken' = 1 + w' + 0
    BY <1>1, <1>4 DEF BootTaken
  <2> QED BY <1>1, <1>2, <2>1
<1>6. w + 1 + 1 <= Len(BootFile) /\ down = BootFile[w + 1 + 1] /\ down \in 0..255 /\ BootQuiet'
  <2>1. down # NoByte /\ down' = NoByte /\ up' = up /\ toAdapter' = toAdapter /\ toHost' = toHost
    BY DEF BootLoad
  <2>2. PICK c \in Nat : c = w + 1
    BY <1>2
  <2>0. c = BootTaken /\ BootTaken' = c + 1
    BY <1>5, <2>2
  <2> HIDE DEF w
  <2>3. /\ c + 1 <= Len(BootFile) /\ down = BootFile[c + 1] /\ down \in 0..255
        /\ BootQuiet'
    BY <1>1, <1>4, <2>0, <2>1, BootByte
  <2> QED BY <2>2, <2>3
<1>7. w \in 0..(MemSize - 1) /\ w + 1 <= BootFile[1]
  <2>1. w \in Int /\ BootFile[1] \in Int /\ MemSize \in Int
    <3>1. w \in Nat
      BY <1>2, Zenon
    <3> HIDE DEF w
    <3> QED BY <1>3, <3>1, SizeAssumption
  <2> HIDE DEF w
  <2>2. BootFile[1] <= MemSize /\ 0 <= w /\ w <= BootFile[1] /\ w # BootFile[1]
    BY <1>2, MemoryAssumption
  <2> DEFINE B == BootFile[1]
  <2> HIDE DEF B
  <2> QED BY <2>1, <2>2 DEF B
<1>8. memory' \in [0..(MemSize - 1) -> 0..255]
  BY <1>1, <1>2, <1>6
<1>9. \A a \in 0..(w' - 1) : memory'[a] = BootFile[a + 2]
  <2>1. SUFFICES ASSUME NEW a \in 0..w PROVE memory'[a] = BootFile[a + 2]
    BY <1>1, <1>2
  <2>2. CASE a = w
    BY <1>1, <1>2, <1>6, <1>7, <2>2
  <2>3. CASE a # w
    <3>1. a \in 0..(w - 1)
      BY <1>2, <2>3
    <3> QED BY <1>1, <1>2, <1>7, <2>3, <3>1
  <2> QED BY <2>2, <2>3
<1>10. /\ boot_length_remaining' = BootFile[1] - w' /\ w' <= BootFile[1]
       /\ boot_done' = (w' = BootFile[1]) /\ w' \in Nat
  <2>1. w \in Int /\ BootFile[1] \in Int /\ w' = w + 1 /\ 0 <= w
    <3>1. w \in Nat /\ w' = w + 1
      BY <1>1, <1>2, Zenon
    <3>2. w \in Int /\ 0 <= w
      BY <3>1
    <3>3. BootFile[1] \in Int
      BY <1>3
    <3> QED BY <3>1, <3>2, <3>3, Zenon
  <2>2. BootFile[1] - w - 1 = BootFile[1] - w' /\ w' <= BootFile[1] /\ w' \in Nat
    BY <1>7, <2>1
  <2>3. BootFile[1] - w = 1 <=> w' = BootFile[1]
    BY <2>1
  <2>4. boot_length_remaining' = BootFile[1] - w - 1 /\ boot_done' = (BootFile[1] - w = 1)
    BY <1>1, <1>2
  <2> QED BY <2>2, <2>3, <2>4
<1>11. LoadInv'
  BY <1>1, <1>2, <1>4, <1>5, <1>8, <1>9, <1>10 DEF BootInv, LoadInv
<1> QED BY <1>6, <1>11 DEF BootInv

\* A byte of what the program reads itself.
LEMMA ReadRestInv ==
  ASSUME IInv, BootInv, ReadRest, UNCHANGED <<hostVars, adapterVars>>
  PROVE  BootInv'
<1> DEFINE w == boot_write_index
           k == Len(rest)
<1>1. /\ prog = "rest" /\ boot_done /\ handler # "start" /\ BootFile # <<>>
      /\ UNCHANGED <<bootVars, request, sent, calls>>
      /\ rest' = Append(rest, down)
      /\ prog' = IF Len(rest') = RestLength THEN "ready" ELSE "rest"
      /\ w = BootFile[1] /\ w \in Nat /\ rest \in Seq(0..255) /\ k < RestLength
      /\ \A i \in 1..k : rest[i] = BootFile[BootFile[1] + 1 + i]
  BY DEF ReadRest, BootInv, LoadInv
<1>2. k \in Nat /\ BootTaken = w + k + 1 /\ Booting
  BY <1>1, LenProperties DEF BootTaken, Booting
<1>3. /\ Len(rest') = k + 1
      /\ \A i \in 1..k : rest'[i] = rest[i]
      /\ rest'[k + 1] = down
  <2> DEFINE T == (0..255) \cup {down}
  <2>1. rest \in Seq(T) /\ down \in T
    BY <1>1, SeqMonotonic
  <2> QED BY <1>1, <2>1, AppendProperties
<1>4. BootTaken' = w + k + 1 + 1
  <2>1. BootTaken' = 1 + w + Len(rest')
    BY <1>1 DEF BootTaken, bootVars
  <2> QED BY <1>1, <1>2, <1>3, <2>1
<1>5. w + k + 1 + 1 <= Len(BootFile) /\ down = BootFile[w + k + 1 + 1] /\ down \in 0..255 /\ BootQuiet'
  <2>1. down # NoByte /\ down' = NoByte /\ up' = up /\ toAdapter' = toAdapter /\ toHost' = toHost
    BY DEF ReadRest
  <2>2. PICK c \in Nat : c = w + k + 1
    BY <1>1, <1>2
  <2>3. c = BootTaken /\ BootTaken' = c + 1
    BY <1>2, <1>4, <2>2
  <2>4. /\ c + 1 <= Len(BootFile) /\ down = BootFile[c + 1] /\ down \in 0..255
        /\ BootQuiet'
    BY <1>1, <1>2, <2>1, <2>3, BootByte
  <2> QED BY <2>2, <2>4
<1>6. rest' \in Seq(0..255)
  BY <1>1, <1>5, AppendProperties
<1>7. \A i \in 1..Len(rest') : rest'[i] = BootFile[BootFile[1] + 1 + i]
  <2>1. SUFFICES ASSUME NEW i \in 1..(k + 1) PROVE rest'[i] = BootFile[w + 1 + i]
    BY <1>1, <1>3
  <2>2. CASE i = k + 1
    <3>1. w + 1 + (k + 1) = w + k + 1 + 1
      BY <1>1, <1>2
    <3> QED BY <1>3, <1>5, <2>2, <3>1
  <2>3. CASE i # k + 1
    <3>1. i \in 1..k
      BY <1>2, <2>3
    <3> QED BY <1>1, <1>3, <3>1
  <2> QED BY <2>2, <2>3
<1>8. prog' \in {"rest", "ready"} /\ (prog' = "rest" => Len(rest') < RestLength)
  <2>1. k \in Int /\ RestLength \in Int /\ k < RestLength
    <3>1. k \in Nat /\ k < RestLength
      BY <1>1, <1>2, Zenon
    <3> QED BY <3>1, SizeAssumption
  <2> HIDE DEF k
  <2>2. k + 1 # RestLength => k + 1 < RestLength
    BY <2>1
  <2>3. prog' = IF k + 1 = RestLength THEN "ready" ELSE "rest"
    BY <1>1, <1>3
  <2> QED BY <1>3, <2>2, <2>3
<1>9. BootTaken' \in Nat
  BY <1>1, <1>2, <1>4
<1>10. LoadInv'
  BY <1>1, <1>6, <1>7, <1>8, <1>9 DEF BootInv, LoadInv, bootVars
<1> QED BY <1>5, <1>10 DEF BootInv

\* The program is started, and makes its calls.
LEMMA BootPico ==
  ASSUME IInv, BootInv, Boot \/ Program, UNCHANGED <<hostVars, adapterVars>>
  PROVE  BootInv'
<1>1. CASE StartProgram
  <2>1. /\ prog = "off" /\ boot_done /\ prog' \in {"rest", "ready"} /\ (prog' = "rest" => RestLength # 0)
        /\ UNCHANGED <<cables, bootVars, progVars>>
    BY <1>1 DEF StartProgram
  <2>2. Booting /\ rest = <<>> /\ Len(<<>>) = 0 /\ UNCHANGED <<rest, handler, boot_write_index>>
    BY <2>1 DEF Booting, BootInv, LoadInv, progVars, bootVars
  <2>3. BootTaken' = BootTaken
    BY <2>2 DEF BootTaken
  <2>4. LoadInv'
    <3>1. prog' = "rest" => Len(rest') < RestLength
      BY <2>1, <2>2, SizeAssumption
    <3> QED BY <2>1, <2>3, <3>1 DEF BootInv, LoadInv, bootVars, progVars
  <2>5. BootQuiet
    BY <2>2 DEF BootInv
  <2>6. BootQuiet'
    <3>1. UNCHANGED <<request, sent, calls, frame, served, up, ard, qValid, toHost, toAdapter, down,
                      sending, awaiting, iData, iValid, iAck, iBusy>>
      BY <2>1 DEF cables, progVars, hostVars, adapterVars, pins
    <3>2. (~InFlight)' /\ (Taken' <=> Taken) /\ \A v : OnItsWay(v) => OnItsWay(v)'
      BY <2>5, <3>1 DEF BootQuiet, InFlight, HasNumber, HasAck, Taken, OnItsWay
    <3>3. PICK c : c = BootTaken
      OBVIOUS
    <3>4. DownStream(BootFile, c)
      BY <2>5, <3>3 DEF BootQuiet, DownStream
    <3>5. DownStream(BootFile, c)'
      BY <3>1, <3>2, <3>4, DownKept
    <3>6. DownStream(BootFile, BootTaken)'
      BY <2>3, <3>3, <3>5 DEF DownStream
    <3> QED BY <2>5, <3>1, <3>2, <3>6 DEF BootQuiet
  <2> QED BY <2>4, <2>6 DEF BootInv
<1>2. CASE Ask \/ SendRequest \/ RequestSent \/ ReceiveReply
  <2>1. /\ prog \in {"ready", "asking", "waiting"} /\ prog' \in {"ready", "asking", "waiting", "done"}
        /\ UNCHANGED <<bootVars, rest>>
    BY <1>2 DEF Ask, SendRequest, RequestSent, ReceiveReply, progVars
  <2>2. BootTaken' = BootTaken /\ ~Booting'
    BY <2>1 DEF BootTaken, bootVars, Booting
  <2>3. LoadInv'
    BY <2>1, <2>2 DEF BootInv, LoadInv, bootVars
  <2> QED BY <2>2, <2>3 DEF BootInv
<1> QED BY <1>1, <1>2, BootStartInv, BootLoadInv, ReadRestInv DEF Boot, Program

\* At the start the host has the boot file to send.
LEMMA BootBegins == Init => BootInv
<1> SUFFICES ASSUME Init PROVE BootInv
  OBVIOUS
<1>1. /\ prog = "off" /\ handler = "start" /\ boot_write_index = 0 /\ boot_done = FALSE
      /\ rest = <<>> /\ request = <<>> /\ sent = 0 /\ calls = 0
      /\ memory = [a \in 0..(MemSize - 1) |-> 0]
  BY DEF Init, PicoInit
<1>2. sending = BootFile /\ awaiting = FALSE /\ frame = <<>> /\ served = 0
  BY DEF Init, HostInit
<1>3. toHost = <<>> /\ up = NoByte /\ ard = "serial" /\ qValid = FALSE
  BY DEF Init, CablesInit, AdapterInit
<1>4. BootTaken = 0
  BY <1>1 DEF BootTaken
<1>5. LoadInv
  <2>1. <<>> \in Seq(0..255) /\ Len(<<>>) = 0 /\ 0 \in Nat /\ 0..(0 - 1) = {} /\ 1..0 = {}
    BY EmptySeq
  <2>2. memory \in [0..(MemSize - 1) -> 0..255]
    BY <1>1
  <2> QED BY <1>1, <1>4, <2>1, <2>2 DEF LoadInv
<1>6. ~InFlight /\ Taken
  BY <1>2, <1>3, Shapes DEF InFlight, Taken
<1>7. DownStream(BootFile, 0)
  BY <1>2, <1>6, BootNumbers, DownBegins
<1>8. DownStream(BootFile, BootTaken)
  BY <1>4, <1>7 DEF DownStream
<1> QED BY <1>1, <1>2, <1>3, <1>5, <1>6, <1>8 DEF BootInv, BootQuiet

\* Every step keeps it.
LEMMA BootStep == IInv /\ BootInv /\ [Next]_vars => BootInv'
<1> SUFFICES ASSUME IInv, BootInv, [Next]_vars PROVE BootInv'
  OBVIOUS
<1>1. CASE UNCHANGED vars
  <2>1. UNCHANGED <<picoVars, cables, adapterVars, hostVars>>
    BY <1>1 DEF vars
  <2>2. UNCHANGED <<toHost, toAdapter, down, up, ard, qValid, sending, awaiting, iData, iValid,
                    iAck, iBusy, frame, served>>
    BY <2>1 DEF cables, adapterVars, hostVars, pins
  <2>3. (InFlight' <=> InFlight) /\ (Taken' <=> Taken) /\ \A v : OnItsWay(v) => OnItsWay(v)'
    BY <2>2 DEF InFlight, HasNumber, HasAck, Taken, OnItsWay
  <2>4. PICK c : c = BootTaken
    OBVIOUS
  <2>5. ASSUME Booting PROVE DownStream(BootFile, c)'
    <3>1. DownStream(BootFile, c)
      BY <2>4, <2>5 DEF BootInv, BootQuiet, DownStream
    <3> QED BY <2>2, <2>3, <3>1, DownKept
  <2>6. ASSUME Booting PROVE ~InFlight' /\ ~qValid'
    BY <2>2, <2>3, <2>6 DEF BootInv, BootQuiet
  <2> QED BY <2>1, <2>2, <2>4, <2>5, <2>6, BootKept
<1> QED BY <1>1, BootHost, BootArduino, BootChip, BootPico DEF Next

\* So it is an invariant.
LEMMA BootFileLoads == Spec => []BootInv
<1>1. Spec => []IInv
  BY Invariance
<1> QED BY <1>1, BootBegins, BootStep, PTL DEF Spec

\* The bootstrap stores what the boot file holds, byte by byte, whatever the
\* file: bytes are neither lost, doubled nor exchanged between the host and
\* link_in_booting_data(), and the program is left the rest.
THEOREM BootFileArrives == Spec => []BootImage
<1>1. BootInv => BootImage
  <2> SUFFICES ASSUME BootInv PROVE BootImage
    OBVIOUS
  <2>1. boot_done <=> (handler = "booting" /\ boot_write_index = BootFile[1])
    BY DEF BootInv, LoadInv
  <2> QED BY <2>1 DEF BootInv, LoadInv, BootImage
<1> QED BY <1>1, BootFileLoads, PTL
=============================================================================
