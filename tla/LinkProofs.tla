----------------------------- MODULE LinkProofs -----------------------------
(***************************************************************************)
(* The link protocol keeps its promises for every set of ends, every set   *)
(* of bytes, every message length and every FIFO depth of at least four.   *)
(***************************************************************************)
EXTENDS Link, TLAPS, SequenceTheorems

-----------------------------------------------------------------------------
(* Types                                                                   *)

\* A message is a sequence of bytes.
LEMMA MessageIsSeq == Message \subseteq Seq(Byte)
  BY BoundAssumption DEF Message

\* What linkloop's first half leaves in the transmit FIFO is packets.
LEMMA TxAfterType ==
  ASSUME TypeOK, NEW n \in End
  PROVE  TxAfter(n) \in Seq(Packet)
  BY HeadTailProperties, AppendProperties DEF TypeOK, TxAfter, MaySend, Packet

\* The first half keeps the types of the message and of the sent history.
LEMMA SendHalfType ==
  ASSUME TypeOK, NEW n \in End, SendHalf(n)
  PROVE  /\ outMsg' \in [End -> Seq(Byte)]
         /\ sent' \in [End -> Seq(Byte)]
<1>1. CASE MaySend(n)
  <2>1. outMsg[n] \in Seq(Byte) /\ outMsg[n] # <<>> /\ sent[n] \in Seq(Byte)
    BY <1>1 DEF TypeOK, MaySend
  <2>2. Head(outMsg[n]) \in Byte /\ Tail(outMsg[n]) \in Seq(Byte)
    BY <2>1, HeadTailProperties
  <2>3. Append(sent[n], Head(outMsg[n])) \in Seq(Byte)
    BY <2>1, <2>2, AppendProperties
  <2>4. QED
    BY <1>1, <2>2, <2>3 DEF SendHalf, TypeOK
<1>2. CASE ~MaySend(n)
  BY <1>2 DEF SendHalf, TypeOK
<1>3. QED
  BY <1>1, <1>2

\* The sending side's flags stay Boolean.
LEMMA SendKeptType ==
  ASSUME TypeOK, NEW n \in End, SendKept(n)
  PROVE  /\ ackWait' \in [End -> BOOLEAN]
         /\ doneOnAck' \in [End -> BOOLEAN]
         /\ outChan' \in [End -> BOOLEAN]
  BY Zenon DEF TypeOK, SendKept, WaitAfter, DoneAfter, MaySend

\* Taking a packet off a receive FIFO.
LEMMA FetchedType ==
  ASSUME TypeOK, NEW n \in End, rx[n] # <<>>
  PROVE  /\ Head(rx[n]) \in Packet
         /\ Tail(rx[n]) \in Seq(Packet)
         /\ Fetched(n) => rx' \in [End -> Seq(Packet)]
<1>1. rx[n] \in Seq(Packet)
  BY DEF TypeOK
<1>2. Head(rx[n]) \in Packet /\ Tail(rx[n]) \in Seq(Packet)
  BY <1>1, HeadTailProperties
<1>3. QED
  BY <1>2 DEF TypeOK, Fetched

\* Delivering a byte keeps the types.
LEMMA DeliverType ==
  ASSUME TypeOK, NEW n \in End, NEW b \in Byte, inLen[n] > 0, Deliver(n, b)
  PROVE  /\ rcvd' \in [End -> Seq(Byte)]
         /\ inLen' \in [End -> Nat]
         /\ inChan' \in [End -> BOOLEAN]
         /\ tx' \in [End -> Seq(Packet)]
<1>1. TxAfter(n) \in Seq(Packet)
  BY TxAfterType
<1>2. Append(TxAfter(n), Ack) \in Seq(Packet)
  BY <1>1, AppendProperties DEF Packet
<1>3. Append(rcvd[n], b) \in Seq(Byte)
  BY AppendProperties DEF TypeOK
<1>4. inLen[n] \in Nat /\ inLen[n] - 1 \in Nat
  BY DEF TypeOK
<1>5. QED
  BY <1>2, <1>3, <1>4 DEF Deliver, TypeOK

-----------------------------------------------------------------------------
(* FIFOs that hold at most one byte and one ACK                            *)

\* Two packets of the same kind in a FIFO are the same packet.
OneEach(q) == \A i, j \in 1..Len(q) : (q[i] = Ack <=> q[j] = Ack) => i = j

\* Every byte in the FIFO is the one that makes r into s.
Completes(q, s, r) == \A i \in 1..Len(q) : q[i] # Ack => s = Append(r, q[i])

\* What a packet put into a FIFO adds to it.
LEMMA AppendFifo ==
  ASSUME NEW q \in Seq(Packet), NEW x \in Packet
  PROVE  /\ HasData(Append(q, x)) <=> HasData(q) \/ x # Ack
         /\ HasAck(Append(q, x)) <=> HasAck(q) \/ x = Ack
         /\ OneEach(q) /\ (x = Ack => ~HasAck(q)) /\ (x # Ack => ~HasData(q))
              => OneEach(Append(q, x))
         /\ \A s, r : Completes(Append(q, x), s, r) <=>
                        Completes(q, s, r) /\ (x # Ack => s = Append(r, x))
<1> DEFINE u == Append(q, x)
<1>1. /\ u \in Seq(Packet) /\ Len(u) = Len(q) + 1 /\ Len(q) \in Nat
      /\ \A i \in 1..Len(q) : u[i] = q[i]
      /\ u[Len(q) + 1] = x
  BY AppendProperties, LenProperties
<1>2. \A i \in 1..Len(u) : i \in 1..Len(q) \/ i = Len(q) + 1
  BY <1>1
<1>3. \A i \in 1..Len(q) : i \in 1..Len(u)
  BY <1>1
<1>4. Len(q) + 1 \in 1..Len(u)
  BY <1>1
<1> HIDE DEF u
<1>5. HasData(u) <=> HasData(q) \/ x # Ack
  BY <1>1, <1>2, <1>3, <1>4 DEF HasData
<1>6. HasAck(u) <=> HasAck(q) \/ x = Ack
  BY <1>1, <1>2, <1>3, <1>4 DEF HasAck
<1>7. OneEach(q) /\ (x = Ack => ~HasAck(q)) /\ (x # Ack => ~HasData(q)) => OneEach(u)
  BY <1>1, <1>2, <1>3, <1>4 DEF HasAck, HasData, OneEach
<1>8. \A s, r : Completes(u, s, r) <=> Completes(q, s, r) /\ (x # Ack => s = Append(r, x))
  BY <1>1, <1>2, <1>3, <1>4 DEF Completes
<1>9. QED
  BY <1>5, <1>6, <1>7, <1>8 DEF u

\* What is left in a FIFO when its first packet is taken.
LEMMA TailFifo ==
  ASSUME NEW q \in Seq(Packet), q # <<>>, OneEach(q)
  PROVE  /\ OneEach(Tail(q))
         /\ Head(q) = Ack => /\ HasAck(q) /\ ~HasAck(Tail(q))
                             /\ HasData(Tail(q)) <=> HasData(q)
         /\ Head(q) # Ack => /\ HasData(q) /\ ~HasData(Tail(q))
                             /\ HasAck(Tail(q)) <=> HasAck(q)
         /\ \A s, r : Completes(q, s, r) =>
              /\ Completes(Tail(q), s, r)
              /\ Head(q) # Ack => s = Append(r, Head(q))
<1> DEFINE u == Tail(q)
<1>1. /\ Len(q) \in Nat /\ Len(q) > 0 /\ Len(u) = Len(q) - 1
      /\ \A i \in 1..Len(u) : u[i] = q[i+1]
      /\ Head(q) = q[1]
  BY HeadTailProperties, EmptySeq, LenProperties
<1>2. \A i \in 1..Len(q) : i = 1 \/ (i - 1 \in 1..Len(u) /\ u[i-1] = q[i])
  BY <1>1
<1>3. \A i \in 1..Len(u) : i + 1 \in 1..Len(q) /\ i + 1 # 1 /\ u[i] = q[i+1]
  BY <1>1
<1>4. 1 \in 1..Len(q)
  BY <1>1
<1> HIDE DEF u
<1>5. OneEach(u)
  <2> SUFFICES ASSUME NEW i \in 1..Len(u), NEW j \in 1..Len(u),
                      u[i] = Ack <=> u[j] = Ack
               PROVE  i = j
    BY DEF OneEach
  <2>1. i + 1 = j + 1
    BY <1>3 DEF OneEach
  <2>2. QED
    BY <2>1, <1>1
<1>6. ASSUME Head(q) = Ack
      PROVE  HasAck(q) /\ ~HasAck(u) /\ (HasData(u) <=> HasData(q))
  <2>1. \A i \in 1..Len(u) : u[i] # Ack
    BY <1>1, <1>3, <1>4, <1>6 DEF OneEach
  <2>2. HasAck(q) /\ ~HasAck(u)
    BY <1>1, <1>4, <1>6, <2>1 DEF HasAck
  <2>3. HasData(u) <=> HasData(q)
    BY <1>1, <1>2, <1>3, <1>6 DEF HasData
  <2>4. QED
    BY <2>2, <2>3
<1>7. ASSUME Head(q) # Ack
      PROVE  HasData(q) /\ ~HasData(u) /\ (HasAck(u) <=> HasAck(q))
  <2>1. \A i \in 1..Len(u) : u[i] = Ack
    BY <1>1, <1>3, <1>4, <1>7 DEF OneEach
  <2>2. HasData(q) /\ ~HasData(u)
    BY <1>1, <1>4, <1>7, <2>1 DEF HasData
  <2>3. HasAck(u) <=> HasAck(q)
    BY <1>1, <1>2, <1>3, <1>7 DEF HasAck
  <2>4. QED
    BY <2>2, <2>3
<1>8. \A s, r : Completes(q, s, r) =>
        Completes(u, s, r) /\ (Head(q) # Ack => s = Append(r, Head(q)))
  BY <1>1, <1>3, <1>4 DEF Completes
<1>9. QED
  BY <1>5, <1>6, <1>7, <1>8 DEF u

\* A FIFO with at most one byte and one ACK holds at most two packets.
LEMMA OneEachShort ==
  ASSUME NEW q \in Seq(Packet), OneEach(q)
  PROVE  Len(q) <= 2
<1>1. Len(q) \in Nat
  BY LenProperties
<1> SUFFICES ASSUME Len(q) >= 3 PROVE FALSE
  BY <1>1
<1>2. 1 \in 1..Len(q) /\ 2 \in 1..Len(q) /\ 3 \in 1..Len(q)
  BY <1>1
<1>3. (q[1] = Ack <=> q[2] = Ack) \/ (q[1] = Ack <=> q[3] = Ack) \/ (q[2] = Ack <=> q[3] = Ack)
  BY Zenon
<1>4. QED
  BY <1>2, <1>3 DEF OneEach

-----------------------------------------------------------------------------
(* One direction of a link                                                 *)

\* The state of one direction: t and f are the sender's transmit and the
\* receiver's receive FIFO, h what the receiver holds, at and af the FIFOs
\* the ACK comes back through, w the sender's ack_wait, s and r what has
\* been sent and what has been received.
Direction(t, f, h, at, af, w, s, r) ==
  /\ w <=> HasData(t) \/ HasData(f) \/ h # NoByte \/ HasAck(at) \/ HasAck(af)
  /\ HasData(t) => ~HasData(f) /\ h = NoByte /\ ~HasAck(at) /\ ~HasAck(af)
  /\ HasData(f) => h = NoByte /\ ~HasAck(at) /\ ~HasAck(af)
  /\ h # NoByte => ~HasAck(at) /\ ~HasAck(af)
  /\ HasAck(at) => ~HasAck(af)
  /\ Completes(t, s, r) /\ Completes(f, s, r) /\ (h # NoByte => s = Append(r, h))
  /\ ~HasData(t) /\ ~HasData(f) /\ h = NoByte => s = r

\* A byte goes into the transmit FIFO when nothing is unacknowledged.
LEMMA DirSend ==
  ASSUME NEW t \in Seq(Packet), NEW f, NEW h, NEW at, NEW af, NEW s, NEW r,
         NEW b \in Byte, Direction(t, f, h, at, af, FALSE, s, r)
  PROVE  /\ Direction(Append(t, b), f, h, at, af, TRUE, Append(s, b), r)
         /\ ~HasData(t)
<1>1. b \in Packet /\ b # Ack
  BY ByteAssumption DEF Packet
<1>2. /\ HasData(Append(t, b)) /\ (HasAck(Append(t, b)) <=> HasAck(t))
      /\ \A x, y : Completes(Append(t, b), x, y) <=> Completes(t, x, y) /\ x = Append(y, b)
  BY <1>1, AppendFifo
<1>3. ~HasData(t) /\ ~HasData(f) /\ h = NoByte /\ ~HasAck(at) /\ ~HasAck(af) /\ s = r
  BY DEF Direction
<1>4. Completes(t, Append(s, b), r) /\ Completes(f, Append(s, b), r)
  BY <1>3 DEF HasData, Completes
<1>5. QED
  BY <1>2, <1>3, <1>4 DEF Direction

\* An ACK goes into or out of a FIFO the bytes of the direction use.
LEMMA DirOtherAck ==
  ASSUME NEW t \in Seq(Packet), NEW f \in Seq(Packet), NEW h, NEW at, NEW af,
         NEW w, NEW s, NEW r, Direction(t, f, h, at, af, w, s, r)
  PROVE  /\ Direction(Append(t, Ack), f, h, at, af, w, s, r)
         /\ Direction(t, Append(f, Ack), h, at, af, w, s, r)
         /\ t # <<>> /\ OneEach(t) /\ Head(t) = Ack =>
              /\ Direction(Tail(t), f, h, at, af, w, s, r)
              /\ Direction(Tail(t), Append(f, Ack), h, at, af, w, s, r)
         /\ f # <<>> /\ OneEach(f) /\ Head(f) = Ack => Direction(t, Tail(f), h, at, af, w, s, r)
<1>1. Ack \in Packet
  BY DEF Packet
<1>2. /\ HasData(Append(t, Ack)) <=> HasData(t)
      /\ HasData(Append(f, Ack)) <=> HasData(f)
      /\ Completes(Append(t, Ack), s, r) <=> Completes(t, s, r)
      /\ Completes(Append(f, Ack), s, r) <=> Completes(f, s, r)
  BY <1>1, AppendFifo
<1>3. ASSUME t # <<>>, OneEach(t), Head(t) = Ack
      PROVE  (HasData(Tail(t)) <=> HasData(t)) /\ (Completes(t, s, r) => Completes(Tail(t), s, r))
  BY <1>3, TailFifo
<1>4. ASSUME f # <<>>, OneEach(f), Head(f) = Ack
      PROVE  (HasData(Tail(f)) <=> HasData(f)) /\ (Completes(f, s, r) => Completes(Tail(f), s, r))
  BY <1>4, TailFifo
<1>5. QED
  BY <1>2, <1>3, <1>4 DEF Direction

\* A byte goes into or out of a FIFO the ACKs of the direction use.
LEMMA DirOtherData ==
  ASSUME NEW t, NEW f, NEW h, NEW at \in Seq(Packet), NEW af \in Seq(Packet),
         NEW w, NEW s, NEW r, Direction(t, f, h, at, af, w, s, r), NEW b \in Byte
  PROVE  /\ Direction(t, f, h, Append(at, b), af, w, s, r)
         /\ Direction(t, f, h, at, Append(af, b), w, s, r)
         /\ at # <<>> /\ OneEach(at) /\ Head(at) # Ack =>
              /\ Direction(t, f, h, Tail(at), af, w, s, r)
              /\ Direction(t, f, h, Tail(at), Append(af, b), w, s, r)
         /\ af # <<>> /\ OneEach(af) /\ Head(af) # Ack => Direction(t, f, h, at, Tail(af), w, s, r)
<1>1. b \in Packet /\ b # Ack
  BY ByteAssumption DEF Packet
<1>2. (HasAck(Append(at, b)) <=> HasAck(at)) /\ (HasAck(Append(af, b)) <=> HasAck(af))
  BY <1>1, AppendFifo
<1>3. at # <<>> /\ OneEach(at) /\ Head(at) # Ack => (HasAck(Tail(at)) <=> HasAck(at))
  BY TailFifo
<1>4. af # <<>> /\ OneEach(af) /\ Head(af) # Ack => (HasAck(Tail(af)) <=> HasAck(af))
  BY TailFifo
<1>5. QED
  BY <1>2, <1>3, <1>4 DEF Direction

\* The wire carries the byte to the receiver, or the ACK back to the sender.
LEMMA DirShift ==
  ASSUME NEW t \in Seq(Packet), NEW f \in Seq(Packet), NEW h,
         NEW at \in Seq(Packet), NEW af \in Seq(Packet), NEW w, NEW s, NEW r,
         Direction(t, f, h, at, af, w, s, r)
  PROVE  /\ t # <<>> /\ OneEach(t) /\ Head(t) # Ack =>
              Direction(Tail(t), Append(f, Head(t)), h, at, af, w, s, r) /\ ~HasData(f)
         /\ at # <<>> /\ OneEach(at) /\ Head(at) = Ack =>
              Direction(t, f, h, Tail(at), Append(af, Ack), w, s, r) /\ ~HasAck(af)
<1>1. ASSUME t # <<>>, OneEach(t), Head(t) # Ack
      PROVE  Direction(Tail(t), Append(f, Head(t)), h, at, af, w, s, r) /\ ~HasData(f)
  <2>1. Head(t) \in Packet
    BY <1>1, HeadTailProperties
  <2>2. HasData(t) /\ ~HasData(Tail(t)) /\ Completes(Tail(t), s, r) /\ s = Append(r, Head(t))
    BY <1>1, TailFifo DEF Direction
  <2>3. HasData(Append(f, Head(t))) /\ Completes(Append(f, Head(t)), s, r)
    BY <1>1, <2>1, <2>2, AppendFifo DEF Direction
  <2>4. QED
    BY <2>2, <2>3 DEF Direction
<1>2. ASSUME at # <<>>, OneEach(at), Head(at) = Ack
      PROVE  Direction(t, f, h, Tail(at), Append(af, Ack), w, s, r) /\ ~HasAck(af)
  <2>1. HasAck(at) /\ ~HasAck(Tail(at))
    BY <1>2, TailFifo
  <2>2. HasAck(Append(af, Ack))
    BY AppendFifo DEF Packet
  <2>3. QED
    BY <2>1, <2>2 DEF Direction
<1>3. QED
  BY <1>1, <1>2

\* The receiver takes the byte out of its FIFO, to hold it or to give it to
\* its process and answer with an ACK.
LEMMA DirReceive ==
  ASSUME NEW t, NEW f \in Seq(Packet), NEW h,
         NEW at \in Seq(Packet), NEW af, NEW w, NEW s, NEW r,
         Direction(t, f, h, at, af, w, s, r), f # <<>>, OneEach(f), Head(f) # Ack
  PROVE  /\ Head(f) # NoByte => Direction(t, Tail(f), Head(f), at, af, w, s, r)
         /\ Direction(t, Tail(f), h, Append(at, Ack), af, w, s, Append(r, Head(f)))
         /\ ~HasAck(at) /\ h = NoByte
<1>1. HasAck(Append(at, Ack))
  BY AppendFifo DEF Packet
<1>2. /\ HasData(f) /\ ~HasData(Tail(f))
      /\ Completes(f, s, r) => Completes(Tail(f), s, r) /\ s = Append(r, Head(f))
  BY TailFifo
<1>3. \A x, y : Completes(Tail(f), x, y)
  BY <1>2 DEF HasData, Completes
<1>4. ~HasData(t) /\ \A x, y : Completes(t, x, y)
  BY <1>2 DEF Direction, HasData, Completes
<1>5. QED
  BY <1>1, <1>2, <1>3, <1>4 DEF Direction

\* The sender takes the ACK.
LEMMA DirAcked ==
  ASSUME NEW t, NEW f, NEW h, NEW at, NEW af \in Seq(Packet), NEW w, NEW s, NEW r,
         Direction(t, f, h, at, af, w, s, r), af # <<>>, OneEach(af), Head(af) = Ack
  PROVE  Direction(t, f, h, at, Tail(af), FALSE, s, r)
<1>1. HasAck(af) /\ ~HasAck(Tail(af))
  BY TailFifo
<1>2. QED
  BY <1>1 DEF Direction

\* The receiver gives its process the byte it held.
LEMMA DirTakeHeld ==
  ASSUME NEW t, NEW f, NEW h, NEW at \in Seq(Packet), NEW af, NEW w, NEW s, NEW r,
         Direction(t, f, h, at, af, w, s, r), h # NoByte
  PROVE  /\ Direction(t, f, NoByte, Append(at, Ack), af, w, s, Append(r, h))
         /\ ~HasAck(at)
<1>1. HasAck(Append(at, Ack))
  BY AppendFifo DEF Packet
<1>2. /\ ~HasData(t) /\ \A x, y : Completes(t, x, y)
      /\ ~HasData(f) /\ \A x, y : Completes(f, x, y)
  BY DEF Direction, HasData, Completes
<1>3. QED
  BY <1>1, <1>2 DEF Direction

-----------------------------------------------------------------------------
(* Type correctness                                                        *)

\* The initial state of server_init() is well typed.
LEMMA TypeInit == Init => TypeOK
  BY DEF Init, TypeOK

\* A process starts a transfer.
LEMMA TypeProcess ==
  ASSUME TypeOK, NEW n \in End, Out(n) \/ In(n)
  PROVE  TypeOK'
<1>1. CASE Out(n)
  BY <1>1, MessageIsSeq DEF Out, TypeOK, wireVars, inVars
<1>2. CASE In(n)
  <2>1. 1..MaxLen \subseteq Nat
    BY BoundAssumption
  <2>2. QED
    BY <1>2, <2>1 DEF In, TypeOK, wireVars, outVars
<1>3. QED
  BY <1>1, <1>2

\* One call of linkloop().
LEMMA TypeLinkLoop ==
  ASSUME TypeOK, NEW n \in End, LinkLoop(n)
  PROVE  TypeOK'
<1>1. outMsg' \in [End -> Seq(Byte)] /\ sent' \in [End -> Seq(Byte)]
  BY SendHalfType DEF LinkLoop
<1>2. TxAfter(n) \in Seq(Packet)
  BY TxAfterType
<1>3. CASE TakeStored(n)
  <2>1. stored[n] \in Byte
    BY <1>3 DEF TakeStored, TypeOK
  <2>2. /\ rcvd' \in [End -> Seq(Byte)] /\ inLen' \in [End -> Nat]
        /\ inChan' \in [End -> BOOLEAN] /\ tx' \in [End -> Seq(Packet)]
    BY <1>3, <2>1, DeliverType DEF TakeStored
  <2>3. SendKept(n) /\ rx' = rx /\ stored' \in [End -> Byte \cup {NoByte}]
    BY <1>3 DEF TakeStored, TypeOK
  <2>4. rx' \in [End -> Seq(Packet)]
    BY <2>3 DEF TypeOK
  <2>5. QED
    BY <1>1, <2>2, <2>3, <2>4, SendKeptType DEF TypeOK
<1>4. CASE FetchAck(n)
  <2>1. rx' \in [End -> Seq(Packet)]
    BY <1>4, FetchedType DEF FetchAck, MayFetch
  <2>2. /\ ackWait' \in [End -> BOOLEAN] /\ doneOnAck' \in [End -> BOOLEAN]
        /\ outChan' \in [End -> BOOLEAN]
    BY <1>4, Zenon DEF FetchAck, TypeOK, DoneAfter, MaySend
  <2>3. tx' \in [End -> Seq(Packet)]
    BY <1>2, <1>4 DEF FetchAck, TypeOK
  <2>4. QED
    BY <1>1, <1>4, <2>1, <2>2, <2>3 DEF FetchAck, TypeOK, inVars
<1>5. CASE FetchWanted(n)
  <2>1. Head(rx[n]) \in Byte /\ rx' \in [End -> Seq(Packet)]
    BY <1>5, FetchedType DEF FetchWanted, MayFetch, Packet
  <2>2. /\ rcvd' \in [End -> Seq(Byte)] /\ inLen' \in [End -> Nat]
        /\ inChan' \in [End -> BOOLEAN] /\ tx' \in [End -> Seq(Packet)]
    BY <1>5, <2>1, DeliverType DEF FetchWanted
  <2>3. QED
    BY <1>1, <1>5, <2>1, <2>2, SendKeptType DEF FetchWanted, TypeOK
<1>6. CASE FetchUnwanted(n)
  <2>1. Head(rx[n]) \in Byte /\ rx' \in [End -> Seq(Packet)]
    BY <1>6, FetchedType DEF FetchUnwanted, MayFetch, Packet
  <2>2. tx' \in [End -> Seq(Packet)] /\ stored' \in [End -> Byte \cup {NoByte}]
    BY <1>2, <1>6, <2>1 DEF FetchUnwanted, TypeOK
  <2>3. QED
    BY <1>1, <1>6, <2>1, <2>2, SendKeptType DEF FetchUnwanted, TypeOK
<1>7. CASE NothingFetched(n)
  <2>1. tx' \in [End -> Seq(Packet)]
    BY <1>2, <1>7 DEF NothingFetched, TypeOK
  <2>2. QED
    BY <1>1, <1>7, <2>1, SendKeptType DEF NothingFetched, TypeOK, inVars
<1>8. QED
  BY <1>3, <1>4, <1>5, <1>6, <1>7 DEF LinkLoop

\* The wire.
LEMMA TypeShift ==
  ASSUME TypeOK, NEW n \in End, Shift(n)
  PROVE  TypeOK'
<1>1. tx[n] \in Seq(Packet) /\ tx[n] # <<>> /\ Peer[n] \in End
  BY EndAssumption DEF Shift, TypeOK
<1>2. Head(tx[n]) \in Packet /\ Tail(tx[n]) \in Seq(Packet)
  BY <1>1, HeadTailProperties
<1>3. Append(rx[Peer[n]], Head(tx[n])) \in Seq(Packet)
  BY <1>1, <1>2, AppendProperties DEF TypeOK
<1>4. tx' \in [End -> Seq(Packet)] /\ rx' \in [End -> Seq(Packet)]
  BY <1>2, <1>3 DEF Shift, TypeOK
<1>5. QED
  BY <1>4 DEF Shift, TypeOK, outVars, inVars

\* The link adapter.
LEMMA TypeAdapter ==
  ASSUME TypeOK, NEW n \in End, Adapter(n)
  PROVE  TypeOK'
<1>1. CASE AdapterSend(n)
  <2>1. outMsg' \in [End -> Seq(Byte)] /\ sent' \in [End -> Seq(Byte)]
    BY <1>1, SendHalfType DEF AdapterSend
  <2>2. tx' \in [End -> Seq(Packet)]
    BY <1>1, TxAfterType DEF AdapterSend, TypeOK
  <2>3. QED
    BY <1>1, <2>1, <2>2, SendKeptType DEF AdapterSend, TypeOK, inVars
<1>2. CASE AdapterAck(n)
  <2>1. rx' \in [End -> Seq(Packet)]
    BY <1>2, FetchedType DEF AdapterAck
  <2>2. /\ ackWait' \in [End -> BOOLEAN] /\ doneOnAck' \in [End -> BOOLEAN]
        /\ outChan' \in [End -> BOOLEAN]
    BY <1>2, Zenon DEF AdapterAck, TypeOK
  <2>3. QED
    BY <1>2, <2>1, <2>2 DEF AdapterAck, TypeOK, inVars
<1>3. CASE AdapterHold(n)
  <2>1. Head(rx[n]) \in Byte /\ rx' \in [End -> Seq(Packet)]
    BY <1>3, FetchedType DEF AdapterHold, Packet
  <2>2. stored' \in [End -> Byte \cup {NoByte}]
    BY <1>3, <2>1 DEF AdapterHold, TypeOK
  <2>3. QED
    BY <1>3, <2>1, <2>2 DEF AdapterHold, TypeOK, outVars
<1>4. CASE AdapterTake(n)
  <2>1. stored[n] \in Byte /\ inLen[n] - 1 \in Nat
    BY <1>4 DEF AdapterTake, TypeOK
  <2>2. rcvd' \in [End -> Seq(Byte)] /\ tx' \in [End -> Seq(Packet)]
    BY <1>4, <2>1, AppendProperties DEF AdapterTake, TypeOK, Packet
  <2>3. QED
    BY <1>4, <2>1, <2>2 DEF AdapterTake, TypeOK, outVars
<1>5. QED
  BY <1>1, <1>2, <1>3, <1>4 DEF Adapter

\* Every step keeps the types.
LEMMA TypeStep == TypeOK /\ [Next]_vars => TypeOK'
<1> SUFFICES ASSUME TypeOK, [Next]_vars PROVE TypeOK'
  OBVIOUS
<1>1. CASE Next
  BY <1>1, TypeProcess, TypeLinkLoop, TypeShift, TypeAdapter DEF Next
<1>2. CASE UNCHANGED vars
  BY <1>2 DEF vars, TypeOK
<1>3. QED
  BY <1>1, <1>2

\* Every variable of every link end always has its type.
THEOREM TypeCorrect == Spec => []TypeOK
  BY TypeInit, TypeStep, PTL DEF Spec

-----------------------------------------------------------------------------
(* The inductive invariant                                                 *)

\* The direction from end n to its peer.
DirAt(n) == LET m == Peer[n] IN
  Direction(tx[n], rx[m], stored[m], tx[m], rx[n], ackWait[n], sent[n], rcvd[m])

\* Every direction of every link carries at most one byte or its ACK.
IInv ==
  /\ TypeOK
  /\ \A n \in End : OneEach(tx[n]) /\ OneEach(rx[n]) /\ DirAt(n)

\* The end at the other side of the wire.
LEMMA PeerFacts ==
  ASSUME NEW n \in End
  PROVE  Peer[n] \in End /\ Peer[n] # n /\ Peer[Peer[n]] = n
  BY EndAssumption

\* The inductive invariant holds initially.
LEMMA IInvInit == Init => IInv
<1> SUFFICES ASSUME Init, NEW n \in End
             PROVE  OneEach(tx[n]) /\ OneEach(rx[n]) /\ DirAt(n)
  BY TypeInit DEF IInv
<1>1. /\ tx[n] = <<>> /\ rx[n] = <<>> /\ tx[Peer[n]] = <<>> /\ rx[Peer[n]] = <<>>
      /\ stored[Peer[n]] = NoByte /\ ackWait[n] = FALSE
      /\ sent[n] = <<>> /\ rcvd[Peer[n]] = <<>>
  BY PeerFacts DEF Init
<1>2. Len(<<>>) = 0
  BY EmptySeq
<1>3. 1..Len(<<>>) = {}
  BY <1>2
<1>4. QED
  BY <1>1, <1>3 DEF OneEach, DirAt, Direction, HasData, HasAck, Completes

\* Both directions of the link between k and m, and what they leave alone.
BothWays(k, m) ==
  /\ OneEach(tx[k]) /\ OneEach(rx[k]) /\ OneEach(tx[m]) /\ OneEach(rx[m])
  /\ Direction(tx[k], rx[m], stored[m], tx[m], rx[k], ackWait[k], sent[k], rcvd[m])
  /\ Direction(tx[m], rx[k], stored[k], tx[k], rx[m], ackWait[m], sent[m], rcvd[k])

OthersKept(k, m) ==
  \A n \in End : n # k /\ n # m =>
    /\ tx'[n] = tx[n] /\ rx'[n] = rx[n] /\ stored'[n] = stored[n]
    /\ ackWait'[n] = ackWait[n] /\ sent'[n] = sent[n] /\ rcvd'[n] = rcvd[n]

\* Only the two ends of one link have changed: what is to be shown of them.
LEMMA TwoEnds ==
  ASSUME IInv, TypeOK', NEW k \in End, NEW m \in End, m = Peer[k],
         OthersKept(k, m), BothWays(k, m)'
  PROVE  IInv'
<1> SUFFICES ASSUME NEW n \in End
             PROVE  OneEach(tx'[n]) /\ OneEach(rx'[n]) /\ DirAt(n)'
  BY DEF IInv
<1>1. Peer[m] = k
  BY PeerFacts
<1>2. CASE n = k
  BY <1>2 DEF DirAt, BothWays
<1>3. CASE n = m
  BY <1>1, <1>3 DEF DirAt, BothWays
<1>4. CASE n # k /\ n # m
  <2>1. Peer[n] \in End /\ Peer[n] # k /\ Peer[n] # m
    BY <1>1, <1>4, PeerFacts
  <2>2. OneEach(tx[n]) /\ OneEach(rx[n]) /\ DirAt(n)
    BY DEF IInv
  <2>3. QED
    BY <1>4, <2>1, <2>2 DEF DirAt, OthersKept
<1>5. QED
  BY <1>2, <1>3, <1>4

\* What holds of the two directions of a link.
LEMMA BothDirections ==
  ASSUME IInv, NEW k \in End, NEW m \in End, m = Peer[k]
  PROVE  /\ k # m
         /\ \A n \in {k, m} : /\ tx[n] \in Seq(Packet) /\ rx[n] \in Seq(Packet)
                              /\ OneEach(tx[n]) /\ OneEach(rx[n])
         /\ Direction(tx[k], rx[m], stored[m], tx[m], rx[k], ackWait[k], sent[k], rcvd[m])
         /\ Direction(tx[m], rx[k], stored[k], tx[k], rx[m], ackWait[m], sent[m], rcvd[k])
<1>1. k # m /\ Peer[m] = k
  BY PeerFacts
<1>2. DirAt(k) /\ DirAt(m)
  BY DEF IInv
<1>3. QED
  BY <1>1, <1>2 DEF IInv, TypeOK, DirAt

\* After linkloop's first half, whether or not it has sent a byte.
LEMMA AfterSend ==
  ASSUME IInv, NEW k \in End, NEW m \in End, m = Peer[k], SendHalf(k)
  PROVE  /\ TxAfter(k) \in Seq(Packet) /\ OneEach(TxAfter(k))
         /\ Direction(TxAfter(k), rx[m], stored[m], tx[m], rx[k], WaitAfter(k), sent'[k], rcvd[m])
         /\ Direction(tx[m], rx[k], stored[k], TxAfter(k), rx[m], ackWait[m], sent[m], rcvd[k])
         /\ \A n \in End \ {k} : sent'[n] = sent[n]
<1>1. /\ tx[k] \in Seq(Packet) /\ OneEach(tx[k])
      /\ Direction(tx[k], rx[m], stored[m], tx[m], rx[k], ackWait[k], sent[k], rcvd[m])
      /\ Direction(tx[m], rx[k], stored[k], tx[k], rx[m], ackWait[m], sent[m], rcvd[k])
      /\ rx[m] \in Seq(Packet)
  BY BothDirections
<1>2. TypeOK /\ ackWait[k] \in BOOLEAN
  BY DEF IInv, TypeOK
<1>3. CASE MaySend(k)
  <2>1. outMsg[k] \in Seq(Byte) /\ outMsg[k] # <<>> /\ ackWait[k] = FALSE
    BY <1>2, <1>3 DEF MaySend, TypeOK
  <2> DEFINE b == Head(outMsg[k])
  <2>2. b \in Byte
    BY <2>1, HeadTailProperties
  <2>3. TxAfter(k) = Append(tx[k], b) /\ WaitAfter(k) = TRUE
    BY <1>3 DEF TxAfter, WaitAfter
  <2>4. sent'[k] = Append(sent[k], b) /\ \A n \in End \ {k} : sent'[n] = sent[n]
    BY <1>2, <1>3 DEF SendHalf, TypeOK
  <2> HIDE DEF b
  <2>5. Direction(tx[k], rx[m], stored[m], tx[m], rx[k], FALSE, sent[k], rcvd[m])
    BY <1>1, <2>1
  <2>6. /\ Direction(Append(tx[k], b), rx[m], stored[m], tx[m], rx[k], TRUE,
                     Append(sent[k], b), rcvd[m])
        /\ ~HasData(tx[k])
    BY <1>1, <2>2, <2>5, DirSend
  <2>7. Direction(tx[m], rx[k], stored[k], Append(tx[k], b), rx[m], ackWait[m], sent[m], rcvd[k])
    BY <1>1, <2>2, DirOtherData
  <2>8. b \in Packet /\ b # Ack
    BY <2>2, ByteAssumption DEF Packet
  <2>9. Append(tx[k], b) \in Seq(Packet) /\ OneEach(Append(tx[k], b))
    BY <1>1, <2>6, <2>8, AppendFifo, AppendProperties
  <2>10. QED
    BY <2>3, <2>4, <2>6, <2>7, <2>9
<1>4. CASE ~MaySend(k)
  BY <1>1, <1>2, <1>4 DEF TxAfter, WaitAfter, SendHalf
<1>5. QED
  BY <1>3, <1>4

\* One call of linkloop() keeps the invariant.
LEMMA IInvLinkLoop ==
  ASSUME IInv, NEW k \in End, LinkLoop(k)
  PROVE  IInv'
<1> DEFINE m == Peer[k]
           t == TxAfter(k)
           w == WaitAfter(k)
<1>1. m \in End /\ m # k /\ TypeOK /\ TypeOK'
  BY PeerFacts, TypeLinkLoop DEF IInv
<1>2. /\ tx[m] \in Seq(Packet) /\ rx[m] \in Seq(Packet) /\ rx[k] \in Seq(Packet)
      /\ OneEach(tx[m]) /\ OneEach(rx[m]) /\ OneEach(rx[k])
      /\ SendHalf(k)
  BY <1>1, BothDirections DEF LinkLoop
<1>3. /\ t \in Seq(Packet) /\ OneEach(t)
      /\ Direction(t, rx[m], stored[m], tx[m], rx[k], w, sent'[k], rcvd[m])
      /\ Direction(tx[m], rx[k], stored[k], t, rx[m], ackWait[m], sent[m], rcvd[k])
      /\ \A n \in End \ {k} : sent'[n] = sent[n]
  BY <1>1, <1>2, AfterSend
<1> HIDE DEF m, t, w
<1>4. Append(t, Ack) \in Seq(Packet) /\ (~HasAck(t) => OneEach(Append(t, Ack)))
  BY <1>3, AppendFifo, AppendProperties DEF Packet
<1>5. Direction(Append(t, Ack), rx[m], stored[m], tx[m], rx[k], w, sent'[k], rcvd[m])
  BY <1>2, <1>3, DirOtherAck
<1>6. ASSUME SendKept(k)
      PROVE  ackWait'[k] = w /\ \A n \in End \ {k} : ackWait'[n] = ackWait[n]
  BY <1>1, <1>6 DEF SendKept, w, TypeOK
<1>7. ASSUME NEW b, Deliver(k, b)
      PROVE  /\ tx'[k] = Append(t, Ack) /\ \A n \in End \ {k} : tx'[n] = tx[n]
             /\ rcvd'[k] = Append(rcvd[k], b) /\ \A n \in End \ {k} : rcvd'[n] = rcvd[n]
  BY <1>1, <1>7 DEF Deliver, t, TypeOK
<1>8. ASSUME tx' = [tx EXCEPT ![k] = TxAfter(k)]
      PROVE  tx'[k] = t /\ \A n \in End \ {k} : tx'[n] = tx[n]
  BY <1>1, <1>8 DEF t, TypeOK
<1>9. ASSUME Fetched(k)
      PROVE  rx'[k] = Tail(rx[k]) /\ \A n \in End \ {k} : rx'[n] = rx[n]
  BY <1>1, <1>9 DEF Fetched, TypeOK
<1>10. CASE TakeStored(k)
  <2> DEFINE h == stored[k]
  <2>1. h # NoByte /\ Deliver(k, h) /\ SendKept(k) /\ rx' = rx
    BY <1>10 DEF TakeStored
  <2>2. stored'[k] = NoByte /\ \A n \in End \ {k} : stored'[n] = stored[n]
    BY <1>1, <1>10 DEF TakeStored, TypeOK
  <2>3. Direction(tx[m], rx[k], h, t, rx[m], ackWait[m], sent[m], rcvd[k])
    BY <1>3
  <2> HIDE DEF h
  <2>4. /\ Direction(tx[m], rx[k], NoByte, Append(t, Ack), rx[m], ackWait[m],
                     sent[m], Append(rcvd[k], h))
        /\ ~HasAck(t)
    BY <1>3, <2>1, <2>3, DirTakeHeld
  <2>5. /\ tx'[k] = Append(t, Ack) /\ rcvd'[k] = Append(rcvd[k], h) /\ ackWait'[k] = w
        /\ \A n \in End \ {k} : tx'[n] = tx[n] /\ rcvd'[n] = rcvd[n] /\ ackWait'[n] = ackWait[n]
    BY <1>6, <1>7, <2>1
  <2>6. BothWays(k, m)'
    BY <1>1, <1>2, <1>3, <1>4, <1>5, <2>1, <2>2, <2>4, <2>5 DEF BothWays
  <2>7. OthersKept(k, m)
    BY <1>1, <1>2, <1>3, <1>4, <1>5, <2>1, <2>2, <2>4, <2>5 DEF OthersKept
  <2>8. QED
    BY <1>1, <2>6, <2>7, TwoEnds DEF m
<1>11. CASE FetchAck(k)
  <2>1. /\ rx[k] # <<>> /\ Head(rx[k]) = Ack /\ Fetched(k)
        /\ tx' = [tx EXCEPT ![k] = TxAfter(k)]
        /\ stored' = stored /\ rcvd' = rcvd
    BY <1>11 DEF FetchAck, MayFetch, inVars
  <2>2. ackWait'[k] = FALSE /\ \A n \in End \ {k} : ackWait'[n] = ackWait[n]
    BY <1>1, <1>11 DEF FetchAck, TypeOK
  <2>3. OneEach(Tail(rx[k]))
    BY <1>2, <2>1, TailFifo
  <2>4. Direction(t, rx[m], stored[m], tx[m], Tail(rx[k]), FALSE, sent'[k], rcvd[m])
    BY <1>2, <1>3, <2>1, DirAcked
  <2>5. Direction(tx[m], Tail(rx[k]), stored[k], t, rx[m], ackWait[m], sent[m], rcvd[k])
    BY <1>2, <1>3, <2>1, DirOtherAck
  <2>6. /\ tx'[k] = t /\ tx'[m] = tx[m] /\ rx'[k] = Tail(rx[k]) /\ rx'[m] = rx[m]
        /\ \A n \in End \ {k} : tx'[n] = tx[n] /\ rx'[n] = rx[n]
    BY <1>1, <1>8, <1>9, <2>1
  <2>7. ackWait'[m] = ackWait[m] /\ sent'[m] = sent[m]
    BY <1>1, <1>3, <2>2
  <2>8. BothWays(k, m)'
    BY <1>1, <1>2, <1>3, <2>1, <2>2, <2>3, <2>4, <2>5, <2>6, <2>7 DEF BothWays
  <2>9. OthersKept(k, m)
    BY <1>1, <1>2, <1>3, <2>1, <2>2, <2>3, <2>4, <2>5, <2>6, <2>7 DEF OthersKept
  <2>10. QED
    BY <1>1, <2>8, <2>9, TwoEnds DEF m
<1>12. CASE FetchWanted(k)
  <2> DEFINE b == Head(rx[k])
  <2>1. /\ rx[k] # <<>> /\ b # Ack /\ Fetched(k)
        /\ Deliver(k, b) /\ SendKept(k) /\ stored' = stored
    BY <1>12 DEF FetchWanted, MayFetch
  <2>2. OneEach(Tail(rx[k])) /\ b \in Byte
    BY <1>2, <2>1, TailFifo, HeadTailProperties DEF Packet
  <2>3. /\ Direction(tx[m], Tail(rx[k]), stored[k], Append(t, Ack), rx[m], ackWait[m],
                     sent[m], Append(rcvd[k], b))
        /\ ~HasAck(t)
    BY <1>2, <1>3, <2>1, DirReceive
  <2>4. Direction(Append(t, Ack), rx[m], stored[m], tx[m], Tail(rx[k]), w, sent'[k], rcvd[m])
    BY <1>2, <1>4, <1>5, <2>1, <2>2, DirOtherData
  <2> HIDE DEF b
  <2>5. /\ tx'[k] = Append(t, Ack) /\ rcvd'[k] = Append(rcvd[k], b) /\ ackWait'[k] = w
        /\ \A n \in End \ {k} : tx'[n] = tx[n] /\ rcvd'[n] = rcvd[n] /\ ackWait'[n] = ackWait[n]
    BY <1>6, <1>7, <2>1
  <2>6. BothWays(k, m)'
    BY <1>1, <1>2, <1>3, <1>4, <1>9, <2>1, <2>2, <2>3, <2>4, <2>5 DEF BothWays
  <2>7. OthersKept(k, m)
    BY <1>1, <1>2, <1>3, <1>4, <1>9, <2>1, <2>2, <2>3, <2>4, <2>5 DEF OthersKept
  <2>8. QED
    BY <1>1, <2>6, <2>7, TwoEnds DEF m
<1>13. CASE FetchUnwanted(k)
  <2> DEFINE b == Head(rx[k])
  <2>1. /\ rx[k] # <<>> /\ b # Ack /\ Fetched(k) /\ SendKept(k)
        /\ tx' = [tx EXCEPT ![k] = TxAfter(k)] /\ rcvd' = rcvd
    BY <1>13 DEF FetchUnwanted, MayFetch
  <2>2. stored'[k] = b /\ \A n \in End \ {k} : stored'[n] = stored[n]
    BY <1>1, <1>13 DEF FetchUnwanted, TypeOK
  <2>3. OneEach(Tail(rx[k])) /\ b \in Byte /\ b # NoByte
    BY <1>2, <2>1, TailFifo, HeadTailProperties, ByteAssumption DEF Packet
  <2>4. Direction(tx[m], Tail(rx[k]), b, t, rx[m], ackWait[m], sent[m], rcvd[k])
    BY <1>2, <1>3, <2>1, <2>3, DirReceive
  <2>5. Direction(t, rx[m], stored[m], tx[m], Tail(rx[k]), w, sent'[k], rcvd[m])
    BY <1>2, <1>3, <2>1, <2>3, DirOtherData
  <2> HIDE DEF b
  <2>6. BothWays(k, m)'
    BY <1>1, <1>2, <1>3, <1>6, <1>8, <1>9, <2>1, <2>2, <2>3, <2>4, <2>5 DEF BothWays
  <2>7. OthersKept(k, m)
    BY <1>1, <1>2, <1>3, <1>6, <1>8, <1>9, <2>1, <2>2, <2>3, <2>4, <2>5 DEF OthersKept
  <2>8. QED
    BY <1>1, <2>6, <2>7, TwoEnds DEF m
<1>14. CASE NothingFetched(k)
  <2>1. /\ SendKept(k) /\ rx' = rx /\ stored' = stored /\ rcvd' = rcvd
        /\ tx' = [tx EXCEPT ![k] = TxAfter(k)]
    BY <1>14 DEF NothingFetched, inVars
  <2>2. BothWays(k, m)'
    BY <1>1, <1>2, <1>3, <1>6, <1>8, <2>1 DEF BothWays
  <2>3. OthersKept(k, m)
    BY <1>1, <1>2, <1>3, <1>6, <1>8, <2>1 DEF OthersKept
  <2>4. QED
    BY <1>1, <2>2, <2>3, TwoEnds DEF m
<1>15. QED
  BY <1>10, <1>11, <1>12, <1>13, <1>14 DEF LinkLoop

\* The wire keeps the invariant.
LEMMA IInvShift ==
  ASSUME IInv, NEW k \in End, Shift(k)
  PROVE  IInv'
<1> DEFINE m == Peer[k]
           x == Head(tx[k])
<1>1. m \in End /\ m # k /\ TypeOK /\ TypeOK'
  BY PeerFacts, TypeShift DEF IInv
<1>2. /\ tx[m] \in Seq(Packet) /\ rx[m] \in Seq(Packet) /\ rx[k] \in Seq(Packet)
      /\ tx[k] \in Seq(Packet) /\ tx[k] # <<>>
      /\ OneEach(tx[m]) /\ OneEach(rx[m]) /\ OneEach(rx[k]) /\ OneEach(tx[k])
      /\ Direction(tx[k], rx[m], stored[m], tx[m], rx[k], ackWait[k], sent[k], rcvd[m])
      /\ Direction(tx[m], rx[k], stored[k], tx[k], rx[m], ackWait[m], sent[m], rcvd[k])
  BY <1>1, BothDirections DEF Shift
<1>3. /\ tx'[k] = Tail(tx[k]) /\ tx'[m] = tx[m]
      /\ rx'[m] = Append(rx[m], x) /\ rx'[k] = rx[k]
      /\ \A n \in End : n # k /\ n # m => tx'[n] = tx[n] /\ rx'[n] = rx[n]
  BY <1>1 DEF Shift, TypeOK
<1>4. ackWait' = ackWait /\ stored' = stored /\ sent' = sent /\ rcvd' = rcvd
  BY DEF Shift, outVars, inVars
<1>5. x \in Packet /\ OneEach(Tail(tx[k]))
  BY <1>2, HeadTailProperties, TailFifo
<1> HIDE DEF m
<1>6. CASE x = Ack
  <2>1. /\ Direction(tx[m], rx[k], stored[k], Tail(tx[k]), Append(rx[m], Ack),
                     ackWait[m], sent[m], rcvd[k])
        /\ ~HasAck(rx[m])
    BY <1>2, <1>6, DirShift
  <2>2. Direction(Tail(tx[k]), Append(rx[m], Ack), stored[m], tx[m], rx[k],
                  ackWait[k], sent[k], rcvd[m])
    BY <1>2, <1>6, DirOtherAck
  <2>3. OneEach(Append(rx[m], Ack))
    BY <1>2, <1>5, <1>6, <2>1, AppendFifo
  <2>4. BothWays(k, m)'
    BY <1>1, <1>2, <1>3, <1>4, <1>5, <1>6, <2>1, <2>2, <2>3 DEF BothWays
  <2>5. OthersKept(k, m)
    BY <1>1, <1>2, <1>3, <1>4, <1>5, <1>6, <2>1, <2>2, <2>3 DEF OthersKept
  <2>6. QED
    BY <1>1, <2>4, <2>5, TwoEnds DEF m
<1>7. CASE x # Ack
  <2>0. x \in Byte
    BY <1>5, <1>7 DEF Packet
  <2>1. /\ Direction(Tail(tx[k]), Append(rx[m], x), stored[m], tx[m], rx[k],
                     ackWait[k], sent[k], rcvd[m])
        /\ ~HasData(rx[m])
    BY <1>2, <1>7, DirShift
  <2>2. Direction(tx[m], rx[k], stored[k], Tail(tx[k]), Append(rx[m], x),
                  ackWait[m], sent[m], rcvd[k])
    BY <1>2, <1>7, <2>0, DirOtherData
  <2>3. OneEach(Append(rx[m], x))
    BY <1>2, <1>5, <1>7, <2>1, AppendFifo
  <2> HIDE DEF x
  <2>4. BothWays(k, m)'
    BY <1>1, <1>2, <1>3, <1>4, <1>5, <2>1, <2>2, <2>3 DEF BothWays
  <2>5. OthersKept(k, m)
    BY <1>1, <1>2, <1>3, <1>4, <1>5, <2>1, <2>2, <2>3 DEF OthersKept
  <2>6. QED
    BY <1>1, <2>4, <2>5, TwoEnds DEF m
<1>8. QED
  BY <1>6, <1>7

\* The link adapter keeps the invariant.
LEMMA IInvAdapter ==
  ASSUME IInv, NEW k \in End, Adapter(k)
  PROVE  IInv'
<1> DEFINE m == Peer[k]
<1>1. m \in End /\ m # k /\ TypeOK /\ TypeOK'
  BY PeerFacts, TypeAdapter DEF IInv
<1>2. /\ tx[m] \in Seq(Packet) /\ rx[m] \in Seq(Packet) /\ rx[k] \in Seq(Packet)
      /\ tx[k] \in Seq(Packet)
      /\ OneEach(tx[m]) /\ OneEach(rx[m]) /\ OneEach(rx[k]) /\ OneEach(tx[k])
      /\ Direction(tx[k], rx[m], stored[m], tx[m], rx[k], ackWait[k], sent[k], rcvd[m])
      /\ Direction(tx[m], rx[k], stored[k], tx[k], rx[m], ackWait[m], sent[m], rcvd[k])
  BY <1>1, BothDirections
<1> HIDE DEF m
<1>3. CASE AdapterSend(k)
  <2>1. /\ TxAfter(k) \in Seq(Packet) /\ OneEach(TxAfter(k))
        /\ Direction(TxAfter(k), rx[m], stored[m], tx[m], rx[k], WaitAfter(k), sent'[k], rcvd[m])
        /\ Direction(tx[m], rx[k], stored[k], TxAfter(k), rx[m], ackWait[m], sent[m], rcvd[k])
        /\ \A n \in End \ {k} : sent'[n] = sent[n]
    BY <1>1, <1>3, AfterSend DEF AdapterSend, m
  <2>2. /\ tx'[k] = TxAfter(k) /\ \A n \in End \ {k} : tx'[n] = tx[n]
        /\ ackWait'[k] = WaitAfter(k) /\ \A n \in End \ {k} : ackWait'[n] = ackWait[n]
        /\ rx' = rx /\ stored' = stored /\ rcvd' = rcvd
    BY <1>1, <1>3 DEF AdapterSend, SendKept, TypeOK, inVars
  <2>3. BothWays(k, m)'
    BY <1>1, <1>2, <2>1, <2>2 DEF BothWays
  <2>4. OthersKept(k, m)
    BY <1>1, <1>2, <2>1, <2>2 DEF OthersKept
  <2>5. QED
    BY <1>1, <2>3, <2>4, TwoEnds DEF m
<1>4. CASE AdapterAck(k)
  <2>1. /\ rx[k] # <<>> /\ Head(rx[k]) = Ack
        /\ rx'[k] = Tail(rx[k]) /\ \A n \in End \ {k} : rx'[n] = rx[n]
        /\ ackWait'[k] = FALSE /\ \A n \in End \ {k} : ackWait'[n] = ackWait[n]
        /\ tx' = tx /\ stored' = stored /\ sent' = sent /\ rcvd' = rcvd
    BY <1>1, <1>4 DEF AdapterAck, Fetched, TypeOK, inVars
  <2>2. OneEach(Tail(rx[k]))
    BY <1>2, <2>1, TailFifo
  <2>3. Direction(tx[k], rx[m], stored[m], tx[m], Tail(rx[k]), FALSE, sent[k], rcvd[m])
    BY <1>2, <2>1, DirAcked
  <2>4. Direction(tx[m], Tail(rx[k]), stored[k], tx[k], rx[m], ackWait[m], sent[m], rcvd[k])
    BY <1>2, <2>1, DirOtherAck
  <2>5. BothWays(k, m)'
    BY <1>1, <1>2, <2>1, <2>2, <2>3, <2>4 DEF BothWays
  <2>6. OthersKept(k, m)
    BY <1>1, <1>2, <2>1, <2>2, <2>3, <2>4 DEF OthersKept
  <2>7. QED
    BY <1>1, <2>5, <2>6, TwoEnds DEF m
<1>5. CASE AdapterHold(k)
  <2> DEFINE b == Head(rx[k])
  <2>1. /\ rx[k] # <<>> /\ b # Ack
        /\ rx'[k] = Tail(rx[k]) /\ \A n \in End \ {k} : rx'[n] = rx[n]
        /\ stored'[k] = b /\ \A n \in End \ {k} : stored'[n] = stored[n]
        /\ tx' = tx /\ ackWait' = ackWait /\ sent' = sent /\ rcvd' = rcvd
    BY <1>1, <1>5 DEF AdapterHold, Fetched, TypeOK, outVars
  <2>2. OneEach(Tail(rx[k])) /\ b \in Byte /\ b # NoByte
    BY <1>2, <2>1, TailFifo, HeadTailProperties, ByteAssumption DEF Packet
  <2>3. Direction(tx[m], Tail(rx[k]), b, tx[k], rx[m], ackWait[m], sent[m], rcvd[k])
    BY <1>2, <2>1, <2>2, DirReceive
  <2>4. Direction(tx[k], rx[m], stored[m], tx[m], Tail(rx[k]), ackWait[k], sent[k], rcvd[m])
    BY <1>2, <2>1, <2>2, DirOtherData
  <2> HIDE DEF b
  <2>5. BothWays(k, m)'
    BY <1>1, <1>2, <2>1, <2>2, <2>3, <2>4 DEF BothWays
  <2>6. OthersKept(k, m)
    BY <1>1, <1>2, <2>1, <2>2, <2>3, <2>4 DEF OthersKept
  <2>7. QED
    BY <1>1, <2>5, <2>6, TwoEnds DEF m
<1>6. CASE AdapterTake(k)
  <2> DEFINE h == stored[k]
  <2>1. /\ h # NoByte
        /\ tx'[k] = Append(tx[k], Ack) /\ \A n \in End \ {k} : tx'[n] = tx[n]
        /\ rcvd'[k] = Append(rcvd[k], h) /\ \A n \in End \ {k} : rcvd'[n] = rcvd[n]
        /\ stored'[k] = NoByte /\ \A n \in End \ {k} : stored'[n] = stored[n]
        /\ rx' = rx /\ ackWait' = ackWait /\ sent' = sent
    BY <1>1, <1>6 DEF AdapterTake, TypeOK, outVars
  <2>2. Direction(tx[m], rx[k], h, tx[k], rx[m], ackWait[m], sent[m], rcvd[k])
    BY <1>2, Zenon
  <2> HIDE DEF h
  <2>3. /\ Direction(tx[m], rx[k], NoByte, Append(tx[k], Ack), rx[m], ackWait[m],
                     sent[m], Append(rcvd[k], h))
        /\ ~HasAck(tx[k])
    BY <1>2, <2>1, <2>2, DirTakeHeld
  <2>4. Direction(Append(tx[k], Ack), rx[m], stored[m], tx[m], rx[k], ackWait[k], sent[k], rcvd[m])
    BY <1>2, DirOtherAck
  <2>5. OneEach(Append(tx[k], Ack))
    BY <1>2, <2>3, AppendFifo DEF Packet
  <2>6. BothWays(k, m)'
    BY <1>1, <1>2, <2>1, <2>3, <2>4, <2>5 DEF BothWays
  <2>7. OthersKept(k, m)
    BY <1>1, <1>2, <2>1, <2>3, <2>4, <2>5 DEF OthersKept
  <2>8. QED
    BY <1>1, <2>6, <2>7, TwoEnds DEF m
<1>7. QED
  BY <1>3, <1>4, <1>5, <1>6 DEF Adapter

\* Every step keeps the inductive invariant.
LEMMA IInvStep == IInv /\ [Next]_vars => IInv'
<1> SUFFICES ASSUME IInv, [Next]_vars PROVE IInv'
  OBVIOUS
<1>1. ASSUME NEW n \in End, Out(n) \/ In(n)
      PROVE  IInv'
  <2>1. UNCHANGED <<tx, rx, stored, ackWait, sent, rcvd>>
    BY <1>1 DEF Out, In, wireVars, inVars, outVars
  <2>2. TypeOK'
    BY <1>1, TypeProcess DEF IInv
  <2>3. QED
    BY <2>1, <2>2 DEF IInv, DirAt
<1>2. CASE UNCHANGED vars
  BY <1>2, TypeStep DEF IInv, DirAt, vars
<1>3. QED
  BY <1>1, <1>2, IInvLinkLoop, IInvShift, IInvAdapter DEF Next

\* The inductive invariant holds in every reachable state.
THEOREM Invariance == Spec => []IInv
  BY IInvInit, IInvStep, PTL DEF Spec

-----------------------------------------------------------------------------
(* What the invariant is for                                               *)

\* One packet per direction, and ack_wait says whether there is one.
LEMMA IInvStopAndWait == IInv => StopAndWait
<1> SUFFICES ASSUME IInv, NEW n \in End
             PROVE  /\ ackWait[n] <=> \E k \in DOMAIN Place(n) : Place(n)[k]
                    /\ \A j, k \in DOMAIN Place(n) : Place(n)[j] /\ Place(n)[k] => j = k
  BY DEF StopAndWait
<1> DEFINE m == Peer[n]
           pl == Place(n)
<1>1. Direction(tx[n], rx[m], stored[m], tx[m], rx[n], ackWait[n], sent[n], rcvd[m])
  BY DEF IInv, DirAt
<1>2. /\ DOMAIN pl = {"wire", "fifo", "held", "ackWire", "ackFifo"}
      /\ pl["wire"] <=> HasData(tx[n])
      /\ pl["fifo"] <=> HasData(rx[m])
      /\ pl["held"] <=> stored[m] # NoByte
      /\ pl["ackWire"] <=> HasAck(tx[m])
      /\ pl["ackFifo"] <=> HasAck(rx[n])
  BY DEF Place
<1> HIDE DEF m, pl
<1>3. ackWait[n] <=> \E k \in DOMAIN pl : pl[k]
  BY <1>1, <1>2 DEF Direction
<1>4. \A j, k \in DOMAIN pl : pl[j] /\ pl[k] => j = k
  BY <1>1, <1>2 DEF Direction
<1>5. QED
  BY <1>3, <1>4 DEF pl

\* The link is a stop-and-wait protocol: a byte is put on the wire only when
\* the one before it has been acknowledged.
THEOREM LinkStopsAndWaits == Spec => []StopAndWait
  BY Invariance, IInvStopAndWait, PTL

\* At most one byte and one ACK in a FIFO is at most two packets.
LEMMA IInvFifos == IInv => FifosNeverFill
  BY OneEachShort DEF IInv, TypeOK, FifosNeverFill

\* No FIFO of a link ever holds more than two packets.
THEOREM FifosStayShort == Spec => []FifosNeverFill
  BY Invariance, IInvFifos, PTL

\* A direction with at most one byte outstanding delivers in order.
LEMMA IInvInOrder == IInv => InOrder
<1> SUFFICES ASSUME IInv, NEW n \in End
             PROVE  \/ sent[n] = rcvd[Peer[n]]
                    \/ /\ Untaken(n)
                       /\ \E b \in Byte : sent[n] = Append(rcvd[Peer[n]], b)
  BY DEF InOrder
<1> DEFINE m == Peer[n]
<1>1. Direction(tx[n], rx[m], stored[m], tx[m], rx[n], ackWait[n], sent[n], rcvd[m])
  BY DEF IInv, DirAt
<1>2. /\ tx[n] \in Seq(Packet) /\ rx[m] \in Seq(Packet)
      /\ stored[m] \in Byte \cup {NoByte}
  BY PeerFacts DEF IInv, TypeOK
<1>3. Untaken(n) <=> HasData(tx[n]) \/ HasData(rx[m]) \/ stored[m] # NoByte
  BY DEF Untaken, Place
<1>4. ASSUME NEW q \in Seq(Packet), HasData(q), Completes(q, sent[n], rcvd[m])
      PROVE  \E b \in Byte : sent[n] = Append(rcvd[m], b)
  <2>1. PICK i \in 1..Len(q) : q[i] # Ack
    BY <1>4 DEF HasData
  <2>2. q[i] \in Byte
    BY <1>4, <2>1, ElementOfSeq DEF Packet
  <2>3. QED
    BY <1>4, <2>1, <2>2 DEF Completes
<1>5. Untaken(n) => \E b \in Byte : sent[n] = Append(rcvd[m], b)
  BY <1>1, <1>2, <1>3, <1>4 DEF Direction
<1>6. ~Untaken(n) => sent[n] = rcvd[m]
  BY <1>1, <1>3 DEF Direction
<1>7. QED
  BY <1>5, <1>6

\* The bytes a process is given are those its peer sent, in order.
THEOREM BytesArriveInOrder == Spec => []InOrder
  BY Invariance, IInvInOrder, PTL

-----------------------------------------------------------------------------
(* The processes and their transfers                                       *)

\* What NobodyStranded says of one end.
Bound(n) ==
  /\ outChan[n] <=> (outMsg[n] # <<>> \/ doneOnAck[n])
  /\ inChan[n] <=> inLen[n] > 0
  /\ doneOnAck[n] => ackWait[n] /\ outMsg[n] = <<>>

\* The first half of linkloop(), and the flags as it leaves them.
LEMMA BoundSend ==
  ASSUME TypeOK, NEW k \in End, Bound(k), SendHalf(k)
  PROVE  /\ outChan[k] <=> (outMsg'[k] # <<>> \/ DoneAfter(k))
         /\ DoneAfter(k) => WaitAfter(k) /\ outMsg'[k] = <<>>
         /\ \A n \in End \ {k} : outMsg'[n] = outMsg[n]
<1>1. outMsg[k] \in Seq(Byte)
  BY DEF TypeOK
<1>2. CASE MaySend(k)
  <2>1. outMsg[k] # <<>> /\ ~doneOnAck[k]
    BY <1>2 DEF MaySend, Bound
  <2>2. outMsg'[k] = Tail(outMsg[k]) /\ \A n \in End \ {k} : outMsg'[n] = outMsg[n]
    BY <1>2 DEF SendHalf, TypeOK
  <2>3. Tail(outMsg[k]) = <<>> <=> Len(outMsg[k]) = 1
    <3>1. /\ Tail(outMsg[k]) \in Seq(Byte)
          /\ Len(Tail(outMsg[k])) = Len(outMsg[k]) - 1
          /\ Len(outMsg[k]) \in Nat
      BY <1>1, <2>1, HeadTailProperties, LenProperties
    <3>2. Tail(outMsg[k]) = <<>> <=> Len(Tail(outMsg[k])) = 0
      BY <3>1, EmptySeq
    <3>3. QED
      BY <3>1, <3>2
  <2>4. QED
    BY <1>2, <2>1, <2>2, <2>3 DEF DoneAfter, WaitAfter, Bound
<1>3. CASE ~MaySend(k)
  BY <1>3 DEF SendHalf, DoneAfter, WaitAfter, Bound
<1>4. QED
  BY <1>2, <1>3

\* One call of linkloop() keeps channel words and transfers in step.
LEMMA BoundLinkLoop ==
  ASSUME TypeOK, NEW k \in End, Bound(k), LinkLoop(k)
  PROVE  Bound(k)' /\ \A n \in End \ {k} : Bound(n) => Bound(n)'
<1>1. /\ outChan[k] <=> (outMsg'[k] # <<>> \/ DoneAfter(k))
      /\ DoneAfter(k) => WaitAfter(k) /\ outMsg'[k] = <<>>
      /\ \A n \in End \ {k} : outMsg'[n] = outMsg[n]
  BY BoundSend DEF LinkLoop
<1>2. ASSUME SendKept(k)
      PROVE  /\ outChan' = outChan /\ ackWait'[k] = WaitAfter(k) /\ doneOnAck'[k] = DoneAfter(k)
             /\ \A n \in End \ {k} : ackWait'[n] = ackWait[n] /\ doneOnAck'[n] = doneOnAck[n]
  BY <1>2 DEF SendKept, TypeOK
<1>3. ASSUME NEW b, inLen[k] > 0, Deliver(k, b)
      PROVE  /\ inChan'[k] <=> inLen'[k] > 0
             /\ \A n \in End \ {k} : inLen'[n] = inLen[n] /\ inChan'[n] = inChan[n]
  <2>1. /\ inLen[k] \in Nat /\ inLen'[k] = inLen[k] - 1 /\ (inChan'[k] <=> inLen[k] # 1)
        /\ \A n \in End \ {k} : inLen'[n] = inLen[n] /\ inChan'[n] = inChan[n]
    BY <1>3 DEF Deliver, TypeOK
  <2>2. QED
    BY <1>3, <2>1
<1>4. CASE TakeStored(k) \/ FetchWanted(k)
  <2>1. SendKept(k) /\ inLen[k] > 0 /\ \E b : Deliver(k, b)
    BY <1>4 DEF TakeStored, FetchWanted
  <2>2. QED
    BY <1>1, <1>2, <1>3, <2>1 DEF Bound
<1>5. CASE FetchUnwanted(k) \/ NothingFetched(k)
  <2>1. SendKept(k) /\ inLen' = inLen /\ inChan' = inChan
    BY <1>5 DEF FetchUnwanted, NothingFetched, inVars
  <2>2. QED
    BY <1>1, <1>2, <2>1 DEF Bound
<1>6. CASE FetchAck(k)
  <2>1. inLen' = inLen /\ inChan' = inChan
    BY <1>6 DEF FetchAck, inVars
  <2>2. /\ ~ackWait'[k] /\ ~doneOnAck'[k] /\ (outChan'[k] <=> outChan[k] /\ ~DoneAfter(k))
        /\ \A n \in End \ {k} : /\ ackWait'[n] = ackWait[n] /\ doneOnAck'[n] = doneOnAck[n]
                                /\ outChan'[n] = outChan[n]
    BY <1>6, Zenon DEF FetchAck, TypeOK
  <2>3. QED
    BY <1>1, <2>1, <2>2 DEF Bound
<1>7. QED
  BY <1>4, <1>5, <1>6 DEF LinkLoop

\* So does every step of the link adapter.
LEMMA BoundAdapter ==
  ASSUME TypeOK, NEW k \in End, Bound(k), Adapter(k)
  PROVE  Bound(k)' /\ \A n \in End \ {k} : Bound(n) => Bound(n)'
<1>1. CASE AdapterSend(k)
  <2>1. /\ outChan[k] <=> (outMsg'[k] # <<>> \/ DoneAfter(k))
        /\ DoneAfter(k) => WaitAfter(k) /\ outMsg'[k] = <<>>
        /\ \A n \in End \ {k} : outMsg'[n] = outMsg[n]
    BY <1>1, BoundSend DEF AdapterSend
  <2>2. /\ outChan' = outChan /\ ackWait'[k] = WaitAfter(k) /\ doneOnAck'[k] = DoneAfter(k)
        /\ \A n \in End \ {k} : ackWait'[n] = ackWait[n] /\ doneOnAck'[n] = doneOnAck[n]
        /\ inLen' = inLen /\ inChan' = inChan
    BY <1>1 DEF AdapterSend, SendKept, TypeOK, inVars
  <2>3. QED
    BY <2>1, <2>2 DEF Bound
<1>2. CASE AdapterAck(k)
  <2>1. /\ ~ackWait'[k] /\ ~doneOnAck'[k] /\ (outChan'[k] <=> outChan[k] /\ ~doneOnAck[k])
        /\ \A n \in End \ {k} : /\ ackWait'[n] = ackWait[n] /\ doneOnAck'[n] = doneOnAck[n]
                                /\ outChan'[n] = outChan[n]
        /\ inLen' = inLen /\ inChan' = inChan /\ outMsg' = outMsg
    BY <1>2, Zenon DEF AdapterAck, TypeOK, inVars
  <2>2. QED
    BY <2>1 DEF Bound
<1>3. CASE AdapterHold(k)
  BY <1>3 DEF AdapterHold, Bound, outVars
<1>4. CASE AdapterTake(k)
  <2>1. /\ inLen[k] \in Nat /\ inLen[k] > 0 /\ inLen'[k] = inLen[k] - 1
        /\ inChan'[k] <=> inLen[k] # 1
        /\ \A n \in End \ {k} : inLen'[n] = inLen[n] /\ inChan'[n] = inChan[n]
        /\ UNCHANGED outVars
    BY <1>4 DEF AdapterTake, TypeOK
  <2>2. QED
    BY <2>1 DEF Bound, outVars
<1>5. QED
  BY <1>1, <1>2, <1>3, <1>4 DEF Adapter

\* So does a process that starts a transfer.
LEMMA BoundProcess ==
  ASSUME TypeOK, NEW k \in End, Bound(k), Out(k) \/ In(k)
  PROVE  Bound(k)' /\ \A n \in End \ {k} : Bound(n) => Bound(n)'
<1>1. CASE Out(k)
  <2>1. PICK msg \in Message : outMsg' = [outMsg EXCEPT ![k] = msg]
    BY <1>1 DEF Out
  <2>2. msg # <<>>
    <3>1. PICK j \in 1..MaxLen : msg \in [1..j -> Byte]
      BY DEF Message
    <3>2. 1 \in DOMAIN msg
      BY <3>1, BoundAssumption
    <3>3. DOMAIN <<>> = {}
      OBVIOUS
    <3>4. QED
      BY <3>2, <3>3
  <2>3. /\ outMsg'[k] # <<>> /\ outChan'[k] /\ ~outChan[k]
        /\ \A n \in End \ {k} : outMsg'[n] = outMsg[n] /\ outChan'[n] = outChan[n]
        /\ ackWait' = ackWait /\ doneOnAck' = doneOnAck /\ inLen' = inLen /\ inChan' = inChan
    BY <1>1, <2>1, <2>2 DEF Out, TypeOK, inVars
  <2>4. QED
    BY <2>3 DEF Bound
<1>2. CASE In(k)
  <2>1. PICK j \in 1..MaxLen : inLen' = [inLen EXCEPT ![k] = j]
    BY <1>2 DEF In
  <2>2. /\ inLen'[k] > 0 /\ inChan'[k]
        /\ \A n \in End \ {k} : inLen'[n] = inLen[n] /\ inChan'[n] = inChan[n]
        /\ UNCHANGED outVars
    BY <1>2, <2>1, BoundAssumption DEF In, TypeOK
  <2>3. QED
    BY <2>2 DEF Bound, outVars
<1>3. QED
  BY <1>1, <1>2

\* Every step keeps channel words and transfers in step.
LEMMA NobodyStrandedStep == TypeOK /\ NobodyStranded /\ [Next]_vars => NobodyStranded'
<1> SUFFICES ASSUME TypeOK, \A n \in End : Bound(n), [Next]_vars
             PROVE  \A n \in End : Bound(n)'
  BY DEF NobodyStranded, Bound
<1>1. ASSUME NEW k \in End, Out(k) \/ In(k) \/ LinkLoop(k) \/ Adapter(k)
      PROVE  \A n \in End : Bound(n)'
  BY <1>1, BoundProcess, BoundLinkLoop, BoundAdapter
<1>2. ASSUME NEW k \in End, Shift(k)
      PROVE  \A n \in End : Bound(n)'
  BY <1>2 DEF Shift, Bound, outVars, inVars
<1>3. CASE UNCHANGED vars
  BY <1>3 DEF vars, Bound
<1>4. QED
  BY <1>1, <1>2, <1>3 DEF Next

\* Initially there is no transfer and no process waiting.
LEMMA NobodyStrandedInit == Init => NobodyStranded
<1> SUFFICES ASSUME Init, NEW n \in End PROVE Bound(n)
  BY DEF NobodyStranded, Bound
<1>1. /\ outMsg[n] = <<>> /\ ~doneOnAck[n] /\ ~outChan[n]
      /\ inLen[n] = 0 /\ ~inChan[n]
  BY DEF Init
<1>2. QED
  BY <1>1 DEF Bound

\* A channel word holds a process exactly while its transfer is under way.
THEOREM NobodyIsStranded == Spec => []NobodyStranded
  BY TypeInit, TypeStep, NobodyStrandedInit, NobodyStrandedStep, PTL DEF Spec

\* A sending process is released only by an ACK.
LEMMA ReleasedByAck ==
  ASSUME TypeOK, [Next]_vars, NEW n \in End, outChan[n], ~outChan'[n]
  PROVE  rx[n] # <<>> /\ Head(rx[n]) = Ack /\ ~ackWait'[n]
<1>1. CASE FetchAck(n) \/ AdapterAck(n)
  BY <1>1 DEF FetchAck, MayFetch, AdapterAck, TypeOK
<1>2. ASSUME NEW k \in End, FetchAck(k) \/ AdapterAck(k), k # n
      PROVE  FALSE
  BY <1>2 DEF FetchAck, AdapterAck, TypeOK
<1>3. ASSUME NEW k \in End, Out(k)
      PROVE  FALSE
  BY <1>3 DEF Out, TypeOK
<1>4. ASSUME NEW k \in End, In(k) \/ Shift(k) \/ AdapterHold(k) \/ AdapterTake(k)
      PROVE  FALSE
  BY <1>4 DEF In, Shift, AdapterHold, AdapterTake, outVars
<1>5. ASSUME NEW k \in End, SendKept(k)
      PROVE  FALSE
  BY <1>5 DEF SendKept
<1>6. CASE UNCHANGED vars
  BY <1>6 DEF vars
<1>7. QED
  BY <1>1, <1>2, <1>3, <1>4, <1>5, <1>6
  DEF Next, LinkLoop, TakeStored, FetchWanted, FetchUnwanted, NothingFetched, Adapter, AdapterSend

\* In the inductive invariant, the step that releases a sender is the one that
\* processes the ACK of its last byte, by which time everything has arrived.
LEMMA RendezvousStep ==
  ASSUME IInv, IInv', NobodyStranded', [Next]_vars, NEW n \in End, outChan[n], ~outChan'[n]
  PROVE  /\ outMsg[n] = <<>> \/ ackWait[n]
         /\ outMsg'[n] = <<>>
         /\ sent'[n] = rcvd'[Peer[n]]
<1>1. rx[n] # <<>> /\ Head(rx[n]) = Ack /\ ~ackWait'[n]
  BY ReleasedByAck DEF IInv
<1>2. rx[n] \in Seq(Packet) /\ OneEach(rx[n]) /\ DirAt(n) /\ DirAt(n)'
  BY DEF IInv, TypeOK
<1>3. HasAck(rx[n])
  BY <1>1, <1>2, TailFifo
<1>4. ackWait[n]
  BY <1>2, <1>3 DEF DirAt, Direction
<1>5. outMsg'[n] = <<>>
  BY DEF NobodyStranded
<1>6. sent'[n] = rcvd'[Peer[n]]
  BY <1>1, <1>2 DEF DirAt, Direction
<1>7. QED
  BY <1>4, <1>5, <1>6

\* out on a link returns only when the process at the other end has been
\* given the whole message.
THEOREM LinkIsRendezvous == Spec => Rendezvous
<1>1. IInv /\ IInv' /\ NobodyStranded' /\ [Next]_vars =>
        [\A n \in End : outChan[n] /\ ~outChan'[n] =>
           /\ outMsg[n] = <<>> \/ ackWait[n]
           /\ outMsg'[n] = <<>>
           /\ sent'[n] = rcvd'[Peer[n]]]_vars
  BY RendezvousStep
<1>2. QED
  BY <1>1, Invariance, NobodyIsStranded, PTL DEF Spec, Rendezvous

-----------------------------------------------------------------------------
(* What a process has offered and its peer has not been given              *)

\* The bytes sent and not received, and those still to be sent.
Offered(s, r, o) == SubSeq(s, Len(r) + 1, Len(s)) \o o

\* Nothing is under way: all that is offered is still to be sent.
LEMMA OfferedIdle ==
  ASSUME NEW s \in Seq(Byte), NEW o \in Seq(Byte)
  PROVE  Offered(s, s, o) = o
<1>1. SubSeq(s, Len(s) + 1, Len(s)) = <<>>
  BY LenProperties, SubSeqProperties
<1>2. QED
  BY <1>1, ConcatEmptySeq DEF Offered

\* One byte is under way: it is offered, before what is still to be sent.
LEMMA OfferedBusy ==
  ASSUME NEW r \in Seq(Byte), NEW b \in Byte, NEW o \in Seq(Byte)
  PROVE  Offered(Append(r, b), r, o) = <<b>> \o o
<1> DEFINE s == Append(r, b)
<1>1. /\ s \in Seq(Byte) /\ Len(s) = Len(r) + 1 /\ Len(r) \in Nat
      /\ s[Len(r) + 1] = b
  BY AppendProperties, LenProperties
<1>2. SubSeq(s, Len(r) + 1, Len(s)) = <<b>>
  <2> HIDE DEF s
  <2> DEFINE m == Len(r) + 1
  <2>1. m \in 1..Len(s) /\ m \in m..Len(s)
    BY <1>1
  <2>2. SubSeq(s, m, m) = <<s[m]>> \o SubSeq(s, m + 1, m)
    BY <1>1, <2>1, SubSeqRecursiveFirst
  <2>3. SubSeq(s, m + 1, m) = <<>>
    BY <1>1, SubSeqEmpty
  <2>4. <<b>> \o <<>> = <<b>>
    BY ConcatEmptySeq
  <2>5. QED
    BY <1>1, <2>2, <2>3, <2>4
<1>3. QED
  BY <1>2 DEF Offered

\* Sending the first byte of a message leaves what is offered as it was.
LEMMA OfferedSend ==
  ASSUME NEW s \in Seq(Byte), NEW o \in Seq(Byte), o # <<>>
  PROVE  Offered(Append(s, Head(o)), s, Tail(o)) = Offered(s, s, o)
<1>1. Head(o) \in Byte /\ Tail(o) \in Seq(Byte) /\ <<Head(o)>> \o Tail(o) = o
  BY HeadTailProperties
<1>2. QED
  BY <1>1, OfferedIdle, OfferedBusy

\* Giving the byte under way to the receiver takes the first one off.
LEMMA OfferedMove ==
  ASSUME NEW s \in Seq(Byte), NEW r \in Seq(Byte), NEW b \in Byte, NEW o \in Seq(Byte),
         s = Append(r, b)
  PROVE  /\ Offered(s, r, o) # <<>> /\ Head(Offered(s, r, o)) = b
         /\ Offered(s, s, o) = Tail(Offered(s, r, o))
<1>1. Offered(s, r, o) = <<b>> \o o /\ Offered(s, s, o) = o
  BY OfferedIdle, OfferedBusy, AppendProperties
<1>2. <<b>> \o o # <<>> /\ Head(<<b>> \o o) = b /\ Tail(<<b>> \o o) = o
  BY HeadTailProperties
<1>3. QED
  BY <1>1, <1>2
-----------------------------------------------------------------------------
(* The steps                                                               *)

\* The mapped state: what Chan has in place of offered.
OfferedAt(n) == Offered(sent[n], rcvd[Peer[n]], outMsg[n])
offered == [n \in End |-> OfferedAt(n)]

\* It is what Link puts in place of offered, before a step and after it.
LEMMA OfferedMapping ==
  /\ offered = [n \in End |->
                  SubSeq(sent[n], Len(rcvd[Peer[n]]) + 1, Len(sent[n])) \o outMsg[n]]
  /\ offered' = [n \in End |->
                   SubSeq(sent'[n], Len(rcvd'[Peer[n]]) + 1, Len(sent'[n])) \o outMsg'[n]]
  BY DEF offered, OfferedAt, Offered

\* The first half of linkloop() does not show: a byte it sends is still
\* offered.
LEMMA SendHidden ==
  ASSUME IInv, NEW k \in End, SendHalf(k), NEW n \in End
  PROVE  Offered(sent'[n], rcvd[Peer[n]], outMsg'[n]) = OfferedAt(n)
<1>1. sent[k] \in Seq(Byte) /\ outMsg[k] \in Seq(Byte) /\ TypeOK
  BY DEF IInv, TypeOK
<1>2. CASE n = k /\ MaySend(k)
  <2>1. sent'[k] = Append(sent[k], Head(outMsg[k])) /\ outMsg'[k] = Tail(outMsg[k])
    BY <1>1, <1>2 DEF SendHalf, TypeOK
  <2>2. outMsg[k] # <<>> /\ ~ackWait[k] /\ DirAt(k)
    BY <1>2 DEF MaySend, IInv
  <2>3. sent[k] = rcvd[Peer[k]]
    BY <2>2 DEF DirAt, Direction
  <2>4. QED
    BY <1>1, <1>2, <2>1, <2>2, <2>3, OfferedSend DEF OfferedAt
<1>3. CASE n # k \/ ~MaySend(k)
  BY <1>1, <1>3 DEF SendHalf, TypeOK, OfferedAt
<1>4. QED
  BY <1>2, <1>3

\* A byte given to the process at k is the first one its peer offers.
LEMMA DeliverShows ==
  ASSUME IInv, NEW k \in End, NEW m \in End, m = Peer[k], NEW b \in Byte,
         sent[m] = Append(rcvd[k], b), inLen[k] > 0,
         SendHalf(k) \/ UNCHANGED <<sent, outMsg>>,
         rcvd' = [rcvd EXCEPT ![k] = Append(@, b)],
         inLen' = [inLen EXCEPT ![k] = @ - 1],
         UNCHANGED outChan
  PROVE  Chan!Move(m)
<1>1. k # m /\ Peer[m] = k /\ TypeOK
  BY PeerFacts DEF IInv
<1>2. /\ sent[m] \in Seq(Byte) /\ rcvd[k] \in Seq(Byte) /\ outMsg[m] \in Seq(Byte)
      /\ sent'[m] = sent[m] /\ outMsg'[m] = outMsg[m]
  BY <1>1 DEF SendHalf, TypeOK
<1>3. /\ OfferedAt(m) # <<>> /\ Head(OfferedAt(m)) = b
      /\ Offered(sent[m], sent[m], outMsg[m]) = Tail(OfferedAt(m))
  <2>1. OfferedAt(m) = Offered(sent[m], rcvd[k], outMsg[m])
    BY <1>1 DEF OfferedAt
  <2>2. QED
    <3> DEFINE s == sent[m]
               r == rcvd[k]
               o == outMsg[m]
    <3>1. s \in Seq(Byte) /\ r \in Seq(Byte) /\ o \in Seq(Byte) /\ s = Append(r, b)
      BY <1>2
    <3> HIDE DEF s, r, o
    <3>2. /\ Offered(s, r, o) # <<>> /\ Head(Offered(s, r, o)) = b
          /\ Offered(s, s, o) = Tail(Offered(s, r, o))
      BY <3>1, OfferedMove
    <3>3. QED
      BY <2>1, <3>2 DEF s, r, o
<1>4. rcvd'[k] = sent[m]
  BY <1>1 DEF TypeOK
<1>5. OfferedAt(m)' = Tail(OfferedAt(m))
  BY <1>1, <1>2, <1>3, <1>4 DEF OfferedAt
<1>6. ASSUME NEW n \in End, n # m
      PROVE  OfferedAt(n)' = OfferedAt(n)
  <2>1. Peer[n] # k
    BY <1>6, PeerFacts
  <2>2. rcvd'[Peer[n]] = rcvd[Peer[n]]
    BY <1>1, <2>1, PeerFacts DEF TypeOK
  <2>3. QED
    BY <2>2, SendHidden DEF OfferedAt
<1>7. offered' = [offered EXCEPT ![m] = Tail(@)]
  BY <1>5, <1>6 DEF offered
<1>8. offered[m] # <<>> /\ Head(offered[m]) = b
  BY <1>3 DEF offered
<1>9. QED
  BY <1>1, <1>7, <1>8, OfferedMapping DEF Chan!Move

\* Nothing that the processes can see.
Hidden == offered' = offered /\ UNCHANGED <<outChan, inLen, rcvd>>

\* Then the channel stutters.
LEMMA HiddenStutters ==
  ASSUME Hidden PROVE UNCHANGED Chan!vars
  BY OfferedMapping DEF Hidden, Chan!vars

\* The bytes stay where they are, or the first half has sent one.
LEMMA OfferedKept ==
  ASSUME IInv, NEW k \in End, SendHalf(k) \/ UNCHANGED <<sent, outMsg>>, UNCHANGED rcvd
  PROVE  offered' = offered
<1>1. ASSUME NEW n \in End PROVE OfferedAt(n)' = OfferedAt(n)
  BY SendHidden DEF OfferedAt
<1>2. QED
  BY <1>1 DEF offered

\* An ACK releases the process whose last byte it acknowledges, or nobody.
LEMMA AckShows ==
  ASSUME IInv, IInv', NobodyStranded', [Next]_vars, NEW k \in End,
         SendHalf(k) \/ UNCHANGED <<sent, outMsg>>,
         UNCHANGED <<inLen, rcvd>>,
         NEW done \in BOOLEAN, outChan' = [outChan EXCEPT ![k] = @ /\ ~done]
  PROVE  Chan!Release(k) \/ Hidden
<1>1. offered' = offered
  BY OfferedKept
<1>2. outChan \in [End -> BOOLEAN]
  BY DEF IInv, TypeOK
<1>3. CASE outChan[k] /\ done
  <2>1. outChan' = [outChan EXCEPT ![k] = FALSE] /\ outChan[k] /\ ~outChan'[k]
    BY <1>2, <1>3
  <2>2. outMsg'[k] = <<>> /\ sent'[k] = rcvd'[Peer[k]]
    BY <2>1, RendezvousStep
  <2>3. OfferedAt(k)' = <<>>
    <3>1. sent'[k] \in Seq(Byte)
      BY DEF IInv, TypeOK
    <3>2. QED
      BY <2>2, <3>1, OfferedIdle, EmptySeq DEF OfferedAt
  <2>4. offered[k] = <<>>
    BY <1>1, <2>3 DEF offered
  <2>5. QED
    BY <1>1, <2>1, <2>4, OfferedMapping DEF Chan!Release
<1>4. CASE ~(outChan[k] /\ done)
  <2>1. outChan' = outChan
    BY <1>2, <1>4
  <2>2. QED
    BY <1>1, <2>1 DEF Hidden
<1>5. QED
  BY <1>3, <1>4

\* A process waits for an ACK only while its channel word holds it.
Owes == \A n \in End : ackWait[n] => outChan[n]

\* Initially no ACK is awaited, and every step keeps it so that a process
\* with a byte unacknowledged has not been released.
LEMMA OwesInit == Init => Owes
  BY DEF Init, Owes

\* The first half of linkloop() sends only for a process that is waiting.
LEMMA OwesSend ==
  ASSUME TypeOK, NobodyStranded, Owes, NEW k \in End, SendKept(k)
  PROVE  Owes'
<1> SUFFICES ASSUME NEW n \in End, ackWait'[n] PROVE outChan[n]
  BY DEF SendKept, Owes
<1>1. CASE n = k
  <2>1. ackWait[k] \/ outMsg[k] # <<>>
    BY <1>1 DEF SendKept, WaitAfter, MaySend, TypeOK
  <2>2. QED
    BY <1>1, <2>1 DEF Owes, NobodyStranded
<1>2. CASE n # k
  BY <1>2 DEF SendKept, TypeOK, Owes
<1>3. QED
  BY <1>1, <1>2

\* Every step keeps it so.
LEMMA OwesStep == TypeOK /\ NobodyStranded /\ Owes /\ [Next]_vars => Owes'
<1> SUFFICES ASSUME TypeOK, NobodyStranded, Owes, [Next]_vars PROVE Owes'
  OBVIOUS
<1>1. ASSUME NEW k \in End, SendKept(k) PROVE Owes'
  BY <1>1, OwesSend
<1>2. ASSUME NEW k \in End, Out(k) PROVE Owes'
  BY <1>2 DEF Out, Owes, TypeOK
<1>3. ASSUME NEW k \in End, In(k) \/ Shift(k) \/ AdapterHold(k) \/ AdapterTake(k)
      PROVE  Owes'
  BY <1>3 DEF In, Shift, AdapterHold, AdapterTake, outVars, Owes
<1>4. ASSUME NEW k \in End, FetchAck(k) \/ AdapterAck(k) PROVE Owes'
  <2>1. /\ ~ackWait'[k]
        /\ \A n \in End \ {k} : ackWait'[n] = ackWait[n] /\ outChan'[n] = outChan[n]
    BY <1>4 DEF FetchAck, AdapterAck, TypeOK
  <2>2. QED
    BY <2>1 DEF Owes
<1>5. CASE UNCHANGED vars
  BY <1>5 DEF vars, Owes
<1>6. QED
  BY <1>1, <1>2, <1>3, <1>4, <1>5
  DEF Next, LinkLoop, TakeStored, FetchWanted, FetchUnwanted, NothingFetched, Adapter, AdapterSend

\* A process starts to send, or to receive.
LEMMA ProcessShows ==
  ASSUME IInv, NobodyStranded, Owes, NEW k \in End, Out(k) \/ In(k)
  PROVE  Chan!Offer(k) \/ Chan!Want(k)
<1>1. TypeOK /\ DirAt(k) /\ (inChan[k] <=> inLen[k] > 0) /\ (ackWait[k] => outChan[k])
  BY DEF IInv, NobodyStranded, Owes
<1>2. CASE Out(k)
  <2>1. PICK msg \in Message : outMsg' = [outMsg EXCEPT ![k] = msg]
    BY <1>2 DEF Out
  <2>2. /\ msg \in Seq(Byte) /\ UNCHANGED <<sent, rcvd, inLen>>
        /\ ~outChan[k] /\ outChan' = [outChan EXCEPT ![k] = TRUE]
    BY <1>2, MessageIsSeq DEF Out, inVars
  <2>3. sent[k] = rcvd[Peer[k]] /\ sent[k] \in Seq(Byte)
    BY <1>1, <2>2 DEF DirAt, Direction, TypeOK
  <2>4. OfferedAt(k)' = msg
    <3>1. outMsg'[k] = msg
      BY <1>1, <2>1 DEF TypeOK
    <3>2. QED
      BY <2>2, <2>3, <3>1, OfferedIdle DEF OfferedAt
  <2>5. \A n \in End \ {k} : OfferedAt(n)' = OfferedAt(n)
    BY <1>1, <2>1, <2>2 DEF OfferedAt, TypeOK
  <2>6. offered' = [offered EXCEPT ![k] = msg]
    BY <2>4, <2>5 DEF offered
  <2>7. QED
    BY <2>2, <2>6, OfferedMapping DEF Chan!Offer
<1>3. CASE In(k)
  <2>1. UNCHANGED <<outMsg, outChan, sent, rcvd>> /\ ~inChan[k]
    BY <1>3 DEF In, outVars
  <2>2. offered' = offered
    BY <2>1 DEF offered, OfferedAt
  <2>3. inLen[k] = 0
    BY <1>1, <2>1 DEF TypeOK
  <2>4. QED
    BY <1>3, <2>1, <2>2, <2>3, OfferedMapping DEF In, Chan!Want
<1>4. QED
  BY <1>2, <1>3

\* What a call of linkloop() does is what a channel does, or does not show.
LEMMA LinkLoopShows ==
  ASSUME IInv, IInv', NobodyStranded', [Next]_vars, NEW k \in End, LinkLoop(k)
  PROVE  Chan!Move(Peer[k]) \/ Chan!Release(k) \/ Hidden
<1> DEFINE m == Peer[k]
<1>1. m \in End /\ TypeOK /\ SendHalf(k)
  BY PeerFacts DEF IInv, LinkLoop
<1>2. /\ rx[k] \in Seq(Packet) /\ OneEach(rx[k])
      /\ Direction(tx[m], rx[k], stored[k], tx[k], rx[m], ackWait[m], sent[m], rcvd[k])
  BY <1>1, BothDirections
<1> HIDE DEF m
<1>3. CASE TakeStored(k)
  <2>1. stored[k] \in Byte /\ sent[m] = Append(rcvd[k], stored[k])
    BY <1>1, <1>2, <1>3 DEF TakeStored, TypeOK, Direction
  <2>2. QED
    BY <1>1, <1>3, <2>1, DeliverShows DEF TakeStored, Deliver, SendKept, m
<1>4. CASE FetchWanted(k)
  <2>1. rx[k] # <<>> /\ Head(rx[k]) # Ack
    BY <1>4 DEF FetchWanted, MayFetch
  <2>2. Head(rx[k]) \in Byte
    BY <1>2, <2>1, HeadTailProperties DEF Packet
  <2>3. sent[m] = Append(rcvd[k], Head(rx[k]))
    BY <1>2, <2>1, TailFifo DEF Direction
  <2>4. QED
    BY <1>1, <1>4, <2>2, <2>3, DeliverShows DEF FetchWanted, Deliver, SendKept, m
<1>5. CASE FetchAck(k)
  <2>1. DoneAfter(k) \in BOOLEAN
    BY <1>1 DEF DoneAfter, TypeOK
  <2>2. QED
    BY <1>1, <1>5, <2>1, AckShows DEF FetchAck, inVars
<1>6. CASE FetchUnwanted(k) \/ NothingFetched(k)
  <2>1. UNCHANGED <<outChan, inLen, rcvd>>
    BY <1>6 DEF FetchUnwanted, NothingFetched, SendKept, inVars
  <2>2. QED
    BY <1>1, <2>1, OfferedKept DEF Hidden
<1>7. QED
  BY <1>3, <1>4, <1>5, <1>6 DEF LinkLoop, m

\* So is what a link adapter does.
LEMMA AdapterShows ==
  ASSUME IInv, IInv', NobodyStranded', [Next]_vars, NEW k \in End, Adapter(k)
  PROVE  Chan!Move(Peer[k]) \/ Chan!Release(k) \/ Hidden
<1> DEFINE m == Peer[k]
<1>1. m \in End /\ TypeOK
  BY PeerFacts DEF IInv
<1>2. Direction(tx[m], rx[k], stored[k], tx[k], rx[m], ackWait[m], sent[m], rcvd[k])
  BY <1>1, BothDirections
<1> HIDE DEF m
<1>3. CASE AdapterTake(k)
  <2>1. stored[k] \in Byte /\ sent[m] = Append(rcvd[k], stored[k])
    BY <1>1, <1>2, <1>3 DEF AdapterTake, TypeOK, Direction
  <2>2. QED
    BY <1>1, <1>3, <2>1, DeliverShows DEF AdapterTake, outVars, m
<1>4. CASE AdapterAck(k)
  <2>1. doneOnAck[k] \in BOOLEAN
    BY <1>1 DEF TypeOK
  <2>2. QED
    BY <1>1, <1>4, <2>1, AckShows DEF AdapterAck, inVars
<1>5. CASE AdapterSend(k) \/ AdapterHold(k)
  <2>1. /\ UNCHANGED <<outChan, inLen, rcvd>>
        /\ SendHalf(k) \/ UNCHANGED <<sent, outMsg>>
    BY <1>5 DEF AdapterSend, AdapterHold, SendKept, inVars, outVars
  <2>2. QED
    BY <1>1, <2>1, OfferedKept DEF Hidden
<1>6. QED
  BY <1>3, <1>4, <1>5 DEF Adapter, m

\* A shift of the wire does not show, nor does a step that does nothing.
LEMMA ShiftHidden ==
  ASSUME UNCHANGED vars \/ \E k \in End : Shift(k)
  PROVE  Hidden
<1>1. UNCHANGED <<outMsg, sent, rcvd, outChan, inLen>>
  BY DEF Shift, outVars, inVars, vars
<1>2. QED
  BY <1>1 DEF Hidden, offered, OfferedAt

\* Every step of a link is a step of the channel or does not show.
LEMMA ChannelStep ==
  IInv /\ IInv' /\ NobodyStranded /\ NobodyStranded' /\ Owes /\ [Next]_vars
    => [Chan!Next]_Chan!vars
<1> SUFFICES ASSUME IInv, IInv', NobodyStranded, NobodyStranded', Owes, [Next]_vars
             PROVE  Chan!Next \/ UNCHANGED Chan!vars
  OBVIOUS
<1>1. ASSUME NEW k \in End, Out(k) \/ In(k)
      PROVE  Chan!Next
  BY <1>1, ProcessShows DEF Chan!Next
<1>2. ASSUME NEW k \in End, LinkLoop(k) \/ Adapter(k)
      PROVE  Chan!Next \/ Hidden
  BY <1>2, LinkLoopShows, AdapterShows, PeerFacts DEF Chan!Next
<1>3. ASSUME NEW k \in End, Shift(k)
      PROVE  Hidden
  BY <1>3, ShiftHidden
<1>4. CASE UNCHANGED vars
  BY <1>4, ShiftHidden, HiddenStutters
<1>5. QED
  BY <1>1, <1>2, <1>3, <1>4, HiddenStutters DEF Next

\* A link with nothing under way is a channel with nothing offered.
LEMMA ChannelInit == Init => Chan!Init
<1> SUFFICES ASSUME Init PROVE Chan!Init
  OBVIOUS
<1>1. ASSUME NEW n \in End PROVE OfferedAt(n) = <<>>
  <2>1. sent[n] = <<>> /\ rcvd[Peer[n]] = <<>> /\ outMsg[n] = <<>>
    BY PeerFacts DEF Init
  <2>2. QED
    BY <2>1, OfferedIdle, EmptySeq DEF OfferedAt
<1>2. offered = [n \in End |-> <<>>]
  BY <1>1 DEF offered
<1>3. QED
  BY <1>2, OfferedMapping DEF Chan!Init, Init

\* The link implements the channel: whatever the ends, the bytes, the lengths
\* of the messages and the depth of the FIFOs, every behaviour of linkloop(),
\* the wires and the adapters is, seen from the processes, one of ByteChannel.
THEOREM LinkIsChannel == Spec => ImplementsChannel
<1>1. Spec => []Owes
  BY OwesInit, OwesStep, TypeCorrect, NobodyIsStranded, PTL DEF Spec
<1>2. QED
  BY <1>1, ChannelInit, ChannelStep, Invariance, NobodyIsStranded, PTL
  DEF Spec, Chan!Spec, ImplementsChannel
=============================================================================
