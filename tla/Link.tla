-------------------------------- MODULE Link --------------------------------
(***************************************************************************)
(* Links between picoputers and INMOS C011 link adapters: linkloop() of    *)
(* server.c and the link cases of the in and out instructions at one end   *)
(* of a link, the adapter chip at the other, the PIO state machines and    *)
(* their FIFOs between them.                                               *)
(*                                                                         *)
(* A packet is a data byte or an ACK.  The words that stand for them on    *)
(* the wire are the subject of module LinkWire: a C011 and a picoputer     *)
(* understand each other's packets, which is why an end of kind Pico is    *)
(* wired here to an end that is not one.                                   *)
(***************************************************************************)
EXTENDS Naturals, Sequences

CONSTANTS
  End,         \* the ends of the links
  Pico,        \* the ends served by linkloop(); the others are C011 chips
  Sequential,  \* picoputer ends where one process does both in and out
  Peer,        \* the end wired to an end
  Byte,        \* data bytes
  Ack,         \* LINK_BYTE_ACK
  NoByte,      \* LinkIn.have_stored is false
  MaxLen,      \* bound: length of a message
  MaxBytes,    \* bound: bytes each end sends in a behaviour
  FifoDepth    \* words a PIO FIFO holds

ASSUME EndAssumption ==
  /\ Pico \subseteq End
  /\ Sequential \subseteq Pico
  /\ Peer \in [End -> End]
  /\ \A n \in End : Peer[n] # n /\ Peer[Peer[n]] = n
  /\ \A n \in Pico : Peer[n] \notin Pico
ASSUME ByteAssumption == Ack \notin Byte /\ NoByte \notin Byte
ASSUME BoundAssumption ==
  /\ MaxLen \in Nat \ {0}
  /\ MaxBytes \in [End -> Nat]
  /\ FifoDepth \in Nat /\ FifoDepth >= 4

VARIABLES
  tx,          \* tx[n]: packets in n's transmit FIFO and on the wire
  rx,          \* rx[n]: packets in n's receive FIFO
  outMsg,      \* LinkOut.source, LinkOut.length: bytes still to be sent
  ackWait,     \* LinkOut.ack_wait
  doneOnAck,   \* LinkOut.done_on_ack
  outChan,     \* the LinkOut channel word holds a process
  inLen,       \* LinkIn.length
  inChan,      \* the LinkIn channel word holds a process
  stored,      \* LinkIn.have_stored and LinkIn.stored_byte
  sent,        \* history: data bytes n has put on the wire
  rcvd         \* history: data bytes n's process has been given

wireVars == <<tx, rx>>
outVars  == <<outMsg, ackWait, doneOnAck, outChan>>
inVars   == <<inLen, inChan, stored>>
vars     == <<tx, rx, outMsg, ackWait, doneOnAck, outChan,
              inLen, inChan, stored, sent, rcvd>>

Packet  == Byte \cup {Ack}
Message == UNION {[1..k -> Byte] : k \in 1..MaxLen}

\* server_init(): no transfer in progress, nothing stored.
Init ==
  /\ tx        = [n \in End |-> <<>>]
  /\ rx        = [n \in End |-> <<>>]
  /\ outMsg    = [n \in End |-> <<>>]
  /\ ackWait   = [n \in End |-> FALSE]
  /\ doneOnAck = [n \in End |-> FALSE]
  /\ outChan   = [n \in End |-> FALSE]
  /\ inLen     = [n \in End |-> 0]
  /\ inChan    = [n \in End |-> FALSE]
  /\ stored    = [n \in End |-> NoByte]
  /\ sent      = [n \in End |-> <<>>]
  /\ rcvd      = [n \in End |-> <<>>]

-----------------------------------------------------------------------------
(* The processes                                                           *)

\* A process executes out on the link: it leaves its descriptor in the
\* channel word, sets LinkOut.source and LinkOut.length, and is descheduled.
Out(n) ==
  /\ ~outChan[n]
  /\ n \in Sequential => ~inChan[n]
  /\ \E m \in Message :
       /\ Len(sent[n]) + Len(m) <= MaxBytes[n]
       /\ outMsg' = [outMsg EXCEPT ![n] = m]
  /\ outChan' = [outChan EXCEPT ![n] = TRUE]
  /\ UNCHANGED <<wireVars, ackWait, doneOnAck, inVars, sent, rcvd>>

\* A process executes in on the link.
In(n) ==
  /\ ~inChan[n]
  /\ n \in Sequential => ~outChan[n]
  /\ \E k \in 1..MaxLen : inLen' = [inLen EXCEPT ![n] = k]
  /\ inChan' = [inChan EXCEPT ![n] = TRUE]
  /\ UNCHANGED <<wireVars, outVars, stored, sent, rcvd>>

-----------------------------------------------------------------------------
(* linkloop()                                                              *)

\* Definitions named X_Fault are plausible bugs in X: nothing uses them, and
\* each is put in X's place to show that a property depends on X.

MaySend_NoWait(n) == outMsg[n] # <<>> /\ Len(tx[n]) < FifoDepth

\* The first half has a byte to send, and may send it.
MaySend(n) ==
  /\ outMsg[n] # <<>>
  /\ ~ackWait[n]
  /\ Len(tx[n]) < FifoDepth

\* The values the first half leaves behind.
TxAfter(n)   == IF MaySend(n) THEN Append(tx[n], Head(outMsg[n])) ELSE tx[n]
DoneAfter_FirstByte(n) == doneOnAck[n] \/ MaySend(n)
WaitAfter(n) == ackWait[n] \/ MaySend(n)
DoneAfter(n) == doneOnAck[n] \/ (MaySend(n) /\ Len(outMsg[n]) = 1)

SendHalf(n) ==
  /\ outMsg' = IF MaySend(n) THEN [outMsg EXCEPT ![n] = Tail(@)] ELSE outMsg
  /\ sent'   = IF MaySend(n) THEN [sent EXCEPT ![n] = Append(@, Head(outMsg[n]))]
                             ELSE sent

\* The second half leaves the sending side as the first half made it.
SendKept(n) ==
  /\ ackWait'   = [ackWait EXCEPT ![n] = WaitAfter(n)]
  /\ doneOnAck' = [doneOnAck EXCEPT ![n] = DoneAfter(n)]
  /\ UNCHANGED outChan

Deliver_NoAck(n, b) ==
  /\ rcvd'   = [rcvd EXCEPT ![n] = Append(@, b)]
  /\ inLen'  = [inLen EXCEPT ![n] = @ - 1]
  /\ inChan' = [inChan EXCEPT ![n] = inLen[n] # 1]
  /\ tx'     = [tx EXCEPT ![n] = TxAfter(n)]

\* A byte is written to the process's buffer and acknowledged; the last one
\* wanted schedules the process.  The put of the ACK blocks on a full FIFO.
Deliver(n, b) ==
  /\ Len(TxAfter(n)) < FifoDepth
  /\ rcvd'   = [rcvd EXCEPT ![n] = Append(@, b)]
  /\ inLen'  = [inLen EXCEPT ![n] = @ - 1]
  /\ inChan' = [inChan EXCEPT ![n] = inLen[n] # 1]
  /\ tx'     = [tx EXCEPT ![n] = Append(TxAfter(n), Ack)]

TakeStored_Unwanted(n) ==
  /\ stored[n] # NoByte
  /\ Deliver(n, stored[n])
  /\ stored' = [stored EXCEPT ![n] = NoByte]
  /\ SendKept(n)
  /\ UNCHANGED rx

\* A byte stored earlier is wanted now; linkloop() returns after it.
TakeStored(n) ==
  /\ inLen[n] > 0
  /\ stored[n] # NoByte
  /\ Deliver(n, stored[n])
  /\ stored' = [stored EXCEPT ![n] = NoByte]
  /\ SendKept(n)
  /\ UNCHANGED rx

\* Packets are fetched only while no byte is stored.
MayFetch(n) == stored[n] = NoByte /\ rx[n] # <<>>

Fetched(n) == rx' = [rx EXCEPT ![n] = Tail(@)]

FetchAck(n) ==
  /\ MayFetch(n)
  /\ Head(rx[n]) = Ack
  /\ Fetched(n)
  /\ ackWait'   = [ackWait EXCEPT ![n] = FALSE]
  /\ doneOnAck' = [doneOnAck EXCEPT ![n] = FALSE]
  /\ outChan'   = [outChan EXCEPT ![n] = @ /\ ~DoneAfter(n)]
  /\ tx'        = [tx EXCEPT ![n] = TxAfter(n)]
  /\ UNCHANGED <<inVars, rcvd>>

FetchWanted(n) ==
  /\ MayFetch(n)
  /\ Head(rx[n]) # Ack
  /\ inLen[n] > 0
  /\ Deliver(n, Head(rx[n]))
  /\ Fetched(n)
  /\ SendKept(n)
  /\ UNCHANGED stored

FetchUnwanted_Ack(n) ==
  /\ MayFetch(n)
  /\ Head(rx[n]) # Ack
  /\ inLen[n] = 0
  /\ stored' = [stored EXCEPT ![n] = Head(rx[n])]
  /\ tx'     = [tx EXCEPT ![n] = Append(TxAfter(n), Ack)]
  /\ Fetched(n)
  /\ SendKept(n)
  /\ UNCHANGED <<inLen, inChan, rcvd>>

FetchUnwanted(n) ==
  /\ MayFetch(n)
  /\ Head(rx[n]) # Ack
  /\ inLen[n] = 0
  /\ stored' = [stored EXCEPT ![n] = Head(rx[n])]
  /\ tx'     = [tx EXCEPT ![n] = TxAfter(n)]
  /\ Fetched(n)
  /\ SendKept(n)
  /\ UNCHANGED <<inLen, inChan, rcvd>>

NothingFetched(n) ==
  /\ stored[n] # NoByte => inLen[n] = 0
  /\ ~MayFetch(n)
  /\ tx' = [tx EXCEPT ![n] = TxAfter(n)]
  /\ SendKept(n)
  /\ UNCHANGED <<rx, inVars, rcvd>>

LinkLoop(n) ==
  /\ n \in Pico
  /\ SendHalf(n)
  /\ \/ TakeStored(n)
     \/ FetchAck(n)
     \/ FetchWanted(n)
     \/ FetchUnwanted(n)
     \/ NothingFetched(n)

-----------------------------------------------------------------------------
(* The PIO state machines: a word leaves n's transmit FIFO, is shifted     *)
(* over the wire and pushed into the peer's receive FIFO.                  *)

Shift(n) ==
  /\ tx[n] # <<>>
  /\ Len(rx[Peer[n]]) < FifoDepth
  /\ rx' = [rx EXCEPT ![Peer[n]] = Append(@, Head(tx[n]))]
  /\ tx' = [tx EXCEPT ![n] = Tail(@)]
  /\ UNCHANGED <<outVars, inVars, sent, rcvd>>

-----------------------------------------------------------------------------
(* The C011 at the other end: it sends the byte on its I pins when nothing *)
(* is unacknowledged, takes ACKs whether or not it holds a byte, and       *)
(* acknowledges the byte on its Q pins when its user takes it.             *)

AdapterSend(n) ==
  /\ MaySend(n)
  /\ tx' = [tx EXCEPT ![n] = TxAfter(n)]
  /\ SendHalf(n)
  /\ SendKept(n)
  /\ UNCHANGED <<rx, inVars, rcvd>>

AdapterAck(n) ==
  /\ rx[n] # <<>> /\ Head(rx[n]) = Ack
  /\ Fetched(n)
  /\ ackWait'   = [ackWait EXCEPT ![n] = FALSE]
  /\ doneOnAck' = [doneOnAck EXCEPT ![n] = FALSE]
  /\ outChan'   = [outChan EXCEPT ![n] = @ /\ ~doneOnAck[n]]
  /\ UNCHANGED <<tx, outMsg, inVars, sent, rcvd>>

AdapterHold(n) ==
  /\ rx[n] # <<>> /\ Head(rx[n]) # Ack
  /\ stored[n] = NoByte
  /\ Fetched(n)
  /\ stored' = [stored EXCEPT ![n] = Head(rx[n])]
  /\ UNCHANGED <<tx, outVars, inLen, inChan, sent, rcvd>>

AdapterTake(n) ==
  /\ stored[n] # NoByte
  /\ inLen[n] > 0
  /\ rcvd'   = [rcvd EXCEPT ![n] = Append(@, stored[n])]
  /\ inLen'  = [inLen EXCEPT ![n] = @ - 1]
  /\ inChan' = [inChan EXCEPT ![n] = inLen[n] # 1]
  /\ tx'     = [tx EXCEPT ![n] = Append(@, Ack)]
  /\ stored' = [stored EXCEPT ![n] = NoByte]
  /\ UNCHANGED <<rx, outVars, sent>>

Adapter(n) ==
  /\ n \in End \ Pico
  /\ AdapterSend(n) \/ AdapterAck(n) \/ AdapterHold(n) \/ AdapterTake(n)

Next == \E n \in End : Out(n) \/ In(n) \/ LinkLoop(n) \/ Shift(n) \/ Adapter(n)

Spec == Init /\ [][Next]_vars

\* linkloop() is called from the idle loop and from every j and lend, the
\* wire and the chip run by themselves, and receivers keep receiving.
Fairness ==
  /\ \A n \in Pico : WF_vars(LinkLoop(n))
  /\ \A n \in End : WF_vars(Shift(n)) /\ WF_vars(In(n))
  /\ \A n \in End \ Pico : WF_vars(Adapter(n))

FairSpec == Spec /\ Fairness

-----------------------------------------------------------------------------
(* Properties                                                              *)

HasData(q) == \E i \in 1..Len(q) : q[i] # Ack
HasAck(q)  == \E i \in 1..Len(q) : q[i] = Ack

\* Where the byte n sent last, or the ACK for it, can be.
Place(n) == LET m == Peer[n] IN
  [wire |-> HasData(tx[n]), fifo |-> HasData(rx[m]), held |-> stored[m] # NoByte,
   ackWire |-> HasAck(tx[m]), ackFifo |-> HasAck(rx[n])]

\* The byte n sent last has not been given to the receiving process yet.
Untaken(n) == Place(n).wire \/ Place(n).fifo \/ Place(n).held

\* Every variable of a link end keeps its type: the FIFOs hold packets, the
\* stored byte and the histories are data.
TypeOK ==
  /\ tx \in [End -> Seq(Packet)] /\ rx \in [End -> Seq(Packet)]
  /\ outMsg \in [End -> Seq(Byte)]
  /\ ackWait \in [End -> BOOLEAN] /\ doneOnAck \in [End -> BOOLEAN]
  /\ outChan \in [End -> BOOLEAN] /\ inChan \in [End -> BOOLEAN]
  /\ inLen \in [End -> Nat]
  /\ stored \in [End -> Byte \cup {NoByte}]
  /\ sent \in [End -> Seq(Byte)] /\ rcvd \in [End -> Seq(Byte)]

\* Stop and wait: ack_wait is set exactly while one packet of the exchange,
\* the byte or its ACK, is somewhere between the two ends, and there is never
\* a second one.  So no ACK ever finds ack_wait clear (the empty else branch
\* of linkloop) and a byte stored early is never overwritten.
StopAndWait ==
  \A n \in End :
    /\ ackWait[n] <=> \E k \in DOMAIN Place(n) : Place(n)[k]
    /\ \A j, k \in DOMAIN Place(n) : Place(n)[j] /\ Place(n)[k] => j = k

\* A FIFO never holds more than one byte and one ACK, so the blocking puts of
\* linkloop() never block the emulator and no arriving word is ever stalled.
FifosNeverFill == \A n \in End : Len(tx[n]) <= 2 /\ Len(rx[n]) <= 2

\* The receiving process has been given every byte sent, in order and once,
\* except that the last one may still be on its way.
InOrder ==
  \A n \in End :
    \/ sent[n] = rcvd[Peer[n]]
    \/ /\ Untaken(n)
       /\ \E b \in Byte : sent[n] = Append(rcvd[Peer[n]], b)

\* A channel word holds a process exactly while a transfer for it is under
\* way: linkloop() neither forgets a process it should schedule nor
\* schedules one twice.
NobodyStranded ==
  \A n \in End :
    /\ outChan[n] <=> (outMsg[n] # <<>> \/ doneOnAck[n])
    /\ inChan[n] <=> inLen[n] > 0
    /\ doneOnAck[n] => ackWait[n] /\ outMsg[n] = <<>>

\* A process that sends goes on only when all of its message has been given
\* to the process at the other end: the link keeps the rendezvous of occam.
Rendezvous ==
  [][\A n \in End : outChan[n] /\ ~outChan'[n] =>
       /\ outMsg[n] = <<>> \/ ackWait[n]
       /\ outMsg'[n] = <<>>
       /\ sent'[n] = rcvd'[Peer[n]]]_vars

\* Seen from its processes a link is a channel: no packet, FIFO, ACK or
\* stored byte shows.
Chan == INSTANCE ByteChannel WITH
  offered <- [n \in End |->
                SubSeq(sent[n], Len(rcvd[Peer[n]]) + 1, Len(sent[n])) \o outMsg[n]],
  sending <- outChan, wanted <- inLen, taken <- rcvd,
  Length <- 1..MaxLen

ImplementsChannel == Chan!Spec

\* A process that sends on a link whose other end keeps receiving goes on.
OutCompletes == \A n \in End : outChan[n] ~> ~outChan[n]

\* An ACK that has arrived is processed, whether or not the end is waiting
\* for data (linkloop's comment says it has to be).
AcksProcessed == \A n \in Pico : HasAck(rx[n]) ~> ~HasAck(rx[n])
=============================================================================
