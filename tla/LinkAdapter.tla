---------------------------- MODULE LinkAdapter ----------------------------
(***************************************************************************)
(* The link adapter: loop() of ard-link-monitor.ino on an Arduino Mega,    *)
(* and the pins between it and the IMS C011 (external).  The C011 turns    *)
(* the link into two byte ports with a handshake each: IValid/IAck towards *)
(* the picoputer, QValid/QAck from it.                                     *)
(*                                                                         *)
(* A pass of loop() reads the packets that have arrived (ReadSerial), then *)
(* looks at IAck (LookAtIAck) and after that at QValid (LookAtQValid), and *)
(* when QValid is high waits in a loop of its own for it to fall           *)
(* (QValidFell).  Each digitalRead() is a step: the link may carry several *)
(* bytes between two of them.                                              *)
(***************************************************************************)
EXTENDS Cables

VARIABLES
  ard,      \* where loop() is: "serial", "iack", "qvalid" or "wait"
  iData,    \* the I pins
  iValid, iAck,
  iBusy,    \* the C011 has sent the byte on and not seen its ACK
  qData,    \* the Q pins, as the C011 drives them
  qValid, qAck,
  qval      \* the number loop() has latched

pins == <<iData, iValid, iAck, iBusy, qData, qValid, qAck, qval>>
adapterVars == <<ard, pins>>

AdapterInit ==
  /\ ard = "serial"
  /\ iData = 0 /\ iValid = FALSE /\ iAck = FALSE /\ iBusy = FALSE
  /\ qData = 0 /\ qValid = FALSE /\ qAck = FALSE
  /\ qval = 0

-----------------------------------------------------------------------------
(* The Arduino.                                                            *)

\* Only a line with '&' in its fourth place is a data packet: a number of
\* more than two digits is read and forgotten.
Shown(packet) == IsData(packet) /\ packet[1] \in 0..255

\* QAck stays high until an ACK comes in from the server.
QAckAfter_Never(n) == qAck
QAckAfter(n) == qAck /\ \A i \in 1..n : IsData(toAdapter[i])

\* Every packet that has arrived is handled, so of several bytes the last
\* one stays on the I pins.
ReadSerial ==
  /\ ard = "serial"
  /\ \E n \in 0..Len(toAdapter) :
       LET shown == {i \in 1..n : Shown(toAdapter[i])}
           last  == CHOOSE i \in shown : \A j \in shown : j <= i
       IN /\ toAdapter' = SubSeq(toAdapter, n + 1, Len(toAdapter))
          /\ qAck' = QAckAfter(n)
          /\ iData' = IF shown = {} THEN iData ELSE toAdapter[last][1]
          /\ iValid' = (iValid \/ shown # {})
  /\ ard' = "iack"
  /\ UNCHANGED <<toHost, down, up, iAck, iBusy, qData, qValid, qval>>

\* IAck is looked at as a level: every pass that finds it high passes it on.
\* The C011 lowers IAck when IValid falls, long before the next pass.
PassIAckOn == IF iAck THEN Append(toHost, Ack) ELSE toHost
IValidAfter == iValid /\ ~iAck

LookAtIAck ==
  /\ ard = "iack"
  /\ toHost' = PassIAckOn
  /\ iValid' = IValidAfter
  /\ iAck' = (iAck /\ iValid')
  /\ ard' = "qvalid"
  /\ UNCHANGED <<toAdapter, down, up, iData, iBusy, qData, qValid, qAck, qval>>

\* The byte on the Q pins is latched and taken; nobody has asked the host.
LookAtQValid ==
  /\ ard = "qvalid"
  /\ IF qValid
       THEN qval' = qData /\ qAck' = TRUE /\ ard' = "wait"
       ELSE ard' = "serial" /\ UNCHANGED <<qval, qAck>>
  /\ UNCHANGED <<cables, iData, iValid, iAck, iBusy, qData, qValid>>

\* The byte is sent on, and QAck stays high.
QValidFell ==
  /\ ard = "wait"
  /\ ~qValid
  /\ toHost' = Append(toHost, Number(qval))
  /\ ard' = "serial"
  /\ UNCHANGED <<toAdapter, down, up, pins>>

Arduino == ReadSerial \/ LookAtIAck \/ LookAtQValid \/ QValidFell

-----------------------------------------------------------------------------
(* The C011 (external).                                                    *)

ChipSend ==
  /\ iValid /\ ~iAck /\ ~iBusy /\ down = NoByte
  /\ down' = iData
  /\ iBusy' = TRUE
  /\ UNCHANGED <<toAdapter, toHost, up, ard, iData, iValid, iAck, qData,
                 qValid, qAck, qval>>

ChipAcked ==
  /\ iBusy /\ down = NoByte
  /\ iAck' = TRUE
  /\ iBusy' = FALSE
  /\ UNCHANGED <<cables, ard, iData, iValid, qData, qValid, qAck, qval>>

\* A byte is offered once QAck is low again; the ACK of an earlier byte comes
\* in on the same wire before it.
ChipPresents ==
  /\ up # NoByte /\ ~qValid /\ ~qAck
  /\ ~(iBusy /\ down = NoByte)
  /\ qData' = up
  /\ qValid' = TRUE
  /\ UNCHANGED <<cables, ard, iData, iValid, iAck, iBusy, qAck, qval>>

\* It is acknowledged on the link when QAck rises.
ChipTaken ==
  /\ qValid /\ qAck
  /\ qValid' = FALSE
  /\ up' = NoByte
  /\ UNCHANGED <<toAdapter, toHost, down, ard, iData, iValid, iAck, iBusy,
                 qData, qAck, qval>>

Chip == ChipSend \/ ChipAcked \/ ChipPresents \/ ChipTaken
=============================================================================
