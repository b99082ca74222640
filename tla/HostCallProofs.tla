--------------------------- MODULE HostCallProofs ---------------------------
(***************************************************************************)
(* What travels over the chain of host, link adapter and picoputer: a call *)
(* of the program is one call, whatever the calls and the answers.         *)
(***************************************************************************)
EXTENDS HostSystemProofs, SpProofs

-----------------------------------------------------------------------------
(* The invariant of the calls.                                             *)

\* The boot file ends where the program expects it to, and a READ is never
\* followed by another call.
Matched ==
  /\ BootFile # <<>> => Len(BootFile) = 1 + BootFile[1] + RestLength
  /\ \A c \in Call : c.tag # READ

CallTypes ==
  /\ SpTypes /\ StreamsGiven
  /\ request \in Seq(0..255) /\ reply \in Seq(0..255) /\ answer \in Seq(Int)
  /\ sent \in Nat /\ sent <= Len(request) /\ frame \in Seq(0..255)
  /\ calls \in Nat /\ calls <= MaxCalls

\* How far the call has come: the host has read a part of the request, or all
\* of it and has served it; the program has a part of the answer.
Exchange ==
  /\ dropped \in BOOLEAN
  /\ served \in {calls, calls + 1}
  /\ ~InCall => served = calls
  /\ ~Called => frame = <<>>
  /\ InCall => /\ WellFormed(request) /\ calls < MaxCalls
               /\ request[3] = READ => calls = MaxCalls - 1
  /\ prog = "waiting" => sent = Len(request)
  /\ Called => /\ Len(frame) < Len(request)
               /\ frame = SubSeq(request, 1, Len(frame))
               /\ prog = "waiting" => reply = <<>>
  /\ Served => /\ sent = Len(request)
               /\ Fits(request, answer)
               /\ prog = "waiting" => /\ Len(reply) <= Len(answer)
                                      /\ reply = SubSeq(answer, 1, Len(reply))

\* The host has thrown away the first byte of the request, which loop() holds
\* QAck for: no byte follows, and no ACK.
Lost ==
  /\ Called /\ prog = "asking" /\ frame = <<>>
  /\ qAck /\ ~qValid /\ ard # "wait"
  /\ ~HasNumber(toHost) /\ ~HasAck(toAdapter)

\* It throws away no other byte: after the first one that it reads it waits
\* for no ACK, as it sends nothing before the request is whole.
Loss ==
  /\ dropped => Lost
  /\ Called /\ frame # <<>> => ~awaiting

CallInv ==
  /\ CallTypes
  /\ Exchange
  /\ Loss
  /\ ~Booting => DownStream(Sends, Got)
  /\ UpStream(HostRead)

\* What the call depends on besides the cables.
callState == <<prog, request, sent, reply, opened, calls, spVars, frame, served, dropped>>

\* A step that only moves bytes along keeps it if it keeps the streams.
LEMMA CallKept ==
  ASSUME CallInv, UNCHANGED callState,
         NEW e, e = Sends, NEW c, c = Got, NEW n, n = HostRead,
         ~Booting => DownStream(e, c)', UpStream(n)', Loss'
  PROVE  CallInv'
<1>1. /\ UNCHANGED <<prog, request, sent, reply, opened, calls, hostUp, handles, files, answer,
                     frame, served, dropped>>
  BY DEF callState, spVars
<1>2. CallTypes'
  <2>1. SpTypes' /\ StreamsGiven'
    BY <1>1 DEF CallInv, CallTypes, SpTypes, StreamsGiven
  <2> QED BY <1>1, <2>1 DEF CallInv, CallTypes
<1>3. /\ (Booting <=> Booting') /\ (InCall <=> InCall') /\ (Called <=> Called')
      /\ (Served <=> Served')
  BY <1>1 DEF Booting, InCall, Called, Served
<1>4. Exchange'
  BY <1>1, <1>3 DEF CallInv, Exchange
<1>5. Sends' = e /\ Got' = c /\ HostRead' = n
  BY <1>1, <1>3 DEF Sends, Got, HostRead
<1>6. ~Booting' => DownStream(Sends, Got)'
  BY <1>3, <1>5 DEF DownStream
<1>7. UpStream(HostRead)'
  BY <1>5 DEF UpStream
<1> QED BY <1>2, <1>4, <1>6, <1>7 DEF CallInv

\* Outside a call nothing is lost.
LEMMA NothingLost ==
  ASSUME CallInv, ~Called
  PROVE  /\ ~dropped
         /\ dropped' = dropped /\ (~Called' \/ frame' = <<>>) => Loss'
BY DEF CallInv, Loss, Lost

\* A step that neither the host nor loop() takes part in.
LEMMA LossKept ==
  ASSUME CallInv,
         UNCHANGED <<prog, calls, served, frame, dropped, awaiting, ard, qAck, qValid, toHost,
                     toAdapter>>
  PROVE  Loss'
<1>1. Called' <=> Called
  BY DEF Called, InCall
<1> QED BY <1>1 DEF CallInv, Loss, Lost, HasNumber, HasAck

\* What the host has read of a request when a byte of it is lost, and how
\* much of it the program has sent.
LEMMA LostRead ==
  ASSUME CallInv, dropped
  PROVE  HostRead = 1 /\ sent = IF up = NoByte THEN 1 ELSE 2
<1>1. Lost /\ Len(<<>>) = 0 /\ sent \in Nat
  BY DEF CallInv, Loss, CallTypes
<1>2. HostRead = 1 /\ ~InFlight
  BY <1>1 DEF HostRead, Lost, InFlight
<1>3. PICK n : n = 1 /\ UpStream(n)
  BY <1>2 DEF CallInv, UpStream
<1>4. Passed = 1
  BY <1>2, <1>3 DEF UpStream
<1> QED BY <1>1, <1>2, <1>4 DEF Passed

\* The streams, with names for what is on them.
LEMMA CallStreams ==
  ASSUME CallInv
  PROVE  /\ HostRead \in Nat
         /\ \A e, c, n : e = Sends /\ c = Got /\ n = HostRead =>
              /\ e \in Seq(Int) /\ c \in Nat
              /\ ~Booting => DownStream(e, c)
              /\ UpStream(n)
<1>1. HostRead \in Nat
  <2>1. Len(frame) \in Nat /\ Len(frame) + 1 \in Nat /\ Len(frame) + 0 \in Nat
    BY LenProperties DEF CallInv, CallTypes
  <2> QED BY <2>1 DEF HostRead, CallInv, CallTypes
<1>2. ASSUME NEW e, e = Sends, NEW c, c = Got, NEW n, n = HostRead
      PROVE  /\ e \in Seq(Int) /\ c \in Nat
             /\ ~Booting => DownStream(e, c)
             /\ UpStream(n)
  <2>1. e \in Seq(Int)
    BY <1>2 DEF Sends, CallInv, CallTypes
  <2>2. c \in Nat
    BY <1>2, LenProperties DEF Got, CallInv, CallTypes
  <2>3. ~Booting => DownStream(e, c)
    BY <1>2 DEF CallInv, DownStream
  <2>4. UpStream(n)
    BY <1>2 DEF CallInv, UpStream
  <2> QED BY <2>1, <2>2, <2>3, <2>4
<1> QED BY <1>1, <1>2

\* The next answer begins when nothing is on its way.
LEMMA BeginsNext ==
  ASSUME NEW E \in Seq(Int), sending' = E, Taken'
  PROVE  DownStream(E, 0)'
<1>1. 0 \in 0..Len(E) /\ SubSeq(E, 0 + 1, Len(E)) = E
  BY SubSeqFull, LenProperties
<1> QED BY <1>1 DEF DownStream

\* All that was sent has been taken.
LEMMA EndsNext ==
  ASSUME NEW E \in Seq(Int), NEW c, c = Len(E), DownStream(E, c)'
  PROVE  DownStream(<<>>, 0)'
<1>1. PICK p \in 0..Len(E) : /\ sending' = SubSeq(E, p + 1, Len(E))
                             /\ ~Taken' => Len(E) = p - 1
                             /\ Taken' => Len(E) = p
  BY DEF DownStream
<1>2. Len(E) \in Nat
  BY LenProperties
<1>3. Taken' /\ p = Len(E)
  BY <1>1, <1>2
<1>4. sending' = <<>>
  BY <1>1, <1>2, <1>3, SubSeqEmpty
<1>5. <<>> \in Seq(Int)
  OBVIOUS
<1> QED BY <1>3, <1>4, <1>5, BeginsNext

\* send_byte(): the host sends only when it has read all there is.
LEMMA CallSendByte ==
  ASSUME IInv, CallInv, SendByte, UNCHANGED <<adapterVars, picoVars>>
  PROVE  CallInv'
<1>1. PICK e, c, n : e = Sends /\ c = Got /\ n = HostRead
  OBVIOUS
<1>2. /\ e \in Seq(Int) /\ n \in Nat
      /\ ~Booting => DownStream(e, c)
      /\ UpStream(n)
  BY <1>1, CallStreams
<1>3. ~Called
  <2> SUFFICES ASSUME Called PROVE FALSE
    OBVIOUS
  <2>1. e = <<>> /\ c = 0 /\ ~Booting
    BY <1>1 DEF Sends, Got, Called, InCall, Booting
  <2>2. c = Len(e)
    BY <2>1
  <2>3. DownStream(e, Len(e))
    BY <1>2, <2>1, <2>2
  <2>4. sending = <<>>
    BY <1>2, <2>3, DownEnds
  <2> QED BY <2>4 DEF SendByte
<1>4. n = sent
  BY <1>1, <1>3 DEF HostRead
<1>5. UpStream(n)'
  BY <1>2, <1>4, UpSendByte
<1>6. ~Booting => DownStream(e, c)'
  BY <1>2, DownSendByte
<1>7. UNCHANGED callState
  BY DEF callState, SendByte, spVars, picoVars, progVars
<1>8. Loss'
  <2>1. ~Called' /\ dropped' = dropped
    BY <1>3, <1>7 DEF callState, Called, InCall
  <2> QED BY <1>3, <2>1, NothingLost
<1> QED BY <1>1, <1>5, <1>6, <1>7, <1>8, CallKept

\* packet_loop(link, done_on_ack) reads the ACK it waits for.
LEMMA CallAcked ==
  ASSUME IInv, CallInv, DoneOnAck, ~IsData(Head(toHost)), UNCHANGED <<adapterVars, picoVars>>
  PROVE  CallInv'
<1>1. PICK e, c, n : e = Sends /\ c = Got /\ n = HostRead
  OBVIOUS
<1>2. /\ ~Booting => DownStream(e, c)
      /\ UpStream(n)
  BY <1>1, CallStreams
<1>3. UpStream(n)'
  BY <1>2, UpDoneOnAck
<1>4. ~Booting => DownStream(e, c)'
  BY <1>2, DownDoneOnAck
<1>5. dropped \in BOOLEAN
  BY DEF CallInv, Exchange
<1>6. /\ dropped' = (dropped \/ IsData(Head(toHost))) /\ awaiting' = IsData(Head(toHost))
      /\ toHost # <<>> /\ toHost' = Tail(toHost)
  BY DEF DoneOnAck
<1>7. dropped' = dropped
  BY <1>5, <1>6
<1>8. UNCHANGED <<prog, request, sent, reply, opened, calls, spVars, frame, served, toAdapter,
                  ard, qAck, qValid>>
  BY DEF DoneOnAck, picoVars, progVars, adapterVars, pins
<1>9. UNCHANGED callState
  BY <1>7, <1>8 DEF callState
<1>10. Loss'
  <2>1. HasNumber(toHost') <=> HasNumber(toHost)
    BY <1>6, ReadOne DEF IInv
  <2>2. Called' <=> Called
    BY <1>8 DEF Called, InCall
  <2> QED BY <1>6, <1>7, <1>8, <2>1, <2>2 DEF CallInv, Loss, Lost, HasAck
<1> QED BY <1>1, <1>3, <1>4, <1>9, <1>10, CallKept

\* It reads a number instead: the first byte of the request, whose program
\* then comes no further than the second.
LEMMA CallLoses ==
  ASSUME IInv, CallInv, DoneOnAck, IsData(Head(toHost)), UNCHANGED <<adapterVars, picoVars>>
  PROVE  CallInv'
<1>1. PICK e, c, n : e = Sends /\ c = Got /\ n = HostRead
  OBVIOUS
<1>2. /\ n \in Nat
      /\ ~Booting => DownStream(e, c)
      /\ UpStream(n)
  BY <1>1, CallStreams
<1>3. /\ awaiting /\ toHost # <<>> /\ toHost' = Tail(toHost)
      /\ dropped' = TRUE
      /\ UNCHANGED <<toAdapter, down, up, hostUp, handles, files, answer, frame, served>>
  BY DEF DoneOnAck, spVars
<1>4. UNCHANGED <<ard, qData, qValid, qAck, qval, prog, request, sent, reply, opened, calls>>
  BY DEF adapterVars, pins, picoVars, progVars
<1>5. HasNumber(toHost) /\ ~HasNumber(toHost')
  BY <1>3, ReadOne DEF IInv
<1>6. /\ qAck /\ ard # "wait" /\ ~HasAck(toAdapter) /\ ~qValid
  BY <1>5 DEF IInv, UpInv
<1>7. Called
  <2>1. n # sent
    BY <1>2, <1>5, UpIdle
  <2> QED BY <1>1, <2>1 DEF HostRead
<1>8. ~dropped /\ frame = <<>>
  BY <1>3, <1>5, <1>7 DEF CallInv, Loss, Lost
<1>9. n = 0
  <2>1. Len(<<>>) = 0
    OBVIOUS
  <2> QED BY <1>1, <1>7, <1>8, <2>1 DEF HostRead
<1>10. /\ sent \in Nat /\ WellFormed(request) /\ (prog = "waiting" => sent = Len(request))
       /\ prog \in {"asking", "waiting"} /\ ~Booting /\ served = calls
  BY <1>7 DEF CallInv, CallTypes, Exchange, Called, InCall, Booting
<1>11. PICK m : m = 1 /\ UpStream(m)'
  <2>1. UpStream(n + 1)'
    BY <1>2, <1>3, <1>4, <1>10, UpRead
  <2> QED BY <1>9, <2>1
<1>12. prog = "asking"
  <2>1. ~InFlight'
    BY <1>4, <1>5, <1>6 DEF InFlight
  <2>2. Passed' = 1
    BY <1>11, <2>1 DEF UpStream
  <2>3. Passed' = Passed
    BY <1>3, <1>4 DEF Passed
  <2>4. sent <= 2
    BY <1>10, <2>2, <2>3 DEF Passed
  <2>5. Len(request) > 2
    BY <1>10 DEF WellFormed, Framed
  <2> QED BY <1>10, <2>4, <2>5
<1>13. (InCall' <=> InCall) /\ Called' /\ ~Served' /\ ~Booting'
  BY <1>3, <1>4, <1>7, <1>10 DEF InCall, Called, Served, Booting
<1>14. CallTypes'
  <2>1. SpTypes' /\ StreamsGiven'
    BY <1>3, <1>4 DEF CallInv, CallTypes, SpTypes, StreamsGiven
  <2> QED BY <1>3, <1>4, <2>1 DEF CallInv, CallTypes
<1>15. Exchange'
  BY <1>3, <1>4, <1>7, <1>13 DEF CallInv, Exchange
<1>16. Loss'
  BY <1>3, <1>4, <1>5, <1>6, <1>8, <1>12, <1>13 DEF Loss, Lost, HasAck
<1>17. Sends' = e /\ Got' = c /\ HostRead' = m
  <2>1. Len(<<>>) = 0
    OBVIOUS
  <2>2. HostRead' = m
    BY <1>3, <1>8, <1>11, <1>13, <2>1 DEF HostRead
  <2> QED BY <1>1, <1>4, <1>7, <1>13, <2>2 DEF Sends, Got
<1>18. DownStream(e, c)'
  BY <1>2, <1>10, DownDoneOnAck
<1>19. DownStream(Sends, Got)' /\ UpStream(HostRead)'
  BY <1>11, <1>17, <1>18 DEF DownStream, UpStream
<1> QED BY <1>14, <1>15, <1>16, <1>19 DEF CallInv

\* loop().
LEMMA CallArduino ==
  ASSUME IInv, CallInv, Arduino, UNCHANGED <<hostVars, picoVars>>
  PROVE  CallInv'
<1>1. PICK e, c, n : e = Sends /\ c = Got /\ n = HostRead
  OBVIOUS
<1>2. /\ ~Booting => DownStream(e, c)
      /\ UpStream(n)
  BY <1>1, CallStreams
<1>3. UpStream(n)'
  BY <1>2, UpReadSerial, UpLookAtIAck, UpLookAtQValid, UpQValidFell DEF Arduino
<1>4. ~Booting => DownStream(e, c)'
  BY <1>2, DownReadSerial, DownLookAtIAck, DownLookAtQValid, DownQValidFell DEF Arduino
<1>5. UNCHANGED callState
  BY DEF callState, hostVars, picoVars, progVars
<1>6. UNCHANGED <<awaiting, prog, calls, served, frame, dropped>>
  BY DEF hostVars, picoVars, progVars
<1>7. Called' <=> Called
  BY <1>6 DEF Called, InCall
<1>8. ASSUME Lost PROVE Lost'
  <2>1. /\ qAck /\ ~qValid /\ ard # "wait" /\ ~HasNumber(toHost) /\ ~HasAck(toAdapter)
        /\ prog = "asking" /\ frame = <<>> /\ Called
    BY <1>8 DEF Lost
  <2>2. CASE ReadSerial
    <3>1. PICK m \in 0..Len(toAdapter) : /\ toAdapter' = SubSeq(toAdapter, m + 1, Len(toAdapter))
                                         /\ qAck' = QAckAfter(m)
      BY <2>2 DEF ReadSerial
    <3>2. /\ HasAck(toAdapter') => HasAck(toAdapter)
          /\ \A i \in 1..m : IF IsData(toAdapter[i]) THEN HasNumber(toAdapter) ELSE HasAck(toAdapter)
      <4>1. PICK q, r : q = toAdapter /\ r = toAdapter'
        OBVIOUS
      <4>2. AtMostOneEach(q) /\ m \in 0..Len(q) /\ r = SubSeq(q, m + 1, Len(q))
        BY <3>1, <4>1 DEF IInv
      <4>3. /\ HasAck(r) => HasAck(q) /\ \A i \in 1..m : IsData(q[i])
            /\ \A i \in 1..m : IF IsData(q[i]) THEN HasNumber(q) ELSE HasAck(q)
        BY ONLY <4>2, ReadSome, Zenon
      <4> QED BY <4>1, <4>3
    <3>3. qAck'
      BY <2>1, <3>1, <3>2 DEF QAckAfter
    <3>4. UNCHANGED <<toHost, qValid>> /\ ard' # "wait"
      BY <2>2 DEF ReadSerial
    <3> QED BY <1>6, <1>7, <2>1, <3>2, <3>3, <3>4 DEF Lost, HasNumber
  <2>3. CASE LookAtIAck
    <3>1. /\ toHost' = IF iAck THEN Append(toHost, Ack) ELSE toHost
          /\ UNCHANGED <<toAdapter, qAck, qValid>> /\ ard' # "wait"
      BY <2>3 DEF LookAtIAck, PassIAckOn
    <3>2. ~HasNumber(toHost')
      BY <2>1, <3>1, WriteAck DEF IInv, DownInv
    <3> QED BY <1>6, <1>7, <2>1, <3>1, <3>2 DEF Lost, HasAck
  <2>4. CASE LookAtQValid
    <3>1. UNCHANGED <<toHost, toAdapter, qAck, qValid>> /\ ard' # "wait"
      BY <2>1, <2>4 DEF LookAtQValid, cables
    <3> QED BY <1>6, <1>7, <2>1, <3>1 DEF Lost, HasAck, HasNumber
  <2>5. CASE QValidFell
    BY <2>1, <2>5 DEF QValidFell
  <2> QED BY <2>2, <2>3, <2>4, <2>5 DEF Arduino
<1>9. Loss'
  BY <1>6, <1>7, <1>8 DEF CallInv, Loss
<1> QED BY <1>1, <1>3, <1>4, <1>5, <1>9, CallKept

\* The C011.
LEMMA CallChip ==
  ASSUME IInv, BootInv, CallInv, Chip, UNCHANGED <<hostVars, picoVars>>
  PROVE  CallInv'
<1>1. PICK e, c, n : e = Sends /\ c = Got /\ n = HostRead
  OBVIOUS
<1>2. /\ ~Booting => DownStream(e, c)
      /\ UpStream(n)
  BY <1>1, CallStreams
<1>3. sent \in Nat
  BY DEF CallInv, CallTypes
<1>4. UpStream(n)'
  BY <1>2, <1>3, UpChip
<1>5. ~Booting => DownStream(e, c)'
  BY <1>2, DownChip
<1>6. UNCHANGED callState
  BY DEF callState, hostVars, picoVars, progVars
<1>7. Loss'
  <2>1. UNCHANGED <<toAdapter, toHost, awaiting, ard, qAck, prog, calls, served, frame, dropped>>
    BY DEF Chip, ChipSend, ChipAcked, ChipPresents, ChipTaken, hostVars, cables, picoVars,
           progVars
  <2>2. CASE ChipPresents
    <3>1. ~dropped
      BY <2>2 DEF ChipPresents, CallInv, Loss, Lost
    <3> QED BY <2>1, <3>1 DEF CallInv, Loss, Called, InCall
  <2>3. CASE ~ChipPresents
    <3>1. qValid' => qValid
      BY <2>3 DEF Chip, ChipSend, ChipAcked, ChipTaken
    <3>2. Called' <=> Called
      BY <2>1 DEF Called, InCall
    <3> QED BY <2>1, <3>1, <3>2 DEF CallInv, Loss, Lost, HasNumber, HasAck
  <2> QED BY <2>2, <2>3
<1> QED BY <1>1, <1>4, <1>5, <1>6, <1>7, CallKept

\* Of the request r the bytes q have been read, and then the bytes f.
Begun(r, q) == Len(q) \in Nat /\ Len(q) < Len(r) /\ q = SubSeq(r, 1, Len(q))
OneMore(r, q, f) ==
  /\ f \in Seq(0..255) /\ Len(f) = Len(q) + 1
  /\ f = SubSeq(r, 1, Len(q) + 1)
  /\ Complete(f) <=> Len(q) + 1 = Len(r)
  /\ Len(q) + 1 = Len(r) => f = r

\* A request is complete when all of it has been read, and not before.
LEMMA PartOfRequest ==
  ASSUME NEW r, Framed(r), NEW q, Begun(r, q)
  PROVE  OneMore(r, q, Append(q, r[Len(q) + 1]))
<1>1. PICK f, n, b : n \in Nat /\ n = Len(q) /\ b = r[Len(q) + 1] /\ f = Append(q, b)
  BY DEF Begun
<1>2. n < Len(r) /\ q = SubSeq(r, 1, n) /\ b = r[n + 1]
  BY ONLY <1>1, Begun(r, q), Zenon DEF Begun
<1>3. r \in Seq(0..255)
  BY DEF Framed
<1>4. Len(r) \in Nat
  BY <1>3, LenProperties
<1>5. f = SubSeq(r, 1, n + 1) /\ Len(f) = n + 1 /\ f \in Seq(0..255)
      /\ \A i \in 1..(n + 1) : f[i] = r[i]
  <2>1. \A i \in 1..(n + 1) : r[i] \in 0..255
    <3>1. r \in Seq(0..255)
      BY <1>3
    <3>2. ASSUME NEW i \in 1..(n + 1) PROVE i \in 1..Len(r)
      BY <1>1, <1>2, <1>4
    <3> QED BY ONLY <3>1, <3>2, ElementOfSeq
  <2>2. q \in Seq(0..255) /\ \A i \in 1..n : q[i] = r[i]
    <3>1. \A i \in 1..n : r[i] \in 0..255
      BY ONLY <1>1, <2>1
    <3>2. n - 1 + 1 = n /\ 1 \in Int /\ n \in Int /\ \A i \in 1..n : 1 + i - 1 = i
      BY ONLY <1>1
    <3>3. /\ SubSeq(r, 1, n) \in Seq(0..255)
          /\ \A i \in 1..(n - 1 + 1) : SubSeq(r, 1, n)[i] = r[1 + i - 1]
      BY ONLY <3>1, <3>2, SubSeqProperties
    <3> QED BY <1>2, <3>2, <3>3
  <2>3. f \in Seq(0..255) /\ Len(f) = n + 1 /\ \A i \in 1..(n + 1) : f[i] = r[i]
    <3>1. b \in 0..255
      <4>1. n + 1 \in 1..(n + 1) /\ b = r[n + 1]
        BY ONLY <1>1, <1>2
      <4> QED BY ONLY <2>1, <4>1, Zenon
    <3>2. /\ Append(q, b) \in Seq(0..255) /\ Len(Append(q, b)) = n + 1
          /\ Append(q, b)[n + 1] = b /\ \A i \in 1..n : Append(q, b)[i] = q[i]
      BY <1>1, <2>2, <3>1, AppendProperties
    <3>3. ASSUME NEW i \in 1..(n + 1) PROVE f[i] = r[i]
      BY <1>1, <1>2, <2>2, <3>2, <3>3
    <3> QED BY <1>1, <3>2, <3>3
  <2>4. /\ SubSeq(r, 1, n + 1) \in Seq(0..255) /\ Len(SubSeq(r, 1, n + 1)) = n + 1
        /\ \A i \in 1..(n + 1) : SubSeq(r, 1, n + 1)[i] = r[i]
    BY <1>1, <2>1, SubSeqProperties
  <2>5. f = SubSeq(r, 1, n + 1)
    BY <1>1, <2>3, <2>4, SeqEqual
  <2> QED BY <2>3, <2>5
<1>6. n + 1 >= 2 => FrameLength(f) = FrameLength(r)
  <2> SUFFICES ASSUME n + 1 >= 2 PROVE FrameLength(f) = FrameLength(r)
    OBVIOUS
  <2>1. f[1] = r[1] /\ f[1 + 1] = r[1 + 1]
    BY <1>1, <1>5
  <2> QED BY <2>1 DEF FrameLength, Short
<1>7. Complete(f) <=> n + 1 = Len(r)
  <2>1. Len(r) > 2 /\ Len(r) = FrameLength(r) + 2
    BY DEF Framed
  <2> QED BY <1>1, <1>4, <1>5, <1>6, <2>1 DEF Complete
<1>8. SubSeq(r, 1, Len(r)) = r
  BY <1>3, SubSeqFull
<1> QED BY ONLY <1>1, <1>5, <1>7, <1>8, Zenon DEF OneMore

\* process_packet(): a byte of the request is read, and after the last one
\* the request is served.
LEMMA CallProcess ==
  ASSUME IInv, CallInv, ProcessPacket, UNCHANGED <<adapterVars, picoVars>>
  PROVE  /\ CallInv'
         /\ UNCHANGED <<spVars, served>> \/ (Called /\ served' = served + 1 /\ Serve(request))
<1>1. PICK e, c, n : e = Sends /\ c = Got /\ n = HostRead
  OBVIOUS
<1>2. /\ e \in Seq(Int) /\ n \in Nat
      /\ ~Booting => DownStream(e, c)
      /\ UpStream(n)
  BY <1>1, CallStreams
<1>3. /\ ~awaiting /\ sending = <<>> /\ toHost # <<>>
      /\ toHost' = Tail(toHost)
      /\ UNCHANGED <<down, up, awaiting, dropped>>
  BY DEF ProcessPacket
<1>4. UNCHANGED <<ard, qData, qValid, qval, prog, request, sent, reply, opened, calls>>
  BY DEF adapterVars, pins, picoVars, progVars
<1>5. sent \in Nat /\ sent <= Len(request) /\ request \in Seq(0..255) /\ Len(request) \in Nat
  BY LenProperties DEF CallInv, CallTypes
<1>0. HasNumber(toHost) /\ IsData(Head(toHost)) /\ ~dropped
  <2>1. HasNumber(toHost) /\ IsData(Head(toHost))
    BY <1>3, ReadOne DEF IInv, DownInv
  <2> QED BY <2>1 DEF CallInv, Loss, Lost
<1>6. Head(toHost) = Number(request[n + 1]) /\ n + 1 <= sent /\ UpStream(n + 1)'
  BY <1>0, <1>2, <1>3, <1>4, <1>5, UpRead
<1>7. Called /\ n = Len(frame)
  <2>1. n # sent
    BY <1>2, <1>5, <1>6
  <2>2. Len(frame) \in Nat
    BY LenProperties DEF CallInv, CallTypes
  <2> QED BY <1>0, <1>1, <2>1, <2>2 DEF HostRead
<1>8. /\ frame = SubSeq(request, 1, n) /\ n < Len(request) /\ WellFormed(request)
      /\ prog = "waiting" => reply = <<>>
      /\ served = calls /\ InCall
  BY <1>7 DEF CallInv, Exchange, Called
<1>9. PICK b, f :
        /\ b \in Value(Head(toHost)) /\ f = Append(frame, b)
        /\ frame' = FrameAfter(f)
        /\ IF Complete(f) THEN ServeFrame(f) ELSE UNCHANGED <<spVars, sending, served>>
  BY DEF ProcessPacket
<1>10. b = request[n + 1]
  <2>1. PICK v : v = request[n + 1]
    OBVIOUS
  <2>2. Head(toHost) = <<v>>
    BY <1>6, <2>1 DEF Number
  <2>3. IsData(Head(toHost)) /\ Head(toHost)[1] = v
    BY <2>2 DEF IsData, Ack
  <2>4. Value(Head(toHost)) = {v}
    BY <2>3 DEF Value
  <2> QED BY <1>9, <2>1, <2>4
<1>11. /\ f \in Seq(0..255) /\ Len(f) = n + 1 /\ f = SubSeq(request, 1, n + 1)
       /\ Complete(f) <=> n + 1 = Len(request)
       /\ n + 1 = Len(request) => f = request
  <2>1. PICK r : r = request
    OBVIOUS
  <2>2. r \in Seq(0..255) /\ n < Len(r) /\ frame = SubSeq(r, 1, n) /\ Framed(r) /\ b = r[n + 1]
    BY <1>5, <1>8, <1>10, <2>1 DEF WellFormed
  <2>3. PICK q : q = frame
    OBVIOUS
  <2>4. n = Len(q) /\ f = Append(q, b)
    BY <1>7, <1>9, <2>3
  <2>5. Len(q) \in Nat /\ Len(q) < Len(r) /\ q = SubSeq(r, 1, Len(q)) /\ b = r[Len(q) + 1]
    BY ONLY <1>2, <2>2, <2>3, <2>4
  <2>6. Begun(r, q)
    BY ONLY <2>5 DEF Begun
  <2>7. OneMore(r, q, Append(q, r[Len(q) + 1]))
    BY ONLY <2>2, <2>6, PartOfRequest
  <2>8. OneMore(r, q, f)
    BY ONLY <2>4, <2>5, <2>7, Zenon
  <2> QED BY ONLY <2>1, <2>4, <2>8, Zenon DEF OneMore
<1>12. Taken'
  BY <1>3 DEF Taken
<1>13. SpTypes /\ StreamsGiven
  BY DEF CallInv, CallTypes
<1>14. InCall' /\ ~Booting' /\ StreamsGiven'
  BY <1>4, <1>8, <1>13 DEF InCall, Booting, StreamsGiven
<1>17. Loss'
  BY <1>0, <1>3 DEF Loss, CallInv, Exchange
<1>15. CASE ~Complete(f)
  <2>1. frame' = f /\ UNCHANGED <<spVars, sending, served>>
    BY <1>9, <1>15 DEF FrameAfter
  <2>2. Called' /\ ~Served'
    BY <1>4, <1>8, <1>14, <2>1 DEF Called, Served
  <2>3. UNCHANGED <<hostUp, handles, files, answer>>
    BY <2>1 DEF spVars
  <2>4. CallTypes'
    BY <1>4, <1>11, <1>14, <2>1, <2>3 DEF CallInv, CallTypes, SpTypes
  <2>5. n + 1 < Len(request)
    BY <1>5, <1>6, <1>11, <1>15
  <2>6. Exchange'
    BY <1>3, <1>4, <1>8, <1>11, <1>14, <2>1, <2>2, <2>5 DEF CallInv, Exchange
  <2>7. Sends' = <<>> /\ Got' = 0 /\ HostRead' = n + 1
    BY <1>0, <1>2, <1>3, <1>11, <2>1, <2>2 DEF Sends, Got, HostRead
  <2>8. DownStream(<<>>, 0)'
    <3>1. sending' = <<>> /\ <<>> \in Seq(Int)
      BY <1>3, <2>1
    <3> QED BY <1>12, <3>1, BeginsNext
  <2>9. DownStream(Sends, Got)' /\ UpStream(HostRead)'
    BY <1>6, <2>7, <2>8 DEF DownStream, UpStream
  <2> QED BY <1>17, <2>1, <2>4, <2>6, <2>9 DEF CallInv
<1>16. CASE Complete(f)
  <2>1. frame' = <<>> /\ Serve(request) /\ sending' = answer' /\ served' = served + 1
    BY <1>9, <1>11, <1>16 DEF FrameAfter, ServeFrame
  <2>2. SpTypes' /\ answer' \in Seq(Int) /\ Fits(request, answer')
    BY <1>8, <1>13, <2>1, ServeAnswers
  <2>3. Served' /\ ~Called' /\ served' = calls' + 1
    BY <1>4, <1>8, <1>14, <2>1 DEF Called, Served, CallInv, CallTypes
  <2>4. sent = Len(request)
    BY <1>5, <1>6, <1>11, <1>16
  <2>5. CallTypes'
    BY <1>4, <1>14, <2>1, <2>2 DEF CallInv, CallTypes
  <2>6. prog' = "waiting" => Len(reply') <= Len(answer') /\ reply' = SubSeq(answer', 1, Len(reply'))
    <3>1. PICK a : a = answer'
      OBVIOUS
    <3>2. Len(a) \in Nat /\ SubSeq(a, 1, 0) = <<>> /\ Len(<<>>) = 0
      BY <2>2, <3>1, LenProperties, SubSeqEmpty
    <3> QED BY <1>4, <1>8, <3>1, <3>2
  <2>7. Exchange'
    BY <1>3, <1>4, <1>8, <1>14, <2>1, <2>2, <2>3, <2>4, <2>6 DEF CallInv, Exchange
  <2>8. Sends' = answer' /\ Got' = 0 /\ HostRead' = n + 1
    <3>1. prog' # "ready"
      BY <1>14 DEF InCall
    <3>2. Sends' = answer'
      BY <2>3, <3>1 DEF Sends
    <3>3. Got' = 0
      BY <1>4, <1>8, <1>14, <2>3 DEF Got, InCall
    <3>4. HostRead' = n + 1
      BY <1>4, <1>11, <1>16, <2>3, <2>4 DEF HostRead
    <3> QED BY <3>2, <3>3, <3>4
  <2>9. PICK a : a = answer'
    OBVIOUS
  <2>10. DownStream(a, 0)'
    BY <1>12, <2>1, <2>2, <2>9, BeginsNext
  <2>11. DownStream(Sends, Got)' /\ UpStream(HostRead)'
    BY <1>6, <2>8, <2>9, <2>10 DEF DownStream, UpStream
  <2> QED BY <1>7, <1>17, <2>1, <2>5, <2>7, <2>11 DEF CallInv
<1> QED BY <1>15, <1>16

\* The link at the picoputer while nothing changes that UpStream is about.
LEMMA UpUnchanged ==
  ASSUME CallInv, UNCHANGED <<up, adapterVars, hostVars, request, sent, toHost>>,
         NEW n, UpStream(n)
  PROVE  UpStream(n)'
<1>1. UpSame
  BY DEF UpSame, adapterVars, pins
<1> QED BY <1>1, UpKept

\* The bootstrap goes on.
LEMMA CallBoots ==
  ASSUME IInv, BootInv, CallInv, Booting, UNCHANGED callState,
         UNCHANGED <<up, adapterVars, hostVars, toHost>>
  PROVE  CallInv'
<1>1. PICK e, c, n : e = Sends /\ c = Got /\ n = HostRead
  OBVIOUS
<1>2. UpStream(n)
  BY <1>1, CallStreams
<1>3. UNCHANGED <<request, sent>>
  BY DEF callState
<1>4. UpStream(n)'
  BY <1>2, <1>3, UpUnchanged
<1>5. Loss'
  <2>1. ~Called /\ ~Called' /\ dropped' = dropped
    BY DEF Booting, Called, InCall, callState
  <2> QED BY <2>1, NothingLost
<1> QED BY <1>1, <1>4, <1>5, CallKept

\* The bootstrap ends: nothing of the boot file is left.
LEMMA CallReady ==
  ASSUME CallInv, Booting, prog' \in {"rest", "ready"}, prog' = "ready" => DownStream(<<>>, 0)',
         UNCHANGED <<request, sent, reply, opened, calls, hostVars, adapterVars, up, toHost>>
  PROVE  CallInv'
<1>1. PICK n : n = HostRead
  OBVIOUS
<1>2. UpStream(n)
  BY <1>1, CallStreams
<1>3. UNCHANGED <<hostUp, handles, files, answer, frame, served, dropped>>
  BY DEF hostVars, spVars
<1>4. CallTypes'
  <2>1. SpTypes' /\ StreamsGiven'
    BY <1>3 DEF CallInv, CallTypes, SpTypes, StreamsGiven
  <2> QED BY <1>3, <2>1 DEF CallInv, CallTypes
<1>5. ~InCall /\ ~Called /\ ~Served /\ ~InCall' /\ ~Called' /\ ~Served' /\ prog' # "waiting"
  BY DEF Booting, InCall, Called, Served
<1>6. Exchange'
  BY <1>3, <1>5 DEF CallInv, Exchange
<1>7. ~Booting' => DownStream(Sends, Got)'
  <2>1. ASSUME ~Booting' PROVE DownStream(Sends, Got)'
    <3>1. prog' = "ready"
      BY <2>1 DEF Booting
    <3>2. Sends' = <<>> /\ Got' = 0
      BY <3>1 DEF Sends, Got
    <3> QED BY <3>1, <3>2 DEF DownStream
  <2> QED BY <2>1
<1>8. HostRead' = n
  BY <1>1, <1>5 DEF HostRead
<1>9. UpStream(n)'
  BY <1>2, UpUnchanged
<1>10. UpStream(HostRead)'
  BY <1>8, <1>9 DEF UpStream
<1>11. Loss'
  BY <1>3, <1>5, NothingLost
<1> QED BY <1>4, <1>6, <1>7, <1>10, <1>11 DEF CallInv

\* The end of the boot file.
LEMMA AllLoaded ==
  ASSUME Matched, BootInv, boot_done
  PROVE  BootTaken + RestLength - Len(rest) = Len(BootFile) /\ Len(rest) \in Nat
<1>1. /\ handler = "booting" /\ BootFile # <<>>
      /\ boot_write_index = BootFile[1] /\ boot_write_index \in Nat /\ rest \in Seq(0..255)
  BY DEF BootInv, LoadInv
<1>2. Len(rest) \in Nat
  BY <1>1, LenProperties
<1>3. Len(BootFile) = 1 + BootFile[1] + RestLength
  BY <1>1 DEF Matched
<1>4. BootTaken = 1 + boot_write_index + Len(rest)
  BY <1>1 DEF BootTaken
<1>5. RestLength \in Nat
  BY SizeAssumption
<1> QED BY <1>1, <1>2, <1>3, <1>4, <1>5

\* init_processor(), of a program with or without a second stage.
LEMMA CallStart ==
  ASSUME Matched, IInv, BootInv, CallInv, StartProgram, UNCHANGED <<hostVars, adapterVars>>
  PROVE  CallInv'
<1>1. /\ boot_done /\ prog = "off" /\ Booting
      /\ prog' = IF RestLength = 0 THEN "ready" ELSE "rest"
      /\ UNCHANGED <<toAdapter, toHost, down, up, request, sent, reply, opened, calls>>
  BY DEF StartProgram, Booting, cables, progVars
<1>2. ASSUME RestLength = 0 PROVE DownStream(<<>>, 0)'
  <2>1. PICK c : c = BootTaken
    OBVIOUS
  <2>2. DownStream(BootFile, c)
    BY <1>1, <2>1 DEF BootInv, BootQuiet, DownStream
  <2>3. UNCHANGED <<sending, awaiting, iData, iValid, iAck, iBusy>>
    BY DEF hostVars, adapterVars, pins
  <2>4. (Taken' <=> Taken) /\ \A v : OnItsWay(v) => OnItsWay(v)'
    BY <1>1, <2>3 DEF Taken, HasAck, OnItsWay
  <2>5. DownStream(BootFile, c)'
    BY <2>2, <2>3, <2>4, DownKept
  <2>6. c = Len(BootFile)
    <3>1. rest = <<>> /\ Len(<<>>) = 0
      BY <1>1 DEF BootInv, LoadInv
    <3>2. BootTaken + RestLength - Len(rest) = Len(BootFile) /\ BootTaken \in Nat
      BY <1>1, AllLoaded DEF BootInv, LoadInv
    <3> QED BY <1>2, <2>1, <3>1, <3>2
  <2> QED BY <2>5, <2>6, BootNumbers, EndsNext
<1>3. prog' \in {"rest", "ready"} /\ (prog' = "ready" => DownStream(<<>>, 0)')
  BY <1>1, <1>2
<1> QED BY <1>1, <1>3, CallReady

\* The second stage is read.
LEMMA CallRest ==
  ASSUME Matched, IInv, BootInv, CallInv, ReadRest, UNCHANGED <<hostVars, adapterVars>>
  PROVE  CallInv'
<1>1. /\ prog = "rest" /\ Booting /\ down # NoByte /\ down' = NoByte
      /\ rest' = Append(rest, down)
      /\ prog' = IF Len(rest') = RestLength THEN "ready" ELSE "rest"
      /\ UNCHANGED <<toAdapter, toHost, up, request, sent, reply, opened, calls>>
  BY DEF ReadRest, Booting
<1>2. ASSUME Len(rest') = RestLength PROVE DownStream(<<>>, 0)'
  <2>1. PICK c : c = BootTaken
    OBVIOUS
  <2>2. DownStream(BootFile, c) /\ c \in Nat
    BY <1>1, <2>1 DEF BootInv, BootQuiet, LoadInv, DownStream
  <2>3. UNCHANGED <<sending, awaiting, toAdapter, toHost, iData, iValid, iAck, iBusy>>
    BY <1>1 DEF hostVars, adapterVars, pins
  <2>4. down = BootFile[c + 1] /\ down \in 0..255 /\ DownStream(BootFile, c + 1)'
    BY <1>1, <2>2, <2>3, DownTake, BootNumbers
  <2>5. Len(rest') = Len(rest) + 1
    <3>1. rest \in Seq(0..255)
      BY DEF BootInv, LoadInv
    <3> QED BY <1>1, <2>4, <3>1, AppendProperties
  <2>6. c + 1 = Len(BootFile)
    <3>1. boot_done
      BY <1>1 DEF BootInv, LoadInv
    <3>2. c + RestLength - Len(rest) = Len(BootFile) /\ Len(rest) \in Nat
      BY <2>1, <3>1, AllLoaded
    <3>3. RestLength = Len(rest) + 1
      BY <1>2, <2>5
    <3> QED BY <2>2, <3>2, <3>3
  <2> QED BY <2>4, <2>6, BootNumbers, EndsNext
<1>3. prog' \in {"rest", "ready"} /\ (prog' = "ready" => DownStream(<<>>, 0)')
  BY <1>1, <1>2
<1> QED BY <1>1, <1>3, CallReady

\* A call begins: nothing is under way in either direction.
LEMMA CallAsk ==
  ASSUME Matched, IInv, BootInv, CallInv, Ask, UNCHANGED <<hostVars, adapterVars>>
  PROVE  CallInv' /\ request' \in Seq(0..255) /\ prog = "ready"
<1>1. PICK e, c, n : e = Sends /\ c = Got /\ n = HostRead
  OBVIOUS
<1>2. /\ prog = "ready" /\ calls < MaxCalls /\ sent' = 0 /\ prog' = "asking"
      /\ UNCHANGED <<toAdapter, toHost, down, up, reply, opened, calls>>
  BY DEF Ask, cables
<1>3. /\ UNCHANGED <<hostUp, handles, files, answer, frame, served, dropped, sending, awaiting>>
      /\ UNCHANGED <<ard, iData, iValid, iAck, iBusy, qData, qValid, qval>>
  BY DEF hostVars, spVars, adapterVars, pins
<1>4. ~Booting /\ ~InCall /\ ~Called /\ served = calls /\ frame = <<>>
  BY <1>2 DEF Booting, InCall, Called, CallInv, Exchange
<1>5. InCall' /\ ~Booting' /\ Called' /\ ~Served'
  BY <1>2, <1>3, <1>4 DEF Booting, InCall, Called, Served
<1>6. n = sent /\ n \in Nat /\ UpStream(n) /\ e = <<>> /\ c = 0 /\ DownStream(e, c)
  <2>1. n = sent /\ e = <<>> /\ c = 0
    BY <1>1, <1>2, <1>4 DEF HostRead, Sends, Got
  <2> QED BY <1>1, <1>4, <2>1, CallStreams
<1>7. PICK w : /\ w \in Call \cup (IF calls = MaxCalls - 1 THEN LastCall ELSE {})
               /\ request' = Request(w)
  BY DEF Ask
<1>8. WellMade(w) /\ (w.tag = READ => calls = MaxCalls - 1)
  <2>1. w \in Call \/ (w \in LastCall /\ calls = MaxCalls - 1)
    BY <1>7
  <2>2. w \in Call => w.tag # READ
    BY DEF Matched
  <2> QED BY <2>1, <2>2, CallAssumption
<1>9. WellFormed(request') /\ request'[3] = w.tag
  <2>1. StreamsGiven
    BY DEF CallInv, CallTypes
  <2>2. PICK r : r = Request(w)
    OBVIOUS
  <2>3. WellFormed(r) /\ r[3] = w.tag
    BY <1>8, <2>1, <2>2, RequestWellFormed
  <2> QED BY <1>7, <2>2, <2>3
<1>10. PICK r : r = request' /\ r \in Seq(0..255) /\ Len(r) \in Nat /\ Len(r) > 2
  BY <1>9, LenProperties DEF WellFormed, Framed
<1>11. CallTypes'
  <2>1. SpTypes' /\ StreamsGiven'
    BY <1>2, <1>3 DEF CallInv, CallTypes, SpTypes, StreamsGiven
  <2> QED BY <1>2, <1>3, <1>10, <2>1 DEF CallInv, CallTypes
<1>12. Exchange'
  <2>1. Len(<<>>) = 0 /\ SubSeq(r, 1, 0) = <<>> /\ Len(frame') < Len(request')
    BY <1>3, <1>4, <1>10, SubSeqEmpty
  <2>2. frame' = SubSeq(request', 1, Len(frame'))
    BY <1>3, <1>4, <1>10, <2>1
  <2>3. request'[3] = READ => calls' = MaxCalls - 1
    BY <1>2, <1>8, <1>9
  <2> QED BY <1>2, <1>3, <1>4, <1>5, <1>9, <2>1, <2>2, <2>3 DEF CallInv, Exchange
<1>16. ~dropped /\ Loss'
  BY <1>3, <1>4, NothingLost
<1>13. Sends' = <<>> /\ Got' = 0 /\ HostRead' = 0
  <2>1. Len(<<>>) + 0 = 0
    OBVIOUS
  <2> QED BY <1>3, <1>4, <1>5, <1>16, <2>1 DEF Sends, Got, HostRead
<1>14. DownStream(Sends, Got)'
  <2>1. (Taken' <=> Taken) /\ \A v : OnItsWay(v) => OnItsWay(v)'
    BY <1>2, <1>3 DEF Taken, HasAck, OnItsWay
  <2>2. DownStream(e, c)'
    BY <1>3, <1>6, <2>1, DownKept
  <2> QED BY <1>6, <1>13, <2>2 DEF DownStream
<1>15. UpStream(HostRead)'
  <2>1. up = NoByte /\ ~InFlight /\ ~qValid /\ ard # "wait" /\ ~HasNumber(toHost)
    BY <1>6, UpIdle
  <2>2. up' = NoByte /\ ~InFlight' /\ ~qValid' /\ ard' # "wait" /\ ~HasNumber(toHost')
    BY <1>2, <1>3, <2>1 DEF InFlight
  <2>3. NumberIs(toHost', request'[Passed'])
    BY <2>2, NoNumber
  <2>4. Passed' = 0
    BY <1>2, <2>2 DEF Passed
  <2> QED BY <1>13, <2>2, <2>3, <2>4 DEF UpStream
<1> QED BY <1>2, <1>10, <1>11, <1>12, <1>14, <1>15, <1>16 DEF CallInv

\* A byte of the request is sent.
LEMMA CallSend ==
  ASSUME IInv, BootInv, CallInv, SendRequest, UNCHANGED <<hostVars, adapterVars>>
  PROVE  CallInv'
<1>1. PICK e, c, n : e = Sends /\ c = Got /\ n = HostRead
  OBVIOUS
<1>2. /\ prog = "asking" /\ up = NoByte /\ sent < Len(request) /\ up' = request[sent + 1]
      /\ sent' = sent + 1
      /\ UNCHANGED <<toAdapter, toHost, down, prog, request, reply, opened, calls>>
  BY DEF SendRequest
<1>3. /\ UNCHANGED <<hostUp, handles, files, answer, frame, served, dropped, sending, awaiting>>
      /\ UNCHANGED <<ard, iData, iValid, iAck, iBusy, qData, qValid, qval>>
  BY DEF hostVars, spVars, adapterVars, pins
<1>4. sent \in Nat /\ request \in Seq(0..255) /\ Len(request) \in Nat
  BY LenProperties DEF CallInv, CallTypes
<1>5. InCall /\ ~Booting /\ Called /\ ~Served
  <2>1. InCall /\ ~Booting
    BY <1>2 DEF InCall, Booting
  <2>2. ~Served
    BY <1>2, <1>4 DEF CallInv, Exchange
  <2> QED BY <2>1, <2>2 DEF Called, Served
<1>6. InCall' /\ ~Booting' /\ Called' /\ ~Served'
  BY <1>2, <1>3, <1>5 DEF InCall, Booting, Called, Served
<1>7. up' # NoByte
  <2>1. sent + 1 \in 1..Len(request)
    BY <1>2, <1>4
  <2>2. up' \in 0..255
    BY <1>2, <1>4, <2>1, ElementOfSeq
  <2> QED BY <2>2, NoByteAssumption
<1>8. /\ ~Booting => DownStream(e, c)
      /\ UpStream(n)
  BY <1>1, CallStreams
<1>9. UpStream(n)'
  BY <1>2, <1>3, <1>4, <1>7, <1>8, UpSend
<1>10. DownStream(e, c)'
  <2>1. (Taken' <=> Taken) /\ \A v : OnItsWay(v) => OnItsWay(v)'
    BY <1>2, <1>3 DEF Taken, HasAck, OnItsWay
  <2> QED BY <1>3, <1>5, <1>8, <2>1, DownKept
<1>11. CallTypes'
  <2>1. SpTypes' /\ StreamsGiven'
    BY <1>2, <1>3 DEF CallInv, CallTypes, SpTypes, StreamsGiven
  <2>2. sent' \in Nat /\ sent' <= Len(request')
    BY <1>2, <1>4
  <2> QED BY <1>2, <1>3, <2>1, <2>2 DEF CallInv, CallTypes
<1>12. Exchange'
  BY <1>2, <1>3, <1>5, <1>6 DEF CallInv, Exchange
<1>13. Sends' = e /\ Got' = c /\ HostRead' = n
  BY <1>1, <1>2, <1>3, <1>5, <1>6 DEF Sends, Got, HostRead
<1>14. DownStream(Sends, Got)' /\ UpStream(HostRead)'
  BY <1>9, <1>10, <1>13 DEF DownStream, UpStream
<1>15. Loss'
  <2>1. UNCHANGED <<prog, calls, toHost, toAdapter, ard, qAck, qValid>>
    BY <1>2 DEF adapterVars, pins
  <2> QED BY <1>3, <2>1, LossKept
<1> QED BY <1>11, <1>12, <1>14, <1>15 DEF CallInv

\* All of the request is sent: the program turns to the answer.
LEMMA CallSent ==
  ASSUME IInv, BootInv, CallInv, RequestSent, UNCHANGED <<hostVars, adapterVars>>
  PROVE  CallInv'
<1>1. PICK e, c, n : e = Sends /\ c = Got /\ n = HostRead
  OBVIOUS
<1>2. /\ prog = "asking" /\ sent = Len(request) /\ prog' = "waiting" /\ reply' = <<>>
      /\ UNCHANGED <<toAdapter, toHost, down, up, sent, request, opened, calls>>
  BY DEF RequestSent, cables
<1>3. /\ UNCHANGED <<hostUp, handles, files, answer, frame, served, dropped, sending, awaiting>>
      /\ UNCHANGED <<ard, iData, iValid, iAck, iBusy, qData, qValid, qval>>
  BY DEF hostVars, spVars, adapterVars, pins
<1>4. InCall /\ ~Booting /\ InCall' /\ ~Booting' /\ (Called' <=> Called) /\ (Served' <=> Served)
  BY <1>2, <1>3 DEF InCall, Booting, Called, Served
<1>5. DownStream(e, c) /\ UpStream(n) /\ c = 0
  BY <1>1, <1>2, <1>4, CallStreams DEF Got
<1>6. UpStream(n)'
  BY <1>2, <1>5, UpUnchanged
<1>7. DownStream(e, c)'
  <2>1. (Taken' <=> Taken) /\ \A v : OnItsWay(v) => OnItsWay(v)'
    BY <1>2, <1>3 DEF Taken, HasAck, OnItsWay
  <2> QED BY <1>3, <1>5, <2>1, DownKept
<1>8. CallTypes'
  <2>1. SpTypes' /\ StreamsGiven'
    BY <1>2, <1>3 DEF CallInv, CallTypes, SpTypes, StreamsGiven
  <2> QED BY <1>2, <1>3, <2>1 DEF CallInv, CallTypes
<1>9. Len(<<>>) = 0
  OBVIOUS
<1>10. Exchange'
  <2>1. ASSUME Served'
        PROVE  /\ sent' = Len(request') /\ Fits(request', answer')
               /\ Len(reply') <= Len(answer') /\ reply' = SubSeq(answer', 1, Len(reply'))
    <3>1. PICK a : a = answer /\ a \in Seq(Int)
      BY DEF CallInv, CallTypes
    <3>2. Len(a) \in Nat /\ SubSeq(a, 1, 0) = <<>>
      BY <3>1, LenProperties, SubSeqEmpty
    <3> QED BY <1>2, <1>3, <1>4, <1>9, <2>1, <3>1, <3>2 DEF CallInv, Exchange
  <2> QED BY <1>2, <1>3, <1>4, <2>1 DEF CallInv, Exchange
<1>11. Sends' = e /\ Got' = c /\ HostRead' = n
  BY <1>1, <1>2, <1>3, <1>4, <1>5, <1>9 DEF Sends, Got, HostRead
<1>12. DownStream(Sends, Got)' /\ UpStream(HostRead)'
  BY <1>6, <1>7, <1>11 DEF DownStream, UpStream
<1>13. Loss'
  <2>1. ~dropped
    <3>1. InCall /\ Len(request) > 2
      BY <1>4 DEF CallInv, Exchange, WellFormed, Framed
    <3> QED BY <1>2, <3>1, LostRead
  <2> QED BY <1>3, <1>4, <2>1 DEF CallInv, Loss
<1> QED BY <1>8, <1>10, <1>12, <1>13 DEF CallInv

\* Of the answer a the program has taken q, and then f.
Heard(a, q) ==
  /\ a \in Seq(Int) /\ q \in Seq(0..255) /\ Len(q) < Len(a) /\ q = SubSeq(a, 1, Len(q))
  /\ a[Len(q) + 1] \in 0..255
HeardMore(a, q, f) ==
  /\ f \in Seq(0..255) /\ Len(f) = Len(q) + 1 /\ Len(f) <= Len(a)
  /\ f = SubSeq(a, 1, Len(q) + 1)
  /\ Len(f) >= 2 => Short(f, 1) = Short(a, 1)
  /\ Len(f) >= 5 => Short(f, 4) \in ShortValue

\* The reply is the beginning of the answer, and shows how long it is.
LEMMA PartOfAnswer ==
  ASSUME NEW a, NEW q, Heard(a, q)
  PROVE  HeardMore(a, q, Append(q, a[Len(q) + 1]))
<1>1. PICK f, n, b : n = Len(q) /\ b = a[Len(q) + 1] /\ f = Append(q, b)
  OBVIOUS
<1>2. /\ a \in Seq(Int) /\ q \in Seq(0..255) /\ n < Len(a) /\ q = SubSeq(a, 1, n)
      /\ b \in 0..255 /\ b = a[n + 1]
  BY ONLY <1>1, Heard(a, q), Zenon DEF Heard
<1>3. Len(a) \in Nat /\ n \in Nat
  BY <1>1, <1>2, LenProperties
<1>4. /\ f \in Seq(0..255) /\ Len(f) = n + 1 /\ f[n + 1] = b
      /\ \A i \in 1..n : f[i] = q[i]
  <2>1. q \in Seq(0..255) /\ b \in 0..255
    BY <1>2
  <2>2. /\ Append(q, b) \in Seq(0..255) /\ Len(Append(q, b)) = Len(q) + 1
        /\ Append(q, b)[Len(q) + 1] = b /\ \A i \in 1..Len(q) : Append(q, b)[i] = q[i]
    BY ONLY <2>1, AppendProperties
  <2> QED BY ONLY <1>1, <2>2, Zenon
<1>5. \A i \in 1..(n + 1) : a[i] \in Int
  <2>1. a \in Seq(Int)
    BY <1>2
  <2>2. ASSUME NEW i \in 1..(n + 1) PROVE i \in 1..Len(a)
    BY <1>2, <1>3
  <2> QED BY ONLY <2>1, <2>2, ElementOfSeq
<1>6. \A i \in 1..n : q[i] = a[i]
  <2>1. \A i \in 1..n : a[i] \in Int
    BY ONLY <1>3, <1>5
  <2>2. 1 \in Int /\ n \in Int /\ n - 1 + 1 = n /\ \A i \in 1..n : 1 + i - 1 = i
    BY ONLY <1>3
  <2>3. \A i \in 1..(n - 1 + 1) : SubSeq(a, 1, n)[i] = a[1 + i - 1]
    BY ONLY <2>1, <2>2, SubSeqProperties
  <2> QED BY <1>2, <2>2, <2>3
<1>7. \A i \in 1..(n + 1) : f[i] = a[i]
  <2>1. ASSUME NEW i \in 1..(n + 1) PROVE f[i] = a[i]
    BY <1>2, <1>3, <1>4, <1>6, <2>1
  <2> QED BY <2>1
<1>8. f = SubSeq(a, 1, n + 1)
  <2>1. /\ SubSeq(a, 1, n + 1) \in Seq(Int) /\ Len(SubSeq(a, 1, n + 1)) = n + 1
        /\ \A i \in 1..(n + 1) : SubSeq(a, 1, n + 1)[i] = a[i]
    <3>1. 1 \in Int /\ n + 1 \in Int /\ 1 <= n + 1 /\ n + 1 - 1 + 1 = n + 1
          /\ \A i \in 1..(n + 1) : 1 + i - 1 = i
      BY ONLY <1>3
    <3>2. /\ SubSeq(a, 1, n + 1) \in Seq(Int)
          /\ Len(SubSeq(a, 1, n + 1)) = IF 1 <= n + 1 THEN n + 1 - 1 + 1 ELSE 0
          /\ \A i \in 1..(n + 1 - 1 + 1) : SubSeq(a, 1, n + 1)[i] = a[1 + i - 1]
      BY ONLY <1>5, <3>1, SubSeqProperties
    <3> QED BY <3>1, <3>2
  <2> QED BY <1>3, <1>4, <1>7, <2>1, SeqEqual
<1>9. Len(f) >= 2 => Short(f, 1) = Short(a, 1)
  <2> SUFFICES ASSUME Len(f) >= 2 PROVE Short(f, 1) = Short(a, 1)
    OBVIOUS
  <2>1. f[1] = a[1] /\ f[1 + 1] = a[1 + 1]
    BY <1>3, <1>4, <1>7
  <2> QED BY <2>1 DEF Short
<1>10. Len(f) >= 5 => Short(f, 4) \in ShortValue
  <2> SUFFICES ASSUME Len(f) >= 5 PROVE Short(f, 4) \in ShortValue
    OBVIOUS
  <2>1. 4 \in 1..Len(f) /\ 4 + 1 \in 1..Len(f)
    BY <1>3, <1>4
  <2>2. f[4] \in 0..255 /\ f[4 + 1] \in 0..255
    BY ONLY <1>4, <2>1, ElementOfSeq
  <2>3. PICK x \in 0..255, y \in 0..255 : x = f[4] /\ y = f[4 + 1]
    BY ONLY <2>2
  <2>4. PICK k \in Int, m \in Int : k = x + 256 * y /\ m = 256 * 256 - 1
    OBVIOUS
  <2>5. k \in 0..m
    <3>1. x \in Int /\ y \in Int /\ 0 <= x /\ x <= 255 /\ 0 <= y /\ y <= 255
      OBVIOUS
    <3>2. m = 65535
      BY ONLY <2>4
    <3>3. 0 <= k /\ k <= 65535
      BY ONLY <2>4, <3>1
    <3>4. 0 <= k /\ k <= m
      BY ONLY <3>2, <3>3
    <3> QED BY <3>4
  <2>6. Short(f, 4) = k
    BY ONLY <2>3, <2>4, Zenon DEF Short
  <2> QED BY ONLY <2>4, <2>5, <2>6, Zenon DEF ShortValue
<1>11. Len(f) <= Len(a)
  BY <1>2, <1>3, <1>4
<1> QED BY ONLY <1>1, <1>4, <1>8, <1>9, <1>10, <1>11, Zenon DEF HeardMore

\* What a program that has opened a file remembers of it.
LEMMA OpenedIsStream ==
  ASSUME NEW f, WellFormed(f), f[3] = OPEN, NEW r, Short(r, 4) \in ShortValue
  PROVE  Opened(f, r) \in [name : Seq(0..255), stream : ShortValue]
<1>1. f \in Seq(0..255) /\ Len(f) >= 7 + Short(f, 4) /\ Short(f, 4) \in Nat
  <2>1. f \in Seq(0..255) /\ Len(f) >= 7 /\ Len(f) >= 7 + Short(f, 4)
    BY DEF WellFormed, Framed
  <2>2. 4 \in Nat /\ 4 > 0 /\ 4 < Len(f)
    BY ONLY <2>1, LenProperties
  <2>3. Short(f, 4) \in Nat
    BY ONLY <2>1, <2>2, ShortNumber
  <2> QED BY <2>1, <2>3
<1>2. PICK n : n = Short(f, 4) /\ n \in Nat
  BY <1>1
<1>3. \A i \in 6..(5 + n) : f[i] \in 0..255
  <2>1. Len(f) \in Nat /\ f \in Seq(0..255)
    BY ONLY <1>1, LenProperties
  <2>2. ASSUME NEW i \in 6..(5 + n) PROVE i \in 1..Len(f)
    BY ONLY <1>1, <1>2, <2>1, i \in 6..(5 + n)
  <2> QED BY ONLY <2>1, <2>2, ElementOfSeq
<1>4. SubSeq(f, 6, 5 + n) \in Seq(0..255)
  <2>1. 6 \in Int /\ 5 + n \in Int
    BY ONLY <1>2
  <2> QED BY ONLY <1>3, <2>1, SubSeqProperties
<1> QED BY <1>2, <1>4 DEF Opened

\* A byte of the answer is taken: the host has served the request, and with
\* the last byte that the answer announces the call returns.
LEMMA CallReply ==
  ASSUME IInv, BootInv, CallInv, ReceiveReply, UNCHANGED <<hostVars, adapterVars>>
  PROVE  /\ CallInv' /\ Served
         /\ \/ UNCHANGED <<prog, calls, result>>
            \/ /\ answer # <<>> /\ prog' \in {"done", "ready"}
               /\ Len(answer) > 1 /\ Len(answer) >= Short(answer, 1) + 2
               /\ result' = SubSeq(answer, 1, Short(answer, 1) + 2)
<1>1. PICK e, c, n : e = Sends /\ c = Got /\ n = HostRead
  OBVIOUS
<1>2. /\ prog = "waiting" /\ down # NoByte /\ down' = NoByte /\ reply' = Append(reply, down)
      /\ UNCHANGED <<toAdapter, toHost, up, request, sent>>
  BY DEF ReceiveReply
<1>3. /\ UNCHANGED <<hostUp, handles, files, answer, frame, served, dropped, sending, awaiting>>
      /\ UNCHANGED <<ard, iData, iValid, iAck, iBusy, qData, qValid, qval>>
  BY DEF hostVars, spVars, adapterVars, pins
<1>4. InCall /\ ~Booting /\ prog # "ready"
  BY <1>2 DEF InCall, Booting
<1>5. e \in Seq(Int) /\ c \in Nat /\ DownStream(e, c) /\ UpStream(n)
  BY <1>1, <1>4, CallStreams
<1>6. c + 1 <= Len(e) /\ down = e[c + 1] /\ down \in 0..255 /\ DownStream(e, c + 1)'
  BY <1>2, <1>3, <1>5, DownTake
<1>7. Served /\ ~Called
  <2>1. ~Called
    <3> SUFFICES ASSUME Called PROVE FALSE
      OBVIOUS
    <3>1. e = <<>> /\ c = 0 /\ Len(<<>>) = 0
      BY <1>1, <1>4 DEF Sends, Got
    <3> QED BY <1>6, <3>1
  <2> QED BY <1>4, <2>1 DEF Called, Served
<1>8. e = answer /\ c = Len(reply) /\ n = sent
  BY <1>1, <1>2, <1>4, <1>7 DEF Sends, Got, HostRead
<1>9. /\ calls < MaxCalls /\ served = calls + 1 /\ sent = Len(request) /\ frame = <<>>
      /\ dropped \in BOOLEAN /\ WellFormed(request) /\ Fits(request, answer)
      /\ (request[3] = READ => calls = MaxCalls - 1)
      /\ Len(reply) <= Len(answer) /\ reply = SubSeq(answer, 1, Len(reply))
      /\ calls \in Nat
  BY <1>2, <1>4, <1>7 DEF CallInv, Exchange, CallTypes, Served
<1>10. PICK q, f : q = reply /\ f = reply'
  OBVIOUS
<1>11. Heard(e, q)
  <2>1. q \in Seq(0..255)
    BY <1>10 DEF CallInv, CallTypes
  <2>2. Len(q) < Len(e)
    BY <1>5, <1>6, <1>8, <1>10, LenProperties
  <2>3. e[Len(q) + 1] \in 0..255
    BY <1>6, <1>8, <1>10
  <2>4. q = SubSeq(e, 1, Len(q))
    BY <1>8, <1>9, <1>10, Zenon
  <2> QED BY <1>5, <2>1, <2>2, <2>3, <2>4 DEF Heard
<1>12. HeardMore(e, q, f)
  <2>1. HeardMore(e, q, Append(q, e[Len(q) + 1]))
    BY ONLY <1>11, PartOfAnswer
  <2>2. f = Append(q, e[Len(q) + 1])
    BY <1>2, <1>6, <1>8, <1>10
  <2> QED BY ONLY <2>1, <2>2, Zenon
<1>13. /\ f \in Seq(0..255) /\ Len(f) = c + 1 /\ Len(f) <= Len(e) /\ f = SubSeq(e, 1, Len(f))
       /\ Len(f) >= 2 => Short(f, 1) = Short(e, 1)
       /\ Len(f) >= 5 => Short(f, 4) \in ShortValue
  <2>1. Len(q) = c
    BY <1>8, <1>10
  <2> QED BY ONLY <1>12, <2>1, Zenon DEF HeardMore
<1>14. UpStream(n)'
  BY <1>2, <1>5, UpUnchanged
<1>15. SpTypes'
  BY <1>3 DEF CallInv, CallTypes, SpTypes
<1>16. /\ request' \in Seq(0..255) /\ reply' \in Seq(0..255) /\ answer' \in Seq(Int)
       /\ sent' \in Nat /\ sent' <= Len(request') /\ frame' \in Seq(0..255)
  BY <1>2, <1>3, <1>10, <1>13 DEF CallInv, CallTypes
<1>19. ASSUME ~Called' PROVE Loss'
  BY <1>3, <1>7, <1>19, NothingLost
<1>17. CASE ~WholeReply(reply')
  <2>1. UNCHANGED <<prog, result, calls, opened>>
    BY <1>17 DEF ReceiveReply
  <2>2. InCall' /\ ~Booting' /\ ~Called' /\ Served'
    BY <1>3, <1>4, <1>7, <2>1 DEF InCall, Booting, Called, Served
  <2>3. CallTypes'
    <3>1. StreamsGiven'
      BY <2>1 DEF CallInv, CallTypes, StreamsGiven
    <3> QED BY <1>15, <1>16, <2>1, <3>1 DEF CallInv, CallTypes
  <2>4. Len(reply') <= Len(answer') /\ reply' = SubSeq(answer', 1, Len(reply'))
    BY <1>3, <1>8, <1>10, <1>13
  <2>5. Exchange'
    BY <1>2, <1>3, <1>4, <1>9, <2>1, <2>2, <2>4 DEF Exchange
  <2>6. Sends' = e /\ Got' = c + 1 /\ HostRead' = n
    BY <1>2, <1>3, <1>8, <1>10, <1>13, <2>1, <2>2 DEF Sends, Got, HostRead, InCall
  <2>7. DownStream(Sends, Got)' /\ UpStream(HostRead)'
    BY <1>6, <1>14, <2>6 DEF DownStream, UpStream
  <2> QED BY <1>7, <1>19, <2>1, <2>2, <2>3, <2>5, <2>7 DEF CallInv
<1>18. CASE WholeReply(reply')
  <2>1. /\ prog' = IF calls + 1 = MaxCalls THEN "done" ELSE "ready"
        /\ result' = reply' /\ calls' = calls + 1
        /\ opened' = IF request[3] = OPEN THEN Append(opened, Opened(request, reply')) ELSE opened
    BY <1>18 DEF ReceiveReply
  <2>2. Len(f) >= 2 /\ Len(f) = Short(f, 1) + 2
    BY <1>10, <1>18 DEF WholeReply
  <2>3. ~InCall' /\ ~Booting' /\ ~Called' /\ ~Served' /\ prog' # "waiting" /\ prog' \in {"done", "ready"}
    BY <2>1 DEF InCall, Booting, Called, Served
  <2>4. e # <<>> /\ Short(f, 1) = Short(e, 1)
    <3>1. Len(<<>>) = 0
      OBVIOUS
    <3> QED BY <1>5, <1>6, <1>13, <2>2, <3>1
  <2>13. Len(e) > 1 /\ Len(e) >= Short(e, 1) + 2
    BY <1>5, <1>6, <1>13, <2>2, <2>4, LenProperties
  <2>5. request[3] # READ => Len(f) = Len(e)
    BY <1>8, <1>9, <2>2, <2>4 DEF Fits
  <2>6. result' = SubSeq(answer, 1, Short(answer, 1) + 2)
    <3>1. f = SubSeq(e, 1, Short(e, 1) + 2)
      BY <1>13, <2>2, <2>4
    <3> QED BY <1>8, <1>10, <2>1, <3>1
  <2>7. StreamsGiven'
    <3>1. PICK T, o : T = [name : Seq(0..255), stream : ShortValue] /\ o = opened /\ o \in Seq(T)
      BY DEF CallInv, CallTypes, StreamsGiven
    <3>2. CASE request[3] # OPEN
      BY <2>1, <3>1, <3>2 DEF StreamsGiven
    <3>3. CASE request[3] = OPEN
      <4>1. Len(e) = 7 /\ request[3] # READ
        <5>1. request[3] # READ
          BY ONLY <3>3 DEF OPEN, READ
        <5>2. Fits(request, e)
          BY ONLY <1>8, <1>9, Zenon
        <5>3. Len(e) = 7
          BY ONLY <2>4, <3>3, <5>2, Zenon DEF Fits
        <5> QED BY <5>1, <5>3
      <4>2. Len(f) >= 5
        <5>1. Len(f) = 7
          BY ONLY <2>5, <4>1, Zenon
        <5> QED BY ONLY <5>1
      <4>3. Short(f, 4) \in ShortValue
        BY <1>13, <4>2
      <4>4. PICK r, x : r = request /\ x = Opened(r, f)
        OBVIOUS
      <4>5. x \in T
        BY <1>9, <3>1, <3>3, <4>3, <4>4, OpenedIsStream
      <4>6. Append(o, x) \in Seq(T)
        BY ONLY <3>1, <4>5, AppendProperties
      <4>7. opened' = Append(o, x)
        BY <1>10, <2>1, <3>1, <3>3, <4>4
      <4> QED BY <3>1, <4>6, <4>7 DEF StreamsGiven
    <3> QED BY <3>2, <3>3
  <2>8. CallTypes'
    <3>1. calls' \in Nat /\ calls' <= MaxCalls
      BY <1>9, <2>1, SizeAssumption
    <3> QED BY <1>15, <1>16, <2>7, <3>1 DEF CallTypes
  <2>9. Exchange'
    BY <1>3, <1>9, <2>1, <2>3 DEF Exchange
  <2>10. HostRead' = n
    BY <1>2, <1>8, <2>3 DEF HostRead
  <2>11. DownStream(Sends, Got)'
    <3>1. CASE prog' = "ready"
      <4>1. calls + 1 # MaxCalls
        BY <2>1, <3>1
      <4>2. request[3] # READ
        BY <1>9, <4>1, SizeAssumption
      <4>3. c + 1 = Len(e)
        BY <1>13, <2>5, <4>2
      <4>4. DownStream(<<>>, 0)'
        BY <1>5, <1>6, <4>3, EndsNext
      <4>5. Sends' = <<>> /\ Got' = 0
        BY <3>1 DEF Sends, Got
      <4> QED BY <4>4, <4>5 DEF DownStream
    <3>2. CASE prog' = "done"
      <4>1. Sends' = e /\ Got' = c + 1
        BY <1>3, <1>8, <1>10, <1>13, <2>3, <3>2 DEF Sends, Got
      <4> QED BY <1>6, <4>1 DEF DownStream
    <3> QED BY <2>3, <3>1, <3>2
  <2>12. UpStream(HostRead)'
    BY <1>14, <2>10 DEF UpStream
  <2> QED BY <1>7, <1>8, <1>19, <2>3, <2>4, <2>6, <2>8, <2>9, <2>11, <2>12, <2>13 DEF CallInv
<1> QED BY <1>17, <1>18

\* A step of the host.
LEMMA CallHost ==
  ASSUME IInv, CallInv, Host, UNCHANGED <<adapterVars, picoVars>>
  PROVE  /\ CallInv'
         /\ UNCHANGED <<spVars, served>> \/ (Called /\ served' = served + 1 /\ Serve(request))
<1>1. CASE SendByte
  <2>1. UNCHANGED <<spVars, served>>
    BY <1>1 DEF SendByte
  <2> QED BY <1>1, <2>1, CallSendByte
<1>2. CASE DoneOnAck
  <2>1. UNCHANGED <<spVars, served>>
    BY <1>2 DEF DoneOnAck
  <2> QED BY <1>2, <2>1, CallAcked, CallLoses
<1>3. CASE ProcessPacket
  BY <1>3, CallProcess
<1> QED BY <1>1, <1>2, <1>3 DEF Host

\* A step of the bootstrap.
LEMMA CallBoot ==
  ASSUME Matched, IInv, BootInv, CallInv, Boot, UNCHANGED <<hostVars, adapterVars>>
  PROVE  /\ CallInv' /\ Booting /\ prog' \in {"off", "rest", "ready"}
         /\ UNCHANGED <<request, result, calls>>
<1>1. CASE BootStart \/ BootLoad
  <2>1. ~boot_done /\ UNCHANGED <<prog, progVars, up, toHost>>
    BY <1>1 DEF BootStart, BootLoad
  <2>2. prog = "off" /\ Booting
    BY <2>1 DEF BootInv, LoadInv, Booting
  <2>3. UNCHANGED callState /\ UNCHANGED <<request, result, calls>>
    BY <2>1 DEF callState, progVars, hostVars
  <2>4. CallInv'
    BY <2>1, <2>2, <2>3, CallBoots
  <2> QED BY <2>1, <2>2, <2>3, <2>4
<1>2. CASE StartProgram
  <2>1. prog = "off" /\ prog' \in {"rest", "ready"} /\ UNCHANGED <<request, result, calls>>
    BY <1>2 DEF StartProgram, progVars
  <2> QED BY <1>2, <2>1, CallStart DEF Booting
<1> QED BY <1>1, <1>2 DEF Boot

\* A step of the program while it loads itself.
LEMMA CallRests ==
  ASSUME Matched, IInv, BootInv, CallInv, ReadRest, UNCHANGED <<hostVars, adapterVars>>
  PROVE  /\ CallInv' /\ Booting /\ prog' \in {"off", "rest", "ready"}
         /\ UNCHANGED <<request, result, calls>>
<1>1. prog = "rest" /\ prog' \in {"rest", "ready"} /\ UNCHANGED <<request, result, calls>>
  BY DEF ReadRest
<1> QED BY <1>1, CallRest DEF Booting

\* A step that changes nothing.
LEMMA CallStutter ==
  ASSUME CallInv, UNCHANGED vars
  PROVE  CallInv'
<1>1. PICK e, c, n : e = Sends /\ c = Got /\ n = HostRead
  OBVIOUS
<1>2. (~Booting => DownStream(e, c)) /\ UpStream(n)
  BY <1>1, CallStreams
<1>3. UNCHANGED <<cables, adapterVars, hostVars, picoVars>>
  BY DEF vars
<1>4. UNCHANGED <<toHost, toAdapter, down, up, sending, awaiting, iData, iValid, iAck, iBusy,
                  request, sent>>
  BY <1>3 DEF cables, adapterVars, hostVars, pins, picoVars, progVars
<1>5. UpStream(n)'
  BY <1>2, <1>3, <1>4, UpUnchanged
<1>6. (Taken' <=> Taken) /\ \A v : OnItsWay(v) => OnItsWay(v)'
  BY <1>4 DEF HasAck, Taken, OnItsWay
<1>7. ~Booting => DownStream(e, c)'
  BY <1>2, <1>4, <1>6, DownKept
<1>8. UNCHANGED callState
  BY <1>3 DEF callState, hostVars, picoVars, progVars
<1>9. Loss'
  <2>1. UNCHANGED <<prog, calls, served, frame, dropped, ard, qAck, qValid>>
    BY <1>3 DEF adapterVars, pins, hostVars, picoVars, progVars
  <2> QED BY <1>4, <2>1, LossKept
<1> QED BY <1>1, <1>5, <1>7, <1>8, <1>9, CallKept

\* At the start nothing has been asked.
LEMMA CallBegins == Init => CallInv
<1> SUFFICES ASSUME Init PROVE CallInv
  OBVIOUS
<1>1. /\ prog = "off" /\ request = <<>> /\ sent = 0 /\ reply = <<>> /\ opened = <<>> /\ calls = 0
      /\ frame = <<>> /\ served = 0 /\ dropped = FALSE /\ SpInit
  BY DEF Init, PicoInit, HostInit
<1>2. up = NoByte /\ ~InFlight /\ ~qValid
  BY DEF Init, CablesInit, AdapterInit, InFlight, HasNumber
<1>3. Booting /\ ~InCall /\ ~Called /\ ~Served
  BY <1>1 DEF Booting, InCall, Called, Served
<1>4. SpTypes
  <2> DEFINE h(i) == IF i < 3 THEN Stream(Console, IF i = 0 THEN 1 ELSE 2) ELSE Unused
             d(x) == IF x = Console THEN <<>> ELSE DiskFiles[x]
             D == DOMAIN DiskFiles \cup {Console}
  <2>1. /\ hostUp = TRUE /\ handles = [i \in 0..(MAX_HANDLE_MAP - 1) |-> h(i)]
        /\ files = [x \in D |-> d(x)]
    BY <1>1 DEF SpInit
  <2>2. ASSUME NEW m \in {1, 2} PROVE /\ Stream(Console, m) \in HandleType
                                      /\ Stream(Console, m) # Unused
                                      /\ Stream(Console, m).file = Console
    <3>1. Stream(Console, m) \in HandleType /\ Stream(Console, m).file = Console
      BY DEF Stream, HandleType
    <3>2. Unused \notin HandleType
      BY SpAssumption DEF HandleType
    <3> QED BY <3>1, <3>2
  <2>3. ASSUME NEW i \in 0..(MAX_HANDLE_MAP - 1)
        PROVE  /\ h(i) \in HandleType \cup {Unused}
               /\ i < 3 => h(i) # Unused /\ h(i).file = Console
               /\ h(i) # Unused => h(i).file = Console
    <3>1. CASE i < 3
      <4>1. PICK m \in {1, 2} : h(i) = Stream(Console, m)
        BY <3>1
      <4> QED BY <2>2, <4>1
    <3>2. CASE ~(i < 3)
      BY <3>2
    <3> QED BY <3>1, <3>2
  <2>4. ASSUME NEW x \in D PROVE d(x) \in Seq(0..255)
    <3>1. <<>> \in Seq(0..255)
      OBVIOUS
    <3> QED BY <3>1, SpAssumption
  <2> HIDE DEF h, d
  <2>5. files \in [D -> Seq(0..255)] /\ DOMAIN files = D
    BY <2>1, <2>4
  <2>6. D \subseteq Seq(0..255) \cup {Console} /\ Console \in D
    BY SpAssumption
  <2>7. handles \in [0..(MAX_HANDLE_MAP - 1) -> HandleType \cup {Unused}]
    BY <2>1, <2>3
  <2>8. /\ DOMAIN handles = 0..(MAX_HANDLE_MAP - 1)
        /\ \A i \in 0..(MAX_HANDLE_MAP - 1) : handles[i] = h(i)
    BY <2>1
  <2>9. \A i \in 0..2 : i \in 0..(MAX_HANDLE_MAP - 1) /\ i < 3
    BY SpAssumption
  <2>10. \A i \in 0..2 : handles[i] # Unused /\ handles[i].file = Console
    BY <2>3, <2>8, <2>9
  <2>11. \A i \in DOMAIN handles :
           handles[i] # Unused /\ handles[i].file # NullFile => handles[i].file \in DOMAIN files
    BY <2>3, <2>5, <2>6, <2>8
  <2> QED BY <2>1, <2>5, <2>6, <2>7, <2>10, <2>11 DEF SpTypes
<1>5. CallTypes
  <2>1. <<>> \in Seq(0..255) /\ <<>> \in Seq(Int) /\ Len(<<>>) = 0
    OBVIOUS
  <2>2. StreamsGiven
    BY <1>1 DEF StreamsGiven
  <2>3. answer = <<>>
    BY <1>1 DEF SpInit
  <2> QED BY <1>1, <1>4, <2>1, <2>2, <2>3, SizeAssumption DEF CallTypes
<1>6. Exchange
  BY <1>1, <1>3 DEF Exchange
<1>7. UpStream(HostRead)
  <2>1. HostRead = sent
    BY <1>3 DEF HostRead
  <2> QED BY <1>2, <2>1, UpNothing DEF UpStream
<1>8. Loss
  BY <1>1 DEF Loss
<1> QED BY <1>3, <1>5, <1>6, <1>7, <1>8 DEF CallInv

\* Every step keeps the invariant of the calls.
LEMMA CallStep ==
  ASSUME Matched, IInv, BootInv, CallInv, [Next]_vars
  PROVE  CallInv'
<1>1. CASE UNCHANGED vars
  BY <1>1, CallStutter
<1>2. CASE Host /\ UNCHANGED <<adapterVars, picoVars>>
  BY <1>2, CallHost
<1>3. CASE Arduino /\ UNCHANGED <<hostVars, picoVars>>
  BY <1>3, CallArduino
<1>4. CASE Chip /\ UNCHANGED <<hostVars, picoVars>>
  BY <1>4, CallChip
<1>5. CASE (Boot \/ Program) /\ UNCHANGED <<hostVars, adapterVars>>
  BY <1>5, CallBoot, CallRests, CallAsk, CallSend, CallSent, CallReply DEF Program
<1> QED BY <1>1, <1>2, <1>3, <1>4, <1>5 DEF Next

\* The three invariants together.
SystemInv == IInv /\ BootInv /\ CallInv

\* They hold for programs that stay in step.
LEMMA SystemInvariance == ASSUME Matched PROVE Spec => []SystemInv
<1>1. Spec => []IInv
  BY Invariance
<1>2. Spec => []BootInv
  BY BootFileLoads
<1>3. IInv /\ BootInv /\ CallInv /\ [Next]_vars => CallInv'
  BY CallStep
<1>4. Init => CallInv
  BY CallBegins
<1> QED BY <1>1, <1>2, <1>3, <1>4, PTL DEF Spec, SystemInv

-----------------------------------------------------------------------------
(* The theorems.                                                           *)

\* The program and the host agree where a reply ends: as long as no READ is
\* followed by another call the host has nothing left to say when the program
\* goes on.
THEOREM HostStaysInStep == ASSUME Matched PROVE Spec => []InStep
<1>1. ASSUME SystemInv PROVE InStep
  <2>1. SUFFICES ASSUME prog = "ready" \/ (prog = "asking" /\ sent < Len(request))
                 PROVE  sending = <<>>
    BY DEF InStep
  <2>2. ~Booting
    BY <2>1 DEF Booting
  <2>3. prog = "asking" => Called
    <3>1. sent \in Nat /\ Len(request) \in Nat
      BY <1>1, LenProperties DEF SystemInv, CallInv, CallTypes
    <3>2. prog = "asking" => InCall /\ ~Served
      BY <1>1, <2>1, <3>1 DEF SystemInv, CallInv, Exchange, InCall
    <3> QED BY <3>2 DEF Called, Served
  <2>4. PICK e, c : e = Sends /\ c = Got
    OBVIOUS
  <2>5. e = <<>> /\ c = 0
    BY <2>1, <2>3, <2>4 DEF Sends, Got
  <2>6. DownStream(e, c)
    BY <1>1, <2>2, <2>4, CallStreams DEF SystemInv
  <2>7. <<>> \in Seq(Int) /\ Len(<<>>) = 0
    OBVIOUS
  <2> QED BY <2>5, <2>6, <2>7, DownEnds
<1>2. Spec => []SystemInv
  BY SystemInvariance
<1> QED BY <1>1, <1>2, PTL

\* packet_loop(link, done_on_ack) throws away no byte of the program but the
\* first of a request, and no request with that byte missing is ever read,
\* let alone served: the call stops there, whatever the program and the host
\* have said before.
THEOREM OneByteIsLost == ASSUME Matched PROVE Spec => []LossStopsTheCall
<1>1. ASSUME SystemInv PROVE LossStopsTheCall
  <2>1. SUFFICES ASSUME dropped
                 PROVE  /\ prog = "asking" /\ sent \in {1, 2}
                        /\ frame = <<>> /\ served = calls
    BY DEF LossStopsTheCall
  <2>2. Lost
    BY <1>1, <2>1 DEF SystemInv, CallInv, Loss
  <2>3. sent \in {1, 2}
    BY <1>1, <2>1, LostRead DEF SystemInv
  <2> QED BY <2>2, <2>3 DEF Lost, Called
<1>2. Spec => []SystemInv
  BY SystemInvariance
<1> QED BY <1>1, <1>2, PTL

-----------------------------------------------------------------------------
(* One call.                                                               *)

\* The operators of SpProtocol are the same in SpCall.
LEMMA SameServe == ASSUME NEW f PROVE Calls!Serve(f) <=> Serve(f)
BY DEF Serve, NoReply, Open, Read, Write, Gets, Puts, GetKey, FrameLength, Short, Bytes2,
       StreamId, Stream, Least, NewHandle, Exits, Usable, Crash, Readable, ReadHead, Advance,
       Written, PutBytes, Fgets, Text, Stripped, Padded, CharValue, GetsLength, OPEN, READ, WRITE, GETS, PUTS, GETKEY,
       SP_OK, SP_ERROR, HANDLE_MAP_NONE,
       Calls!Serve, Calls!NoReply, Calls!Open, Calls!Read, Calls!Write, Calls!Gets, Calls!Puts,
       Calls!GetKey, Calls!FrameLength, Calls!Short, Calls!Bytes2, Calls!StreamId, Calls!Stream,
       Calls!Least, Calls!NewHandle, Calls!Exits, Calls!Usable, Calls!Crash, Calls!Readable,
       Calls!ReadHead, Calls!Advance, Calls!Written, Calls!PutBytes, Calls!Fgets, Calls!Text,
       Calls!Stripped, Calls!Padded,
       Calls!CharValue, Calls!GetsLength, Calls!OPEN, Calls!READ, Calls!WRITE, Calls!GETS,
       Calls!PUTS, Calls!GETKEY, Calls!SP_OK, Calls!SP_ERROR, Calls!HANDLE_MAP_NONE

\* The phase of the call, as HostSystem maps it.
Phase == IF prog \notin {"asking", "waiting"} THEN "idle"
         ELSE IF served > calls THEN "served" ELSE "called"

\* What the phase says, when the invariant holds.
LEMMA Phases ==
  ASSUME CallInv
  PROVE  /\ ~InCall => Phase = "idle"
         /\ Called => Phase = "called"
         /\ Served => Phase = "served"
<1>1. calls \in Nat /\ served \in {calls, calls + 1}
  BY DEF CallInv, CallTypes, Exchange
<1> QED BY <1>1 DEF Phase, InCall, Called, Served

\* A step that does not show.
LEMMA CallHidden ==
  ASSUME UNCHANGED <<spVars, request, result>>, Phase' = Phase
  PROVE  UNCHANGED Calls!callVars
BY DEF Calls!callVars, Calls!spVars, spVars, Phase

\* At the start nothing is called.
LEMMA CallsInit == Init => Calls!Init
<1> SUFFICES ASSUME Init PROVE Calls!Init
  OBVIOUS
<1>1. SpInit /\ prog = "off" /\ request = <<>> /\ result = <<>>
  BY DEF Init, HostInit, PicoInit
<1>2. Calls!SpInit
  BY <1>1 DEF SpInit, Calls!SpInit, Stream, Calls!Stream
<1> QED BY <1>1, <1>2 DEF Calls!Init

\* A step of the host serves the request, or does not show.
LEMMA CallsHost ==
  ASSUME SystemInv, Host, UNCHANGED <<adapterVars, picoVars>>
  PROVE  Calls!DoServe \/ UNCHANGED Calls!callVars
<1>1. UNCHANGED <<prog, request, result, calls>>
  BY DEF picoVars, progVars
<1>2. UNCHANGED <<spVars, served>> \/ (Called /\ served' = served + 1 /\ Serve(request))
  BY CallHost DEF SystemInv
<1>3. CASE UNCHANGED <<spVars, served>>
  <2>1. Phase' = Phase
    BY <1>1, <1>3 DEF Phase
  <2> QED BY <1>1, <1>3, <2>1, CallHidden
<1>4. CASE Called /\ served' = served + 1 /\ Serve(request)
  <2>1. Phase = "called"
    BY <1>4, Phases DEF SystemInv
  <2>2. Phase' = "served"
    <3>1. calls \in Nat /\ served = calls /\ prog \in {"asking", "waiting"}
      BY <1>4 DEF Called, InCall, SystemInv, CallInv, CallTypes
    <3>2. served' > calls'
      BY <1>1, <1>4, <3>1
    <3> QED BY <1>1, <3>1, <3>2 DEF Phase
  <2>3. hostUp
    <3>1. served \in Nat /\ served' # served
      BY <1>4 DEF Called, SystemInv, CallInv, CallTypes
    <3> QED BY <3>1 DEF Host, SendByte, DoneOnAck, ProcessPacket
  <2>4. Calls!Serve(request)
    BY <1>4, SameServe
  <2> QED BY <1>1, <2>1, <2>2, <2>3, <2>4 DEF Calls!DoServe, Phase
<1> QED BY <1>2, <1>3, <1>4

\* A step of the picoputer is a call, the return from one, or does not show.
LEMMA CallsPico ==
  ASSUME Matched, SystemInv, Boot \/ Program, UNCHANGED <<hostVars, adapterVars>>
  PROVE  Calls!DoCall \/ Calls!DoReturn \/ UNCHANGED Calls!callVars
<1>1. UNCHANGED <<spVars, served>>
  BY DEF hostVars
<1>2. CASE Boot \/ ReadRest
  <2>1. prog \in {"off", "rest"} /\ prog' \in {"off", "rest", "ready"}
        /\ UNCHANGED <<request, result, calls>>
    BY <1>2, CallBoot, CallRests DEF SystemInv, Booting
  <2>2. Phase' = Phase
    BY <2>1 DEF Phase
  <2> QED BY <1>1, <2>1, <2>2, CallHidden
<1>3. CASE Ask
  <2>1. CallInv' /\ request' \in Seq(0..255) /\ prog = "ready"
    BY <1>3, CallAsk DEF SystemInv
  <2>2. prog' = "asking" /\ UNCHANGED <<result, calls>>
    BY <1>3 DEF Ask
  <2>3. Phase = "idle" /\ Phase' = "called"
    <3>1. served = calls /\ calls \in Nat
      BY <2>1 DEF SystemInv, CallInv, CallTypes, Exchange, InCall
    <3>2. ~(served' > calls')
      BY <1>1, <2>2, <3>1
    <3> QED BY <2>1, <2>2, <3>2 DEF Phase
  <2> QED BY <1>1, <2>1, <2>2, <2>3 DEF Calls!DoCall, Calls!spVars, spVars, Phase
<1>4. CASE SendRequest \/ RequestSent
  <2>1. prog \in {"asking", "waiting"} /\ prog' \in {"asking", "waiting"}
        /\ UNCHANGED <<request, result, calls>>
    BY <1>4 DEF SendRequest, RequestSent
  <2>2. Phase' = Phase
    BY <1>1, <2>1 DEF Phase
  <2> QED BY <1>1, <2>1, <2>2, CallHidden
<1>5. CASE ReceiveReply
  <2>1. /\ Served
        /\ \/ UNCHANGED <<prog, calls, result>>
           \/ /\ prog' \in {"done", "ready"}
              /\ Len(answer) > 1 /\ Len(answer) >= Short(answer, 1) + 2
              /\ result' = SubSeq(answer, 1, Short(answer, 1) + 2)
    BY <1>5, CallReply DEF SystemInv
  <2>2. UNCHANGED request
    BY <1>5 DEF ReceiveReply
  <2>3. CASE UNCHANGED <<prog, calls, result>>
    <3>1. Phase' = Phase
      BY <1>1, <2>3 DEF Phase
    <3> QED BY <1>1, <2>2, <2>3, <3>1, CallHidden
  <2>4. CASE /\ prog' \in {"done", "ready"}
             /\ Len(answer) > 1 /\ Len(answer) >= Short(answer, 1) + 2
             /\ result' = SubSeq(answer, 1, Short(answer, 1) + 2)
    <3>1. Phase = "served" /\ Phase' = "idle"
      BY <2>1, <2>4, Phases DEF SystemInv, Phase
    <3>2. Calls!Short(answer, 1) = Short(answer, 1)
      BY DEF Short, Calls!Short
    <3> QED BY <1>1, <2>2, <2>4, <3>1, <3>2 DEF Calls!DoReturn, Calls!spVars, spVars, Phase
  <2> QED BY <2>1, <2>3, <2>4
<1> QED BY <1>2, <1>3, <1>4, <1>5 DEF Program

\* The whole chain is one call, whatever is asked and answered: each request
\* of the program is served once, after all of it has arrived, and what
\* returns is the answer as far as its length goes.  Nothing of send_byte(),
\* packet_loop(), loop() and the C011 shows.
THEOREM ChainIsCall == ASSUME Matched PROVE Spec => ImplementsCall
<1>1. Init => Calls!Init
  BY CallsInit
<1>2. ASSUME SystemInv, [Next]_vars PROVE [Calls!Next]_(Calls!callVars)
  <2>1. CASE UNCHANGED vars
    <3>1. UNCHANGED <<spVars, request, result, prog, served, calls>>
      BY <2>1 DEF vars, hostVars, picoVars, progVars
    <3>2. Phase' = Phase
      BY <3>1 DEF Phase
    <3> QED BY <3>1, <3>2, CallHidden
  <2>2. CASE Host /\ UNCHANGED <<adapterVars, picoVars>>
    BY <1>2, <2>2, CallsHost DEF Calls!Next
  <2>3. CASE (Arduino \/ Chip) /\ UNCHANGED <<hostVars, picoVars>>
    <3>1. UNCHANGED <<spVars, request, result, prog, served, calls>>
      BY <2>3 DEF hostVars, picoVars, progVars
    <3>2. Phase' = Phase
      BY <3>1 DEF Phase
    <3> QED BY <3>1, <3>2, CallHidden
  <2>4. CASE (Boot \/ Program) /\ UNCHANGED <<hostVars, adapterVars>>
    BY <1>2, <2>4, CallsPico DEF Calls!Next
  <2> QED BY <1>2, <2>1, <2>2, <2>3, <2>4 DEF Next
<1>3. Spec => []SystemInv
  BY SystemInvariance
<1> QED BY <1>1, <1>2, <1>3, PTL DEF Spec, ImplementsCall, Calls!Spec

-----------------------------------------------------------------------------
(* Type correctness.                                                       *)

\* A part of what the host has to send.
LEMMA StreamIsNumbers ==
  ASSUME NEW E \in Seq(Int), NEW c, DownStream(E, c)
  PROVE  sending \in Seq(Int)
<1>1. PICK p \in 0..Len(E) : sending = SubSeq(E, p + 1, Len(E))
  BY DEF DownStream
<1>2. Len(E) \in Nat
  BY LenProperties
<1>3. \A i \in (p + 1)..Len(E) : E[i] \in Int
  <2>1. ASSUME NEW i \in (p + 1)..Len(E) PROVE i \in 1..Len(E)
    BY <1>2
  <2> QED BY <2>1, ElementOfSeq
<1> QED BY <1>1, <1>2, <1>3, SubSeqProperties

\* The host sends numbers, in the bootstrap and in an answer.
LEMMA SendingNumbers == ASSUME SystemInv PROVE sending \in Seq(Int)
<1>1. PICK e, c, b : e = Sends /\ c = Got /\ b = BootTaken
  OBVIOUS
<1>2. CASE Booting
  <2>1. DownStream(BootFile, b)
    BY <1>1, <1>2 DEF SystemInv, BootInv, BootQuiet, DownStream
  <2> QED BY <2>1, BootNumbers, StreamIsNumbers
<1>3. CASE ~Booting
  <2>1. e \in Seq(Int) /\ DownStream(e, c)
    BY <1>1, <1>3, CallStreams DEF SystemInv
  <2> QED BY <2>1, StreamIsNumbers
<1> QED BY <1>2, <1>3

\* What the program sends are bytes.
LEMMA UpByte == ASSUME SystemInv PROVE up \in {NoByte} \cup 0..255
<1>1. PICK n : n = HostRead
  OBVIOUS
<1>2. UpStream(n)
  BY <1>1, CallStreams DEF SystemInv
<1>3. /\ request \in Seq(0..255) /\ sent \in Nat /\ sent <= Len(request)
      /\ Len(request) \in Nat
  BY LenProperties DEF SystemInv, CallInv, CallTypes
<1>4. ASSUME up # NoByte PROVE up \in 0..255
  <2>1. sent > 0 /\ up = request[sent]
    BY <1>2, <1>4 DEF UpStream
  <2>2. sent \in 1..Len(request)
    BY <1>3, <2>1
  <2> QED BY <1>3, <2>1, <2>2, ElementOfSeq
<1> QED BY <1>4

\* What is on the cables and the pins.
ByteTypes ==
  /\ toAdapter \in Seq(Seq(Int))
  /\ toHost \in Seq(Seq(0..255))
  /\ down \in {NoByte} \cup 0..255
  /\ qData \in 0..255 /\ qval \in 0..255

\* Packets are sequences of what is in them.
LEMMA PacketTypes ==
  /\ Ack \in Seq(0..255) /\ Ack \in Seq(Int)
  /\ \A n \in 0..255 : Number(n) \in Seq(0..255)
  /\ \A n \in Int : Number(n) \in Seq(Int)
BY DEF Ack, Number

\* The cables and the pins are empty at the start.
LEMMA BytesBegin == Init => ByteTypes
BY DEF Init, CablesInit, AdapterInit, ByteTypes

\* send_byte(), packet_loop() and process_packet().
LEMMA BytesHost ==
  ASSUME SystemInv, ByteTypes, Host, UNCHANGED adapterVars
  PROVE  ByteTypes'
<1>1. sending \in Seq(Int)
  BY SendingNumbers
<1>2. UNCHANGED <<down, qData, qval>>
  BY DEF Host, SendByte, DoneOnAck, ProcessPacket, adapterVars, pins
<1>3. toHost' \in Seq(Seq(0..255))
  <2>1. toHost' = toHost \/ (toHost # <<>> /\ toHost' = Tail(toHost))
    BY DEF Host, SendByte, DoneOnAck, ProcessPacket
  <2> QED BY <2>1, HeadTailProperties DEF ByteTypes
<1>4. toAdapter' \in Seq(Seq(Int))
  <2>1. CASE SendByte
    <3>1. sending # <<>> /\ toAdapter' = Append(toAdapter, Number(Head(sending)))
      BY <2>1 DEF SendByte
    <3>2. Head(sending) \in Int
      BY <1>1, <3>1, HeadTailProperties
    <3>3. Number(Head(sending)) \in Seq(Int)
      BY <3>2, PacketTypes
    <3> QED BY <3>1, <3>3, AppendProperties DEF ByteTypes
  <2>2. CASE DoneOnAck
    BY <2>2 DEF DoneOnAck, ByteTypes
  <2>3. CASE ProcessPacket
    <3>1. toAdapter' = Append(toAdapter, Ack)
      BY <2>3 DEF ProcessPacket
    <3> QED BY <3>1, PacketTypes, AppendProperties DEF ByteTypes
  <2> QED BY <2>1, <2>2, <2>3 DEF Host
<1> QED BY <1>2, <1>3, <1>4 DEF ByteTypes

\* loop().
LEMMA BytesArduino ==
  ASSUME ByteTypes, Arduino
  PROVE  ByteTypes'
<1>1. CASE ReadSerial
  <2>1. PICK n \in 0..Len(toAdapter) : toAdapter' = SubSeq(toAdapter, n + 1, Len(toAdapter))
    BY <1>1 DEF ReadSerial
  <2>2. UNCHANGED <<toHost, down, qData, qval>>
    BY <1>1 DEF ReadSerial
  <2>3. toAdapter \in Seq(Seq(Int)) /\ Len(toAdapter) \in Nat
    BY LenProperties DEF ByteTypes
  <2>4. \A i \in (n + 1)..Len(toAdapter) : toAdapter[i] \in Seq(Int)
    <3>1. ASSUME NEW i \in (n + 1)..Len(toAdapter) PROVE i \in 1..Len(toAdapter)
      BY <2>3
    <3> QED BY <2>3, <3>1, ElementOfSeq
  <2>5. toAdapter' \in Seq(Seq(Int))
    BY <2>1, <2>3, <2>4, SubSeqProperties
  <2> QED BY <2>2, <2>5 DEF ByteTypes
<1>2. CASE LookAtIAck
  <2>1. toHost' = toHost \/ toHost' = Append(toHost, Ack)
    BY <1>2 DEF LookAtIAck, PassIAckOn
  <2>2. UNCHANGED <<toAdapter, down, qData, qval>>
    BY <1>2 DEF LookAtIAck
  <2>3. toHost' \in Seq(Seq(0..255))
    <3>1. Append(toHost, Ack) \in Seq(Seq(0..255))
      BY PacketTypes, AppendProperties DEF ByteTypes
    <3> QED BY <2>1, <3>1 DEF ByteTypes
  <2> QED BY <2>2, <2>3 DEF ByteTypes
<1>4. CASE LookAtQValid
  <2>1. UNCHANGED <<toAdapter, toHost, down, qData>> /\ qval' \in {qval, qData}
    BY <1>4 DEF LookAtQValid, cables
  <2> QED BY <2>1 DEF ByteTypes
<1>3. CASE QValidFell
  <2>1. toHost' = Append(toHost, Number(qval)) /\ UNCHANGED <<toAdapter, down, qData, qval>>
    BY <1>3 DEF QValidFell, pins
  <2>2. toHost' \in Seq(Seq(0..255))
    BY <2>1, PacketTypes, AppendProperties DEF ByteTypes
  <2> QED BY <2>1, <2>2 DEF ByteTypes
<1> QED BY <1>1, <1>2, <1>3, <1>4 DEF Arduino

\* The C011.
LEMMA BytesChip ==
  ASSUME SystemInv, ByteTypes, Chip
  PROVE  ByteTypes'
<1>1. UNCHANGED <<toAdapter, toHost, qval>>
  BY DEF Chip, ChipSend, ChipAcked, ChipPresents, ChipTaken, cables
<1>2. down' \in {down, iData}
  BY DEF Chip, ChipSend, ChipAcked, ChipPresents, ChipTaken, cables
<1>3. qData' = qData \/ (up # NoByte /\ qData' = up)
  BY DEF Chip, ChipSend, ChipAcked, ChipPresents, ChipTaken
<1>4. iData \in 0..255
  BY DEF SystemInv, IInv, PinTypes
<1> QED BY <1>1, <1>2, <1>3, <1>4, UpByte DEF ByteTypes

\* The picoputer takes bytes and sends those of its request.
LEMMA BytesPico ==
  ASSUME ByteTypes, Boot \/ Program, UNCHANGED adapterVars
  PROVE  ByteTypes'
<1>1. UNCHANGED <<toAdapter, toHost, qData, qval>> /\ down' \in {down, NoByte}
  BY DEF Boot, BootStart, BootLoad, StartProgram, Program, ReadRest, Ask, SendRequest,
         RequestSent, ReceiveReply, adapterVars, pins, cables
<1> QED BY <1>1 DEF ByteTypes

\* The state of the three machines has the shape declared: none of them is
\* ever handed what is not a byte, and the bootstrap stays in the memory.
THEOREM TypeCorrect == ASSUME Matched PROVE Spec => []TypeOK
<1>1. ASSUME SystemInv, ByteTypes, [Next]_vars PROVE ByteTypes'
  <2>1. CASE UNCHANGED vars
    BY <1>1, <2>1 DEF ByteTypes, vars, cables, adapterVars, pins
  <2> QED BY <1>1, <2>1, BytesHost, BytesArduino, BytesChip, BytesPico DEF Next
<1>2. ASSUME SystemInv, ByteTypes PROVE TypeOK
  <2>1. /\ iData \in 0..255 /\ ard \in {"serial", "iack", "qvalid", "wait"}
        /\ {iValid, iAck, iBusy, qValid, qAck} \subseteq BOOLEAN /\ awaiting \in BOOLEAN
    BY <1>2 DEF SystemInv, IInv, PinTypes
  <2>2. hostUp \in BOOLEAN /\ dropped \in BOOLEAN /\ frame \in Seq(0..255)
    BY <1>2 DEF SystemInv, CallInv, CallTypes, SpTypes, Exchange
  <2>3. /\ boot_done \in BOOLEAN /\ memory \in [0..(MemSize - 1) -> 0..255]
        /\ prog \in {"off", "rest", "ready", "asking", "waiting", "done"}
        /\ boot_write_index \in 0..MemSize
    <3>1. LoadInv
      BY <1>2 DEF SystemInv, BootInv
    <3>2. boot_write_index \in 0..MemSize
      <4>1. CASE handler = "start"
        BY <3>1, <4>1, SizeAssumption DEF LoadInv
      <4>2. CASE handler = "booting"
        <5>1. /\ boot_write_index \in Nat /\ boot_write_index <= BootFile[1]
              /\ BootFile[1] <= MemSize /\ BootFile # <<>>
          BY <3>1, <4>2, MemoryAssumption DEF LoadInv
        <5>2. BootFile[1] \in Int
          BY <5>1, BootNumbers, HeadTailProperties
        <5> QED BY <5>1, <5>2, SizeAssumption
      <4> QED BY <3>1, <4>1, <4>2 DEF LoadInv
    <3> QED BY <3>1, <3>2 DEF LoadInv
  <2> QED BY <1>2, <2>1, <2>2, <2>3, SendingNumbers, UpByte DEF TypeOK, ByteTypes
<1>3. Spec => []SystemInv
  BY SystemInvariance
<1> QED BY <1>1, <1>2, <1>3, BytesBegin, PTL DEF Spec

-----------------------------------------------------------------------------
(* Streams.                                                                *)

\* The map has room for a stream from each call.
Room == MaxCalls + 3 <= MAX_HANDLE_MAP

\* The stream id has just been opened for the request f.
GivenTo(f, id) ==
  /\ id \in DOMAIN handles /\ handles[id] # Unused
  /\ handles[id].file \in {SubSeq(f, 6, 5 + Short(f, 4)), NullFile}
  /\ \A j \in DOMAIN opened : opened[j].stream # id

\* Each call takes one entry of the map at most.  The stream of an OPEN that
\* is served and has not returned is nobody's yet.
StreamsInv ==
  /\ \A i \in DOMAIN handles : i >= 3 + served => handles[i] = Unused
  /\ StreamsKeepTheirFile
  /\ Served /\ request[3] = OPEN /\ answer # <<>> => GivenTo(request, Short(answer, 4))

\* A step that neither serves nor returns.
LEMMA StreamsStay ==
  ASSUME StreamsInv, UNCHANGED <<handles, answer, served, opened>>,
         Served' => Served /\ request' = request
  PROVE  StreamsInv'
<1>1. StreamsKeepTheirFile'
  BY DEF StreamsInv, StreamsKeepTheirFile
<1>2. ASSUME Served', request'[3] = OPEN, answer' # <<>>
      PROVE  GivenTo(request, Short(answer, 4))'
  BY <1>2 DEF StreamsInv, GivenTo, Short
<1> QED BY <1>1, <1>2 DEF StreamsInv

\* At the start there are the streams of the console, and none is given.
LEMMA StreamsBegin == Init => StreamsInv
<1> SUFFICES ASSUME Init PROVE StreamsInv
  OBVIOUS
<1>1. SpInit /\ opened = <<>> /\ prog = "off" /\ served = 0
  BY DEF Init, HostInit, PicoInit
<1>2. \A i \in DOMAIN handles : i >= 3 => handles[i] = Unused
  BY <1>1, SpAssumption DEF SpInit
<1>3. DOMAIN opened = {}
  BY <1>1
<1>4. ~Served
  BY <1>1 DEF Served, InCall
<1> QED BY <1>1, <1>2, <1>3, <1>4 DEF StreamsInv, StreamsKeepTheirFile

\* A request is served.
LEMMA StreamsServed ==
  ASSUME Room, SystemInv, StreamsInv, Called, Serve(request), served' = served + 1,
         UNCHANGED <<opened, request>>
  PROVE  StreamsInv'
<1>1. /\ served = calls /\ calls \in Nat /\ calls < MaxCalls /\ WellFormed(request)
      /\ SpTypes
  BY DEF Called, SystemInv, CallInv, CallTypes, Exchange
<1>2. DOMAIN handles = 0..(MAX_HANDLE_MAP - 1) /\ MAX_HANDLE_MAP \in Nat
  BY <1>1, SpAssumption DEF SpTypes
<1>3. \/ SameFiles /\ (request[3] = OPEN => answer' = <<>>)
      \/ request[3] = OPEN /\ Open(request)
  BY <1>1, ServeAnswers, ServeOpen
<1>4. CASE SameFiles /\ (request[3] = OPEN => answer' = <<>>)
  <2>1. \A i \in DOMAIN handles' : i >= 3 + served' => handles'[i] = Unused
    BY <1>1, <1>2, <1>4 DEF SameFiles, StreamsInv
  <2>2. StreamsKeepTheirFile'
    BY <1>4 DEF SameFiles, StreamsInv, StreamsKeepTheirFile
  <2> QED BY <1>4, <2>1, <2>2 DEF StreamsInv
<1>5. CASE request[3] = OPEN /\ Open(request)
  <2>1. 3 + served \in DOMAIN handles /\ handles[3 + served] = Unused
    <3>1. 3 + served \in DOMAIN handles
      BY <1>1, <1>2, SizeAssumption DEF Room
    <3> QED BY <1>1, <3>1 DEF StreamsInv
  <2>2. PICK k : k = 3 + served /\ k \in DOMAIN handles
    BY <2>1
  <2>3. PICK id \in 0..k : OpenGave(request, id)
    BY <1>1, <1>5, <2>1, <2>2, OpenGives
  <2>4. /\ id \in DOMAIN handles /\ handles[id] = Unused /\ DOMAIN handles' = DOMAIN handles
        /\ handles'[id] # Unused
        /\ handles'[id].file \in {SubSeq(request, 6, 5 + Short(request, 4)), NullFile}
        /\ \A i \in DOMAIN handles : i # id => handles'[i] = handles[i]
        /\ Short(answer', 4) = id
    BY <2>3 DEF OpenGave
  <2>5. \A i \in DOMAIN handles' : i >= 3 + served' => handles'[i] = Unused
    <3>1. ASSUME NEW i \in DOMAIN handles, i >= 3 + served' PROVE handles'[i] = Unused
      <4>1. i >= 3 + served /\ i # id
        BY <1>1, <1>2, <2>2, <2>3, <3>1
      <4> QED BY <2>4, <4>1 DEF StreamsInv
    <3> QED BY <2>4, <3>1
  <2>6. \A j \in DOMAIN opened : opened[j].stream # id
    BY <2>4 DEF StreamsInv, StreamsKeepTheirFile
  <2>7. StreamsKeepTheirFile'
    BY <2>4, <2>6 DEF StreamsInv, StreamsKeepTheirFile
  <2>8. GivenTo(request, Short(answer, 4))'
    BY <2>4, <2>6 DEF GivenTo, Short
  <2> QED BY <2>5, <2>7, <2>8 DEF StreamsInv
<1> QED BY <1>3, <1>4, <1>5

\* The last byte of a reply: what an OPEN was given is remembered.
LEMMA StreamsReply ==
  ASSUME Matched, SystemInv, StreamsInv, ReceiveReply, UNCHANGED <<hostVars, adapterVars>>
  PROVE  StreamsInv'
<1>1. UNCHANGED <<handles, answer, served, request>>
  BY DEF hostVars, spVars, ReceiveReply
<1>2. /\ Served
      /\ \/ UNCHANGED <<prog, calls, result>>
         \/ /\ answer # <<>> /\ prog' \in {"done", "ready"}
            /\ result' = SubSeq(answer, 1, Short(answer, 1) + 2)
  BY CallReply DEF SystemInv
<1>3. CASE ~WholeReply(reply')
  <2>1. UNCHANGED opened
    BY <1>3 DEF ReceiveReply
  <2> QED BY <1>1, <1>2, <2>1, StreamsStay
<1>4. CASE WholeReply(reply')
  <2>1. /\ calls' = calls + 1 /\ result' = reply' /\ calls \in Nat
        /\ opened' = IF request[3] = OPEN THEN Append(opened, Opened(request, reply')) ELSE opened
    BY <1>4 DEF ReceiveReply, SystemInv, CallInv, CallTypes
  <2>2. /\ answer # <<>> /\ prog' \in {"done", "ready"}
        /\ reply' = SubSeq(answer, 1, Short(answer, 1) + 2)
    BY <1>2, <2>1
  <2>3. ~Served'
    BY <2>2 DEF Served, InCall
  <2>4. CASE request[3] # OPEN
    BY <1>1, <2>1, <2>3, <2>4, StreamsStay
  <2>5. CASE request[3] = OPEN
    <3>1. reply' = answer
      <4>1. answer \in Seq(Int) /\ Fits(request, answer) /\ request[3] # READ
        BY <1>2, <2>5 DEF SystemInv, CallInv, CallTypes, Exchange, OPEN, READ
      <4>2. Len(answer) = Short(answer, 1) + 2
        BY <2>2, <4>1 DEF Fits
      <4>3. SubSeq(answer, 1, Len(answer)) = answer
        BY <4>1, SubSeqFull
      <4> QED BY <2>2, <4>2, <4>3
    <3>2. PICK id, o, x : /\ id = Short(answer, 4) /\ o = opened
                          /\ x = Opened(request, answer)
      OBVIOUS
    <3>3. /\ id \in DOMAIN handles /\ handles[id] # Unused
          /\ handles[id].file \in {SubSeq(request, 6, 5 + Short(request, 4)), NullFile}
          /\ \A j \in DOMAIN o : o[j].stream # id
      BY <1>2, <2>2, <2>5, <3>2 DEF StreamsInv, GivenTo
    <3>4. x.stream = id /\ x.name = SubSeq(request, 6, 5 + Short(request, 4))
      BY <3>2 DEF Opened
    <3>5. opened' = Append(o, x)
      BY <2>1, <2>5, <3>1, <3>2
    <3>6. /\ DOMAIN opened' = DOMAIN o \cup {Len(o) + 1}
          /\ opened'[Len(o) + 1] = x
          /\ \A i \in DOMAIN o : opened'[i] = o[i]
      <4>1. PICK T : T = [name : Seq(0..255), stream : ShortValue]
        OBVIOUS
      <4>2. o \in Seq(T)
        BY <3>2, <4>1 DEF SystemInv, CallInv, CallTypes, StreamsGiven
      <4>3. opened' \in Seq(T)
        BY <4>1, CallReply DEF SystemInv, CallInv, CallTypes, StreamsGiven
      <4>4. Len(o) \in Nat /\ DOMAIN o = 1..Len(o)
        BY <4>2, LenProperties
      <4> QED BY <3>5, <4>2, <4>4
    <3>7. StreamsKeepTheirFile'
      <4> SUFFICES ASSUME NEW i \in DOMAIN opened'
                   PROVE  /\ opened'[i].stream \in DOMAIN handles
                          /\ handles[opened'[i].stream] # Unused
                          /\ handles[opened'[i].stream].file \in {opened'[i].name, NullFile}
                          /\ \A j \in DOMAIN opened' :
                               opened'[j].stream = opened'[i].stream => j = i
        BY <1>1 DEF StreamsKeepTheirFile
      <4>1. CASE i = Len(o) + 1
        <5>1. opened'[i] = x
          BY <3>6, <4>1
        <5> QED BY <3>3, <3>4, <3>6, <4>1, <5>1
      <4>2. CASE i \in DOMAIN o
        <5>1. opened'[i] = o[i]
          BY <3>6, <4>2
        <5>2. /\ o[i].stream \in DOMAIN handles /\ handles[o[i].stream] # Unused
              /\ handles[o[i].stream].file \in {o[i].name, NullFile}
              /\ \A j \in DOMAIN o : o[j].stream = o[i].stream => j = i
          BY <3>2, <4>2 DEF StreamsInv, StreamsKeepTheirFile
        <5>3. o[i].stream # id
          BY <3>3, <4>2
        <5>4. ASSUME NEW j \in DOMAIN opened', opened'[j].stream = opened'[i].stream PROVE j = i
          <6>1. CASE j \in DOMAIN o
            BY <3>6, <5>1, <5>2, <5>4, <6>1
          <6>2. CASE j = Len(o) + 1
            BY <3>4, <3>6, <5>1, <5>3, <5>4, <6>2
          <6> QED BY <3>6, <6>1, <6>2
        <5> QED BY <5>1, <5>2, <5>4
      <4> QED BY <3>6, <4>1, <4>2
    <3> QED BY <1>1, <2>3, <3>7 DEF StreamsInv
  <2> QED BY <2>4, <2>5
<1> QED BY <1>3, <1>4

\* Every step keeps the streams.
LEMMA StreamsStep ==
  ASSUME Matched, Room, SystemInv, StreamsInv, [Next]_vars
  PROVE  StreamsInv'
<1>1. CASE UNCHANGED vars
  <2>1. UNCHANGED <<handles, answer, served, opened, prog, calls, request>>
    BY <1>1 DEF vars, hostVars, spVars, picoVars, progVars
  <2>2. Served' => Served
    BY <2>1 DEF Served, InCall
  <2> QED BY <2>1, <2>2, StreamsStay
<1>2. CASE Host /\ UNCHANGED <<adapterVars, picoVars>>
  <2>1. UNCHANGED <<opened, prog, calls, request>>
    BY <1>2 DEF picoVars, progVars
  <2>2. \/ UNCHANGED <<spVars, served>>
        \/ Called /\ served' = served + 1 /\ Serve(request)
    BY <1>2, CallHost DEF SystemInv
  <2>3. CASE UNCHANGED <<spVars, served>>
    <3>1. Served' => Served
      BY <2>1, <2>3 DEF Served, InCall
    <3> QED BY <2>1, <2>3, <3>1, StreamsStay DEF spVars
  <2> QED BY <2>1, <2>2, <2>3, StreamsServed
<1>3. CASE (Arduino \/ Chip) /\ UNCHANGED <<hostVars, picoVars>>
  <2>1. UNCHANGED <<handles, answer, served, opened, prog, calls, request>>
    BY <1>3 DEF hostVars, spVars, picoVars, progVars
  <2>2. Served' => Served
    BY <2>1 DEF Served, InCall
  <2> QED BY <2>1, <2>2, StreamsStay
<1>4. CASE (Boot \/ Program) /\ UNCHANGED <<hostVars, adapterVars>>
  <2>1. UNCHANGED <<handles, answer, served>>
    BY <1>4 DEF hostVars, spVars
  <2>2. CASE Boot \/ ReadRest
    <3>1. prog' \in {"off", "rest", "ready"}
      BY <1>4, <2>2, CallBoot, CallRests DEF SystemInv
    <3>2. UNCHANGED opened
      BY <2>2 DEF Boot, BootStart, BootLoad, StartProgram, ReadRest, progVars
    <3> QED BY <2>1, <3>1, <3>2, StreamsStay DEF Served, InCall
  <2>3. CASE Ask
    <3>1. served = calls /\ UNCHANGED <<opened, calls>>
      BY <2>3 DEF Ask, SystemInv, CallInv, Exchange, InCall
    <3> QED BY <2>1, <3>1, StreamsStay DEF Served
  <2>4. CASE SendRequest \/ RequestSent
    <3>1. prog \in {"asking", "waiting"} /\ UNCHANGED <<opened, calls, request>>
      BY <2>4 DEF SendRequest, RequestSent
    <3> QED BY <2>1, <3>1, StreamsStay DEF Served, InCall
  <2> QED BY <1>4, <2>2, <2>3, <2>4, StreamsReply DEF Program
<1> QED BY <1>1, <1>2, <1>3, <1>4 DEF Next

\* As long as the map has room, a stream the program was given stays that of
\* the file it asked for, and is given to no other: what later calls write,
\* read and open does not change that.
THEOREM StreamsAreKept == ASSUME Matched, Room PROVE Spec => []StreamsKeepTheirFile
<1>1. SystemInv /\ StreamsInv /\ [Next]_vars => StreamsInv'
  BY StreamsStep
<1>2. StreamsInv => StreamsKeepTheirFile
  BY DEF StreamsInv
<1>3. Spec => []SystemInv
  BY SystemInvariance
<1> QED BY <1>1, <1>2, <1>3, StreamsBegin, PTL DEF Spec
=============================================================================
