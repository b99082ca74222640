----------------------------- MODULE HostSystem -----------------------------
(***************************************************************************)
(* The whole chain: the server on the host, the link adapter, and the      *)
(* picoputer, from the first byte of the boot file to the calls of the     *)
(* program.                                                                *)
(***************************************************************************)
EXTENDS LinkAdapter, HostServer, Picoputer

\* The memory has room for what the bootstrap loads.
ASSUME MemoryAssumption == BootFile # <<>> => BootFile[1] <= MemSize

vars == <<cables, adapterVars, hostVars, picoVars>>

Init == CablesInit /\ AdapterInit /\ HostInit /\ PicoInit

Next ==
  \/ Host              /\ UNCHANGED <<adapterVars, picoVars>>
  \/ Arduino           /\ UNCHANGED <<hostVars, picoVars>>
  \/ Chip              /\ UNCHANGED <<hostVars, picoVars>>
  \/ (Boot \/ Program) /\ UNCHANGED <<hostVars, adapterVars>>

Spec == Init /\ [][Next]_vars

\* Each program runs on a machine of its own.  A character that has been
\* written arrives in some pass of loop().
FairSpec ==
  /\ Spec
  /\ WF_vars(Host /\ UNCHANGED <<adapterVars, picoVars>>)
  /\ SF_vars(ReadSerial /\ toAdapter' # toAdapter /\ UNCHANGED <<hostVars, picoVars>>)
  /\ WF_vars(Arduino /\ UNCHANGED <<hostVars, picoVars>>)
  /\ WF_vars(Chip /\ UNCHANGED <<hostVars, picoVars>>)
  /\ WF_vars((Boot \/ Program) /\ UNCHANGED <<hostVars, adapterVars>>)

-----------------------------------------------------------------------------
(* Properties.                                                             *)

\* Type correctness: the state of all three machines has the shape declared.
TypeOK ==
  /\ toAdapter \in Seq(Seq(Int))
  /\ toHost \in Seq(Seq(0..255))
  /\ down \in {NoByte} \cup 0..255
  /\ up \in {NoByte} \cup 0..255
  /\ ard \in {"serial", "iack", "qvalid", "wait"}
  /\ iData \in 0..255 /\ qData \in 0..255 /\ qval \in 0..255
  /\ {iValid, iAck, iBusy, qValid, qAck} \subseteq BOOLEAN
  /\ {hostUp, awaiting, dropped, boot_done} \subseteq BOOLEAN
  /\ sending \in Seq(Int)
  /\ frame \in Seq(0..255)
  /\ boot_write_index \in 0..MemSize
  /\ memory \in [0..(MemSize - 1) -> 0..255]
  /\ prog \in {"off", "rest", "ready", "asking", "waiting", "done"}

\* The bytes on their way from the host to the picoputer: on the serial
\* line, on the I pins, on the link.  (The C011 holds a byte it has sent on
\* and the pins still show.)
OnSerial == {i \in DOMAIN toAdapter : IsData(toAdapter[i])}
OnPins == iValid /\ ~iAck

\* The host never has more than one byte under way to the picoputer, and
\* none once it has seen the ACK: what send_byte() and packet_loop() are
\* paired for.  A second byte would overwrite the first on the I pins.
OneByteDown ==
  /\ \A i, j \in OnSerial : i = j
  /\ OnPins => OnSerial = {}
  /\ down # NoByte => OnPins
  /\ OnSerial # {} \/ OnPins => awaiting

\* No serial buffer ever holds more than an ACK and a data packet.
SerialBounded == Len(toAdapter) <= 2 /\ Len(toHost) <= 2

\* The ACKs pace all three machines: no byte runs over another one, whatever
\* the program sends and the host answers, and although the byte a program
\* sends may overtake the ACK of the last byte it was sent.
FlowControlled == OneByteDown /\ SerialBounded

\* The bootstrap stores the bytes of the boot file after the length, in
\* order, from MemStart on, all of them before the program runs; what
\* follows in the file is what the program reads itself.
BootImage ==
  /\ \A a \in 0..(boot_write_index - 1) : memory[a] = BootFile[a + 2]
  /\ boot_done <=> (handler = "booting" /\ boot_write_index = BootFile[1])
  /\ \A i \in 1..Len(rest) : rest[i] = BootFile[BootFile[1] + 1 + i]

\* When the program goes on after a call the host has nothing left to say:
\* both agree where a reply ends.
InStep ==
  prog = "ready" \/ (prog = "asking" /\ sent < Len(request)) => sending = <<>>

\* packet_loop(link, done_on_ack) throws away the data packets it reads.  All
\* it ever throws away is the first byte of a request, when it has overtaken
\* the ACK of the last byte to the picoputer; as that byte is not acknowledged
\* the program comes no further than the second, and the host neither reads
\* nor serves a request with a byte missing.
LossStopsTheCall ==
  dropped => /\ prog = "asking" /\ sent \in {1, 2}
             /\ frame = <<>> /\ served = calls

\* A stream the program was given stays its own: it is that of the file it
\* asked for, and no later one is given the same number.
StreamsKeepTheirFile ==
  \A i \in DOMAIN opened :
    /\ opened[i].stream \in DOMAIN handles
    /\ handles[opened[i].stream] # Unused
    /\ handles[opened[i].stream].file \in {opened[i].name, NullFile}
    /\ \A j \in DOMAIN opened : opened[j].stream = opened[i].stream => j = i

\* The whole chain is a call: each request is served once, as a whole, and
\* what returns is the answer.
Calls == INSTANCE SpCall WITH
  phase    <- IF prog \notin {"asking", "waiting"} THEN "idle"
              ELSE IF served > calls THEN "served" ELSE "called",
  asked    <- request,
  returned <- result
ImplementsCall == Calls!Spec

\* The program is started: the whole boot file goes through.
Started == <>(prog = "ready")

\* The subset of SP the server responds to.
Answerable == FrameLength(request) >= 6
                /\ request[3] \in {OPEN, READ, WRITE, GETS, PUTS, GETKEY}

\* Every such call of the program returns, or the server has ended, or it has
\* thrown away the first byte of the request.
Answered ==
  prog = "asking" /\ Answerable ~> prog \in {"ready", "done"} \/ ~hostUp \/ dropped

\* Every byte that loop() has taken from the Q pins is acknowledged by the
\* host in the end: "We wait for ACK from the host".
HostAcknowledges == qAck ~> ~qAck
=============================================================================
