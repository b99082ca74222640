----------------------------- MODULE HostServer -----------------------------
(***************************************************************************)
(* The server on the host PC: ardlink-server.c.  main() sends every byte   *)
(* of the boot file and then serves the requests of the program.  Each     *)
(* byte sent is followed by a packet_loop() of its own that runs until the *)
(* ACK of that byte comes in (awaiting) and drops whatever else it reads;  *)
(* the outermost packet_loop() acknowledges each byte it receives and adds *)
(* it to the frame, whose last byte makes it serve the request.            *)
(***************************************************************************)
EXTENDS Cables, SpProtocol

CONSTANT BootFile     \* the bytes of the boot file

ASSUME BootAssumption == BootFile \in Seq(0..255)

VARIABLES
  sending,    \* the numbers it has still to send
  awaiting,   \* it is in packet_loop(link, done_on_ack)
  frame,      \* the bytes of the request read so far
  served,     \* history: how many requests it has served
  dropped     \* history: packet_loop(link, done_on_ack) has read a number

hostVars == <<spVars, sending, awaiting, frame, served, dropped>>

HostInit ==
  /\ SpInit
  /\ sending = BootFile
  /\ awaiting = FALSE
  /\ frame = <<>>
  /\ served = 0
  /\ dropped = FALSE

\* send_byte(), and into packet_loop(link, done_on_ack).
SendByte_NoWait ==
  /\ sending # <<>>
  /\ toAdapter' = Append(toAdapter, Number(Head(sending)))
  /\ sending' = Tail(sending)
  /\ UNCHANGED <<toHost, down, up, spVars, awaiting, frame, served, dropped>>
SendByte ==
  /\ ~awaiting /\ sending # <<>>
  /\ toAdapter' = Append(toAdapter, Number(Head(sending)))
  /\ sending' = Tail(sending)
  /\ awaiting' = TRUE
  /\ UNCHANGED <<toHost, down, up, spVars, frame, served, dropped>>

\* done_on_ack(): an ACK ends the loop, and nothing else is looked at.
DoneOnAck_Acknowledges ==
  /\ awaiting /\ toHost # <<>>
  /\ awaiting' = IsData(Head(toHost))
  /\ dropped' = (dropped \/ IsData(Head(toHost)))
  /\ toHost' = Tail(toHost)
  /\ toAdapter' = IF IsData(Head(toHost)) THEN Append(toAdapter, Ack) ELSE toAdapter
  /\ UNCHANGED <<down, up, spVars, sending, frame, served>>
DoneOnAck ==
  /\ awaiting /\ toHost # <<>>
  /\ awaiting' = IsData(Head(toHost))
  /\ dropped' = (dropped \/ IsData(Head(toHost)))
  /\ toHost' = Tail(toHost)
  /\ UNCHANGED <<toAdapter, down, up, spVars, sending, frame, served>>

\* sscanf() of an ACK sets nothing, and the variable is not initialised.
Value(packet) == IF IsData(packet) THEN {packet[1]} ELSE Garbage

Complete(f) == Len(f) >= 2 /\ Len(f) = FrameLength(f) + 2

\* frame_n = 0 and in_frame = 0 after the last byte of a frame.
FrameAfter(f) == IF Complete(f) THEN <<>> ELSE f

\* A request is served and its reply is sent from the start.
ServeFrame_CountLeftOut(f) ==
  /\ Serve(f)
  /\ sending' = IF answer' = <<>> THEN <<>> ELSE [answer' EXCEPT ![1] = @ - 2]
  /\ served' = served + 1
ServeFrame(f) ==
  Serve(f) /\ sending' = answer' /\ served' = served + 1

\* process_packet(): acknowledge first, then process_sp_traffic().
ProcessPacket ==
  /\ hostUp /\ ~awaiting /\ sending = <<>> /\ toHost # <<>>
  /\ toAdapter' = Append(toAdapter, Ack)
  /\ toHost' = Tail(toHost)
  /\ \E b \in Value(Head(toHost)) :
       LET f == Append(frame, b) IN
       /\ frame' = FrameAfter(f)
       /\ IF Complete(f)
            THEN ServeFrame(f)
            ELSE UNCHANGED <<spVars, sending, served>>
  /\ UNCHANGED <<down, up, awaiting, dropped>>

Host == SendByte \/ DoneOnAck \/ ProcessPacket
=============================================================================
