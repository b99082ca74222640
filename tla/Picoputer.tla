----------------------------- MODULE Picoputer -----------------------------
(***************************************************************************)
(* The picoputer's end: main() of picoputer1.c calls bootloop() until      *)
(* boot_done, so that the handlers of link_in_data_fp store the program    *)
(* that comes in over the link, and then mainloop(), which starts it.      *)
(*                                                                         *)
(* The program is external.  Like a transputer's bootstrap it first reads  *)
(* the rest of the boot file, RestLength bytes, and then makes calls: it   *)
(* sends a request, receives a length and as many bytes, and goes on.      *)
(* Addresses are relative to MemStart, which is word aligned.              *)
(***************************************************************************)
EXTENDS Cables, SpProtocol

CONSTANTS
  MemSize,      \* bytes of memory
  RestLength,   \* how much the program reads before its first call
  Call,         \* the calls a program may make
  LastCall,     \* calls it makes only as its last one
  MaxCalls      \* bound: how many it makes

ASSUME SizeAssumption == MemSize \in Nat /\ RestLength \in Nat /\ MaxCalls \in Nat

\* The server has room for a request of MAX_FRAME bytes, length included, for
\* a file name of 39 characters, and for a line of 1999.
MAX_FRAME == 1024 + 2
MAX_LINE == 2000

\* What goes into the two bytes of a field.
ShortValue == 0..(256 * 256 - 1)

\* What the program may ask for with a call.
WellMade(c) ==
  /\ c.tag \in 0..255
  /\ c.tag = OPEN => c.name \in Seq(0..255) /\ Len(c.name) < 40 /\ c.mode \in {1, 2}
  /\ c.tag = READ => c.length \in ShortValue
  /\ c.tag = GETS => c.length \in 2..MAX_LINE
  /\ c.tag \in {WRITE, PUTS} => c.data \in Seq(0..255) /\ Len(c.data) <= MAX_FRAME - 10
  /\ c.tag = PUTS => c.stream \in ShortValue
  /\ c.tag \notin {OPEN, READ, GETS, WRITE, PUTS} =>
       c.body \in Seq(0..255) /\ Len(c.body) <= MAX_FRAME - 4

ASSUME CallAssumption == \A c \in Call \cup LastCall : WellMade(c)

VARIABLES
  handler,                \* link_in_data_fp: "start" or "booting"
  boot_length_remaining,
  boot_write_index,
  boot_done,
  memory,                 \* address -> byte
  WPtr,
  prog,                   \* the program: "off", "rest", "ready", "asking",
                          \* "waiting", "done"
  rest,                   \* the bytes of the boot file it has read itself
  request, sent,          \* its request, and how many bytes are sent
  reply, result,          \* the reply so far, and the last whole one
  opened,                 \* the streams it was given, oldest first
  calls                   \* how many calls have returned

bootVars == <<handler, boot_length_remaining, boot_write_index, boot_done,
              memory>>
progVars == <<rest, request, sent, reply, result, opened, calls>>
picoVars == <<bootVars, WPtr, prog, progVars>>

PicoInit ==
  /\ handler = "start"
  /\ boot_length_remaining = 0
  /\ boot_write_index = 0
  /\ boot_done = FALSE
  /\ memory = [a \in 0..(MemSize - 1) |-> 0]
  /\ WPtr = 0
  /\ prog = "off"
  /\ rest = <<>>
  /\ request = <<>> /\ sent = 0
  /\ reply = <<>> /\ result = <<>>
  /\ opened = <<>>
  /\ calls = 0

-----------------------------------------------------------------------------
(* The bootstrap.                                                          *)

\* link_in_boot_start_data(): a byte below 2 is not acknowledged.
BootStart ==
  /\ ~boot_done /\ handler = "start"
  /\ down # NoByte /\ down >= 2
  /\ boot_length_remaining' = down
  /\ down' = NoByte
  /\ handler' = "booting"
  /\ UNCHANGED <<toAdapter, toHost, up, boot_write_index, boot_done, memory,
                 WPtr, prog, progVars>>

\* The address of the next byte, and whether it is the last one.
BootAddress_Next == boot_write_index + 1
BootAddress == boot_write_index
LastByte_Late == boot_length_remaining = 0
LastByte == boot_length_remaining = 1

\* link_in_booting_data() and link_in_boot_load(): WPtr is left at the byte
\* that was written.
BootLoad ==
  /\ ~boot_done /\ handler = "booting"
  /\ down # NoByte
  /\ memory' = [memory EXCEPT ![BootAddress] = down]
  /\ WPtr' = boot_write_index
  /\ boot_write_index' = boot_write_index + 1
  /\ boot_length_remaining' = boot_length_remaining - 1
  /\ boot_done' = LastByte
  /\ down' = NoByte
  /\ UNCHANGED <<toAdapter, toHost, up, handler, prog, progVars>>

AlignedUp(a) == 4 * ((a + 3) \div 4)

\* init_processor().
StartProgram ==
  /\ boot_done /\ prog = "off"
  /\ WPtr' = AlignedUp(WPtr)
  /\ prog' = IF RestLength = 0 THEN "ready" ELSE "rest"
  /\ UNCHANGED <<cables, bootVars, progVars>>

Boot == BootStart \/ BootLoad \/ StartProgram

-----------------------------------------------------------------------------
(* The program (external).                                                 *)

ReadRest ==
  /\ prog = "rest" /\ down # NoByte
  /\ rest' = Append(rest, down)
  /\ down' = NoByte
  /\ prog' = IF Len(rest') = RestLength THEN "ready" ELSE "rest"
  /\ UNCHANGED <<toAdapter, toHost, up, bootVars, WPtr, request, sent, reply,
                 result, opened, calls>>

\* The stream it reads and writes: the one opened last, else the console.
CurrentStream(c) ==
  IF opened # <<>> THEN opened[Len(opened)].stream
  ELSE IF c.tag = WRITE THEN 1 ELSE 0

\* The bytes of a request.  Its length is even.
Long(n) == Bytes2(n) \o <<0, 0>>
Body(c) ==
  CASE c.tag = OPEN           -> Bytes2(Len(c.name)) \o c.name \o <<1, c.mode>>
    [] c.tag \in {READ, GETS} -> Long(CurrentStream(c)) \o Bytes2(c.length)
    [] c.tag = WRITE          -> Long(CurrentStream(c)) \o Bytes2(Len(c.data)) \o c.data
    [] c.tag = PUTS           -> Long(c.stream) \o Bytes2(Len(c.data)) \o c.data
    [] OTHER                  -> c.body
EvenBody(b) == IF Len(b) % 2 = 1 THEN b ELSE Append(b, 0)
Request(c) ==
  LET body == EvenBody(Body(c)) IN Bytes2(Len(body) + 1) \o <<c.tag>> \o body

Ask ==
  /\ prog = "ready" /\ calls < MaxCalls
  /\ \E c \in Call \cup (IF calls = MaxCalls - 1 THEN LastCall ELSE {}) :
       request' = Request(c)
  /\ sent' = 0
  /\ prog' = "asking"
  /\ UNCHANGED <<cables, bootVars, WPtr, rest, reply, result, opened, calls>>

\* The link takes a byte once the one before it is acknowledged.
SendRequest ==
  /\ prog = "asking" /\ up = NoByte /\ sent < Len(request)
  /\ up' = request[sent + 1]
  /\ sent' = sent + 1
  /\ UNCHANGED <<toAdapter, toHost, down, bootVars, WPtr, prog, rest, request,
                 reply, result, opened, calls>>

RequestSent ==
  /\ prog = "asking" /\ up = NoByte /\ sent = Len(request)
  /\ prog' = "waiting"
  /\ reply' = <<>>
  /\ UNCHANGED <<cables, bootVars, WPtr, rest, request, sent, result, opened,
                 calls>>

WholeReply(r) == Len(r) >= 2 /\ Len(r) = Short(r, 1) + 2

\* What an OPEN was asked for and what it was given.
Opened(f, r) == [name |-> SubSeq(f, 6, 5 + Short(f, 4)), stream |-> Short(r, 4)]

ReceiveReply ==
  /\ prog = "waiting" /\ down # NoByte
  /\ reply' = Append(reply, down)
  /\ down' = NoByte
  /\ IF WholeReply(reply')
       THEN /\ prog' = IF calls + 1 = MaxCalls THEN "done" ELSE "ready"
            /\ result' = reply'
            /\ calls' = calls + 1
            /\ opened' = IF request[3] = OPEN
                           THEN Append(opened, Opened(request, reply'))
                           ELSE opened
       ELSE UNCHANGED <<prog, result, calls, opened>>
  /\ UNCHANGED <<toAdapter, toHost, up, bootVars, WPtr, rest, request, sent>>

Program == ReadRest \/ Ask \/ SendRequest \/ RequestSent \/ ReceiveReply
=============================================================================
