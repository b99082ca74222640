----------------------------- MODULE SpProtocol -----------------------------
(***************************************************************************)
(* What the server on the host does with one complete request: the cases   *)
(* of process_sp_traffic() in ardlink-server.c, its handle_map, and the    *)
(* files behind it (the C library and the files are external).             *)
(*                                                                         *)
(* A request is the sequence f of its bytes, length included: frame[i] of  *)
(* the code is f[i + 1].  The operators set answer' to the numbers that    *)
(* are handed to send_byte(), in order.                                    *)
(***************************************************************************)
EXTENDS Integers, Sequences, FiniteSets

CONSTANTS
  MAX_HANDLE_MAP,   \* how many streams there can be
  DiskFiles,        \* name -> bytes: the files there are at the start
  TypedLine,        \* the lines somebody may type, or a buffer may hold
  Key,              \* what getkey() may return
  Garbage,          \* what an uninitialised byte may hold
  Unused, Console, NullFile

ASSUME SpAssumption ==
  /\ MAX_HANDLE_MAP \in Nat /\ MAX_HANDLE_MAP >= 3
  /\ Garbage \subseteq 0..255 /\ Garbage # {}
  /\ TypedLine \subseteq Seq(0..255) /\ <<>> \notin TypedLine
  /\ Key \subseteq Nat
  /\ \A name \in DOMAIN DiskFiles : name \in Seq(0..255) /\ DiskFiles[name] \in Seq(0..255)
  /\ Unused \notin [file : Seq(0..255) \cup {Console, NullFile}, mode : 0..255, at : Nat]

VARIABLES
  hostUp,     \* FALSE: the server ends once it has sent what it has to send
  handles,    \* handle_map: a stream or Unused
  files,      \* name -> bytes: the files, and what the console shows
  answer      \* the reply to the last request

spVars == <<hostUp, handles, files, answer>>

SP_OK == 0
SP_ERROR == 128

OPEN == 10
READ == 12
WRITE == 13
GETS == 14
PUTS == 15
GETKEY == 30

HANDLE_MAP_NONE == MAX_HANDLE_MAP + 2

\* The file, the mode ("r" is 1, "w" is 2) and the position of a stream.
Stream(file, mode) == [file |-> file, mode |-> mode, at |-> 0]

SpInit ==
  /\ hostUp = TRUE
  /\ handles = [i \in 0..(MAX_HANDLE_MAP - 1) |->
                  IF i < 3 THEN Stream(Console, IF i = 0 THEN 1 ELSE 2)
                           ELSE Unused]
  /\ files = [name \in DOMAIN DiskFiles \cup {Console} |->
                IF name = Console THEN <<>> ELSE DiskFiles[name]]
  /\ answer = <<>>

-----------------------------------------------------------------------------
(* Fields of a request and of a reply.                                     *)

Short(f, i) == f[i] + 256 * f[i + 1]
FrameLength(f) == Short(f, 1)
Bytes2(n) == <<n % 256, n \div 256>>

\* The four bytes are weighted 1, 2, 4 and 8, which is right for a stream
\* below 256.
StreamId(f) == f[4] + 2 * f[5] + 4 * f[6] + 8 * f[7]

Least(S) == CHOOSE i \in S : \A j \in S : i <= j

\* The first unused entry of the map.  Nothing makes one unused again.
NewHandle_NoFile(h) ==
  LET free == {i \in DOMAIN h : h[i] = Unused \/ h[i].file = NullFile} IN
  IF free = {} THEN HANDLE_MAP_NONE ELSE Least(free)
NewHandle(h) ==
  LET free == {i \in DOMAIN h : h[i] = Unused} IN
  IF free = {} THEN HANDLE_MAP_NONE ELSE Least(free)

\* get_handle_for_id() ends the server on an id above MAX_HANDLE_MAP.  (No
\* program that uses the streams it was given comes by MAX_HANDLE_MAP itself.)
Exits(id) == id > MAX_HANDLE_MAP

\* Of the other streams it returns a null pointer for those that are not
\* Usable, on which fread(), fgets() and fputc() end the server.
Usable(id) ==
  /\ id \in DOMAIN handles
  /\ handles[id] # Unused
  /\ handles[id].file # NullFile

Crash ==
  /\ hostUp' = FALSE
  /\ answer' = <<>>
  /\ UNCHANGED <<handles, files>>

\* What can be read from a stream: the rest of the file, or a typed line.  A
\* stream for output gives nothing.
Readable(s) ==
  IF s.mode # 1 THEN {<<>>}
  ELSE IF s.file = Console THEN TypedLine
  ELSE {SubSeq(files[s.file], s.at + 1, Len(files[s.file]))}

Advance(id, n) == handles' = [handles EXCEPT ![id].at = @ + n]

\* What a file holds when data is written from at on: a gap is filled with 0.
Written(old, at, data) ==
  LET end == at + Len(data) IN
  [i \in 1..(IF end < Len(old) THEN Len(old) ELSE end) |->
     IF at < i /\ i <= end THEN data[i - at]
     ELSE IF i <= Len(old) THEN old[i] ELSE 0]

\* fputc() of each byte and fflush().  A stream for input refuses them.
PutBytes(id, data) ==
  LET s == handles[id] IN
  IF s.mode = 1 \/ data = <<>> THEN UNCHANGED <<handles, files>>
  ELSE IF s.file = Console
    THEN /\ files' = [files EXCEPT ![Console] = @ \o data]
         /\ UNCHANGED handles
  ELSE /\ files' = [files EXCEPT ![s.file] = Written(@, s.at, data)]
       /\ Advance(id, Len(data))

-----------------------------------------------------------------------------
(* The cases of process_sp_traffic().                                      *)

\* The reply is SP_OK and a number, whether or not the file can be opened
\* and the map has room.
\* Of the modes only "r" and "w" are asked for.
Open(f) ==
  LET n    == Short(f, 4)
      name == SubSeq(f, 6, 5 + n)
      mode == f[7 + n]
      id   == NewHandle(handles)
  IN /\ files' = IF mode = 1 THEN files
                 ELSE [x \in DOMAIN files \cup {name} |->
                         IF x = name THEN <<>> ELSE files[x]]
     /\ handles' = IF id = HANDLE_MAP_NONE THEN handles
                   ELSE [handles EXCEPT ![id] =
                           Stream(IF name \in DOMAIN files' THEN name
                                                            ELSE NullFile,
                                  mode)]
     /\ answer' = <<5, 0, SP_OK>> \o Bytes2(id) \o <<0, 0>>
     /\ UNCHANGED hostUp

\* The length announced is that of status and data: the two bytes of the
\* count, which are sent as well, are not in it.  After the end of the file
\* an uninitialised byte is sent.  fread() comes after the count is sent.
ReadHead(length) == Bytes2(length + 1) \o <<SP_OK>> \o Bytes2(length)
Read(f) ==
  LET id     == StreamId(f)
      length == Short(f, 8)
  IN IF Exits(id) THEN Crash
     ELSE IF ~Usable(id)
       THEN /\ answer' = ReadHead(length)
            /\ hostUp' = (length = 0)
            /\ UNCHANGED <<handles, files>>
     ELSE \E rest \in Readable(handles[id]), g \in Garbage :
            /\ answer' = ReadHead(length)
                 \o [i \in 1..length |-> IF i <= Len(rest) THEN rest[i] ELSE g]
            /\ Advance(id, IF length < Len(rest) THEN length ELSE Len(rest))
            /\ UNCHANGED <<hostUp, files>>

\* Without a byte to write fputc() is not called, and fflush(NULL) is no error.
Write(f) ==
  LET id     == StreamId(f)
      length == Short(f, 8)
  IN IF Exits(id) \/ (~Usable(id) /\ length > 0) THEN Crash
     ELSE /\ IF length = 0 THEN UNCHANGED <<handles, files>>
                           ELSE PutBytes(id, SubSeq(f, 10, 9 + length))
          /\ answer' = <<3, 0, SP_OK>> \o Bytes2(length)
          /\ UNCHANGED hostUp

\* fgets() into n bytes, n > 1: no more than n-1 characters, and none after
\* a newline (10).
Fgets(rest, n) ==
  LET ends == {i \in 1..Len(rest) : rest[i] = 10 \/ i = n - 1 \/ i = Len(rest)}
  IN SubSeq(rest, 1, Least(ends))

\* strlen() sees what is before the first NUL.
Text(line) ==
  LET nul == {i \in 1..Len(line) : line[i] = 0} IN
  IF nul = {} THEN line ELSE SubSeq(line, 1, Least(nul) - 1)

\* The last character goes, newline or not; a byte makes the number even.
\* (Of no characters the one before buffer[] is cleared: left out.)
Stripped(line) == SubSeq(line, 1, Len(line) - 1)
Padded(data) == IF Len(data) % 2 = 1 THEN Append(data, 0) ELSE data

\* buffer[] is of type char, so send_byte() is handed a negative int for a
\* byte above 127.
CharValue(b) == IF b < 128 THEN b ELSE b - 256

\* The length announced: status, count and data.
GetsLength(data) == Len(data) + 3

\* At the end of the file buffer[] holds what it held: any line.
Gets(f) ==
  LET id == StreamId(f) IN
  IF ~Usable(id) THEN Crash
  ELSE \E rest \in Readable(handles[id]) :
       \E line \in IF rest = <<>> THEN TypedLine ELSE {Fgets(rest, Short(f, 8))} :
         LET data == Padded(Stripped(Text(line))) IN
         /\ answer' = Bytes2(GetsLength(data))
              \o <<IF data = <<>> THEN SP_ERROR ELSE SP_OK>>
              \o Bytes2(Len(data))
              \o [i \in 1..Len(data) |-> CharValue(data[i])]
         /\ Advance(id, IF rest = <<>> THEN 0 ELSE Len(line))
         /\ UNCHANGED <<hostUp, files>>

\* The number of characters is taken from the length of the frame, not from
\* the count in it.
Puts(f) ==
  LET length == FrameLength(f) - 8 IN
  /\ IF StreamId(f) = 1
       THEN PutBytes(1, Append(SubSeq(f, 10, 9 + length), 10))
       ELSE UNCHANGED <<handles, files>>
  /\ answer' = <<3, 0, SP_OK>> \o Bytes2(length)
  /\ UNCHANGED hostUp

\* An escape sequence is one number of two or three bytes.
GetKey ==
  /\ \E ch \in Key : answer' = <<2, 0, SP_OK, ch>>
  /\ UNCHANGED <<hostUp, handles, files>>

\* Frames shorter than 6, and the tags whose case is only a break.
NoReply ==
  /\ answer' = <<>>
  /\ UNCHANGED <<hostUp, handles, files>>

Serve(f) ==
  IF FrameLength(f) < 6 THEN NoReply
  ELSE \/ f[3] = OPEN   /\ Open(f)
       \/ f[3] = READ   /\ Read(f)
       \/ f[3] = WRITE  /\ Write(f)
       \/ f[3] = GETS   /\ Gets(f)
       \/ f[3] = PUTS   /\ Puts(f)
       \/ f[3] = GETKEY /\ GetKey
       \/ f[3] \notin {OPEN, READ, WRITE, GETS, PUTS, GETKEY} /\ NoReply
=============================================================================
