------------------------------ MODULE SpProofs ------------------------------
(***************************************************************************)
(* Requests and answers: whatever a program asks for is a frame that the   *)
(* cases of process_sp_traffic() can take apart, and what they answer      *)
(* announces its own length.                                               *)
(***************************************************************************)
EXTENDS Picoputer, SequenceTheorems, WellFoundedInduction, TLAPS

-----------------------------------------------------------------------------
(* Requests and answers.                                                   *)

\* A frame: a length, a tag, and what the cases of process_sp_traffic() take
\* to be in it.
Framed(f) ==
  /\ f \in Seq(0..255) /\ Len(f) > 2 /\ Len(f) = FrameLength(f) + 2
WellFormed(f) ==
  /\ Framed(f)
  /\ f[3] = OPEN => Len(f) >= 7 /\ Len(f) >= 7 + Short(f, 4)
  /\ f[3] \in {READ, GETS} => Len(f) >= 9
  /\ f[3] = WRITE => Len(f) >= 9 /\ Len(f) >= 9 + Short(f, 8)
  /\ f[3] = PUTS => Len(f) >= 10

\* An answer announces its length, but for that to READ.
Fits(f, a) ==
  a # <<>> => /\ Len(a) > 1
              /\ f[3] # READ => Len(a) = Short(a, 1) + 2
              /\ f[3] = OPEN => Len(a) = 7

\* The streams and the files.  The console is where it was at the start.
HandleType == [file : Seq(0..255) \cup {Console, NullFile}, mode : 0..255, at : Nat]
SpTypes ==
  /\ hostUp \in BOOLEAN
  /\ handles \in [0..(MAX_HANDLE_MAP - 1) -> HandleType \cup {Unused}]
  /\ Console \in DOMAIN files /\ DOMAIN files \subseteq Seq(0..255) \cup {Console}
  /\ files \in [DOMAIN files -> Seq(0..255)]
  /\ \A i \in DOMAIN handles :
       handles[i] # Unused /\ handles[i].file # NullFile => handles[i].file \in DOMAIN files
  /\ \A i \in 0..2 : handles[i] # Unused /\ handles[i].file = Console

\* A number as two bytes.
LEMMA Digits ==
  ASSUME NEW n \in Nat
  PROVE  \E a, b \in Int :
           /\ Bytes2(n) = <<a, b>> /\ a + 256 * b = n
           /\ n < 65536 => a \in 0..255 /\ b \in 0..255
<1> DEFINE a == n % 256
           b == n \div 256
<1>1. /\ a \in Int /\ b \in Int /\ a + 256 * b = n
      /\ n < 65536 => a \in 0..255 /\ b \in 0..255
  OBVIOUS
<1>2. Bytes2(n) = <<a, b>>
  BY DEF Bytes2
<1> HIDE DEF a, b
<1> QED BY <1>1, <1>2

\* They are a sequence,
LEMMA TwoBytes ==
  ASSUME NEW n \in Nat
  PROVE  Bytes2(n) \in Seq(Int) /\ Len(Bytes2(n)) = 2
<1>1. PICK a, b \in Int : Bytes2(n) = <<a, b>>
  BY Digits
<1>2. <<a, b>> \in Seq(Int) /\ Len(<<a, b>>) = 2
  OBVIOUS
<1> QED BY <1>1, <1>2

\* of the number,
LEMMA ShortOfBytes ==
  ASSUME NEW n \in Nat
  PROVE  Short(Bytes2(n), 1) = n
<1>1. PICK a, b \in Int : Bytes2(n) = <<a, b>> /\ a + 256 * b = n
  BY Digits
<1>2. <<a, b>>[1] = a /\ <<a, b>>[2] = b
  OBVIOUS
<1> QED BY <1>1, <1>2 DEF Short

\* and bytes if there is room in two of them.
LEMMA BytesOfShort ==
  ASSUME NEW n \in Nat, n < 65536
  PROVE  Bytes2(n) \in Seq(0..255)
<1>1. PICK a, b \in Int : Bytes2(n) = <<a, b>> /\ a \in 0..255 /\ b \in 0..255
  BY Digits
<1>2. <<a, b>> \in Seq(0..255)
  BY <1>1
<1> QED BY <1>1, <1>2

\* A sequence of three parts.
LEMMA ThreeParts ==
  ASSUME NEW S, NEW a \in Seq(S), NEW b \in Seq(S), NEW c \in Seq(S)
  PROVE  /\ a \o b \o c \in Seq(S) /\ Len(a \o b \o c) = Len(a) + Len(b) + Len(c)
         /\ \A i \in 1..Len(a) : (a \o b \o c)[i] = a[i]
         /\ \A i \in 1..Len(b) : (a \o b \o c)[Len(a) + i] = b[i]
         /\ \A i \in 1..Len(c) : (a \o b \o c)[Len(a) + Len(b) + i] = c[i]
<1>1. Len(a) \in Nat /\ Len(b) \in Nat /\ Len(c) \in Nat
  BY LenProperties
<1> DEFINE ab == a \o b
<1>2. /\ ab \in Seq(S) /\ Len(ab) = Len(a) + Len(b)
      /\ \A i \in 1..Len(a) + Len(b) : ab[i] = IF i <= Len(a) THEN a[i] ELSE b[i - Len(a)]
  BY ConcatProperties
<1> HIDE DEF ab
<1> DEFINE abc == ab \o c
<1>3. /\ abc \in Seq(S) /\ Len(abc) = Len(ab) + Len(c)
      /\ \A i \in 1..Len(ab) + Len(c) : abc[i] = IF i <= Len(ab) THEN ab[i] ELSE c[i - Len(ab)]
  <2>1. ab \in Seq(S)
    BY <1>2
  <2> QED BY ONLY <2>1, c \in Seq(S), ConcatProperties
<1> HIDE DEF abc
<1>4. ASSUME NEW i \in 1..Len(a) PROVE abc[i] = a[i]
  BY <1>1, <1>2, <1>3
<1>5. ASSUME NEW i \in 1..Len(b) PROVE abc[Len(a) + i] = b[i]
  <2>1. Len(a) + i \in 1..Len(a) + Len(b) /\ ~(Len(a) + i <= Len(a)) /\ Len(a) + i - Len(a) = i
    BY <1>1
  <2>2. Len(a) + i \in 1..Len(ab) + Len(c) /\ Len(a) + i <= Len(ab)
    BY <1>1, <1>2
  <2>3. abc[Len(a) + i] = ab[Len(a) + i]
    BY <1>3, <2>2
  <2>4. ab[Len(a) + i] = b[Len(a) + i - Len(a)]
    BY <1>2, <2>1
  <2> QED BY <2>1, <2>3, <2>4
<1>6. ASSUME NEW i \in 1..Len(c) PROVE abc[Len(a) + Len(b) + i] = c[i]
  <2> DEFINE k == Len(a) + Len(b) + i
  <2>1. k \in 1..Len(ab) + Len(c) /\ ~(k <= Len(ab)) /\ k - Len(ab) = i
    BY <1>1, <1>2
  <2> HIDE DEF k
  <2>2. abc[k] = c[i]
    BY <1>3, <2>1
  <2> QED BY <2>2 DEF k
<1> QED BY <1>1, <1>2, <1>3, <1>4, <1>5, <1>6 DEF abc, ab

\* What follows the first two numbers leaves them as they are.
LEMMA LongerBy ==
  ASSUME NEW S, NEW x \in Seq(S), NEW y \in Seq(S), Len(x) >= 2
  PROVE  /\ x \o y \in Seq(S) /\ Len(x \o y) = Len(x) + Len(y)
         /\ (x \o y)[1] = x[1] /\ (x \o y)[2] = x[2]
<1>1. Len(x) \in Nat /\ Len(y) \in Nat
  BY LenProperties
<1>2. x \o y \in Seq(S) /\ Len(x \o y) = Len(x) + Len(y)
  BY ConcatProperties
<1>3. \A i \in 1..Len(x) + Len(y) : (x \o y)[i] = IF i <= Len(x) THEN x[i] ELSE y[i - Len(x)]
  BY ConcatProperties
<1>4. 1 \in 1..Len(x) + Len(y) /\ 2 \in 1..Len(x) + Len(y) /\ 1 <= Len(x) /\ 2 <= Len(x)
  BY <1>1
<1> QED BY <1>2, <1>3, <1>4

\* An answer that begins with its length.
LEMMA AnswerFits ==
  ASSUME NEW a, Len(a) = a[1] + 256 * a[2] + 2, Len(a) > 1, NEW f, f[3] # OPEN
  PROVE  Fits(f, a)
BY DEF Fits, Short

\* A function on 1..n is a sequence.
LEMMA FunctionIsSeq ==
  ASSUME NEW S, NEW n \in Nat, NEW s \in [1..n -> S]
  PROVE  s \in Seq(S) /\ Len(s) = n
<1>1. s \in Seq(S)
  BY SeqDef
<1>2. 1..Len(s) = 1..n /\ Len(s) \in Nat
  BY <1>1, LenProperties
<1> QED BY <1>1, <1>2

\* The bytes m to n of s.
LEMMA Part ==
  ASSUME NEW S, NEW s \in Seq(S), NEW m \in Int, NEW n \in Int, 1 <= m, n <= Len(s)
  PROVE  SubSeq(s, m, n) \in Seq(S) /\ (n < m => SubSeq(s, m, n) = <<>>)
         /\ (m <= n + 1 => Len(SubSeq(s, m, n)) = n - m + 1)
         /\ \A i \in 1..(n - m + 1) : SubSeq(s, m, n)[i] = s[m + i - 1]
<1>1. Len(s) \in Nat
  BY LenProperties
<1>2. \A i \in m..n : s[i] \in S
  BY <1>1, ElementOfSeq
<1> DEFINE p == SubSeq(s, m, n)
<1>3. p \in Seq(S) /\ Len(p) = (IF m <= n THEN n - m + 1 ELSE 0)
      /\ \A i \in 1..(n - m + 1) : p[i] = s[m + i - 1]
  BY <1>2, SubSeqProperties
<1>4. n < m => p = <<>>
  BY SubSeqEmpty
<1> HIDE DEF p
<1>5. m <= n + 1 => Len(p) = n - m + 1
  BY <1>3
<1> QED BY <1>3, <1>4, <1>5 DEF p

\* The least of some numbers is one of them.
LEMMA LeastOf ==
  ASSUME NEW S, S \subseteq Nat, S # {}
  PROVE  Least(S) \in S /\ \A j \in S : Least(S) <= j
<1> DEFINE R == {ss \in Nat \X Nat : ss[1] < ss[2]}
<1>1. IsWellFoundedOn(R, Nat)
  BY NatLessThanWellFounded DEF OpToRel
<1>2. \A x, y \in Nat : <<x, y>> \in R <=> x < y
  OBVIOUS
<1> HIDE DEF R
<1>3. PICK x \in S : \A y \in S : ~(<<y, x>> \in R)
  BY <1>1, WFMin
<1>4. \A y \in S : x <= y
  <2> SUFFICES ASSUME NEW y \in S PROVE x <= y
    OBVIOUS
  <2>1. x \in Nat /\ y \in Nat /\ ~(y < x)
    BY <1>2, <1>3
  <2> QED BY <2>1
<1> QED BY <1>4 DEF Least

-----------------------------------------------------------------------------
(* The cases of process_sp_traffic().                                      *)

\* A stream that may be used.
LEMMA UsableStream ==
  ASSUME SpTypes, NEW id, Usable(id)
  PROVE  /\ id \in DOMAIN handles /\ handles[id] # Unused /\ handles[id] \in HandleType
         /\ handles[id].at \in Nat /\ handles[id].file \in DOMAIN files
         /\ files[handles[id].file] \in Seq(0..255)
<1>1. id \in DOMAIN handles /\ handles[id] # Unused /\ handles[id] \in HandleType
  BY DEF SpTypes, Usable
<1>2. handles[id].file \in DOMAIN files
  BY <1>1 DEF SpTypes, Usable
<1> QED BY <1>1, <1>2 DEF SpTypes, HandleType

\* A stream after n bytes.
LEMMA FurtherOn ==
  ASSUME NEW x \in HandleType, NEW n \in Nat
  PROVE  [x EXCEPT !.at = @ + n] \in HandleType /\ [x EXCEPT !.at = @ + n].file = x.file
<1>1. x.at + n \in Nat
  BY DEF HandleType
<1> QED BY <1>1 DEF HandleType

\* No stream is opened, and none becomes that of another file.
SameFiles ==
  /\ DOMAIN handles' = DOMAIN handles
  /\ \A i \in DOMAIN handles :
       /\ handles'[i] = Unused <=> handles[i] = Unused
       /\ handles[i] # Unused => handles'[i].file = handles[i].file

\* Files are written, streams advance: the types stay.
LEMMA TypesKept ==
  ASSUME SpTypes, hostUp' \in BOOLEAN, DOMAIN files' = DOMAIN files,
         files' \in [DOMAIN files -> Seq(0..255)],
         \/ handles' = handles
         \/ \E id \in DOMAIN handles, n \in Nat : handles[id] # Unused /\ Advance(id, n)
  PROVE  SpTypes' /\ SameFiles
<1>1. CASE handles' = handles
  BY <1>1 DEF SpTypes, SameFiles
<1>2. ASSUME NEW id \in DOMAIN handles, NEW n \in Nat, handles[id] # Unused, Advance(id, n)
      PROVE  SpTypes' /\ SameFiles
  <2> DEFINE h == [handles[id] EXCEPT !.at = @ + n]
  <2>1. handles[id] \in HandleType
    BY <1>2 DEF SpTypes
  <2>2. h \in HandleType /\ h.file = handles[id].file
    BY <2>1, FurtherOn
  <2>3. h # Unused
    BY <2>2, SpAssumption DEF HandleType
  <2>4. handles' = [handles EXCEPT ![id] = h]
    BY <1>2 DEF Advance
  <2> HIDE DEF h
  <2>5. /\ handles' \in [0..(MAX_HANDLE_MAP - 1) -> HandleType \cup {Unused}]
        /\ DOMAIN handles' = DOMAIN handles /\ DOMAIN handles = 0..(MAX_HANDLE_MAP - 1)
    BY <2>2, <2>4 DEF SpTypes
  <2>6. ASSUME NEW i \in DOMAIN handles
        PROVE  /\ handles'[i] = Unused <=> handles[i] = Unused
               /\ handles[i] # Unused => handles'[i].file = handles[i].file
    <3>1. CASE i = id
      BY <1>2, <2>2, <2>3, <2>4, <3>1
    <3>2. CASE i # id
      BY <2>4, <3>2
    <3> QED BY <3>1, <3>2
  <2>7. \A i \in 0..2 : i \in DOMAIN handles
    BY <2>5, SpAssumption
  <2> QED BY <2>5, <2>6, <2>7 DEF SpTypes, SameFiles
<1> QED BY <1>1, <1>2

\* Written() is a file.
LEMMA WrittenFile ==
  ASSUME NEW old \in Seq(0..255), NEW at \in Nat, NEW data \in Seq(0..255)
  PROVE  Written(old, at, data) \in Seq(0..255)
<1>1. Len(old) \in Nat /\ Len(data) \in Nat
  BY LenProperties
<1> DEFINE end == at + Len(data)
           n == IF end < Len(old) THEN Len(old) ELSE end
           w == [i \in 1..n |-> IF at < i /\ i <= end THEN data[i - at]
                                ELSE IF i <= Len(old) THEN old[i] ELSE 0]
<1>2. n \in Nat
  BY <1>1
<1>3. \A i \in 1..n : i \in Nat /\ 1 <= i
  BY <1>2
<1>4. ASSUME NEW i \in 1..n
      PROVE  (IF at < i /\ i <= end THEN data[i - at]
              ELSE IF i <= Len(old) THEN old[i] ELSE 0) \in 0..255
  <2>1. at < i /\ i <= end => i - at \in 1..Len(data)
    BY <1>1, <1>3
  <2>2. i <= Len(old) => i \in 1..Len(old)
    BY <1>1, <1>3
  <2>3. at < i /\ i <= end => data[i - at] \in 0..255
    BY <2>1, ElementOfSeq
  <2>4. i <= Len(old) => old[i] \in 0..255
    BY <2>2, ElementOfSeq
  <2> QED BY <2>3, <2>4
<1>5. w \in [1..n -> 0..255]
  BY <1>4
<1>6. w \in Seq(0..255)
  <2> HIDE DEF w, n
  <2> QED BY <1>2, <1>5, FunctionIsSeq
<1> QED BY <1>6 DEF Written

\* fputc() of some bytes.
LEMMA PutBytesTypes ==
  ASSUME SpTypes, NEW id \in DOMAIN handles, handles[id] # Unused,
         handles[id].file \in DOMAIN files, NEW data \in Seq(0..255),
         PutBytes(id, data), hostUp' = hostUp
  PROVE  SpTypes' /\ SameFiles
<1>1. handles[id] \in HandleType /\ hostUp' \in BOOLEAN
  BY DEF SpTypes
<1>2. handles[id].at \in Nat /\ files[handles[id].file] \in Seq(0..255) /\ files[Console] \in Seq(0..255)
  BY <1>1 DEF SpTypes, HandleType
<1> DEFINE file == handles[id].file
           w == Written(files[file], handles[id].at, data)
           c == files[Console] \o data
<1>3. w \in Seq(0..255) /\ c \in Seq(0..255) /\ Len(data) \in Nat
  BY <1>2, WrittenFile, ConcatProperties, LenProperties
<1>4. \/ UNCHANGED <<handles, files>>
      \/ files' = [files EXCEPT ![Console] = c] /\ UNCHANGED handles
      \/ files' = [files EXCEPT ![file] = w] /\ Advance(id, Len(data))
  BY DEF PutBytes
<1> HIDE DEF w, c
<1>5. DOMAIN files' = DOMAIN files /\ files' \in [DOMAIN files -> Seq(0..255)]
  BY <1>3, <1>4 DEF SpTypes
<1> QED BY <1>1, <1>3, <1>4, <1>5, TypesKept

\* What can be read is a sequence of bytes.
LEMMA ReadableBytes ==
  ASSUME SpTypes, NEW id, Usable(id), NEW r \in Readable(handles[id])
  PROVE  r \in Seq(0..255)
<1> DEFINE s == handles[id]
           old == files[s.file]
<1>1. s.at \in Nat /\ old \in Seq(0..255)
  BY UsableStream
<1>2. SubSeq(old, s.at + 1, Len(old)) \in Seq(0..255)
  <2>1. s.at + 1 \in Int /\ Len(old) \in Int /\ 1 <= s.at + 1 /\ Len(old) <= Len(old)
    BY <1>1, LenProperties
  <2> HIDE DEF s, old
  <2> QED BY <1>1, <2>1, Part
<1>3. <<>> \in Seq(0..255)
  OBVIOUS
<1> QED BY <1>2, <1>3, SpAssumption DEF Readable

\* The first unused entry of the map, if there is one.
LEMMA NewHandleUnused ==
  ASSUME SpTypes, NewHandle(handles) # HANDLE_MAP_NONE
  PROVE  /\ NewHandle(handles) \in DOMAIN handles
         /\ handles[NewHandle(handles)] = Unused
         /\ \A i \in DOMAIN handles : handles[i] = Unused => NewHandle(handles) <= i
<1> DEFINE free == {i \in DOMAIN handles : handles[i] = Unused}
<1>1. free # {} /\ NewHandle(handles) = Least(free)
  BY DEF NewHandle
<1>2. free \subseteq Nat
  BY SpAssumption DEF SpTypes
<1>3. Least(free) \in free /\ \A j \in free : Least(free) <= j
  <2> HIDE DEF free
  <2> QED BY <1>1, <1>2, LeastOf
<1> QED BY <1>1, <1>3

\* It is a number in any case.
LEMMA NewHandleNumber == SpTypes => NewHandle(handles) \in Nat
<1> SUFFICES ASSUME SpTypes PROVE NewHandle(handles) \in Nat
  OBVIOUS
<1>1. HANDLE_MAP_NONE \in Nat
  BY SpAssumption DEF HANDLE_MAP_NONE
<1>2. \A i \in DOMAIN handles : i \in Nat
  BY SpAssumption DEF SpTypes
<1> QED BY <1>1, <1>2, NewHandleUnused

\* A number made of two bytes.
LEMMA ShortNumber ==
  ASSUME NEW f \in Seq(0..255), NEW i \in Nat, 1 <= i, i + 1 <= Len(f)
  PROVE  Short(f, i) \in Nat /\ Short(f, i) < 65536
<1>1. Len(f) \in Nat
  BY LenProperties
<1>2. i \in 1..Len(f) /\ i + 1 \in 1..Len(f)
  BY <1>1
<1>3. f[i] \in 0..255 /\ f[i + 1] \in 0..255
  BY <1>2, ElementOfSeq
<1>4. PICK a \in 0..255, b \in 0..255 : f[i] = a /\ f[i + 1] = b
  BY <1>3
<1>5. a + 256 * b \in Nat /\ a + 256 * b < 65536
  OBVIOUS
<1>6. Short(f, i) = f[i] + 256 * f[i + 1]
  BY DEF Short
<1>7. Short(f, i) = a + 256 * b
  BY <1>4, <1>6, Zenon
<1> QED BY <1>5, <1>7

\* The fields of an OPEN.
LEMMA OpenFields ==
  ASSUME NEW f, WellFormed(f), f[3] = OPEN
  PROVE  /\ Short(f, 4) \in Nat /\ SubSeq(f, 6, 5 + Short(f, 4)) \in Seq(0..255)
         /\ f[7 + Short(f, 4)] \in 0..255
<1>1. f \in Seq(0..255) /\ Len(f) \in Nat /\ Len(f) >= 7 /\ Len(f) >= 7 + Short(f, 4)
  BY LenProperties DEF WellFormed, Framed
<1> DEFINE n == Short(f, 4)
<1>3. n \in Nat
  <2>1. 4 \in Nat /\ 1 <= 4 /\ 4 + 1 <= Len(f)
    BY <1>1
  <2> QED BY <1>1, <2>1, ShortNumber
<1> HIDE DEF n
<1>4. 5 + n \in Int /\ 5 + n <= Len(f) /\ 7 + n \in 1..Len(f)
  BY <1>1, <1>3 DEF n
<1>5. SubSeq(f, 6, 5 + n) \in Seq(0..255)
  <2>1. 6 \in Int /\ 1 <= 6
    OBVIOUS
  <2> QED BY <1>1, <1>4, <2>1, Part
<1>6. f[7 + n] \in 0..255
  BY <1>1, <1>4, ElementOfSeq
<1> QED BY <1>3, <1>5, <1>6 DEF n

\* The numbers of the answer.
LEMMA OpenAnswer ==
  ASSUME NEW id \in Nat, NEW a, a = <<5, 0, SP_OK>> \o Bytes2(id) \o <<0, 0>>
  PROVE  /\ a \in Seq(Int) /\ Len(a) = 7 /\ a[1] = 5 /\ a[2] = 0
         /\ Short(a, 4) = id
<1> DEFINE x == <<5, 0, SP_OK>>
           b == Bytes2(id)
           z == <<0, 0>>
<1>1. x \in Seq(Int) /\ Len(x) = 3 /\ x[1] = 5 /\ x[2] = 0
  BY DEF SP_OK
<1>2. b \in Seq(Int) /\ Len(b) = 2 /\ Short(b, 1) = id
  BY TwoBytes, ShortOfBytes
<1>3. z \in Seq(Int) /\ Len(z) = 2
  OBVIOUS
<1>4. a = x \o b \o z
  OBVIOUS
<1> HIDE DEF x, b, z
<1>5. /\ a \in Seq(Int) /\ Len(a) = Len(x) + Len(b) + Len(z)
      /\ \A i \in 1..Len(x) : a[i] = x[i]
      /\ \A i \in 1..Len(b) : a[Len(x) + i] = b[i]
  <2>1. x \in Seq(Int) /\ b \in Seq(Int) /\ z \in Seq(Int)
    BY <1>1, <1>2, <1>3
  <2>2. /\ x \o b \o z \in Seq(Int) /\ Len(x \o b \o z) = Len(x) + Len(b) + Len(z)
        /\ \A i \in 1..Len(x) : (x \o b \o z)[i] = x[i]
        /\ \A i \in 1..Len(b) : (x \o b \o z)[Len(x) + i] = b[i]
    BY ONLY <2>1, ThreeParts
  <2> QED BY <1>4, <2>2, Zenon
<1>6. a[1] = x[1] /\ a[2] = x[2] /\ a[3 + 1] = b[1] /\ a[3 + 2] = b[2] /\ Len(a) = 3 + 2 + 2
  BY <1>1, <1>2, <1>3, <1>5
<1>7. Short(a, 4) = Short(b, 1)
  BY <1>6 DEF Short
<1> QED BY <1>1, <1>2, <1>5, <1>6, <1>7

\* The case SP_OPEN_TAG.
LEMMA OpenAnswers ==
  ASSUME SpTypes, NEW f, WellFormed(f), f[3] = OPEN, Open(f)
  PROVE  SpTypes' /\ answer' \in Seq(Int) /\ Fits(f, answer')
<1> DEFINE n    == Short(f, 4)
           name == SubSeq(f, 6, 5 + n)
           mode == f[7 + n]
           id   == NewHandle(handles)
           new  == Stream(IF name \in DOMAIN files' THEN name ELSE NullFile, mode)
<1>1. name \in Seq(0..255) /\ mode \in 0..255 /\ id \in Nat
  BY OpenFields, NewHandleNumber
<1>2. /\ files' = IF mode = 1 THEN files
                  ELSE [x \in DOMAIN files \cup {name} |-> IF x = name THEN <<>> ELSE files[x]]
      /\ handles' = IF id = HANDLE_MAP_NONE THEN handles ELSE [handles EXCEPT ![id] = new]
      /\ answer' = <<5, 0, SP_OK>> \o Bytes2(id) \o <<0, 0>>
      /\ hostUp' = hostUp
  BY DEF Open
<1>3. id # HANDLE_MAP_NONE => id \in DOMAIN handles /\ handles[id] = Unused
  BY NewHandleUnused
<1>4. answer' \in Seq(Int) /\ Len(answer') = 7 /\ answer'[1] = 5 /\ answer'[2] = 0
  BY <1>1, <1>2, OpenAnswer
<1>5. Fits(f, answer')
  BY <1>4 DEF Fits, Short
<1>6. /\ new \in HandleType /\ (new.file # NullFile => new.file \in DOMAIN files')
  BY <1>1 DEF Stream, HandleType
<1>7. /\ files' \in [DOMAIN files' -> Seq(0..255)] /\ DOMAIN files \subseteq DOMAIN files'
      /\ DOMAIN files' \subseteq Seq(0..255) \cup {Console}
  <2> HIDE DEF name, mode
  <2>1. <<>> \in Seq(0..255)
    OBVIOUS
  <2>2. files \in [DOMAIN files -> Seq(0..255)] /\ DOMAIN files \subseteq Seq(0..255) \cup {Console}
    BY DEF SpTypes
  <2>3. CASE mode = 1
    BY <1>2, <2>2, <2>3
  <2>4. CASE mode # 1
    BY <1>1, <1>2, <2>1, <2>2, <2>4
  <2> QED BY <2>3, <2>4
<1> HIDE DEF id, new
<1>8. SpTypes'
  <2>1. CASE handles' = handles
    <3>1. \A i \in DOMAIN handles :
            handles[i] # Unused /\ handles[i].file # NullFile => handles[i].file \in DOMAIN files'
      BY <1>7 DEF SpTypes
    <3>2. Console \in DOMAIN files' /\ hostUp' \in BOOLEAN
      BY <1>2, <1>7 DEF SpTypes
    <3>3. /\ handles' \in [0..(MAX_HANDLE_MAP - 1) -> HandleType \cup {Unused}]
          /\ \A i \in 0..2 : handles'[i] # Unused /\ handles'[i].file = Console
      BY <2>1 DEF SpTypes
    <3>4. \A i \in DOMAIN handles' :
            handles'[i] # Unused /\ handles'[i].file # NullFile => handles'[i].file \in DOMAIN files'
      BY <2>1, <3>1
    <3> QED BY <1>7, <3>2, <3>3, <3>4, Zenon DEF SpTypes
  <2>2. CASE id # HANDLE_MAP_NONE
    <3>1. handles' = [handles EXCEPT ![id] = new] /\ id \in DOMAIN handles /\ handles[id] = Unused
      BY <1>2, <1>3, <2>2
    <3>2. handles' \in [0..(MAX_HANDLE_MAP - 1) -> HandleType \cup {Unused}]
      BY <1>6, <3>1 DEF SpTypes
    <3>3. \A i \in DOMAIN handles : handles'[i] = IF i = id THEN new ELSE handles[i]
      BY <3>1
    <3>4. \A i \in DOMAIN handles' :
            handles'[i] # Unused /\ handles'[i].file # NullFile => handles'[i].file \in DOMAIN files'
      BY <1>6, <1>7, <3>1, <3>3 DEF SpTypes
    <3>5. ASSUME NEW i \in 0..2 PROVE handles'[i] # Unused /\ handles'[i].file = Console
      <4>1. handles[i] # Unused /\ handles[i].file = Console
        BY DEF SpTypes
      <4>2. i # id
        BY <3>1, <4>1
      <4> QED BY <3>1, <4>1, <4>2
    <3> QED BY <1>2, <1>7, <3>2, <3>4, <3>5 DEF SpTypes
  <2> QED BY <1>2, <2>1, <2>2
<1> QED BY <1>4, <1>5, <1>8

\* What an OPEN gives while the map has room: an entry that was unused, for
\* the file it names if that can be opened.
OpenGave(f, id) ==
  /\ id \in DOMAIN handles /\ handles[id] = Unused
  /\ DOMAIN handles' = DOMAIN handles
  /\ handles'[id] # Unused
  /\ handles'[id].file \in {SubSeq(f, 6, 5 + Short(f, 4)), NullFile}
  /\ \A i \in DOMAIN handles : i # id => handles'[i] = handles[i]
  /\ Short(answer', 4) = id

\* The first unused entry is given, so one no higher than any unused k.
LEMMA OpenGives ==
  ASSUME SpTypes, NEW f, WellFormed(f), f[3] = OPEN, Open(f),
         NEW k \in DOMAIN handles, handles[k] = Unused
  PROVE  \E id \in 0..k : OpenGave(f, id)
<1> DEFINE n    == Short(f, 4)
           name == SubSeq(f, 6, 5 + n)
           mode == f[7 + n]
           id   == NewHandle(handles)
           free == {i \in DOMAIN handles : handles[i] = Unused}
           new  == Stream(IF name \in DOMAIN files' THEN name ELSE NullFile, mode)
<1>1. DOMAIN handles = 0..(MAX_HANDLE_MAP - 1) /\ MAX_HANDLE_MAP \in Nat
  BY SpAssumption DEF SpTypes
<1>2. id \in DOMAIN handles /\ handles[id] = Unused /\ id <= k /\ id # HANDLE_MAP_NONE
  <2>1. id = Least(free) /\ free # {} /\ free \subseteq Nat /\ k \in free
    BY <1>1 DEF NewHandle
  <2>2. Least(free) \in free /\ \A j \in free : Least(free) <= j
    <3> HIDE DEF free
    <3> QED BY <2>1, LeastOf
  <2>3. id \in DOMAIN handles /\ handles[id] = Unused /\ id <= k
    BY <2>1, <2>2
  <2> QED BY <1>1, <2>3 DEF HANDLE_MAP_NONE
<1>3. /\ handles' = IF id = HANDLE_MAP_NONE THEN handles ELSE [handles EXCEPT ![id] = new]
      /\ answer' = <<5, 0, SP_OK>> \o Bytes2(id) \o <<0, 0>>
  BY DEF Open
<1>4. new.file \in {name, NullFile} /\ new # Unused
  <2>1. name \in Seq(0..255) /\ mode \in 0..255
    BY OpenFields
  <2>2. new \in HandleType
    BY <2>1 DEF Stream, HandleType
  <2>3. new # Unused
    BY <2>2, SpAssumption DEF HandleType
  <2> QED BY <2>3 DEF Stream
<1> HIDE DEF id, new
<1>5. handles' = [handles EXCEPT ![id] = new]
  BY <1>2, <1>3
<1>6. id \in 0..k
  BY <1>1, <1>2
<1>7. Short(answer', 4) = id
  <2>1. id \in Nat
    BY <1>1, <1>2
  <2> QED BY <1>3, <2>1, OpenAnswer
<1> QED BY <1>2, <1>4, <1>5, <1>6, <1>7 DEF OpenGave

\* A stream there is none of.
LEMMA CrashAnswers ==
  ASSUME SpTypes, NEW f, Crash
  PROVE  SpTypes' /\ SameFiles /\ answer' \in Seq(Int) /\ Fits(f, answer')
<1>1. hostUp' = FALSE /\ answer' = <<>> /\ UNCHANGED <<handles, files>>
  BY DEF Crash
<1>2. hostUp' \in BOOLEAN /\ files' \in [DOMAIN files -> Seq(0..255)] /\ DOMAIN files' = DOMAIN files
  BY <1>1 DEF SpTypes
<1>3. SpTypes' /\ SameFiles
  BY <1>1, <1>2, TypesKept
<1> QED BY <1>1, <1>3 DEF Fits

\* The answer of WRITE and PUTS.
LEMMA CountAnswers ==
  ASSUME NEW n \in Nat, NEW f, f[3] # OPEN, NEW a, a = <<3, 0, SP_OK>> \o Bytes2(n)
  PROVE  a \in Seq(Int) /\ Fits(f, a)
<1> DEFINE x == <<3, 0, SP_OK>>
           b == Bytes2(n)
<1>1. x \in Seq(Int) /\ Len(x) = 3 /\ x[1] = 3 /\ x[2] = 0
  BY DEF SP_OK
<1>2. b \in Seq(Int) /\ Len(b) = 2
  BY TwoBytes
<1>3. a = x \o b
  OBVIOUS
<1> HIDE DEF x, b
<1>4. a \in Seq(Int) /\ Len(a) = Len(x) + Len(b) /\ a[1] = x[1] /\ a[2] = x[2]
  <2>1. Len(x) >= 2
    BY <1>1
  <2>2. x \in Seq(Int) /\ b \in Seq(Int)
    BY <1>1, <1>2
  <2>3. /\ x \o b \in Seq(Int) /\ Len(x \o b) = Len(x) + Len(b)
        /\ (x \o b)[1] = x[1] /\ (x \o b)[2] = x[2]
    BY ONLY <2>1, <2>2, LongerBy
  <2> QED BY <1>3, <2>3, Zenon
<1>5. Len(a) = a[1] + 256 * a[2] + 2 /\ Len(a) > 1
  BY <1>1, <1>2, <1>4
<1> QED BY <1>4, <1>5, AnswerFits

\* The answer of READ and GETS.
LEMMA DataAnswer ==
  ASSUME NEW b \in Seq(Int), NEW y \in Seq(Int), NEW c \in Seq(Int), NEW data \in Seq(Int),
         Len(b) = 2, Len(y) = 1, Len(c) = 2
  PROVE  /\ b \o y \o c \o data \in Seq(Int)
         /\ Len(b \o y \o c \o data) = Len(data) + 5
         /\ Short(b \o y \o c \o data, 1) = Short(b, 1)
<1> DEFINE x == b \o y \o c
<1>1. /\ x \in Seq(Int) /\ Len(x) = Len(b) + Len(y) + Len(c)
      /\ \A i \in 1..Len(b) : x[i] = b[i]
  <2>1. b \in Seq(Int) /\ y \in Seq(Int) /\ c \in Seq(Int)
    OBVIOUS
  <2> QED BY ONLY <2>1, ThreeParts
<1> HIDE DEF x
<1>2. Len(x) = 5 /\ Len(x) >= 2 /\ x[1] = b[1] /\ x[2] = b[2]
  BY <1>1
<1>3. /\ x \o data \in Seq(Int) /\ Len(x \o data) = Len(x) + Len(data)
      /\ (x \o data)[1] = x[1] /\ (x \o data)[2] = x[2]
  <2>1. x \in Seq(Int) /\ Len(x) >= 2
    BY <1>1, <1>2
  <2> QED BY <2>1, LongerBy
<1>4. Len(data) \in Nat
  BY LenProperties
<1>5. Len(x \o data) = Len(data) + 5
  BY <1>2, <1>3, <1>4
<1>6. Short(x \o data, 1) = Short(b, 1)
  BY <1>2, <1>3 DEF Short
<1> QED BY <1>3, <1>5, <1>6 DEF x

\* The length in a READ, WRITE or GETS.
LEMMA LengthField ==
  ASSUME NEW f, WellFormed(f), f[3] \in {READ, GETS, WRITE}
  PROVE  Short(f, 8) \in Nat
<1>1. f \in Seq(0..255) /\ Len(f) >= 9 /\ Len(f) \in Nat
  BY LenProperties DEF WellFormed, Framed
<1>2. 8 \in Nat /\ 1 <= 8 /\ 8 + 1 <= Len(f)
  BY <1>1
<1> QED BY <1>1, <1>2, ShortNumber

\* What comes before the data of a READ.
LEMMA ReadHeadIsSeq ==
  ASSUME NEW length \in Nat
  PROVE  ReadHead(length) \in Seq(Int) /\ Len(ReadHead(length)) = 5
<1> DEFINE b == Bytes2(length + 1)
           y == <<SP_OK>>
           c == Bytes2(length)
<1>1. b \in Seq(Int) /\ Len(b) = 2 /\ c \in Seq(Int) /\ Len(c) = 2
  <2>1. length + 1 \in Nat
    OBVIOUS
  <2> HIDE DEF b, c
  <2>2. \A k \in Nat : Bytes2(k) \in Seq(Int) /\ Len(Bytes2(k)) = 2
    BY TwoBytes
  <2> QED BY <2>1, <2>2 DEF b, c
<1>2. y \in Seq(Int) /\ Len(y) = 1
  BY DEF SP_OK
<1>3. ReadHead(length) = b \o y \o c
  BY DEF ReadHead
<1> HIDE DEF b, y, c
<1>4. b \o y \o c \in Seq(Int) /\ Len(b \o y \o c) = Len(b) + Len(y) + Len(c)
  <2>1. b \in Seq(Int) /\ y \in Seq(Int) /\ c \in Seq(Int)
    BY <1>1, <1>2
  <2> QED BY ONLY <2>1, ThreeParts
<1> QED BY <1>1, <1>2, <1>3, <1>4

\* READ on a null pointer: the head of the answer is sent, and fread() ends
\* the server.
LEMMA NoFileAnswers ==
  ASSUME SpTypes, NEW f, f[3] = READ, NEW length \in Nat, answer' = ReadHead(length),
         hostUp' = (length = 0), UNCHANGED <<handles, files>>
  PROVE  SpTypes' /\ SameFiles /\ answer' \in Seq(Int) /\ Fits(f, answer')
<1>1. answer' \in Seq(Int) /\ Len(answer') = 5
  BY ReadHeadIsSeq
<1>2. Fits(f, answer')
  BY <1>1 DEF Fits, READ, OPEN
<1>3. hostUp' \in BOOLEAN /\ files' \in [DOMAIN files -> Seq(0..255)] /\ DOMAIN files' = DOMAIN files
  BY DEF SpTypes
<1> QED BY <1>1, <1>2, <1>3, TypesKept

\* The case SP_READ_TAG.
LEMMA ReadAnswers ==
  ASSUME SpTypes, NEW f, WellFormed(f), f[3] = READ, Read(f)
  PROVE  SpTypes' /\ SameFiles /\ answer' \in Seq(Int) /\ Fits(f, answer')
<1> DEFINE id == StreamId(f)
           length == Short(f, 8)
<1>1. length \in Nat
  BY LengthField
<1> SUFFICES ASSUME Usable(id), ~Exits(id)
             PROVE  SpTypes' /\ SameFiles /\ answer' \in Seq(Int) /\ Fits(f, answer')
  <2>1. CASE Exits(id)
    BY <2>1, CrashAnswers DEF Read
  <2>2. CASE ~Exits(id) /\ ~Usable(id)
    <3>1. answer' = ReadHead(length) /\ hostUp' = (length = 0) /\ UNCHANGED <<handles, files>>
      BY <2>2, Zenon DEF Read
    <3> HIDE DEF length
    <3> QED BY <1>1, <3>1, NoFileAnswers
  <2> QED BY <2>1, <2>2
<1>2. PICK r \in Readable(handles[id]), g \in Garbage :
        /\ answer' = ReadHead(length)
             \o [i \in 1..length |-> IF i <= Len(r) THEN r[i] ELSE g]
        /\ Advance(id, IF length < Len(r) THEN length ELSE Len(r))
        /\ UNCHANGED <<hostUp, files>>
  BY DEF Read
<1> HIDE DEF length
<1>3. r \in Seq(0..255) /\ Len(r) \in Nat
  BY ReadableBytes, LenProperties
<1> DEFINE data == [i \in 1..length |-> IF i <= Len(r) THEN r[i] ELSE g]
<1>4. data \in Seq(Int) /\ Len(data) = length
  <2>1. \A i \in 1..length : i <= Len(r) => i \in 1..Len(r)
    BY <1>1, <1>3
  <2>2. \A i \in 1..Len(r) : r[i] \in 0..255
    BY <1>3, ElementOfSeq
  <2>3. g \in Int
    BY SpAssumption
  <2>4. data \in [1..length -> Int]
    BY <2>1, <2>2, <2>3
  <2> HIDE DEF data
  <2> QED BY <1>1, <2>4, FunctionIsSeq
<1> HIDE DEF data
<1>5. answer' \in Seq(Int) /\ Len(answer') > 1
  <2>1. PICK h : h = ReadHead(length) /\ h \in Seq(Int) /\ Len(h) = 5
    BY <1>1, ReadHeadIsSeq
  <2>2. answer' = h \o data
    BY <1>2, <2>1 DEF data
  <2>3. h \o data \in Seq(Int) /\ Len(h \o data) = Len(h) + Len(data)
    BY <1>4, <2>1, ConcatProperties
  <2> QED BY <1>1, <1>4, <2>1, <2>2, <2>3
<1>6. Fits(f, answer')
  BY <1>5 DEF Fits, READ, OPEN
<1>7. SpTypes' /\ SameFiles
  <2>1. id \in DOMAIN handles /\ handles[id] # Unused
    BY UsableStream
  <2>2. hostUp' \in BOOLEAN /\ files' \in [DOMAIN files -> Seq(0..255)] /\ DOMAIN files' = DOMAIN files
    BY <1>2 DEF SpTypes
  <2>3. (IF length < Len(r) THEN length ELSE Len(r)) \in Nat
    BY <1>1, <1>3
  <2> HIDE DEF id
  <2> QED BY <1>2, <2>1, <2>2, <2>3, TypesKept
<1> QED BY <1>5, <1>6, <1>7

\* The case SP_WRITE_TAG.
LEMMA WriteAnswers ==
  ASSUME SpTypes, NEW f, WellFormed(f), f[3] = WRITE, Write(f)
  PROVE  SpTypes' /\ SameFiles /\ answer' \in Seq(Int) /\ Fits(f, answer')
<1> DEFINE length == Short(f, 8)
           data == SubSeq(f, 10, 9 + length)
<1>1. length \in Nat
  BY LengthField
<1> SUFFICES ASSUME ~Crash
             PROVE  SpTypes' /\ SameFiles /\ answer' \in Seq(Int) /\ Fits(f, answer')
  BY CrashAnswers
<1>2. /\ \/ length = 0 /\ UNCHANGED <<handles, files>>
         \/ Usable(StreamId(f)) /\ PutBytes(StreamId(f), data)
      /\ answer' = <<3, 0, SP_OK>> \o Bytes2(length)
      /\ hostUp' = hostUp
  <2>1. ~(Exits(StreamId(f)) \/ (~Usable(StreamId(f)) /\ length > 0))
    BY DEF Write
  <2>2. /\ IF length = 0 THEN UNCHANGED <<handles, files>> ELSE PutBytes(StreamId(f), data)
        /\ answer' = <<3, 0, SP_OK>> \o Bytes2(length)
        /\ hostUp' = hostUp
    BY <2>1, Zenon DEF Write
  <2> HIDE DEF length, data
  <2>3. length # 0 => length > 0
    BY <1>1
  <2> QED BY <2>1, <2>2, <2>3
<1>3. f \in Seq(0..255) /\ Len(f) \in Nat /\ 9 + length <= Len(f)
  BY LenProperties, <1>1 DEF WellFormed, Framed
<1>4. data \in Seq(0..255)
  <2>1. 10 \in Int /\ 1 <= 10 /\ 9 + length \in Int
    BY <1>1
  <2> HIDE DEF length
  <2> QED BY <1>3, <2>1, Part
<1>5. SpTypes' /\ SameFiles
  <2> HIDE DEF data, length
  <2>1. CASE UNCHANGED <<handles, files>>
    <3>1. hostUp' \in BOOLEAN /\ files' \in [DOMAIN files -> Seq(0..255)] /\ DOMAIN files' = DOMAIN files
      BY <1>2, <2>1 DEF SpTypes
    <3> QED BY <2>1, <3>1, TypesKept
  <2> QED BY <1>2, <1>4, <2>1, UsableStream, PutBytesTypes
<1>6. f[3] # OPEN
  BY DEF WRITE, OPEN
<1> HIDE DEF length
<1> QED BY <1>1, <1>2, <1>5, <1>6, CountAnswers

\* A line is part of what can be read.
LEMMA FgetsLine ==
  ASSUME NEW r \in Seq(0..255), r # <<>>, NEW n \in Int
  PROVE  Fgets(r, n) \in Seq(0..255)
<1> DEFINE ends == {i \in 1..Len(r) : r[i] = 10 \/ i = n - 1 \/ i = Len(r)}
<1>1. Len(r) \in Nat /\ Len(r) \in 1..Len(r)
  BY EmptySeq
<1>2. ends \subseteq Nat /\ Len(r) \in ends /\ \A i \in ends : i <= Len(r)
  BY <1>1
<1>3. ends # {} /\ Fgets(r, n) = SubSeq(r, 1, Least(ends))
  BY <1>2 DEF Fgets
<1> HIDE DEF ends
<1>4. Least(ends) \in ends
  BY <1>2, <1>3, LeastOf
<1>5. PICK k \in Nat : k = Least(ends) /\ k <= Len(r)
  BY <1>2, <1>4
<1>6. k \in Int /\ 1 \in Int /\ 1 <= 1
  OBVIOUS
<1>7. SubSeq(r, 1, k) \in Seq(0..255)
  BY <1>5, <1>6, Part
<1> QED BY <1>3, <1>5, <1>7

\* The text of a line.
LEMMA LineText ==
  ASSUME NEW line \in Seq(0..255)
  PROVE  Text(line) \in Seq(0..255)
<1> DEFINE nul == {i \in 1..Len(line) : line[i] = 0}
<1>1. Len(line) \in Nat
  BY LenProperties
<1>2. CASE nul = {}
  BY <1>2 DEF Text
<1>3. CASE nul # {}
  <2>1. nul \subseteq Nat /\ \A i \in nul : i <= Len(line)
    BY <1>1
  <2>2. Text(line) = SubSeq(line, 1, Least(nul) - 1)
    BY <1>3 DEF Text
  <2> HIDE DEF nul
  <2>3. Least(nul) \in nul
    BY <1>3, <2>1, LeastOf
  <2>4. PICK k \in Nat : k = Least(nul) /\ k <= Len(line)
    BY <2>1, <2>3
  <2>5. k - 1 \in Int /\ k - 1 <= Len(line) /\ 1 \in Int /\ 1 <= 1
    BY <1>1, <2>4
  <2>6. SubSeq(line, 1, k - 1) \in Seq(0..255)
    BY <2>5, Part
  <2> QED BY <2>2, <2>4, <2>6
<1> QED BY <1>2, <1>3

\* What is sent of it.
LEMMA LineData ==
  ASSUME NEW line \in Seq(0..255)
  PROVE  Padded(Stripped(line)) \in Seq(0..255)
<1>1. Len(line) - 1 \in Int /\ Len(line) - 1 <= Len(line) /\ 1 \in Int /\ 1 <= 1
  BY LenProperties
<1>2. Stripped(line) \in Seq(0..255)
  BY <1>1, Part DEF Stripped
<1>3. \A s \in Seq(0..255) : Append(s, 0) \in Seq(0..255)
  BY AppendProperties
<1> QED BY <1>2, <1>3 DEF Padded

\* The case SP_GETS_TAG.
LEMMA GetsAnswers ==
  ASSUME SpTypes, NEW f, WellFormed(f), f[3] = GETS, Gets(f)
  PROVE  SpTypes' /\ SameFiles /\ answer' \in Seq(Int) /\ Fits(f, answer')
<1> DEFINE id == StreamId(f)
           n == Short(f, 8)
<1>1. n \in Nat
  BY LengthField
<1> SUFFICES ASSUME Usable(id)
             PROVE  SpTypes' /\ SameFiles /\ answer' \in Seq(Int) /\ Fits(f, answer')
  BY CrashAnswers DEF Gets
<1>2. PICK r \in Readable(handles[id]) :
        \E line \in IF r = <<>> THEN TypedLine ELSE {Fgets(r, n)} :
          LET data == Padded(Stripped(Text(line))) IN
          /\ answer' = Bytes2(GetsLength(data))
               \o <<IF data = <<>> THEN SP_ERROR ELSE SP_OK>>
               \o Bytes2(Len(data))
               \o [i \in 1..Len(data) |-> CharValue(data[i])]
          /\ Advance(id, IF r = <<>> THEN 0 ELSE Len(line))
          /\ UNCHANGED <<hostUp, files>>
  BY DEF Gets
<1>3. r \in Seq(0..255)
  BY ReadableBytes
<1>4. PICK line \in IF r = <<>> THEN TypedLine ELSE {Fgets(r, n)} :
          LET data == Padded(Stripped(Text(line))) IN
          /\ answer' = Bytes2(GetsLength(data))
               \o <<IF data = <<>> THEN SP_ERROR ELSE SP_OK>>
               \o Bytes2(Len(data))
               \o [i \in 1..Len(data) |-> CharValue(data[i])]
          /\ Advance(id, IF r = <<>> THEN 0 ELSE Len(line))
          /\ UNCHANGED <<hostUp, files>>
  BY <1>2
<1> HIDE DEF n
<1>5. line \in Seq(0..255) /\ Len(line) \in Nat
  <2>1. n \in Int
    BY <1>1
  <2>2. line \in Seq(0..255)
    BY <1>3, <1>4, <2>1, FgetsLine, SpAssumption
  <2> QED BY <2>2, LenProperties
<1> DEFINE data == Padded(Stripped(Text(line)))
           b == Bytes2(GetsLength(data))
           y == <<IF data = <<>> THEN SP_ERROR ELSE SP_OK>>
           c == Bytes2(Len(data))
           chars == [i \in 1..Len(data) |-> CharValue(data[i])]
<1>6. answer' = b \o y \o c \o chars
  BY <1>4
<1>7. data \in Seq(0..255) /\ Len(data) \in Nat
  <2>1. data \in Seq(0..255)
    BY <1>5, LineText, LineData
  <2> HIDE DEF data
  <2> QED BY <2>1, LenProperties
<1> HIDE DEF data
<1>8. chars \in Seq(Int) /\ Len(chars) = Len(data)
  <2>1. \A i \in 1..Len(data) : data[i] \in 0..255
    BY <1>7, ElementOfSeq
  <2>2. \A i \in 1..Len(data) : CharValue(data[i]) \in Int
    <3>1. \A x \in 0..255 : CharValue(x) \in Int
      BY DEF CharValue
    <3> QED BY <2>1, <3>1
  <2>3. chars \in [1..Len(data) -> Int]
    BY <2>2
  <2> HIDE DEF chars
  <2> QED BY <1>7, <2>3, FunctionIsSeq
<1>9. GetsLength(data) \in Nat /\ GetsLength(data) = Len(data) + 3
  BY <1>7 DEF GetsLength
<1>10. /\ b \in Seq(Int) /\ Len(b) = 2 /\ Short(b, 1) = GetsLength(data)
       /\ c \in Seq(Int) /\ Len(c) = 2
  BY <1>7, <1>9, TwoBytes, ShortOfBytes
<1>11. y \in Seq(Int) /\ Len(y) = 1
  BY DEF SP_ERROR, SP_OK
<1> HIDE DEF b, y, c, chars
<1>12. /\ answer' \in Seq(Int) /\ Len(answer') = Len(chars) + 5
       /\ Short(answer', 1) = Short(b, 1)
  BY <1>6, <1>8, <1>10, <1>11, DataAnswer
<1>13. Fits(f, answer')
  <2>1. f[3] # OPEN
    BY DEF GETS, OPEN
  <2>2. Short(answer', 1) = Len(data) + 3 /\ Len(answer') = Len(data) + 5
    BY <1>8, <1>9, <1>10, <1>12
  <2>3. Len(answer') > 1 /\ Len(answer') = Short(answer', 1) + 2
    BY <1>7, <2>2
  <2> QED BY <2>1, <2>3 DEF Fits
<1>14. SpTypes' /\ SameFiles
  <2>1. id \in DOMAIN handles /\ handles[id] # Unused
    BY UsableStream
  <2>2. hostUp' \in BOOLEAN /\ files' \in [DOMAIN files -> Seq(0..255)] /\ DOMAIN files' = DOMAIN files
    BY <1>4 DEF SpTypes
  <2>3. (IF r = <<>> THEN 0 ELSE Len(line)) \in Nat
    BY <1>5
  <2> HIDE DEF id
  <2> QED BY <1>4, <2>1, <2>2, <2>3, TypesKept
<1> QED BY <1>12, <1>13, <1>14

\* The case SP_PUTS_TAG.
LEMMA PutsAnswers ==
  ASSUME SpTypes, NEW f, WellFormed(f), f[3] = PUTS, Puts(f)
  PROVE  SpTypes' /\ SameFiles /\ answer' \in Seq(Int) /\ Fits(f, answer')
<1> DEFINE length == FrameLength(f) - 8
           data == Append(SubSeq(f, 10, 9 + length), 10)
<1>1. f \in Seq(0..255) /\ Len(f) \in Nat /\ Len(f) >= 10 /\ Len(f) = FrameLength(f) + 2
  BY LenProperties DEF WellFormed, Framed
<1>2. length \in Nat /\ 9 + length <= Len(f)
  <2>1. FrameLength(f) \in Nat
    <3>1. 1 \in Nat /\ 1 <= 1 /\ 1 + 1 <= Len(f)
      BY <1>1
    <3> QED BY <1>1, <3>1, ShortNumber DEF FrameLength
  <2> QED BY <1>1, <2>1
<1>3. /\ IF StreamId(f) = 1 THEN PutBytes(1, data) ELSE UNCHANGED <<handles, files>>
      /\ answer' = <<3, 0, SP_OK>> \o Bytes2(length)
      /\ hostUp' = hostUp
  BY DEF Puts
<1>4. data \in Seq(0..255)
  <2>1. 10 \in Int /\ 1 <= 10 /\ 9 + length \in Int /\ 10 \in 0..255
    BY <1>2
  <2> HIDE DEF length
  <2>2. SubSeq(f, 10, 9 + length) \in Seq(0..255)
    BY <1>1, <1>2, <2>1, Part
  <2> QED BY <2>1, <2>2, AppendProperties
<1> HIDE DEF length, data
<1>5. SpTypes' /\ SameFiles
  <2>1. CASE StreamId(f) = 1
    <3>1. 1 \in DOMAIN handles /\ 1 \in 0..2
      BY SpAssumption DEF SpTypes
    <3>2. handles[1] # Unused /\ handles[1].file \in DOMAIN files
      BY <3>1 DEF SpTypes
    <3> QED BY <1>3, <1>4, <2>1, <3>1, <3>2, PutBytesTypes
  <2>2. CASE StreamId(f) # 1
    <3>1. UNCHANGED <<handles, files, hostUp>>
      BY <1>3, <2>2
    <3>2. hostUp' \in BOOLEAN /\ files' \in [DOMAIN files -> Seq(0..255)] /\ DOMAIN files' = DOMAIN files
      BY <3>1 DEF SpTypes
    <3> QED BY <3>1, <3>2, TypesKept
  <2> QED BY <2>1, <2>2
<1>6. f[3] # OPEN
  BY DEF PUTS, OPEN
<1> QED BY <1>2, <1>3, <1>5, <1>6, CountAnswers

\* Every case keeps the types, and its answer fits the request.
LEMMA ServeAnswers ==
  ASSUME SpTypes, NEW f, WellFormed(f), Serve(f)
  PROVE  SpTypes' /\ answer' \in Seq(Int) /\ Fits(f, answer') /\ (SameFiles \/ (f[3] = OPEN /\ Open(f)))
<1>1. CASE UNCHANGED <<hostUp, handles, files>> /\ answer' = <<>>
  <2>1. hostUp' \in BOOLEAN /\ files' \in [DOMAIN files -> Seq(0..255)] /\ DOMAIN files' = DOMAIN files
    BY <1>1 DEF SpTypes
  <2>2. SpTypes' /\ SameFiles
    BY <1>1, <2>1, TypesKept
  <2> QED BY <1>1, <2>2 DEF Fits
<1>2. CASE f[3] = GETKEY /\ GetKey
  <2>1. PICK ch \in Nat : answer' = <<2, 0, SP_OK, ch>> /\ UNCHANGED <<hostUp, handles, files>>
    BY <1>2, SpAssumption DEF GetKey
  <2>2. hostUp' \in BOOLEAN /\ files' \in [DOMAIN files -> Seq(0..255)] /\ DOMAIN files' = DOMAIN files
    BY <2>1 DEF SpTypes
  <2>3. SpTypes' /\ SameFiles
    BY <2>1, <2>2, TypesKept
  <2> DEFINE a == <<2, 0, SP_OK, ch>>
  <2>4. a \in Seq(Int) /\ Len(a) = 4 /\ a[1] = 2 /\ a[2] = 0
    BY DEF SP_OK
  <2>5. answer' = a
    BY <2>1
  <2> HIDE DEF a
  <2>6. Len(a) = a[1] + 256 * a[2] + 2 /\ Len(a) > 1 /\ f[3] # OPEN
    BY <1>2, <2>4 DEF GETKEY, OPEN
  <2> QED BY <2>3, <2>4, <2>5, <2>6, AnswerFits
<1>3. \/ f[3] = OPEN /\ Open(f)
      \/ f[3] = READ /\ Read(f)
      \/ f[3] = WRITE /\ Write(f)
      \/ f[3] = GETS /\ Gets(f)
      \/ f[3] = PUTS /\ Puts(f)
      \/ f[3] = GETKEY /\ GetKey
      \/ UNCHANGED <<hostUp, handles, files>> /\ answer' = <<>>
  BY DEF Serve, NoReply
<1> QED BY <1>1, <1>2, <1>3, OpenAnswers, ReadAnswers, WriteAnswers, GetsAnswers, PutsAnswers

\* An OPEN that is answered opens.
LEMMA ServeOpen ==
  ASSUME NEW f, Serve(f), f[3] = OPEN
  PROVE  Open(f) \/ answer' = <<>>
BY DEF Serve, NoReply, OPEN, READ, WRITE, GETS, PUTS, GETKEY

-----------------------------------------------------------------------------
(* The requests of a program.                                              *)

\* A number that fits into two bytes.
LEMMA ShortBytes ==
  ASSUME NEW n \in ShortValue, NEW b, b = Bytes2(n)
  PROVE  b \in Seq(0..255) /\ Len(b) = 2 /\ Short(b, 1) = n
<1>1. n \in Nat /\ n < 65536
  BY DEF ShortValue
<1> QED BY <1>1, TwoBytes, ShortOfBytes, BytesOfShort

\* So does one that a program asks for.
LEMMA SmallIsShort ==
  ASSUME NEW n \in Nat, n <= MAX_LINE
  PROVE  n \in ShortValue
<1>1. n <= 2000
  BY DEF MAX_LINE
<1>2. PICK k \in Int : k = 256 * 256 - 1
  OBVIOUS
<1>3. n \in 0..k
  <2>1. n <= 65535
    BY <1>1
  <2>2. 256 * 256 - 1 = 65535
    OBVIOUS
  <2>3. n <= k
    BY <1>2, <2>1, <2>2
  <2> QED BY <2>3
<1> QED BY ONLY <1>2, <1>3, Zenon DEF ShortValue

\* A body is given an odd number of bytes.
LEMMA EvenBodyIsBytes ==
  ASSUME NEW body \in Seq(0..255), NEW e, e = EvenBody(body)
  PROVE  /\ e \in Seq(0..255) /\ Len(e) >= Len(body) /\ Len(e) <= Len(body) + 1
         /\ Len(body) = 6 => Len(e) = 7
         /\ \A i \in 1..Len(body) : e[i] = body[i]
<1>1. Len(body) \in Nat
  BY LenProperties
<1>2. CASE Len(body) % 2 = 1
  <2>1. e = body
    BY <1>2 DEF EvenBody
  <2>2. ASSUME Len(body) = 6 PROVE FALSE
    <3>1. 6 % 2 = 1
      BY ONLY <1>2, <2>2, Zenon
    <3> QED BY ONLY <3>1
  <2> QED BY <1>1, <2>1, <2>2
<1>3. CASE Len(body) % 2 # 1
  <2>1. e = Append(body, 0) /\ 0 \in 0..255
    BY <1>3 DEF EvenBody
  <2>2. /\ Append(body, 0) \in Seq(0..255) /\ Len(Append(body, 0)) = Len(body) + 1
        /\ \A i \in 1..Len(body) : Append(body, 0)[i] = body[i]
    BY <2>1, AppendProperties
  <2>3. /\ e \in Seq(0..255) /\ Len(e) = Len(body) + 1
        /\ \A i \in 1..Len(body) : e[i] = body[i]
    BY ONLY <2>1, <2>2, Zenon
  <2>4. Len(e) >= Len(body) /\ Len(e) <= Len(body) + 1 /\ (Len(body) = 6 => Len(e) = 7)
    BY ONLY <1>1, <2>3
  <2> QED BY ONLY <2>3, <2>4, Zenon
<1> QED BY <1>2, <1>3

\* A length, a tag and a body make a frame.
LEMMA FrameOfParts ==
  ASSUME NEW b \in Seq(0..255), Len(b) = 2, NEW y \in Seq(0..255), Len(y) = 1,
         NEW e \in Seq(0..255), Short(b, 1) = Len(e) + 1
  PROVE  /\ Framed(b \o y \o e) /\ (b \o y \o e)[3] = y[1] /\ Len(b \o y \o e) = Len(e) + 3
         /\ \A i \in 1..Len(e) : (b \o y \o e)[3 + i] = e[i]
<1>1. Len(e) \in Nat
  BY LenProperties
<1>2. /\ b \o y \o e \in Seq(0..255) /\ Len(b \o y \o e) = Len(b) + Len(y) + Len(e)
      /\ \A i \in 1..Len(b) : (b \o y \o e)[i] = b[i]
      /\ \A i \in 1..Len(y) : (b \o y \o e)[Len(b) + i] = y[i]
      /\ \A i \in 1..Len(e) : (b \o y \o e)[Len(b) + Len(y) + i] = e[i]
  <2>1. b \in Seq(0..255) /\ y \in Seq(0..255) /\ e \in Seq(0..255)
    OBVIOUS
  <2> QED BY ONLY <2>1, ThreeParts
<1>3. PICK r : r = b \o y \o e /\ Len(b) = 2 /\ Len(y) = 1
  OBVIOUS
<1>4. r \in Seq(0..255) /\ Len(r) = Len(e) + 3
  BY ONLY <1>1, <1>2, <1>3
<1>5. r[1] = b[1] /\ r[1 + 1] = b[1 + 1] /\ r[3] = y[1]
  <2>1. 1 \in 1..Len(b) /\ 1 + 1 \in 1..Len(b) /\ 1 \in 1..Len(y) /\ Len(b) + 1 = 3
    BY ONLY <1>3
  <2>2. r[1] = b[1] /\ r[1 + 1] = b[1 + 1] /\ r[Len(b) + 1] = y[1]
    BY ONLY <1>2, <1>3, <2>1
  <2> QED BY ONLY <2>1, <2>2
<1>6. ASSUME NEW i \in 1..Len(e) PROVE r[3 + i] = e[i]
  <2>1. Len(b) + Len(y) + i = 3 + i
    BY <1>1, <1>3
  <2>2. r[Len(b) + Len(y) + i] = e[i]
    BY ONLY <1>2, <1>3, i \in 1..Len(e)
  <2> QED BY ONLY <2>1, <2>2
<1>7. FrameLength(r) = Len(e) + 1
  <2>1. Short(r, 1) = Short(b, 1)
    BY ONLY <1>5 DEF Short
  <2>2. Short(b, 1) = Len(e) + 1
    OBVIOUS
  <2> QED BY ONLY <2>1, <2>2 DEF FrameLength
<1>8. Framed(r)
  <2>1. Len(r) > 2 /\ Len(r) = FrameLength(r) + 2
    BY ONLY <1>1, <1>4, <1>7
  <2> QED BY ONLY <1>4, <2>1 DEF Framed
<1> QED BY ONLY <1>3, <1>4, <1>5, <1>6, <1>8, Zenon

\* A stream, as its number.
LEMMA LongBytes ==
  ASSUME NEW n \in ShortValue
  PROVE  Long(n) \in Seq(0..255) /\ Len(Long(n)) = 4
<1> DEFINE b == Bytes2(n)
           z == <<0, 0>>
<1>1. b \in Seq(0..255) /\ Len(b) = 2
  BY ONLY ShortBytes
<1>2. z \in Seq(0..255) /\ Len(z) = 2
  <2>1. 0 \in 0..255
    OBVIOUS
  <2> QED BY <2>1
<1> HIDE DEF b, z
<1>3. b \o z \in Seq(0..255) /\ Len(b \o z) = Len(b) + Len(z)
  <2>1. b \in Seq(0..255) /\ z \in Seq(0..255)
    BY <1>1, <1>2
  <2> QED BY ONLY <2>1, ConcatProperties
<1> QED BY <1>1, <1>2, <1>3 DEF Long, b, z

\* A stream, a count and data.
LEMMA StreamBody ==
  ASSUME NEW x \in Seq(0..255), Len(x) = 4, NEW b \in Seq(0..255), Len(b) = 2,
         NEW data \in Seq(0..255)
  PROVE  /\ x \o b \o data \in Seq(0..255) /\ Len(x \o b \o data) = Len(data) + 6
         /\ Short(x \o b \o data, 5) = Short(b, 1)
<1>1. Len(data) \in Nat
  BY LenProperties
<1>2. /\ x \o b \o data \in Seq(0..255) /\ Len(x \o b \o data) = Len(x) + Len(b) + Len(data)
      /\ \A i \in 1..Len(b) : (x \o b \o data)[Len(x) + i] = b[i]
  <2>1. x \in Seq(0..255) /\ b \in Seq(0..255) /\ data \in Seq(0..255)
    OBVIOUS
  <2> QED BY ONLY <2>1, ThreeParts
<1>3. PICK body : body = x \o b \o data /\ Len(x) = 4 /\ Len(b) = 2
  OBVIOUS
<1>4. body \in Seq(0..255) /\ Len(body) = Len(data) + 6
  BY ONLY <1>1, <1>2, <1>3
<1>5. body[5] = b[1] /\ body[5 + 1] = b[1 + 1]
  <2>1. /\ 1 \in 1..Len(b) /\ 1 + 1 \in 1..Len(b)
        /\ Len(x) + 1 = 5 /\ Len(x) + (1 + 1) = 5 + 1
    BY ONLY <1>3
  <2>2. body[Len(x) + 1] = b[1] /\ body[Len(x) + (1 + 1)] = b[1 + 1]
    BY ONLY <1>2, <1>3, <2>1
  <2> QED BY ONLY <2>1, <2>2
<1>6. Short(body, 5) = Short(b, 1)
  BY <1>5 DEF Short
<1> QED BY ONLY <1>3, <1>4, <1>6, Zenon

\* A name and a mode.
LEMMA OpenBody ==
  ASSUME NEW name \in Seq(0..255), Len(name) < 40, NEW mode \in {1, 2},
         NEW body, body = Bytes2(Len(name)) \o name \o <<1, mode>>
  PROVE  /\ body \in Seq(0..255) /\ Len(body) = Len(name) + 4
         /\ Short(body, 1) = Len(name)
<1> DEFINE n == Len(name)
           b == Bytes2(n)
           z == <<1, mode>>
<1>1. n \in Nat /\ n < 40
  BY LenProperties
<1>2. n \in ShortValue
  <2>1. n <= MAX_LINE
    BY ONLY <1>1 DEF MAX_LINE
  <2> QED BY ONLY <1>1, <2>1, SmallIsShort
<1>3. body = b \o name \o z
  OBVIOUS
<1>4. z \in Seq(0..255) /\ Len(z) = 2
  <2>1. 1 \in 0..255 /\ mode \in 0..255
    OBVIOUS
  <2> QED BY <2>1
<1> HIDE DEF n, z
<1>5. /\ b \in Seq(0..255) /\ Len(b) = 2 /\ Short(b, 1) = n
  BY ONLY <1>1, <1>2, ShortBytes
<1> HIDE DEF b
<1>6. /\ b \o name \o z \in Seq(0..255) /\ Len(b \o name \o z) = Len(b) + Len(name) + Len(z)
      /\ \A i \in 1..Len(b) : (b \o name \o z)[i] = b[i]
  <2>1. b \in Seq(0..255) /\ name \in Seq(0..255) /\ z \in Seq(0..255)
    BY <1>4, <1>5
  <2> QED BY ONLY <2>1, ThreeParts
<1>7. Len(body) = n + 4
  <2>1. Len(body) = Len(b) + Len(name) + Len(z)
    BY ONLY <1>3, <1>6
  <2> QED BY ONLY <1>1, <1>4, <1>5, <2>1 DEF n
<1>8. Short(body, 1) = Short(b, 1)
  <2>1. 1 \in 1..Len(b) /\ 1 + 1 \in 1..Len(b)
    BY ONLY <1>5
  <2>2. body[1] = b[1] /\ body[1 + 1] = b[1 + 1]
    BY ONLY <1>3, <1>6, <2>1
  <2> QED BY ONLY <2>2 DEF Short
<1> QED BY ONLY <1>3, <1>5, <1>6, <1>7, <1>8 DEF n

\* The fields of a body are found three bytes further on in the frame.
LEMMA FieldOfFrame ==
  ASSUME NEW body, Len(body) \in Nat, NEW r, \A i \in 1..Len(body) : r[3 + i] = body[i],
         NEW k \in Nat, k > 0, k < Len(body)
  PROVE  Short(r, 3 + k) = Short(body, k)
<1>1. k \in 1..Len(body) /\ k + 1 \in 1..Len(body) /\ 3 + (k + 1) = (3 + k) + 1
  OBVIOUS
<1>2. r[3 + k] = body[k] /\ r[3 + (k + 1)] = body[k + 1]
  BY <1>1
<1>3. r[(3 + k) + 1] = body[k + 1]
  BY <1>1, <1>2
<1> QED BY <1>2, <1>3 DEF Short

\* A frame that holds the body of a request is one the server can serve.
LEMMA FrameWellFormed ==
  ASSUME NEW tag, NEW body, Len(body) \in Nat,
         NEW r, Framed(r), r[3] = tag, Len(r) \in Nat, Len(r) >= Len(body) + 3,
         Len(body) = 6 => Len(r) >= 10,
         \A i \in 1..Len(body) : r[3 + i] = body[i],
         tag = OPEN => Short(body, 1) \in Nat /\ Len(body) = Short(body, 1) + 4,
         tag \in {READ, GETS, PUTS} => Len(body) >= 6,
         tag = WRITE => Short(body, 5) \in Nat /\ Len(body) = Short(body, 5) + 6
  PROVE  WellFormed(r)
<1>1. ASSUME tag = OPEN PROVE Len(r) >= 7 /\ Len(r) >= 7 + Short(r, 4)
  <2>1. Short(r, 3 + 1) = Short(body, 1)
    BY <1>1, FieldOfFrame
  <2>2. Short(r, 4) = Short(body, 1)
    BY <2>1, 3 + 1 = 4
  <2> QED BY <1>1, <2>2
<1>2. ASSUME tag \in {READ, GETS} PROVE Len(r) >= 9
  BY <1>2
<1>3. ASSUME tag = WRITE PROVE Len(r) >= 9 /\ Len(r) >= 9 + Short(r, 8)
  <2>1. Short(r, 3 + 5) = Short(body, 5)
    BY <1>3, FieldOfFrame
  <2>2. Short(r, 8) = Short(body, 5)
    BY <2>1, 3 + 5 = 8
  <2> QED BY <1>3, <2>2
<1>4. ASSUME tag = PUTS PROVE Len(r) >= 10
  <2>1. Len(body) >= 6
    BY <1>4
  <2>2. PICK m \in Nat, n \in Nat : m = Len(body) /\ n = Len(r)
    OBVIOUS
  <2>3. m >= 6 /\ n >= m + 3 /\ (m = 6 => n >= 10)
    BY <2>1, <2>2
  <2>4. n >= 10
    BY ONLY <2>3
  <2> QED BY ONLY <2>2, <2>4, Zenon
<1> QED BY <1>1, <1>2, <1>3, <1>4 DEF WellFormed

\* What a program makes of the stream it was given last.
StreamsGiven == opened \in Seq([name : Seq(0..255), stream : ShortValue])

\* It is a number of two bytes.
LEMMA StreamIsShort ==
  ASSUME StreamsGiven, NEW c
  PROVE  CurrentStream(c) \in ShortValue
<1>1. CASE opened = <<>>
  BY <1>1 DEF CurrentStream, ShortValue
<1>2. CASE opened # <<>>
  <2>1. PICK S, o : o \in Seq(S) /\ o = opened /\ S = [name : Seq(0..255), stream : ShortValue]
    BY DEF StreamsGiven
  <2>2. o # <<>>
    BY <1>2, <2>1
  <2>3. Len(o) \in 1..Len(o)
    BY ONLY <2>1, <2>2, EmptySeq, LenProperties
  <2>4. o[Len(o)] \in S
    BY ONLY <2>1, <2>3, ElementOfSeq
  <2>5. o[Len(o)].stream \in ShortValue
    BY ONLY <2>1, <2>4
  <2> QED BY ONLY <1>2, <2>1, <2>5, Zenon DEF CurrentStream
<1> QED BY <1>1, <1>2

\* The alternatives of Body.
LEMMA BodyCases ==
  ASSUME NEW c, NEW n, n = CurrentStream(c), NEW body, body = Body(c)
  PROVE  /\ c.tag = OPEN => body = Bytes2(Len(c.name)) \o c.name \o <<1, c.mode>>
         /\ c.tag \in {READ, GETS} => body = Long(n) \o Bytes2(c.length)
         /\ c.tag = WRITE => body = Long(n) \o Bytes2(Len(c.data)) \o c.data
         /\ c.tag = PUTS => body = Long(c.stream) \o Bytes2(Len(c.data)) \o c.data
         /\ c.tag \notin {OPEN, READ, GETS, WRITE, PUTS} => body = c.body
<1>1. PICK t, x, y, z, w, u :
        /\ t = c.tag
        /\ x = Bytes2(Len(c.name)) \o c.name \o <<1, c.mode>>
        /\ y = Long(n) \o Bytes2(c.length)
        /\ z = Long(n) \o Bytes2(Len(c.data)) \o c.data
        /\ w = Long(c.stream) \o Bytes2(Len(c.data)) \o c.data
        /\ u = c.body
  OBVIOUS
<1>2. body = CASE t = OPEN           -> x
               [] t \in {READ, GETS} -> y
               [] t = WRITE          -> z
               [] t = PUTS           -> w
               [] OTHER              -> u
  BY <1>1, Zenon DEF Body
<1>3. body = CASE t = 10       -> x
               [] t \in {12, 14} -> y
               [] t = 13         -> z
               [] t = 15         -> w
               [] OTHER          -> u
  BY <1>2, Zenon DEF OPEN, READ, WRITE, GETS, PUTS
<1>4. /\ t = 10 => body = x
      /\ t \in {12, 14} => body = y
      /\ t = 13 => body = z
      /\ t = 15 => body = w
      /\ t \notin {10, 12, 14, 13, 15} => body = u
  <2> HIDE <1>1, <1>2
  <2>1. ASSUME t = 10 PROVE body = x
    BY ONLY <1>3, <2>1
  <2>2. ASSUME t \in {12, 14} PROVE body = y
    BY ONLY <1>3, <2>2
  <2>3. ASSUME t = 13 PROVE body = z
    BY ONLY <1>3, <2>3
  <2>4. ASSUME t = 15 PROVE body = w
    BY ONLY <1>3, <2>4
  <2>5. ASSUME t \notin {10, 12, 14, 13, 15} PROVE body = u
    BY ONLY <1>3, <2>5
  <2> QED BY ONLY <2>1, <2>2, <2>3, <2>4, <2>5, Zenon
<1> QED BY ONLY <1>1, <1>4, Zenon DEF OPEN, READ, WRITE, GETS, PUTS

\* The body of a request has the fields its tag calls for.
LEMMA BodyOfRequest ==
  ASSUME StreamsGiven, NEW c, WellMade(c), NEW body, body = Body(c)
  PROVE  /\ body \in Seq(0..255) /\ Len(body) <= MAX_FRAME - 4
         /\ c.tag = OPEN => Short(body, 1) \in Nat /\ Len(body) = Short(body, 1) + 4
         /\ c.tag \in {READ, GETS, PUTS} => Len(body) >= 6
         /\ c.tag = WRITE => Short(body, 5) \in Nat /\ Len(body) = Short(body, 5) + 6
<1>1. PICK n \in ShortValue : n = CurrentStream(c)
  BY StreamIsShort
<1>2. CASE c.tag = OPEN
  <2>1. c.name \in Seq(0..255) /\ Len(c.name) < 40 /\ c.mode \in {1, 2}
    BY <1>2, Zenon DEF WellMade
  <2>2. body = Bytes2(Len(c.name)) \o c.name \o <<1, c.mode>>
    BY <1>1, <1>2, BodyCases
  <2>3. /\ body \in Seq(0..255) /\ Len(body) = Len(c.name) + 4
        /\ Short(body, 1) = Len(c.name)
    BY ONLY <2>1, <2>2, OpenBody
  <2>4. Len(c.name) \in Nat
    BY ONLY <2>1, LenProperties
  <2> QED BY ONLY <1>2, <2>1, <2>3, <2>4 DEF OPEN, READ, GETS, PUTS, WRITE, MAX_FRAME
<1>3. CASE c.tag \in {READ, GETS}
  <2>1. c.length \in ShortValue
    <3>1. CASE c.tag = READ
      BY <3>1, Zenon DEF WellMade
    <3>2. CASE c.tag = GETS
      <4>1. c.length \in 2..MAX_LINE
        BY <3>2, Zenon DEF WellMade
      <4>2. PICK k : k = c.length
        OBVIOUS
      <4>3. k \in Nat /\ k <= MAX_LINE
        <5>1. k \in 2..MAX_LINE
          BY ONLY <4>1, <4>2, Zenon
        <5> QED BY <5>1 DEF MAX_LINE
      <4>4. k \in ShortValue
        BY ONLY <4>3, SmallIsShort
      <4> QED BY ONLY <4>2, <4>4, Zenon
    <3> QED BY <1>3, <3>1, <3>2
  <2>2. body = Long(n) \o Bytes2(c.length)
    BY <1>1, <1>3, BodyCases
  <2>3. PICK x, y : x = Long(n) /\ y = Bytes2(c.length)
    OBVIOUS
  <2>4. x \in Seq(0..255) /\ Len(x) = 4
    BY <1>1, <2>3, LongBytes
  <2>5. y \in Seq(0..255) /\ Len(y) = 2
    BY ONLY <2>1, <2>3, ShortBytes
  <2>6. x \o y \in Seq(0..255) /\ Len(x \o y) = Len(x) + Len(y)
    BY ONLY <2>4, <2>5, ConcatProperties
  <2>7. body \in Seq(0..255) /\ Len(body) = 6
    BY ONLY <2>2, <2>3, <2>4, <2>5, <2>6
  <2> QED BY ONLY <1>3, <2>7 DEF MAX_FRAME, OPEN, READ, GETS, PUTS, WRITE
<1>4. CASE c.tag \in {WRITE, PUTS}
  <2>1. c.data \in Seq(0..255) /\ Len(c.data) <= MAX_FRAME - 10
    BY <1>4, Zenon DEF WellMade
  <2>2. PICK m : m = Len(c.data)
    OBVIOUS
  <2>3. m \in ShortValue
    <3>1. PICK k \in Nat : k = Len(c.data)
      BY ONLY <2>1, LenProperties
    <3>2. k <= MAX_LINE
      BY ONLY <2>1, <3>1 DEF MAX_FRAME, MAX_LINE
    <3>3. k \in ShortValue
      BY ONLY <3>2, SmallIsShort
    <3> QED BY ONLY <2>2, <3>1, <3>3, Zenon
  <2>4. PICK k \in ShortValue : body = Long(k) \o Bytes2(m) \o c.data
    <3>1. CASE c.tag = WRITE
      BY <1>1, <2>2, <3>1, BodyCases
    <3>2. CASE c.tag = PUTS
      <4>1. c.stream \in ShortValue
        BY <3>2, Zenon DEF WellMade
      <4>2. body = Long(c.stream) \o Bytes2(m) \o c.data
        BY <1>1, <2>2, <3>2, BodyCases
      <4> QED BY ONLY <4>1, <4>2
    <3> QED BY <1>4, <3>1, <3>2
  <2>5. body \in Seq(0..255) /\ Len(body) = Len(c.data) + 6 /\ Short(body, 5) = m
    <3>1. PICK d : d = c.data
      OBVIOUS
    <3>2. k \in ShortValue /\ d \in Seq(0..255) /\ body = Long(k) \o Bytes2(m) \o d
      BY ONLY <2>1, <2>4, <3>1, Zenon
    <3>3. PICK x, b : x = Long(k) /\ b = Bytes2(m)
      OBVIOUS
    <3>4. body = x \o b \o d
      BY ONLY <3>2, <3>3, Zenon
    <3>5. x \in Seq(0..255) /\ Len(x) = 4
      BY ONLY <3>2, <3>3, LongBytes, Zenon
    <3>6. b \in Seq(0..255) /\ Len(b) = 2 /\ Short(b, 1) = m
      BY ONLY <2>3, <3>3, ShortBytes, Zenon
    <3>7. d \in Seq(0..255)
      BY ONLY <3>2, Zenon
    <3>8. /\ x \o b \o d \in Seq(0..255) /\ Len(x \o b \o d) = Len(d) + 6
          /\ Short(x \o b \o d, 5) = Short(b, 1)
      BY ONLY <3>5, <3>6, <3>7, StreamBody
    <3> QED BY ONLY <3>1, <3>4, <3>6, <3>8, Zenon
  <2> QED BY ONLY <1>4, <2>1, <2>2, <2>5 DEF OPEN, READ, GETS, PUTS, WRITE, MAX_FRAME
<1>5. CASE c.tag \notin {OPEN, READ, GETS, WRITE, PUTS}
  <2>1. c.body \in Seq(0..255) /\ Len(c.body) <= MAX_FRAME - 4
    BY <1>5, Zenon DEF WellMade
  <2>2. body = c.body
    BY <1>1, <1>5, BodyCases
  <2>3. Len(c.body) \in Nat
    BY ONLY <2>1, LenProperties
  <2> QED BY ONLY <1>5, <2>1, <2>2, <2>3
<1> QED BY <1>2, <1>3, <1>4, <1>5

\* The server can serve what a program asks for.
LEMMA RequestWellFormed ==
  ASSUME StreamsGiven, NEW c, WellMade(c), NEW r, r = Request(c)
  PROVE  WellFormed(r) /\ r[3] = c.tag
<1>1. PICK body : body = Body(c)
  OBVIOUS
<1>2. /\ body \in Seq(0..255) /\ Len(body) <= MAX_FRAME - 4
      /\ c.tag = OPEN => Short(body, 1) \in Nat /\ Len(body) = Short(body, 1) + 4
      /\ c.tag \in {READ, GETS, PUTS} => Len(body) >= 6
      /\ c.tag = WRITE => Short(body, 5) \in Nat /\ Len(body) = Short(body, 5) + 6
  BY <1>1, BodyOfRequest
<1>3. c.tag \in 0..255
  BY Zenon DEF WellMade
<1>4. r = Bytes2(Len(EvenBody(body)) + 1) \o <<c.tag>> \o EvenBody(body)
  BY <1>1 DEF Request
<1>5. /\ Framed(r) /\ r[3] = c.tag
      /\ Len(r) >= Len(body) + 3 /\ (Len(body) = 6 => Len(r) >= 10)
      /\ \A i \in 1..Len(body) : r[3 + i] = body[i]
  <2>1. body \in Seq(0..255) /\ Len(body) <= MAX_FRAME - 4
    BY ONLY <1>2, Zenon
  <2>2. PICK e : e = EvenBody(body)
    OBVIOUS
  <2>3. /\ e \in Seq(0..255) /\ Len(e) >= Len(body) /\ Len(e) <= Len(body) + 1
        /\ Len(body) = 6 => Len(e) = 7
        /\ \A i \in 1..Len(body) : e[i] = body[i]
    BY ONLY <2>1, <2>2, EvenBodyIsBytes
  <2>4. PICK m \in Nat, k \in Nat : m = Len(body) /\ k = Len(e)
    <3>1. Len(body) \in Nat /\ Len(e) \in Nat
      BY ONLY <2>1, <2>3, LenProperties
    <3> QED BY ONLY <3>1, Zenon
  <2>5. k >= m /\ k <= m + 1 /\ (m = 6 => k = 7) /\ m <= MAX_FRAME - 4
    BY ONLY <2>1, <2>3, <2>4, Zenon
  <2>6. Len(e) + 1 \in ShortValue
    <3>1. k + 1 \in Nat /\ k + 1 <= MAX_LINE
      BY ONLY <2>5 DEF MAX_FRAME, MAX_LINE
    <3>2. k + 1 \in ShortValue
      BY ONLY <3>1, SmallIsShort
    <3> QED BY ONLY <2>4, <3>2, Zenon
  <2>7. PICK b, y : b = Bytes2(Len(e) + 1) /\ y = <<c.tag>>
    OBVIOUS
  <2>8. r = b \o y \o e
    BY ONLY <1>4, <2>2, <2>7, Zenon
  <2>9. b \in Seq(0..255) /\ Len(b) = 2 /\ Short(b, 1) = Len(e) + 1
    BY ONLY <2>6, <2>7, ShortBytes, Zenon
  <2>10. y \in Seq(0..255) /\ Len(y) = 1 /\ y[1] = c.tag
    BY ONLY <1>3, <2>7
  <2>11. /\ Framed(r) /\ r[3] = y[1] /\ Len(r) = Len(e) + 3
         /\ \A i \in 1..Len(e) : r[3 + i] = e[i]
    <3>1. e \in Seq(0..255)
      BY ONLY <2>3, Zenon
    <3>2. /\ Framed(b \o y \o e) /\ (b \o y \o e)[3] = y[1] /\ Len(b \o y \o e) = Len(e) + 3
          /\ \A i \in 1..Len(e) : (b \o y \o e)[3 + i] = e[i]
      BY ONLY <3>1, <2>9, <2>10, FrameOfParts
    <3> QED BY ONLY <2>8, <3>2, Zenon
  <2>12. Len(r) >= Len(body) + 3 /\ (Len(body) = 6 => Len(r) >= 10)
    <3>1. k + 3 >= m + 3 /\ (m = 6 => k + 3 >= 10)
      BY ONLY <2>5
    <3> QED BY ONLY <2>4, <2>11, <3>1, Zenon
  <2>13. ASSUME NEW i \in 1..Len(body) PROVE r[3 + i] = body[i]
    <3>1. i \in 1..m
      BY ONLY <2>4, i \in 1..Len(body), Zenon
    <3>2. i \in 1..k
      BY ONLY <2>5, <3>1
    <3>3. i \in 1..Len(e)
      BY ONLY <2>4, <3>2, Zenon
    <3> QED BY ONLY <2>3, <2>11, <3>3, i \in 1..Len(body), Zenon
  <2> QED BY ONLY <2>10, <2>11, <2>12, <2>13, Zenon
<1>6. Len(body) \in Nat /\ Len(r) \in Nat
  BY ONLY <1>2, <1>5, LenProperties DEF Framed
<1>7. WellFormed(r)
  BY ONLY <1>2, <1>5, <1>6, FrameWellFormed
<1> QED BY <1>5, <1>7
=============================================================================
