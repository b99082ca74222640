-------------------------- MODULE ArithmeticProofs --------------------------
(* Theorems about the integer instructions, for words of any width.        *)
EXTENDS EvalStack, WellFoundedInduction, TLAPS

\* Half a word is a natural, and a word holds every shift of two words.
LEMMA HalfType == /\ Half \in Nat \ {0}
                  /\ Modulus \in Nat \ {0}
                  /\ Modulus = 2 * Half
                  /\ 2 * Width < Modulus
<1>1. Width - 1 \in 0 .. 2 * Width /\ Width - 1 \in 0 .. 2 * Width - 1
  BY WidthAssumption
<1>2. Half \in Nat \ {0}
  BY <1>1, WidthAssumption DEF Half
<1>3. Pow2[Width] = 2 * Half
  <2>1. (Width - 1) + 1 = Width
    BY WidthAssumption
  <2> QED BY <1>1, <2>1, WidthAssumption DEF Half
<1> QED BY <1>2, <1>3, WidthAssumption DEF Modulus

\* A C expression has a word for its value.
LEMMA WrapType == \A x \in Int : Wrap(x) \in Word
BY HalfType DEF Wrap, Word

\* Within one word of the range, wrapping adds or subtracts 2^32 once.
LEMMA WrapOnce ==
  \A x \in Int : -Modulus <= x /\ x < 2 * Modulus =>
    Wrap(x) = IF x < 0 THEN x + Modulus ELSE IF x < Modulus THEN x ELSE x - Modulus
BY HalfType DEF Wrap

\* Words are integers; read as signed they stay within their range.
LEMMA SignedType ==
  \A x \in Word : x \in Int /\ Signed(x) \in Int /\ Signed(x) \in SignedWord
BY HalfType DEF Word, Signed, SignedWord

\* t4_add32: the two words of the result are the sum.
LEMMA AddIsSum ==
  ASSUME NEW a \in Word, NEW b \in Word, NEW c \in {0, 1}
  PROVE  LET r == Add32(a, b, c)
         IN /\ r.lo \in Word /\ r.carry \in {0, 1}
            /\ Double(r.carry, r.lo) = a + b + c
<1> DEFINE part == Wrap(a + b)
           sum == Wrap(part + c)
<1>1. a \in Int /\ b \in Int /\ a + b \in Int /\ part \in Word
  BY HalfType, WrapType DEF Word
<1>2. part = IF a + b < Modulus THEN a + b ELSE a + b - Modulus
  BY <1>1, HalfType, WrapOnce DEF Word
<1>3. sum \in Word /\ sum = IF part + c < Modulus THEN part + c ELSE part + c - Modulus
  <2> DEFINE whole == part + c
  <2>1. whole \in Int /\ -Modulus <= whole /\ 0 <= whole /\ whole < 2 * Modulus
    BY <1>1, HalfType DEF Word
  <2>2. sum = Wrap(whole)
    OBVIOUS
  <2> HIDE DEF whole, sum
  <2>3. sum \in Word /\ sum = IF whole < Modulus THEN whole ELSE whole - Modulus
    BY <2>1, <2>2, WrapOnce, WrapType
  <2> HIDE DEF part
  <2> QED BY <1>1, <2>1, <2>3, HalfType DEF whole, Word
<1> HIDE DEF part, sum
<1>4. Add32(a, b, c) = [lo |-> sum, carry |-> IF part < a \/ sum < part THEN 1 ELSE 0]
  BY DEF Add32, part, sum
<1> QED BY <1>1, <1>2, <1>3, <1>4, HalfType DEF Word, Double

\* t4_sub32: the first word of the result is the difference, the carry what
\* has been borrowed.
LEMMA SubIsDifference ==
  ASSUME NEW a \in Word, NEW b \in Word, NEW c \in {0, 1}
  PROVE  LET r == Sub32(a, b, c)
         IN /\ r.lo \in Word /\ r.carry \in {0, 1}
            /\ r.lo - Double(r.carry, 0) = a - b - c
<1> DEFINE part == Wrap(a - b)
           diff == Wrap(part - c)
<1>1. a \in Int /\ b \in Int /\ a - b \in Int /\ part \in Word
  BY HalfType, WrapType DEF Word
<1>2. part = IF a - b < 0 THEN a - b + Modulus ELSE a - b
  BY <1>1, HalfType, WrapOnce DEF Word
<1>3. diff \in Word /\ diff = IF part - c < 0 THEN part - c + Modulus ELSE part - c
  <2>1. part - c \in Int /\ -Modulus <= part - c /\ part - c < Modulus
    BY <1>1, HalfType DEF Word
  <2> HIDE DEF part
  <2> QED BY <2>1, HalfType, WrapOnce, WrapType
<1> HIDE DEF part, diff
<1>4. Sub32(a, b, c) = [lo |-> diff, carry |-> IF part > a \/ diff > part THEN 1 ELSE 0]
  BY DEF Sub32, part, diff
<1> QED BY <1>1, <1>2, <1>3, <1>4, HalfType DEF Word, Double

\* t4_eadd32: the overflow flag, from the signs alone, is right about the sum
\* of the signed words and the carry.
LEMMA AddChecked ==
  ASSUME NEW a \in Word, NEW b \in Word, NEW c \in {0, 1}
  PROVE  LET r == EAdd32(a, b, c)
             x == Signed(a) + Signed(b) + c
         IN /\ r.lo \in Word /\ r.over \in BOOLEAN
            /\ r.over <=> x \notin SignedWord
            /\ x \in SignedWord => Signed(r.lo) = x
<1> DEFINE r == Add32(a, b, c)
           lo == r.lo
           over == Negative(a) = Negative(b) /\ Negative(a) # Negative(lo)
           x == Signed(a) + Signed(b) + c
<1>1. /\ r.lo \in Word /\ r.carry \in {0, 1}
      /\ Double(r.carry, r.lo) = a + b + c
  BY AddIsSum
<1>2. EAdd32(a, b, c) = [lo |-> lo, over |-> over]
  BY DEF EAdd32
<1>3. r.lo \in {a + b + c, a + b + c - Modulus}
  <2> HIDE DEF r
  <2> QED BY <1>1, HalfType DEF Word, Double
<1>4. lo \in Word /\ lo \in {a + b + c, a + b + c - Modulus}
  BY <1>1, <1>3
<1>5. (over <=> x \notin SignedWord) /\ (x \in SignedWord => Signed(lo) = x)
  <2> HIDE DEF lo
  <2> QED BY <1>4, HalfType DEF Word, Signed, SignedWord, Negative
<1>6. over \in BOOLEAN
  OBVIOUS
<1> HIDE DEF lo, over, r
<1> QED BY <1>4, <1>5, <1>6, <1>2

\* t4_esub32, likewise.
LEMMA SubChecked ==
  ASSUME NEW a \in Word, NEW b \in Word, NEW c \in {0, 1}
  PROVE  LET r == ESub32(a, b, c)
             x == Signed(a) - Signed(b) - c
         IN /\ r.lo \in Word /\ r.over \in BOOLEAN
            /\ r.over <=> x \notin SignedWord
            /\ x \in SignedWord => Signed(r.lo) = x
<1> DEFINE r == Sub32(a, b, c)
           lo == r.lo
           over == Negative(a) # Negative(b) /\ Negative(b) = Negative(lo)
           x == Signed(a) - Signed(b) - c
<1>1. /\ r.lo \in Word /\ r.carry \in {0, 1}
      /\ r.lo - Double(r.carry, 0) = a - b - c
  BY SubIsDifference
<1>2. ESub32(a, b, c) = [lo |-> lo, over |-> over]
  BY DEF ESub32
<1>3. r.lo \in {a - b - c, a - b - c + Modulus}
  <2> HIDE DEF r
  <2> QED BY <1>1, HalfType DEF Word, Double
<1>4. lo \in Word /\ lo \in {a - b - c, a - b - c + Modulus}
  BY <1>1, <1>3
<1>5. (over <=> x \notin SignedWord) /\ (x \in SignedWord => Signed(lo) = x)
  <2> HIDE DEF lo
  <2> QED BY <1>4, HalfType DEF Word, Signed, SignedWord, Negative
<1>6. over \in BOOLEAN
  OBVIOUS
<1> HIDE DEF lo, over, r
<1> QED BY <1>4, <1>5, <1>6, <1>2

-----------------------------------------------------------------------------
(* Type correctness: every instruction leaves words in the registers.      *)

\* The bounds are words.
LEMMA WordType ==
  /\ 0 \in Word /\ 1 \in Word /\ Half \in Word /\ Modulus - 1 \in Word
  /\ 2 * Width \in Word
  /\ \A x \in Word : Not(x) \in Word
  /\ \A n \in 0 .. 2 * Width : Pow2[n] \in Nat \ {0}
<1>1. Width \in Nat /\ Pow2 \in [0 .. 2 * Width -> Nat \ {0}]
  BY WidthAssumption
<1>2. /\ 0 \in Word /\ 1 \in Word /\ Half \in Word /\ Modulus - 1 \in Word
      /\ 2 * Width \in Word
  BY <1>1, HalfType DEF Word
<1>3. \A x \in Word : Not(x) \in Word
  BY HalfType DEF Word, Not
<1> QED BY <1>1, <1>2, <1>3

\* Quotients and remainders of naturals stay below the dividend.
LEMMA DivType ==
  \A x \in Nat, y \in Nat \ {0} : x \div y \in 0 .. x /\ x % y \in 0 .. x
OBVIOUS

\* The macros LO64 and HI64 give words.
LEMMA HalvesType == \A x \in Int : Halves(x).lo \in Word /\ Halves(x).carry \in Word
<1> SUFFICES ASSUME NEW x \in Int
             PROVE  Halves(x).lo \in Word /\ Halves(x).carry \in Word
  OBVIOUS
<1>1. x \div Modulus \in Int
  BY HalfType
<1>2. Halves(x) = [lo |-> Wrap(x), carry |-> Wrap(x \div Modulus)]
  BY DEF Halves, Wrap
<1> QED BY <1>1, <1>2, WrapType

\* A double-length word is a natural number.
LEMMA DoubleType == \A hi \in Word, lo \in Word : Double(hi, lo) \in Nat
BY HalfType DEF Word, Double

\* The routines return words.
LEMMA MulType ==
  ASSUME NEW a \in Word, NEW b \in Word, NEW c \in Word
  PROVE  Mul32(a, b, c).lo \in Word /\ Mul32(a, b, c).carry \in Word
<1>1. a * b + c \in Int
  BY DEF Word
<1> QED BY <1>1, HalvesType DEF Mul32

\* The results of emul32().
LEMMA EMulType ==
  ASSUME NEW a \in Word, NEW b \in Word
  PROVE  /\ EMul32(a, b, 0).lo \in Word /\ EMul32(a, b, 0).carry \in Word
         /\ EMul32(a, b, 0).over \in BOOLEAN
<1> DEFINE r == Mul32(Magnitude(a), Magnitude(b), 0)
           differ == Negative(a) # Negative(b)
           lo == IF differ THEN Wrap(Not(r.lo) + 1) ELSE r.lo
           hi == IF ~differ THEN r.carry
                 ELSE IF r.lo = 0 THEN Wrap(Not(r.carry) + 1) ELSE Not(r.carry)
           over == hi # (IF Negative(lo) THEN Modulus - 1 ELSE 0)
<1>1. \A x \in Word : Not(x) + 1 \in Int /\ 1 + Not(x) \in Int
  BY WordType DEF Word
<1>2. Magnitude(a) \in Word /\ Magnitude(b) \in Word
  BY <1>1, WrapType DEF Magnitude
<1>3. r.lo \in Word /\ r.carry \in Word
  BY <1>2, WordType, MulType
<1>4. EMul32(a, b, 0) = [lo |-> lo, carry |-> hi, over |-> over]
  BY DEF EMul32
<1>5. lo \in Word /\ hi \in Word /\ over \in BOOLEAN
  <2> HIDE DEF r
  <2> QED BY <1>1, <1>3, WrapType, WordType
<1> HIDE DEF lo, hi, over
<1> QED BY <1>4, <1>5

\* The results of shl64() and shr64().
LEMMA ShiftType ==
  ASSUME NEW hi \in Word, NEW lo \in Word, NEW n \in Word
  PROVE  /\ Shl64(hi, lo, n).lo \in Word /\ Shl64(hi, lo, n).carry \in Word
         /\ Shr64(hi, lo, n).lo \in Word /\ Shr64(hi, lo, n).carry \in Word
<1>1. CASE n >= 2 * Width
  BY <1>1, HalvesType DEF Shl64, Shr64
<1>2. CASE ~(n >= 2 * Width)
  <2>1. Pow2[n] \in Nat \ {0}
    BY <1>2, WordType, WidthAssumption DEF Word
  <2>2. Double(hi, lo) * Pow2[n] \in Int /\ Double(hi, lo) \div Pow2[n] \in Int
    BY <2>1, DoubleType
  <2> QED BY <1>2, <2>2, HalvesType DEF Shl64, Shr64
<1> QED BY <1>1, <1>2

\* The results of norm64().
LEMMA NormType ==
  ASSUME NEW hi \in Word, NEW lo \in Word
  PROVE  LET r == Norm64(hi, lo)
         IN r.lo \in Word /\ r.carry \in Word /\ r.normlen \in Word
<1> DEFINE x == Double(hi, lo)
           n == NormLen(x)
<1>1. n \in 0 .. 2 * Width
  <2> DEFINE shifts == {m \in 0 .. 2 * Width - 1 : OnTop(x, m)}
  <2>1. shifts \subseteq 0 .. 2 * Width
    BY WidthAssumption
  <2>2. 2 * Width \in 0 .. 2 * Width
    BY WidthAssumption
  <2>3. n = IF shifts = {} THEN 2 * Width ELSE CHOOSE m \in shifts : TRUE
    BY DEF NormLen
  <2> HIDE DEF n, shifts
  <2> QED BY <2>1, <2>2, <2>3
<1>2. n \in Word
  BY <1>1, HalfType, WidthAssumption DEF Word
<1>3. x * Pow2[n] \in Int
  <2> HIDE DEF n
  <2> QED BY <1>1, WordType, DoubleType
<1> HIDE DEF x, n
<1>4. Norm64(hi, lo) = [lo |-> Halves(x * Pow2[n]).lo,
                        carry |-> Halves(x * Pow2[n]).carry, normlen |-> n]
  BY DEF Norm64, x, n
<1> QED BY <1>2, <1>3, <1>4, HalvesType

\* The result of fmul32().
LEMMA FMulType ==
  ASSUME NEW a \in Word, NEW b \in Word
  PROVE  FMul(a, b).lo \in Word /\ FMul(a, b).carry \in Word
<1> DEFINE p == EMul32(a, b, 0)
           frac == p.lo % Half
           c == Shr64(p.carry, p.lo, Width - 1).lo
           up == 2 * frac > Half \/ (2 * frac = Half /\ c % 2 = 1)
<1>1. p.lo \in Word /\ p.carry \in Word
  BY EMulType
<1>2. Width - 1 \in Word
  BY HalfType, WidthAssumption DEF Word
<1> HIDE DEF p
<1>3. c \in Word
  BY <1>1, <1>2, ShiftType
<1>4. c + 1 \in Int /\ 2 * p.carry + (IF Negative(p.lo) THEN 1 ELSE 0) \in Int
  BY <1>1, <1>3 DEF Word
<1> HIDE DEF c, up
<1>5. FMul(a, b) = [lo |-> IF up THEN Wrap(c + 1) ELSE c,
                    carry |-> Wrap(2 * p.carry + IF Negative(p.lo) THEN 1 ELSE 0)]
  BY DEF FMul, p, c, up
<1> QED BY <1>3, <1>4, <1>5, WrapType

\* Pushing, combining and the error flag keep the registers words.
LEMMA StackType ==
  ASSUME NEW s \in Cpu, NEW v \in Word, NEW p \in BOOLEAN
  PROVE  /\ s.A \in Word /\ s.B \in Word /\ s.C \in Word /\ s.error \in BOOLEAN
         /\ Push(s, v) \in Cpu /\ Binary(s, v) \in Cpu /\ SetErrorIf(s, p) \in Cpu
         /\ SetErrorIf(Binary(s, v), p) \in Cpu
         /\ [s EXCEPT !.A = v] \in Cpu
         /\ SetErrorIf([s EXCEPT !.A = v], p) \in Cpu
         /\ SetErrorIf([s EXCEPT !.B = s.C], p) \in Cpu
         /\ SetErrorIf([s EXCEPT !.A = s.B, !.B = s.C], p) \in Cpu
BY DEF Cpu, Push, Binary, SetErrorIf

\* The carry that long arithmetic takes from CReg is one bit.
LEMMA CarryType == \A s \in Cpu : Carry(s) \in {0, 1} /\ Carry(s) \in Word
BY WordType DEF Cpu, Word, Carry

\* A truth value is a word.
LEMMA TrueType == \A p \in BOOLEAN : True(p) \in Word
BY WordType DEF True

\* Instructions that move words leave words.
LEMMA MovesType == TypeOK /\ Moves => TypeOK'
<1> SUFFICES ASSUME cpu \in Cpu, Moves
             PROVE  cpu' \in Cpu
  BY DEF TypeOK
<1> USE DEF Cpu
<1>1. CASE cpu' = Rev(cpu)
  BY <1>1 DEF Rev
<1>2. CASE cpu' = Dup(cpu)
  BY <1>2 DEF Dup, Push
<1>3. CASE cpu' = Pop(cpu)
  BY <1>3 DEF Pop
<1>4. CASE cpu' = Stl(cpu)
  BY <1>4 DEF Stl
<1>5. CASE cpu' = Mint(cpu)
  BY <1>5, WordType DEF Mint, Push
<1>6. CASE cpu' = Gt(cpu)
  BY <1>6, TrueType, WordType DEF Gt, Binary, True
<1>7. CASE cpu' = NotA(cpu)
  BY <1>7, WordType DEF NotA
<1>8. CASE cpu' = Seterr(cpu)
  BY <1>8 DEF Seterr, SetErrorIf
<1>9. CASE cpu' = Testerr(cpu)
  BY <1>9, WordType DEF Testerr, Push, True
<1>10. CASE \E o \in Word : cpu' = Ldc(cpu, o) \/ cpu' = Eqc(cpu, o)
  BY <1>10, WordType DEF Ldc, Eqc, Push, True
<1> QED BY <1>1, <1>2, <1>3, <1>4, <1>5, <1>6, <1>7, <1>8, <1>9, <1>10 DEF Moves

\* Unchecked arithmetic leaves words.
LEMMA UncheckedType == TypeOK /\ Unchecked => TypeOK'
<1> SUFFICES ASSUME cpu \in Cpu, Unchecked
             PROVE  cpu' \in Cpu
  BY DEF TypeOK
<1> DEFINE a == cpu.A
           b == cpu.B
<1>1. a \in Word /\ b \in Word /\ cpu.C \in Word /\ a \in Int /\ b \in Int
  BY SignedType DEF Cpu
<1>2. BytesPerWord \in Nat \ {0}
  BY StackAssumption
<1>3. CASE cpu' = Diff(cpu) \/ cpu' = Sum(cpu) \/ cpu' = Bsub(cpu) \/ cpu' = Prod(cpu)
  <2>1. /\ Wrap(b - a) \in Word /\ Wrap(b + a) \in Word
        /\ Wrap(a + b) \in Word /\ Wrap(b * a) \in Word
    BY <1>1, WrapType
  <2> QED BY <1>3, <2>1, StackType DEF Diff, Sum, Bsub, Prod
<1>4. CASE cpu' = Wsub(cpu) \/ cpu' = Bcnt(cpu)
  <2>1. Wrap(a + BytesPerWord * b) \in Word /\ Wrap(a * BytesPerWord) \in Word
    BY <1>1, <1>2, WrapType
  <2> QED BY <1>4, <2>1, StackType DEF Wsub, Bcnt
<1>5. CASE cpu' = Wcnt(cpu)
  <2>1. Wrap(Signed(a) \div BytesPerWord) \in Word
    BY <1>1, <1>2, WrapType, SignedType
  <2>2. a % BytesPerWord \in Word
    <3>1. a \in Nat /\ a <= Modulus - 1
      BY <1>1, HalfType DEF Word
    <3>2. a % BytesPerWord \in 0 .. a
      BY <1>2, <3>1, DivType
    <3> QED BY <3>1, <3>2, HalfType DEF Word
  <2> QED BY <1>1, <1>5, <2>1, <2>2 DEF Wcnt, Cpu
<1>6. CASE cpu' = Shl(cpu) \/ cpu' = Shr(cpu)
  <2>1. ASSUME a < Width
        PROVE  Wrap(b * Pow2[a]) \in Word /\ b \div Pow2[a] \in Word
    <3>1. Pow2[a] \in Nat \ {0}
      <4>1. a \in Nat /\ Width \in Nat
        BY <1>1, HalfType, WidthAssumption DEF Word
      <4>2. a \in 0 .. 2 * Width
        BY <2>1, <4>1
      <4> QED BY <4>2, WordType
    <3>2. b * Pow2[a] \in Int /\ b \div Pow2[a] \in 0 .. b
      BY <1>1, <3>1, DivType, HalfType DEF Word
    <3> QED BY <1>1, <3>2, WrapType, HalfType DEF Word
  <2> QED BY <1>6, <2>1, StackType, WordType DEF Shl, Shr
<1> QED BY <1>3, <1>4, <1>5, <1>6 DEF Unchecked

\* Checked arithmetic leaves words.
LEMMA CheckedType == TypeOK /\ Checked => TypeOK'
<1> SUFFICES ASSUME cpu \in Cpu, Checked
             PROVE  cpu' \in Cpu
  BY DEF TypeOK
<1> DEFINE a == cpu.A
           b == cpu.B
<1>1. a \in Word /\ b \in Word /\ cpu.C \in Word /\ a \in Int /\ b \in Int
  BY SignedType DEF Cpu
<1>2. \A x \in Word : Abs(x) \in Word /\ Abs(x) \in Int
  BY WrapType, SignedType DEF Abs
<1>3. CASE cpu' = Add(cpu) \/ cpu' = Sub(cpu) \/ \E o \in Word : cpu' = Adc(cpu, o)
  <2>1. CASE cpu' = Add(cpu)
    BY <1>1, <2>1, AddChecked DEF Add, Binary, SetErrorIf, Cpu
  <2>2. CASE cpu' = Sub(cpu)
    BY <1>1, <2>2, SubChecked DEF Sub, Binary, SetErrorIf, Cpu
  <2>3. CASE \E o \in Word : cpu' = Adc(cpu, o)
    BY <1>1, <2>3, AddChecked DEF Adc, SetErrorIf, Cpu
  <2> QED BY <1>3, <2>1, <2>2, <2>3
<1>4. CASE cpu' = Mul(cpu)
  BY <1>1, <1>4, EMulType, StackType DEF Mul
<1>5. CASE cpu' = Div(cpu)
  <2>1. CASE a = 0 \/ OverflowsDiv(cpu)
    BY <1>5, <2>1 DEF Div, SetErrorIf, Cpu
  <2>2. CASE ~(a = 0 \/ OverflowsDiv(cpu))
    <3> DEFINE q == Wrap(Quotient(Signed(b), Signed(a)))
               odd == Abs(q) + (1 - (Abs(q) % 2))
               c == Wrap(Abs(b) - odd * Abs(a))
    <3>1. Signed(a) \in Int /\ Signed(b) \in Int /\ Signed(a) # 0
      BY <1>1, <2>2, SignedType, HalfType DEF Signed, Word
    <3>2. Quotient(Signed(b), Signed(a)) \in Int
      BY <3>1 DEF Quotient
    <3>3. q \in Word
      BY <3>2, WrapType
    <3> HIDE DEF q
    <3>4. odd \in Int
      BY <1>2, <3>3
    <3> HIDE DEF odd
    <3>5. c \in Word
      BY <1>1, <1>2, <3>4, WrapType
    <3> HIDE DEF c
    <3>6. cpu' = [cpu EXCEPT !.A = q, !.B = cpu.C, !.C = c]
      BY <1>5, <2>2 DEF Div, q, odd, c
    <3> QED BY <1>1, <3>3, <3>5, <3>6 DEF Cpu
  <2> QED BY <2>1, <2>2
<1>6. CASE cpu' = Rem(cpu)
  <2>1. CASE a = 0
    BY <1>6, <2>1 DEF Rem, SetErrorIf, Cpu
  <2>2. CASE a # 0
    <3> DEFINE r == IF OverflowsDiv(cpu) THEN 0
                    ELSE Wrap(Remainder(Signed(b), Signed(a)))
    <3>1. Signed(a) \in Int /\ Signed(b) \in Int /\ Signed(a) # 0
      BY <1>1, <2>2, SignedType, HalfType DEF Signed, Word
    <3>2. Remainder(Signed(b), Signed(a)) \in Int
      BY <3>1 DEF Quotient, Remainder
    <3>3. r \in Word
      BY <3>2, WrapType, WordType
    <3> HIDE DEF r
    <3>4. cpu' = [cpu EXCEPT !.A = r, !.B = cpu.C, !.C = Abs(r)]
      BY <1>6, <2>2 DEF Rem, r
    <3> QED BY <1>1, <1>2, <3>3, <3>4 DEF Cpu
  <2> QED BY <2>1, <2>2
<1>7. CASE cpu' = Csub0(cpu) \/ cpu' = Ccnt1(cpu)
  BY <1>7 DEF Csub0, Ccnt1, SetErrorIf, Cpu
<1>8. CASE cpu' = Fmul(cpu)
  <2>1. FMul(a, b).lo \in Word /\ FMul(a, b).carry \in Word
    BY <1>1, FMulType
  <2> QED BY <1>1, <1>8, <2>1, WordType DEF Fmul, Cpu, SetErrorIf
<1> QED BY <1>3, <1>4, <1>5, <1>6, <1>7, <1>8 DEF Checked

\* Long arithmetic leaves words.
LEMMA LongType == TypeOK /\ Long => TypeOK'
<1> SUFFICES ASSUME cpu \in Cpu, Long
             PROVE  cpu' \in Cpu
  BY DEF TypeOK
<1> DEFINE a == cpu.A
           b == cpu.B
           c == cpu.C
<1>1. a \in Word /\ b \in Word /\ c \in Word /\ Carry(cpu) \in {0, 1}
  BY CarryType DEF Cpu
<1>2. CASE cpu' = Ladd(cpu) \/ cpu' = Lsub(cpu)
  <2>1. CASE cpu' = Ladd(cpu)
    BY <1>1, <2>1, AddChecked DEF Ladd, SetErrorIf, Cpu
  <2>2. CASE cpu' = Lsub(cpu)
    BY <1>1, <2>2, SubChecked DEF Lsub, SetErrorIf, Cpu
  <2> QED BY <1>2, <2>1, <2>2
<1>3. CASE cpu' = Lsum(cpu)
  <2>1. Add32(b, a, Carry(cpu)).lo \in Word /\ Add32(b, a, Carry(cpu)).carry \in Word
    BY <1>1, AddIsSum, WordType
  <2> QED BY <1>1, <1>3, <2>1 DEF Lsum, Cpu
<1>4. CASE cpu' = Ldiff(cpu)
  <2>1. Sub32(b, a, Carry(cpu)).lo \in Word /\ Sub32(b, a, Carry(cpu)).carry \in Word
    BY <1>1, SubIsDifference, WordType
  <2> QED BY <1>1, <1>4, <2>1 DEF Ldiff, Cpu
<1>5. CASE cpu' = Lmul(cpu)
  BY <1>1, <1>5, MulType DEF Lmul, LongResult, Cpu
<1>6. CASE cpu' = Lshl(cpu) \/ cpu' = Lshr(cpu)
  BY <1>1, <1>6, ShiftType DEF Lshl, Lshr, LongResult, Cpu
<1>7. CASE cpu' = Ldiv(cpu)
  <2>1. CASE c >= a
    BY <1>7, <2>1 DEF Ldiv, SetErrorIf, Cpu
  <2>2. CASE ~(c >= a)
    <3>1. a \in Nat \ {0} /\ Double(c, b) \in Nat
      BY <1>1, <2>2, DoubleType, HalfType DEF Word
    <3>2. Double(c, b) \div a \in Int /\ Double(c, b) % a \in 0 .. a - 1
      BY <3>1
    <3>3. LongDiv(c, b, a).quotient \in Word /\ LongDiv(c, b, a).carry \in Word
      BY <1>1, <3>1, <3>2, WrapType, HalfType DEF LongDiv, Word
    <3> QED BY <1>1, <1>7, <2>2, <3>3 DEF Ldiv, Cpu
  <2> QED BY <2>1, <2>2
<1>8. CASE cpu' = Norm(cpu)
  BY <1>1, <1>8, NormType DEF Norm, Cpu
<1> QED BY <1>2, <1>3, <1>4, <1>5, <1>6, <1>7, <1>8 DEF Long

\* Changes of length leave words.
LEMMA LengthsType == TypeOK /\ Lengths => TypeOK'
<1> SUFFICES ASSUME cpu \in Cpu, Lengths
             PROVE  cpu' \in Cpu
  BY DEF TypeOK
<1>1. cpu.A \in Word /\ cpu.B \in Word /\ cpu.C \in Word /\ cpu.A \in Int /\ cpu.B \in Int
  BY SignedType DEF Cpu
<1>2. CASE cpu' = Xdble(cpu)
  BY <1>1, <1>2, WordType DEF Xdble, Cpu
<1>3. CASE cpu' = Csngl(cpu)
  BY <1>3 DEF Csngl, SetErrorIf, Cpu
<1>4. CASE cpu' = Xword(cpu)
  <2>1. CASE ~IsSignBit(cpu.A)
    BY <1>4, <2>1, StackAssumption, StackType DEF Xword
  <2>2. CASE IsSignBit(cpu.A)
    <3>1. cpu.A \in Nat \ {0}
      <4>1. PICK n \in 0 .. Width - 1 : cpu.A = Pow2[n]
        BY <2>2 DEF IsSignBit
      <4>2. n \in 0 .. 2 * Width
        BY WidthAssumption
      <4> QED BY <4>1, <4>2, WordType
    <3>2. /\ Wrap(cpu.B - 2 * cpu.A) \in Word
          /\ Wrap((cpu.B % (2 * cpu.A)) - 2 * cpu.A) \in Word
      BY <1>1, <3>1, WrapType
    <3> QED BY <1>1, <1>4, <2>2, <3>2, StackType DEF Xword
  <2> QED BY <2>1, <2>2
<1>5. CASE cpu' = Cword(cpu)
  BY <1>5 DEF Cword, SetErrorIf, Cpu
<1> QED BY <1>2, <1>3, <1>4, <1>5 DEF Lengths

\* The registers hold words whatever instructions are executed.
THEOREM TypeCorrect == Spec => []TypeOK
<1>1. Init => TypeOK
  BY WordType DEF Init, TypeOK, Cpu
<1>2. TypeOK /\ [Next]_cpu => TypeOK'
  BY MovesType, UncheckedType, CheckedType, LongType, LengthsType DEF Next, TypeOK
<1> QED BY <1>1, <1>2, PTL DEF Spec

-----------------------------------------------------------------------------
\* In every reachable state the five checked instructions and the two long
\* ones are exact: their error flag is that of integers.
THEOREM SumsAreExact == Spec => []SumsExact
<1>1. TypeOK => SumsExact
  <2> SUFFICES ASSUME cpu \in Cpu
               PROVE  SumsExact
    BY DEF TypeOK
  <2> DEFINE a == cpu.A
             b == cpu.B
             carry == Carry(cpu)
  <2>1. /\ a \in Word /\ b \in Word /\ carry \in {0, 1} /\ cpu.error \in BOOLEAN
        /\ 0 \in {0, 1}
    BY CarryType DEF Cpu
  <2>2. Signed(a) \in Int /\ Signed(b) \in Int /\ \A o \in Word : Signed(o) \in Int
    BY <2>1, SignedType
  <2>3. \A o \in Word : Exact(Adc(cpu, o), Signed(a) + Signed(o))
    BY <2>1, <2>2, AddChecked DEF Exact, Adc, SetErrorIf, Cpu
  <2>4. Exact(Add(cpu), Signed(b) + Signed(a))
    BY <2>1, <2>2, AddChecked DEF Exact, Add, Binary, SetErrorIf, Cpu
  <2>5. Exact(Sub(cpu), Signed(b) - Signed(a))
    BY <2>1, <2>2, SubChecked DEF Exact, Sub, Binary, SetErrorIf, Cpu
  <2>6. Exact(Ladd(cpu), Signed(b) + Signed(a) + carry)
    BY <2>1, AddChecked DEF Exact, Ladd, SetErrorIf, Cpu
  <2>7. Exact(Lsub(cpu), Signed(b) - Signed(a) - carry)
    BY <2>1, SubChecked DEF Exact, Lsub, SetErrorIf, Cpu
  <2>8. Double(Lsum(cpu).B, Lsum(cpu).A) = b + a + carry
    BY <2>1, AddIsSum DEF Lsum, Cpu
  <2>9. Ldiff(cpu).A - Ldiff(cpu).B * Modulus = b - a - carry
    BY <2>1, SubIsDifference, HalfType DEF Ldiff, Double, Cpu
  <2> QED BY <2>3, <2>4, <2>5, <2>6, <2>7, <2>8, <2>9 DEF SumsExact
<1> QED BY <1>1, TypeCorrect, PTL

\* Multiplication by a natural keeps the order.
LEMMA TimesMonotone ==
  ASSUME NEW x \in Int, NEW y \in Int, NEW m \in Nat, x <= y
  PROVE  x * m <= y * m
<1>1. y * m - x * m = (y - x) * m
  OBVIOUS
<1>2. (y - x) * m >= 0
  OBVIOUS
<1> QED BY <1>1, <1>2

\* A number of two words fits a signed double word when its upper part fits a
\* signed word.
LEMMA DoubleFits ==
  ASSUME NEW x \in Int, NEW lo \in Word
  PROVE  /\ Double(x, lo) \in Int
         /\ (-Half * Modulus <= Double(x, lo) /\ Double(x, lo) < Half * Modulus)
              <=> x \in SignedWord
<1>1. /\ lo \in Int /\ 0 <= lo /\ lo < Modulus
      /\ Half \in Int /\ Modulus \in Nat /\ x * Modulus \in Int
  BY HalfType DEF Word
<1>2. CASE x >= Half
  <2>1. Half * Modulus <= x * Modulus
    BY <1>1, <1>2, TimesMonotone
  <2> QED BY <1>1, <1>2, <2>1 DEF Double, SignedWord
<1>3. CASE -Half <= x /\ x < Half
  <2>1. -Half * Modulus <= x * Modulus
    BY <1>1, <1>3, TimesMonotone
  <2>2. x * Modulus <= (Half - 1) * Modulus
    BY <1>1, <1>3, TimesMonotone
  <2>3. (Half - 1) * Modulus = Half * Modulus - Modulus
    BY <1>1
  <2> QED BY <1>1, <1>3, <2>1, <2>2, <2>3 DEF Double, SignedWord
<1>4. CASE x < -Half
  <2>1. x * Modulus <= (-Half - 1) * Modulus
    BY <1>1, <1>4, TimesMonotone
  <2>2. (-Half - 1) * Modulus = -Half * Modulus - Modulus
    BY <1>1
  <2> QED BY <1>1, <1>4, <2>1, <2>2 DEF Double, SignedWord
<1> QED BY <1>1, <1>2, <1>3, <1>4

\* The long instructions chained over two words are exact, too: the carry or
\* borrow of the lower words is all the upper words have to know of them.
THEOREM ChainsAreExact == Spec => []ChainsExact
<1>1. TypeOK => ChainsExact
  <2> SUFFICES ASSUME cpu \in Cpu
               PROVE  ChainsExact
    BY DEF TypeOK
  <2> DEFINE carry == Carry(cpu)
             low == Lsum(cpu)
             lowD == Ldiff(cpu)
  <2>1. /\ cpu.A \in Word /\ cpu.B \in Word /\ carry \in {0, 1}
        /\ cpu.error \in BOOLEAN /\ cpu.A \in Int /\ cpu.B \in Int /\ carry \in Int
    BY CarryType, SignedType DEF Cpu
  <2>2. /\ low.A \in Word /\ low.B \in {0, 1}
        /\ Double(low.B, low.A) = cpu.B + cpu.A + carry
    BY <2>1, AddIsSum DEF Lsum, Cpu
  <2>3. /\ lowD.A \in Word /\ lowD.B \in {0, 1}
        /\ lowD.A - Double(lowD.B, 0) = cpu.B - cpu.A - carry
    BY <2>1, SubIsDifference DEF Ldiff, Cpu
  <2> HIDE DEF carry, low, lowD
  <2>4. ASSUME NEW h \in Word, NEW k \in Word
        PROVE  LET high == Ladd([cpu EXCEPT !.A = k, !.B = h, !.C = low.B])
                   sum == Double(Signed(h), cpu.B) + Double(Signed(k), cpu.A) + carry
                   Fits(x) == -Half * Modulus <= x /\ x < Half * Modulus
               IN /\ high.error <=> (cpu.error \/ ~Fits(sum))
                  /\ Fits(sum) => Double(Signed(high.A), low.A) = sum
    <3> DEFINE high == Ladd([cpu EXCEPT !.A = k, !.B = h, !.C = low.B])
               x == Signed(h) + Signed(k) + low.B
    <3>1. Signed(h) \in Int /\ Signed(k) \in Int /\ x \in Int
      BY <2>2, SignedType
    <3>2. low.B % 2 = low.B
      BY <2>2
    <3>3. /\ high.error <=> (cpu.error \/ x \notin SignedWord)
          /\ x \in SignedWord => Signed(high.A) = x
      BY <2>1, <2>2, <3>2, AddChecked DEF Ladd, Carry, SetErrorIf, Cpu
    <3>4. Double(Signed(h), cpu.B) + Double(Signed(k), cpu.A) + carry = Double(x, low.A)
      <4>1. low.A \in Int /\ low.B \in Int /\ Modulus \in Int
        BY <2>2, SignedType, HalfType
      <4> DEFINE p == Signed(h) * Modulus
                 q == Signed(k) * Modulus
                 r == low.B * Modulus
      <4>2. x * Modulus = p + q + r
        BY <3>1, <4>1
      <4>3. Double(low.B, low.A) = r + low.A
        BY <4>1 DEF Double
      <4>4. /\ Double(Signed(h), cpu.B) = p + cpu.B
            /\ Double(Signed(k), cpu.A) = q + cpu.A
            /\ Double(x, low.A) = x * Modulus + low.A
        BY DEF Double
      <4>5. p \in Int /\ q \in Int /\ r \in Int
        BY <3>1, <4>1
      <4> HIDE DEF x, p, q, r
      <4> QED BY <2>1, <2>2, <4>1, <4>2, <4>3, <4>4, <4>5
    <3> HIDE DEF high, x
    <3>5. (-Half * Modulus <= Double(x, low.A) /\ Double(x, low.A) < Half * Modulus)
            <=> x \in SignedWord
      BY <2>2, <3>1, DoubleFits
    <3> QED BY <3>3, <3>4, <3>5 DEF high
  <2>5. ASSUME NEW h \in Word, NEW k \in Word
        PROVE  LET high == Lsub([cpu EXCEPT !.A = k, !.B = h, !.C = lowD.B])
                   diff == Double(Signed(h), cpu.B) - Double(Signed(k), cpu.A) - carry
                   Fits(x) == -Half * Modulus <= x /\ x < Half * Modulus
               IN /\ high.error <=> (cpu.error \/ ~Fits(diff))
                  /\ Fits(diff) => Double(Signed(high.A), lowD.A) = diff
    <3> DEFINE high == Lsub([cpu EXCEPT !.A = k, !.B = h, !.C = lowD.B])
               x == Signed(h) - Signed(k) - lowD.B
    <3>1. Signed(h) \in Int /\ Signed(k) \in Int /\ x \in Int
      BY <2>3, SignedType
    <3>2. lowD.B % 2 = lowD.B
      BY <2>3
    <3>3. /\ high.error <=> (cpu.error \/ x \notin SignedWord)
          /\ x \in SignedWord => Signed(high.A) = x
      BY <2>1, <2>3, <3>2, SubChecked DEF Lsub, Carry, SetErrorIf, Cpu
    <3>4. Double(Signed(h), cpu.B) - Double(Signed(k), cpu.A) - carry = Double(x, lowD.A)
      <4>1. lowD.A \in Int /\ lowD.B \in Int /\ Modulus \in Int
        BY <2>3, SignedType, HalfType
      <4> DEFINE p == Signed(h) * Modulus
                 q == Signed(k) * Modulus
                 r == lowD.B * Modulus
      <4>2. x * Modulus = p - q - r
        BY <3>1, <4>1
      <4>3. Double(lowD.B, 0) = r
        BY <4>1 DEF Double
      <4>4. /\ Double(Signed(h), cpu.B) = p + cpu.B
            /\ Double(Signed(k), cpu.A) = q + cpu.A
            /\ Double(x, lowD.A) = x * Modulus + lowD.A
        BY DEF Double
      <4>5. p \in Int /\ q \in Int /\ r \in Int
        BY <3>1, <4>1
      <4> HIDE DEF x, p, q, r
      <4> QED BY <2>1, <2>3, <4>1, <4>2, <4>3, <4>4, <4>5
    <3> HIDE DEF high, x
    <3>5. (-Half * Modulus <= Double(x, lowD.A) /\ Double(x, lowD.A) < Half * Modulus)
            <=> x \in SignedWord
      BY <2>3, <3>1, DoubleFits
    <3> QED BY <3>3, <3>4, <3>5 DEF high
  <2> QED BY <2>4, <2>5 DEF ChainsExact, carry, low, lowD
<1> QED BY <1>1, TypeCorrect, PTL

-----------------------------------------------------------------------------
\* Quotient and remainder.
LEMMA DivMod ==
  ASSUME NEW x \in Int, NEW y \in Nat \ {0}
  PROVE  /\ x \div y \in Int /\ x % y \in 0 .. y - 1
         /\ x = (x \div y) * y + (x % y)
OBVIOUS

\* There is one quotient and one remainder.
LEMMA DivUnique ==
  ASSUME NEW x \in Int, NEW y \in Nat \ {0}, NEW q \in Int, NEW r \in 0 .. y - 1,
         x = q * y + r
  PROVE  x \div y = q /\ x % y = r
<1> DEFINE d == x \div y
           m == x % y
<1>1. d \in Int /\ m \in 0 .. y - 1 /\ x = d * y + m
  BY DivMod
<1> HIDE DEF d, m
<1>2. ASSUME NEW u \in Int, NEW v \in Int, NEW s \in 0 .. y - 1, NEW t \in 0 .. y - 1,
             u * y + s = v * y + t
      PROVE  ~(u < v)
  <2> SUFFICES ASSUME u < v PROVE FALSE
    OBVIOUS
  <2>1. (u + 1) * y <= v * y
    BY TimesMonotone
  <2>2. (u + 1) * y = u * y + y
    OBVIOUS
  <2>3. u * y \in Int /\ v * y \in Int
    OBVIOUS
  <2> QED BY <1>2, <2>1, <2>2, <2>3
<1>3. ~(d < q) /\ ~(q < d)
  BY <1>1, <1>2
<1>4. d = q
  BY <1>1, <1>3
<1>5. d * y = q * y /\ q * y \in Int
  BY <1>4
<1>6. m = r
  BY <1>1, <1>5
<1> QED BY <1>4, <1>6 DEF d, m

\* A product of factors within bounds.
LEMMA ProductBound ==
  ASSUME NEW m \in Nat, NEW n \in Nat, NEW a \in 0 .. m, NEW b \in 0 .. n
  PROVE  a * b \in Nat /\ a * b <= m * n
<1>1. a * b <= m * b
  BY TimesMonotone
<1>2. b * m <= n * m
  BY TimesMonotone
<1>3. a * b \in Nat /\ m * b = b * m /\ n * m = m * n
  OBVIOUS
<1>4. m * b \in Int /\ n * m \in Int
  OBVIOUS
<1> QED BY <1>1, <1>2, <1>3, <1>4

\* The two words of a number that has no more.
LEMMA HalvesAre ==
  ASSUME NEW x \in Nat, x < Modulus * Modulus
  PROVE  LET h == Halves(x)
         IN /\ h.lo \in Word /\ h.carry \in Word /\ x = Double(h.carry, h.lo)
            /\ h.carry = x \div Modulus /\ h.lo = x % Modulus
<1>1. Modulus \in Nat \ {0} /\ x \in Int
  BY HalfType
<1> DEFINE q == x \div Modulus
           r == x % Modulus
<1>2. q \in Int /\ r \in 0 .. Modulus - 1 /\ x = q * Modulus + r
  BY <1>1, DivMod
<1> HIDE DEF q, r
<1>3. q * Modulus \in Int
  BY <1>1, <1>2
<1>4. q >= 0
  <2> SUFFICES ASSUME q <= -1 PROVE FALSE
    BY <1>2
  <2>1. q * Modulus <= -1 * Modulus
    BY <1>1, <1>2, TimesMonotone
  <2>2. -1 * Modulus = -Modulus
    BY <1>1
  <2> QED BY <1>1, <1>2, <1>3, <2>1, <2>2
<1>5. q < Modulus
  <2> SUFFICES ASSUME q >= Modulus PROVE FALSE
    BY <1>1, <1>2
  <2>1. Modulus * Modulus <= q * Modulus
    BY <1>1, <1>2, TimesMonotone
  <2>2. Modulus * Modulus \in Int
    BY <1>1
  <2> QED BY <1>1, <1>2, <1>3, <2>1, <2>2
<1>6. q \in Word /\ r \in Word /\ q % Modulus = q
  BY <1>1, <1>2, <1>4, <1>5 DEF Word
<1>7. Halves(x) = [lo |-> r, carry |-> q % Modulus]
  BY DEF Halves, q, r
<1> QED BY <1>2, <1>6, <1>7 DEF Double, q, r

\* t4_mul32: the whole product.
LEMMA MulIsProduct ==
  ASSUME NEW a \in Word, NEW b \in Word, NEW c \in Word
  PROVE  LET r == Mul32(a, b, c)
         IN r.lo \in Word /\ r.carry \in Word /\ Double(r.carry, r.lo) = a * b + c
<1>1. Modulus \in Nat \ {0} /\ Modulus - 1 \in Nat /\ a \in 0 .. Modulus - 1 /\ b \in 0 .. Modulus - 1
  BY HalfType DEF Word
<1>2. a * b \in Nat /\ a * b <= (Modulus - 1) * (Modulus - 1)
  BY <1>1, ProductBound
<1>3. (Modulus - 1) * (Modulus - 1) = Modulus * Modulus - 2 * Modulus + 1
  BY <1>1
<1>4. Modulus * Modulus \in Int /\ c \in 0 .. Modulus - 1
  BY <1>1 DEF Word
<1>5. a * b + c \in Nat /\ a * b + c < Modulus * Modulus
  BY <1>1, <1>2, <1>3, <1>4
<1> QED BY <1>5, HalvesAre DEF Mul32

\* A number has one pair of words.
LEMMA DoubleOnce ==
  ASSUME NEW h \in Int, NEW l \in Word, NEW k \in Int, NEW m \in Word,
         Double(h, l) = Double(k, m)
  PROVE  h = k /\ l = m
<1>1. Modulus \in Nat \ {0} /\ l \in 0 .. Modulus - 1 /\ m \in 0 .. Modulus - 1
  BY HalfType DEF Word
<1>2. PICK x : x = h * Modulus + l
  OBVIOUS
<1>3. x \in Int /\ x = k * Modulus + m
  BY <1>1, <1>2 DEF Double
<1>4. x \div Modulus = h /\ x % Modulus = l
  BY <1>1, <1>2, <1>3, DivUnique
<1>5. x \div Modulus = k /\ x % Modulus = m
  BY <1>1, <1>3, DivUnique
<1> QED BY <1>4, <1>5

\* The squares that bound the products.
LEMMA Squares ==
  /\ Half * Half \in Nat /\ Half <= Half * Half
  /\ Modulus * Modulus = 4 * (Half * Half) /\ Half * Modulus = 2 * (Half * Half)
<1>1. Half \in Nat \ {0} /\ Modulus = 2 * Half
  BY HalfType
<1>2. 1 * Half <= Half * Half
  BY <1>1, TimesMonotone
<1> QED BY <1>1, <1>2

\* A word without its sign.
LEMMA MagnitudeIs ==
  ASSUME NEW a \in Word
  PROVE  /\ Magnitude(a) \in 0 .. Half /\ Magnitude(a) \in Word
         /\ Signed(a) = IF Negative(a) THEN -Magnitude(a) ELSE Magnitude(a)
<1>1. Half \in Nat \ {0} /\ Modulus = 2 * Half /\ a \in 0 .. Modulus - 1
  BY HalfType DEF Word
<1>2. CASE Negative(a)
  <2>1. a >= Half
    BY <1>2 DEF Negative
  <2>2. 1 + Not(a) = Modulus - a
    BY <1>1 DEF Not
  <2>3. Wrap(Modulus - a) = Modulus - a
    BY <1>1, <2>1 DEF Wrap
  <2>4. Magnitude(a) = Modulus - a
    BY <1>2, <2>2, <2>3 DEF Magnitude
  <2> QED BY <1>1, <1>2, <2>1, <2>4 DEF Signed, Word
<1>3. CASE ~Negative(a)
  BY <1>1, <1>3 DEF Negative, Magnitude, Signed, Word
<1> QED BY <1>2, <1>3

\* A product within two words, negated over both of them.
LEMMA NegatedOverBoth ==
  ASSUME NEW h \in Word, NEW l \in Word
  PROVE  LET lo == Wrap(Not(l) + 1)
             hi == IF l = 0 THEN Wrap(Not(h) + 1) ELSE Not(h)
         IN /\ lo \in Word /\ hi \in Word
            /\ Double(hi, lo) = IF Double(h, l) = 0 THEN 0
                                ELSE Modulus * Modulus - Double(h, l)
<1>1. /\ Modulus \in Nat \ {0} /\ h \in 0 .. Modulus - 1 /\ l \in 0 .. Modulus - 1
      /\ h * Modulus \in Int
  BY HalfType DEF Word
<1> DEFINE lo == Wrap(Not(l) + 1)
           hi == IF l = 0 THEN Wrap(Not(h) + 1) ELSE Not(h)
<1>2. ASSUME NEW x \in 0 .. Modulus - 1
      PROVE  Wrap(Not(x) + 1) = IF x = 0 THEN 0 ELSE Modulus - x
  BY <1>1 DEF Wrap, Not
<1>3. lo = IF l = 0 THEN 0 ELSE Modulus - l
  BY <1>1, <1>2
<1>4. hi = IF l # 0 THEN Modulus - 1 - h ELSE IF h = 0 THEN 0 ELSE Modulus - h
  BY <1>1, <1>2 DEF Not
<1> HIDE DEF lo, hi
<1>5. lo \in Word /\ hi \in Word
  BY <1>1, <1>3, <1>4 DEF Word
<1>6. Double(hi, lo) = IF Double(h, l) = 0 THEN 0 ELSE Modulus * Modulus - Double(h, l)
  <2>1. CASE l # 0
    <3>1. hi * Modulus = Modulus * Modulus - Modulus - h * Modulus
      BY <1>1, <1>4, <2>1
    <3>2. h * Modulus >= 0 * Modulus
      BY <1>1, TimesMonotone
    <3> QED BY <1>1, <1>3, <2>1, <3>1, <3>2 DEF Double
  <2>2. CASE l = 0 /\ h = 0
    BY <1>1, <1>3, <1>4, <2>2 DEF Double
  <2>3. CASE l = 0 /\ h # 0
    <3>1. hi * Modulus = Modulus * Modulus - h * Modulus
      BY <1>1, <1>4, <2>3
    <3>2. h * Modulus >= 1 * Modulus
      BY <1>1, <2>3, TimesMonotone
    <3> QED BY <1>1, <1>3, <2>3, <3>1, <3>2 DEF Double
  <2> QED BY <2>1, <2>2, <2>3
<1> QED BY <1>5, <1>6 DEF lo, hi

\* t4_emul32: the product of signed words, in two words.
LEMMA EMulIsProduct ==
  ASSUME NEW a \in Word, NEW b \in Word
  PROVE  LET r == EMul32(a, b, 0)
             x == Signed(a) * Signed(b)
         IN /\ r.lo \in Word /\ r.carry \in Word
            /\ x \in Int /\ -(Half * Half) <= x /\ x <= Half * Half
            /\ Double(r.carry, r.lo) = IF x >= 0 THEN x ELSE Modulus * Modulus + x
<1> DEFINE p == Mul32(Magnitude(a), Magnitude(b), 0)
           m == Magnitude(a) * Magnitude(b)
           r == EMul32(a, b, 0)
           x == Signed(a) * Signed(b)
           differ == Negative(a) # Negative(b)
<1>1. /\ Half \in Nat /\ Magnitude(a) \in 0 .. Half /\ Magnitude(b) \in 0 .. Half
      /\ Magnitude(a) \in Word /\ Magnitude(b) \in Word /\ 0 \in Word
  BY HalfType, WordType, MagnitudeIs
<1>2. m \in Nat /\ m <= Half * Half
  BY <1>1, ProductBound
<1>3. p.lo \in Word /\ p.carry \in Word /\ Double(p.carry, p.lo) = m
  <2>1. Double(p.carry, p.lo) = m + 0 /\ p.lo \in Word /\ p.carry \in Word
    BY <1>1, MulIsProduct
  <2> QED BY <1>2, <2>1
<1>4. x = IF differ THEN -m ELSE m
  <2>1. /\ Signed(a) = IF Negative(a) THEN -Magnitude(a) ELSE Magnitude(a)
        /\ Signed(b) = IF Negative(b) THEN -Magnitude(b) ELSE Magnitude(b)
    BY MagnitudeIs
  <2>2. Negative(a) \in BOOLEAN /\ Negative(b) \in BOOLEAN
    BY DEF Negative
  <2>3. /\ (-Magnitude(a)) * Magnitude(b) = -m
        /\ Magnitude(a) * (-Magnitude(b)) = -m
        /\ (-Magnitude(a)) * (-Magnitude(b)) = m
    BY <1>1
  <2>4. CASE Negative(a)
    BY <2>1, <2>2, <2>3, <2>4
  <2>5. CASE ~Negative(a)
    BY <2>1, <2>2, <2>3, <2>5
  <2> QED BY <2>4, <2>5
<1>5. /\ differ => /\ r.lo = Wrap(Not(p.lo) + 1)
                   /\ r.carry = IF p.lo = 0 THEN Wrap(Not(p.carry) + 1) ELSE Not(p.carry)
      /\ ~differ => r.lo = p.lo /\ r.carry = p.carry
  BY DEF EMul32
<1>6. Modulus * Modulus \in Int /\ Half * Half \in Nat
  BY Squares, HalfType
<1> HIDE DEF p, m, r, x, differ
<1>7. CASE differ
  <2>1. /\ r.lo \in Word /\ r.carry \in Word
        /\ Double(r.carry, r.lo) = IF m = 0 THEN 0 ELSE Modulus * Modulus - m
    BY <1>3, <1>5, <1>7, NegatedOverBoth
  <2>2. Double(r.carry, r.lo) = IF x >= 0 THEN x ELSE Modulus * Modulus + x
    BY <1>2, <1>4, <1>6, <1>7, <2>1
  <2> QED BY <1>2, <1>4, <1>6, <1>7, <2>1, <2>2 DEF r, x
<1>8. CASE ~differ
  BY <1>2, <1>3, <1>4, <1>5, <1>6, <1>8 DEF r, x
<1> QED BY <1>7, <1>8

\* It overflows when the product is no signed word.
LEMMA EMulChecked ==
  ASSUME NEW a \in Word, NEW b \in Word
  PROVE  LET r == EMul32(a, b, 0)
             x == Signed(a) * Signed(b)
         IN /\ r.over <=> x \notin SignedWord
            /\ x \in SignedWord => Signed(r.lo) = x
<1> DEFINE r == EMul32(a, b, 0)
           x == Signed(a) * Signed(b)
<1>1. /\ r.lo \in Word /\ r.carry \in Word
      /\ x \in Int /\ -(Half * Half) <= x /\ x <= Half * Half
      /\ Double(r.carry, r.lo) = IF x >= 0 THEN x ELSE Modulus * Modulus + x
  BY EMulIsProduct
<1>2. r.over = (r.carry # (IF Negative(r.lo) THEN Modulus - 1 ELSE 0))
  BY DEF EMul32
<1> HIDE DEF r, x
<1> DEFINE h == r.carry
           l == r.lo
<1>3. /\ Half \in Nat \ {0} /\ Modulus = 2 * Half /\ h \in 0 .. Modulus - 1 /\ l \in 0 .. Modulus - 1
      /\ Half * Half \in Nat /\ Half <= Half * Half /\ Modulus * Modulus = 4 * (Half * Half)
  BY <1>1, HalfType, Squares DEF Word
<1>4. (Modulus - 1) * Modulus = Modulus * Modulus - Modulus
  BY <1>3
<1>5. ASSUME x \in SignedWord
      PROVE  h = (IF l >= Half THEN Modulus - 1 ELSE 0) /\ Signed(l) = x
  <2>1. CASE x >= 0
    <3>1. x \in Word /\ Double(h, l) = Double(0, x)
      BY <1>1, <1>3, <1>5, <2>1 DEF SignedWord, Word, Double
    <3>2. h = 0 /\ l = x
      BY <1>1, <1>3, <3>1, DoubleOnce
    <3> QED BY <1>3, <1>5, <3>2 DEF Signed, SignedWord
  <2>2. CASE x < 0
    <3>1. Modulus + x \in Word /\ Double(h, l) = Double(Modulus - 1, Modulus + x)
      BY <1>1, <1>3, <1>4, <1>5, <2>2 DEF SignedWord, Word, Double
    <3>2. h = Modulus - 1 /\ l = Modulus + x
      BY <1>1, <1>3, <3>1, DoubleOnce
    <3> QED BY <1>3, <1>5, <2>2, <3>2 DEF Signed, SignedWord
  <2> QED BY <1>1, <2>1, <2>2
<1>6. ASSUME h = IF l >= Half THEN Modulus - 1 ELSE 0
      PROVE  x \in SignedWord
  <2>1. CASE l >= Half
    <3>1. Double(h, l) = Modulus * Modulus - Modulus + l
      BY <1>3, <1>4, <1>6, <2>1 DEF Double
    <3> QED BY <1>1, <1>3, <2>1, <3>1 DEF SignedWord
  <2>2. CASE ~(l >= Half)
    <3>1. Double(h, l) = l
      BY <1>3, <1>6, <2>2 DEF Double
    <3> QED BY <1>1, <1>3, <2>2, <3>1 DEF SignedWord
  <2> QED BY <2>1, <2>2
<1> QED BY <1>2, <1>5, <1>6 DEF Negative, r, x

\* t4_long_div: the quotient has no more than a word, and with the remainder
\* it gives back the dividend.
LEMMA LongDivIs ==
  ASSUME NEW h \in Word, NEW l \in Word, NEW d \in Word, h < d
  PROVE  LET r == LongDiv(h, l, d)
         IN r.quotient \in Word /\ r.carry < d /\ Double(h, l) = r.quotient * d + r.carry
<1> DEFINE x == Double(h, l)
           q == x \div d
           m == x % d
<1>1. /\ Modulus \in Nat \ {0} /\ h \in 0 .. Modulus - 1 /\ l \in 0 .. Modulus - 1
      /\ d \in Nat \ {0} /\ d * Modulus \in Int /\ h * Modulus \in Int
  BY HalfType DEF Word
<1>2. x \in Nat /\ x < d * Modulus
  <2>1. (h + 1) * Modulus <= d * Modulus
    BY <1>1, TimesMonotone
  <2>2. (h + 1) * Modulus = h * Modulus + Modulus
    BY <1>1
  <2>3. x \in Nat
    BY DoubleType
  <2> QED BY <1>1, <2>1, <2>2, <2>3 DEF Double
<1>3. q \in Int /\ m \in 0 .. d - 1 /\ x = q * d + m
  <2>1. x \in Int
    BY <1>2
  <2> HIDE DEF x
  <2> QED BY <1>1, <2>1, DivMod
<1> HIDE DEF x, q, m
<1>4. q * d \in Int
  BY <1>1, <1>3
<1>5. q >= 0
  <2> SUFFICES ASSUME q <= -1 PROVE FALSE
    BY <1>3
  <2>1. q * d <= (-1) * d
    BY <1>1, <1>3, TimesMonotone
  <2>2. (-1) * d = -d
    BY <1>1
  <2> QED BY <1>1, <1>2, <1>3, <1>4, <2>1, <2>2
<1>6. q < Modulus
  <2> SUFFICES ASSUME Modulus <= q PROVE FALSE
    BY <1>1, <1>3
  <2>1. Modulus * d <= q * d
    BY <1>1, <1>3, TimesMonotone
  <2>2. Modulus * d = d * Modulus
    BY <1>1
  <2> QED BY <1>1, <1>2, <1>3, <1>4, <2>1, <2>2
<1>7. q \in Word /\ Wrap(q) = q
  BY <1>1, <1>3, <1>5, <1>6 DEF Word, Wrap
<1>8. LongDiv(h, l, d) = [quotient |-> Wrap(q), carry |-> m]
  BY DEF LongDiv, x, q, m
<1> QED BY <1>1, <1>3, <1>7, <1>8 DEF x

\* A signed word survives being stored in a word.
LEMMA SignedWrap == \A x \in SignedWord : Wrap(x) \in Word /\ Signed(Wrap(x)) = x
<1> TAKE x \in SignedWord
<1>1. /\ Half \in Nat \ {0} /\ Modulus = 2 * Half /\ x \in Int /\ -Half <= x /\ x < Half
  BY HalfType DEF SignedWord
<1>2. Wrap(x) = IF x < 0 THEN x + Modulus ELSE x
  BY <1>1, WrapOnce
<1>3. Wrap(x) \in Word
  BY <1>1, WrapType
<1> QED BY <1>1, <1>2, <1>3 DEF Signed

\* The operators / and % of int32_t: the remainder has the sign of the
\* dividend and is nearer to zero than the divisor; the quotient is no signed
\* word in one case only.
LEMMA QuotientIs ==
  ASSUME NEW a \in SignedWord, NEW b \in SignedWord, a # 0
  PROVE  LET r == Remainder(b, a)
         IN /\ Quotient(b, a) \in Int /\ b = a * Quotient(b, a) + r
            /\ b # -Half \/ a # -1 => Quotient(b, a) \in SignedWord
            /\ r \in (IF b < 0 THEN -Half .. 0 ELSE 0 .. Half - 1) /\ r \in SignedWord
            /\ -r < a \/ -r < -a
            /\ r < a \/ r < -a
<1> DEFINE n == IF b < 0 THEN -b ELSE b
           d == IF a < 0 THEN -a ELSE a
           q == n \div d
           m == n % d
           r == Remainder(b, a)
<1>1. /\ Half \in Nat \ {0} /\ a \in Int /\ b \in Int
      /\ -Half <= a /\ a < Half /\ -Half <= b /\ b < Half
  BY HalfType DEF SignedWord
<1>2. n \in 0 .. Half /\ d \in 1 .. Half
  BY <1>1
<1>3. q \in Int /\ m \in 0 .. d - 1 /\ n = q * d + m
  <2>1. n \in Int /\ d \in Nat \ {0}
    BY <1>1, <1>2
  <2> HIDE DEF n, d
  <2> QED BY <2>1, DivMod
<1>4. q \in 0 .. n
  <2>1. n \in Nat /\ d \in Nat \ {0}
    BY <1>1, <1>2
  <2> HIDE DEF n, d
  <2> QED BY <2>1, DivType
<1>5. Quotient(b, a) = IF (b < 0) = (a < 0) THEN q ELSE -q
  BY DEF Quotient
<1>6. q * d \in Int /\ a * q \in Int
  BY <1>1, <1>3
<1>7. /\ a * q = IF a < 0 THEN -(q * d) ELSE q * d
      /\ a * (-q) = IF a < 0 THEN q * d ELSE -(q * d)
  <2>1. CASE a < 0
    <3>1. d = -a
      BY <2>1
    <3>2. a * q = -(q * (-a)) /\ a * (-q) = q * (-a)
      <4> HIDE DEF q
      <4> QED BY <1>1, <1>3
    <3> QED BY <2>1, <3>1, <3>2
  <2>2. CASE ~(a < 0)
    <3>1. d = a
      BY <2>2
    <3>2. a * q = q * a /\ a * (-q) = -(q * a)
      BY <1>1, <1>3
    <3> QED BY <2>2, <3>1, <3>2
  <2> QED BY <2>1, <2>2
<1>8. a * Quotient(b, a) = IF b < 0 THEN -(q * d) ELSE q * d
  <2>1. CASE b < 0
    <3>1. CASE a < 0
      BY <1>5, <1>7, <2>1, <3>1
    <3>2. CASE ~(a < 0)
      BY <1>5, <1>7, <2>1, <3>2
    <3> QED BY <3>1, <3>2
  <2>2. CASE ~(b < 0)
    <3>1. CASE a < 0
      BY <1>5, <1>7, <2>2, <3>1
    <3>2. CASE ~(a < 0)
      BY <1>5, <1>7, <2>2, <3>2
    <3> QED BY <3>1, <3>2
  <2> QED BY <2>1, <2>2
<1>9. r = b - a * Quotient(b, a)
  BY DEF Remainder
<1>10. r = IF b < 0 THEN -m ELSE m
  <2> HIDE DEF q, m, r, d
  <2> QED BY <1>1, <1>3, <1>6, <1>8, <1>9
<1>11. Quotient(b, a) \in Int
  BY <1>3, <1>5
<1>12. b = a * Quotient(b, a) + r
  <2> HIDE DEF r
  <2>1. a * Quotient(b, a) \in Int
    BY <1>1, <1>11
  <2> QED BY <1>1, <1>9, <2>1
<1>13. ASSUME b # -Half \/ a # -1 PROVE Quotient(b, a) \in SignedWord
  <2>1. CASE q < Half
    BY <1>1, <1>4, <1>5, <2>1 DEF SignedWord
  <2>2. CASE q >= Half
    <3>1. q = Half /\ n = Half
      <4> HIDE DEF q, n
      <4> QED BY <1>1, <1>2, <1>4, <2>2
    <3>2. b = -Half
      BY <1>1, <3>1
    <3>3. d = 1
      <4> SUFFICES ASSUME 2 <= d PROVE FALSE
        BY <1>2
      <4>1. 2 * Half <= d * Half
        BY <1>1, <1>2, TimesMonotone
      <4>2. Half * d = d * Half /\ d * Half \in Int
        BY <1>1, <1>2
      <4>3. Half = Half * d + m
        BY <1>3, <3>1
      <4> HIDE DEF m, d
      <4> QED BY <1>1, <1>3, <4>1, <4>2, <4>3
    <3>4. ~(a < 0)
      BY <1>13, <3>2, <3>3
    <3>5. Quotient(b, a) = -q
      BY <1>1, <1>5, <3>2, <3>4
    <3> QED BY <1>1, <3>1, <3>5 DEF SignedWord
  <2> QED BY <1>1, <1>4, <2>1, <2>2
<1>14. m < d /\ d <= Half /\ m \in Nat
  BY <1>2, <1>3
<1>15. /\ r \in (IF b < 0 THEN -Half .. 0 ELSE 0 .. Half - 1) /\ r \in SignedWord
       /\ -r < d /\ r < d
  <2> HIDE DEF m, d, r
  <2> QED BY <1>1, <1>2, <1>10, <1>14 DEF SignedWord
<1> HIDE DEF r
<1>16. /\ -r < a \/ -r < -a
       /\ r < a \/ r < -a
  BY <1>1, <1>15
<1> QED BY <1>11, <1>12, <1>13, <1>15, <1>16 DEF r

\* But for one product of fractions, all are less than one.
LEMMA FractionBound ==
  ASSUME NEW a \in Word, NEW b \in Word, ~(a = Half /\ b = Half)
  PROVE  Signed(a) * Signed(b) <= Half * Half - Half
<1> DEFINE u == Magnitude(a)
           v == Magnitude(b)
<1>1. /\ Half \in Nat \ {0} /\ Modulus = 2 * Half /\ Half - 1 \in Nat
      /\ a \in 0 .. Modulus - 1 /\ b \in 0 .. Modulus - 1
  BY HalfType DEF Word
<1>2. /\ u \in 0 .. Half /\ v \in 0 .. Half
      /\ Signed(a) = (IF Negative(a) THEN -u ELSE u)
      /\ Signed(b) = (IF Negative(b) THEN -v ELSE v)
  BY MagnitudeIs
<1>3. (a # Half => u # Half) /\ (b # Half => v # Half)
  <2> HIDE DEF u, v
  <2> QED BY <1>1, <1>2 DEF Signed, Negative
<1> HIDE DEF u, v
<1>4. u * v <= Half * Half - Half
  <2>1. CASE u # Half
    <3>1. u * v <= (Half - 1) * Half
      BY <1>1, <1>2, <2>1, ProductBound
    <3>2. (Half - 1) * Half = Half * Half - Half
      BY <1>1
    <3> QED BY <3>1, <3>2
  <2>2. CASE v # Half
    <3>1. u * v <= Half * (Half - 1)
      BY <1>1, <1>2, <2>2, ProductBound
    <3>2. Half * (Half - 1) = Half * Half - Half
      BY <1>1
    <3> QED BY <3>1, <3>2
  <2> QED BY <1>3, <2>1, <2>2
<1>5. u * v \in Nat /\ u * v \in Int
  BY <1>1, <1>2
<1>6. /\ (-u) * v = -(u * v) /\ u * (-v) = -(u * v) /\ (-u) * (-v) = u * v
  BY <1>1, <1>2
<1>7. Signed(a) * Signed(b) = u * v \/ Signed(a) * Signed(b) = -(u * v)
  BY <1>2, <1>6
<1>8. Half * Half \in Int
  BY <1>1
<1>9. Half * Half \in Nat /\ Half <= Half * Half
  BY <1>1, Squares
<1> DEFINE w == u * v
           sq == Half * Half
           pr == Signed(a) * Signed(b)
<1>10. w <= sq - Half /\ w \in Nat /\ (pr = w \/ pr = -w) /\ sq \in Nat /\ Half <= sq
  BY <1>4, <1>5, <1>7, <1>9
<1> SUFFICES pr <= sq - Half
  OBVIOUS
<1> HIDE DEF w, sq, pr
<1> QED BY <1>1, <1>10

\* The upper part of a product, without its lower bits: what shr64() gives for
\* the two words of it, and what is left.
LEMMA FractionParts ==
  ASSUME NEW a \in Word, NEW b \in Word
  PROVE  LET p == EMul32(a, b, 0)
             x == Signed(a) * Signed(b)
         IN /\ p.lo % Half = x % Half
            /\ Shr64(p.carry, p.lo, Width - 1).lo = Wrap(x \div Half)
<1> DEFINE p == EMul32(a, b, 0)
           x == Signed(a) * Signed(b)
<1>1. /\ p.lo \in Word /\ p.carry \in Word /\ x \in Int
      /\ Double(p.carry, p.lo) = IF x >= 0 THEN x ELSE Modulus * Modulus + x
  BY EMulIsProduct
<1> HIDE DEF p, x
<1>2. /\ Half \in Nat \ {0} /\ Modulus = 2 * Half /\ Modulus \in Nat \ {0}
      /\ Modulus * Modulus = (2 * Modulus) * Half
  BY HalfType
<1> DEFINE h == p.carry
           l == p.lo
           D == Double(h, l)
           f == x \div Half
           g == x % Half
<1>3. f \in Int /\ g \in 0 .. Half - 1 /\ x = f * Half + g
  BY <1>1, <1>2, DivMod
<1> HIDE DEF f, g
<1>4. PICK k \in {0, 2} : D = (f + k * Modulus) * Half + g
  <2>1. (f + 0 * Modulus) * Half = f * Half
    BY <1>2, <1>3
  <2>2. (f + 2 * Modulus) * Half = f * Half + (2 * Modulus) * Half
    BY <1>2, <1>3
  <2>3. f * Half \in Int /\ (2 * Modulus) * Half \in Int
    BY <1>2, <1>3
  <2>4. CASE x >= 0
    <3>1. D = (f + 0 * Modulus) * Half + g
      BY <1>1, <1>3, <2>1, <2>4
    <3> QED BY <3>1
  <2>5. CASE ~(x >= 0)
    <3>1. D = (f + 2 * Modulus) * Half + g
      BY <1>1, <1>2, <1>3, <2>2, <2>3, <2>5
    <3> QED BY <3>1
  <2> QED BY <2>4, <2>5
<1>5. D \in Int /\ f + k * Modulus \in Int
  BY <1>1, <1>2, <1>3, DoubleType
<1>6. D \div Half = f + k * Modulus /\ D % Half = g
  <2> HIDE DEF D
  <2> QED BY <1>2, <1>3, <1>4, <1>5, DivUnique
<1>7. l % Half = g
  <2> DEFINE u == l \div Half
             v == l % Half
  <2>1. l \in Int /\ h \in Int
    BY <1>1, SignedType
  <2>2. u \in Int /\ v \in 0 .. Half - 1 /\ l = u * Half + v
    BY <1>2, <2>1, DivMod
  <2> HIDE DEF u, v
  <2>3. D = (2 * h + u) * Half + v
    <3>1. (2 * h + u) * Half = h * (2 * Half) + u * Half
      BY <1>2, <2>1, <2>2
    <3>2. D = h * (2 * Half) + l
      BY <1>2 DEF Double
    <3>3. h * (2 * Half) \in Int /\ u * Half \in Int
      BY <1>2, <2>1, <2>2
    <3> QED BY <2>2, <3>1, <3>2, <3>3
  <2>4. 2 * h + u \in Int
    BY <2>1, <2>2
  <2>5. D % Half = v
    <3> HIDE DEF D
    <3> QED BY <1>2, <1>5, <2>2, <2>3, <2>4, DivUnique
  <2> QED BY <1>6, <2>5 DEF v
<1>8. Wrap(f + k * Modulus) = Wrap(f)
  <2> DEFINE e == f \div Modulus
             w == f % Modulus
  <2>1. e \in Int /\ w \in 0 .. Modulus - 1 /\ f = e * Modulus + w
    BY <1>2, <1>3, DivMod
  <2> HIDE DEF e, w
  <2>2. (e + k) * Modulus = e * Modulus + k * Modulus
    BY <1>2, <2>1
  <2>3. e * Modulus \in Int /\ k * Modulus \in Int /\ e + k \in Int
    BY <1>2, <2>1
  <2>4. f + k * Modulus = (e + k) * Modulus + w
    BY <1>3, <2>1, <2>2, <2>3
  <2>5. (f + k * Modulus) % Modulus = w
    BY <1>2, <1>5, <2>1, <2>3, <2>4, DivUnique
  <2> QED BY <2>5 DEF Wrap, w
<1>9. Shr64(h, l, Width - 1).lo = Wrap(D \div Half)
  <2>1. ~(Width - 1 >= 2 * Width)
    BY WidthAssumption
  <2>2. Shr64(h, l, Width - 1) = Halves(D \div Half)
    BY <2>1 DEF Shr64, Half
  <2> QED BY <2>2 DEF Halves, Wrap
<1> QED BY <1>6, <1>7, <1>8, <1>9 DEF p, x, f, g

\* t4_fmul: the fraction nearest to the product, and of two the even one.
LEMMA FMulIsNearest ==
  ASSUME NEW a \in Word, NEW b \in Word, ~(a = Half /\ b = Half)
  PROVE  LET r == FMul(a, b).lo
             distance == Signed(r) * Half - Signed(a) * Signed(b)
         IN /\ 2 * distance \in -Half .. Half
            /\ 2 * distance \in {-Half, Half} => r % 2 = 0
<1> DEFINE p == EMul32(a, b, 0)
           x == Signed(a) * Signed(b)
           f == x \div Half
           g == x % Half
           c == Wrap(f)
           up == 2 * g > Half \/ (2 * g = Half /\ c % 2 = 1)
           y == IF up THEN f + 1 ELSE f
           r == IF up THEN Wrap(c + 1) ELSE c
<1>1. FMul(a, b).lo = r
  BY FractionParts DEF FMul
<1>2. /\ Half \in Nat \ {0} /\ Modulus = 2 * Half /\ x \in Int
      /\ -(Half * Half) <= x /\ x <= Half * Half - Half /\ Half * Half \in Int
  BY HalfType, EMulIsProduct, FractionBound
<1> HIDE DEF x
<1>3. f \in Int /\ g \in 0 .. Half - 1 /\ x = f * Half + g
  BY <1>2, DivMod
<1> HIDE DEF f, g
<1>4. f * Half \in Int
  BY <1>2, <1>3
<1>5. -Half <= f
  <2> SUFFICES ASSUME f <= -Half - 1 PROVE FALSE
    BY <1>2, <1>3
  <2>1. f * Half <= (-Half - 1) * Half
    BY <1>2, <1>3, TimesMonotone
  <2>2. (-Half - 1) * Half = -(Half * Half) - Half
    BY <1>2
  <2> QED BY <1>2, <1>3, <1>4, <2>1, <2>2
<1>6. f < Half
  <2> SUFFICES ASSUME Half <= f PROVE FALSE
    BY <1>2, <1>3
  <2>1. Half * Half <= f * Half
    BY <1>2, <1>3, TimesMonotone
  <2> QED BY <1>2, <1>3, <1>4, <2>1
<1>7. f = Half - 1 => g = 0
  <2> SUFFICES ASSUME f = Half - 1 PROVE g = 0
    OBVIOUS
  <2>1. f * Half = Half * Half - Half
    BY <1>2
  <2> QED BY <1>2, <1>3, <2>1
<1>8. f \in SignedWord /\ y \in SignedWord
  <2>1. f \in SignedWord
    BY <1>2, <1>3, <1>5, <1>6 DEF SignedWord
  <2>2. up => g # 0
    BY <1>2, <1>3
  <2> QED BY <1>2, <1>3, <1>7, <2>1, <2>2 DEF SignedWord
<1>9. c \in Word /\ c = (IF f < 0 THEN f + Modulus ELSE f)
  BY <1>2, <1>3, <1>5, <1>6, WrapType, WrapOnce
<1>10. r = Wrap(y) /\ (up => r = IF c + 1 = Modulus THEN 0 ELSE c + 1)
  <2>1. CASE up
    <3>1. Wrap(c + 1) = IF c + 1 = Modulus THEN 0 ELSE c + 1
      <4> HIDE DEF c
      <4>1. c + 1 \in Int /\ -Modulus <= c + 1 /\ 0 <= c + 1 /\ c + 1 <= Modulus /\ c + 1 < 2 * Modulus
        BY <1>2, <1>9 DEF Word
      <4>2. Wrap(c + 1) = IF c + 1 < 0 THEN (c + 1) + Modulus
                          ELSE IF c + 1 < Modulus THEN c + 1 ELSE (c + 1) - Modulus
        BY <4>1, WrapOnce
      <4> QED BY <1>2, <4>1, <4>2
    <3>2. Wrap(f + 1) = IF f + 1 < 0 THEN (f + 1) + Modulus ELSE f + 1
      BY <1>2, <1>3, <1>5, <1>6, WrapOnce
    <3> HIDE DEF c
    <3> QED BY <1>2, <1>3, <1>6, <1>9, <2>1, <3>1, <3>2
  <2>2. CASE ~up
    BY <2>2
  <2> QED BY <2>1, <2>2
<1>11. Signed(r) = y
  BY <1>8, <1>10, SignedWrap
<1>12. Signed(r) * Half - x = IF up THEN Half - g ELSE -g
  <2>1. (f + 1) * Half = f * Half + Half
    BY <1>2, <1>3
  <2> HIDE DEF r, up
  <2> QED BY <1>2, <1>3, <1>4, <1>11, <2>1
<1>13. up => 2 * g >= Half
  BY <1>2, <1>3
<1>14. ~up => 2 * g <= Half
  <2>1. c \in Int
    BY <1>9, SignedType
  <2> QED BY <1>2, <1>3, <2>1
<1>15. 2 * (Signed(r) * Half - x) \in -Half .. Half
  <2> HIDE DEF r, up
  <2> QED BY <1>2, <1>3, <1>12, <1>13, <1>14
<1>16. ASSUME 2 * (Signed(r) * Half - x) \in {-Half, Half} PROVE r % 2 = 0
  <2>1. 2 * g = Half
    <3> HIDE DEF r, up
    <3> QED BY <1>2, <1>3, <1>12, <1>16
  <2>2. c \in Int
    BY <1>9, SignedType
  <2>3. CASE up
    <3>1. c % 2 = 1
      BY <1>2, <2>1, <2>3
    <3> HIDE DEF c, r, up
    <3> QED BY <1>10, <2>2, <2>3, <3>1
  <2>4. CASE ~up
    <3>1. c % 2 # 1 /\ r = c
      BY <2>1, <2>4
    <3> HIDE DEF c, r
    <3> QED BY <2>2, <3>1
  <2> QED BY <2>3, <2>4
<1> HIDE DEF r
<1> QED BY <1>1, <1>15, <1>16 DEF x

\* In every reachable state mul is exact or sets the error flag, ldiv takes the
\* product of lmul apart again, div and rem agree on one division, and fmul is
\* the nearest fraction.
THEOREM ProductsAreExact == Spec => []ProductsExact
<1>1. TypeOK => ProductsExact
  <2> SUFFICES ASSUME cpu \in Cpu
               PROVE  ProductsExact
    BY DEF TypeOK
  <2> DEFINE a == Signed(cpu.A)
             b == Signed(cpu.B)
             product == Lmul(cpu)
             whole == Double(product.B, product.A)
             f == Fmul(cpu)
             distance == Signed(f.A) * Half - a * b
  <2>1. /\ cpu.A \in Word /\ cpu.B \in Word /\ cpu.C \in Word /\ cpu.error \in BOOLEAN
        /\ Half \in Nat \ {0} /\ Modulus = 2 * Half /\ Modulus \in Nat
        /\ cpu.A \in 0 .. Modulus - 1 /\ cpu.B \in 0 .. Modulus - 1
    BY HalfType DEF Cpu, Word
  <2>2. /\ a \in SignedWord /\ b \in SignedWord /\ a \in Int /\ b \in Int
        /\ (a = 0 <=> cpu.A = 0) /\ (a = -Half <=> cpu.A = Half) /\ (b = -Half <=> cpu.B = Half)
    <3>1. a \in SignedWord /\ b \in SignedWord /\ a \in Int /\ b \in Int
      BY <2>1, SignedType
    <3> QED BY <2>1, <3>1 DEF Signed
  <2>3. Exact(Mul(cpu), b * a)
    BY <2>1, EMulChecked DEF Exact, Mul, Binary, SetErrorIf, Cpu
  <2>4. /\ product.A \in Word /\ product.B \in Word
        /\ whole = cpu.B * cpu.A + cpu.C
    BY <2>1, MulIsProduct DEF Lmul, LongResult, Cpu
  <2> HIDE DEF product
  <2>5. ASSUME NEW d \in Word
        PROVE  LET q == Ldiv([cpu EXCEPT !.A = d, !.B = product.A, !.C = product.B])
               IN /\ q.error <=> (cpu.error \/ whole >= d * Modulus)
                  /\ whole < d * Modulus => whole = q.A * d + q.B /\ q.B < d
    <3> DEFINE s == [cpu EXCEPT !.A = d, !.B = product.A, !.C = product.B]
               q == Ldiv(s)
               r == LongDiv(product.B, product.A, d)
    <3>1. /\ s.A = d /\ s.B = product.A /\ s.C = product.B /\ s.error = cpu.error
          /\ s \in Cpu
      BY <2>1, <2>4 DEF Cpu
    <3> HIDE DEF s
    <3>2. /\ product.A \in 0 .. Modulus - 1 /\ product.B \in Int /\ d \in Int
          /\ d * Modulus \in Int /\ product.B * Modulus \in Int
          /\ whole \in Int /\ whole = product.B * Modulus + product.A
      BY <2>1, <2>4, DoubleType DEF Word, Double
    <3>3. CASE product.B >= d
      <4>1. q.error
        BY <2>1, <3>1, <3>3 DEF Ldiv, SetErrorIf, Cpu
      <4>2. d * Modulus <= product.B * Modulus
        <5>1. d <= product.B
          BY <3>2, <3>3
        <5> QED BY ONLY <2>1, <3>2, <5>1, TimesMonotone
      <4>3. whole >= d * Modulus /\ ~(whole < d * Modulus)
        <5> HIDE DEF whole
        <5> DEFINE u == d * Modulus
                   v == product.B * Modulus
        <5>1. u \in Int /\ v \in Int /\ u <= v /\ whole = v + product.A /\ whole \in Int
          BY <3>2, <4>2
        <5> HIDE DEF u, v
        <5>2. whole >= u /\ ~(whole < u)
          BY <2>1, <3>2, <5>1
        <5> QED BY <5>2 DEF u
      <4> QED BY <4>1, <4>3 DEF s
    <3>4. CASE ~(product.B >= d)
      <4>1. product.B < d /\ product.B + 1 <= d /\ product.B + 1 \in Int
        BY <3>2, <3>4
      <4>2. r.quotient \in Word /\ r.carry < d /\ whole = r.quotient * d + r.carry
        BY <2>4, <4>1, LongDivIs
      <4>3. q.error = cpu.error /\ q.A = r.quotient /\ q.B = r.carry
        BY <2>1, <3>1, <3>4 DEF Ldiv, Cpu
      <4>4. whole < d * Modulus /\ ~(whole >= d * Modulus)
        <5> HIDE DEF whole
        <5> DEFINE u == d * Modulus
                   v == product.B * Modulus
        <5>1. (product.B + 1) * Modulus <= u
          BY ONLY <2>1, <3>2, <4>1, TimesMonotone
        <5>2. (product.B + 1) * Modulus = v + Modulus
          BY <2>1, <3>2
        <5>3. u \in Int /\ v \in Int /\ whole = v + product.A /\ whole \in Int
          BY <3>2
        <5> HIDE DEF u, v
        <5>4. v + Modulus <= u
          BY <5>1, <5>2
        <5>5. whole < u /\ ~(whole >= u)
          BY <2>1, <3>2, <5>3, <5>4
        <5> QED BY <5>5 DEF u
      <4> QED BY <4>2, <4>3, <4>4 DEF s
    <3> QED BY <3>3, <3>4
  <2>6. a = 0 => Div(cpu).error /\ Rem(cpu).error
    BY <2>1, <2>2 DEF Div, Rem, SetErrorIf, Cpu
  <2>7. ASSUME a # 0
        PROVE  LET q == Div(cpu)
                   r == Signed(Rem(cpu).A)
               IN /\ Rem(cpu).error = cpu.error
                  /\ q.error <=> (cpu.error \/ (b = -Half /\ a = -1))
                  /\ b # -Half \/ a # -1 => b = a * Signed(q.A) + r
                  /\ r \in (IF b < 0 THEN -Half .. 0 ELSE 0 .. Half - 1)
                  /\ -r < a \/ -r < -a
                  /\ r < a \/ r < -a
    <3> DEFINE q == Div(cpu)
               m == Remainder(b, a)
               r == Signed(Rem(cpu).A)
    <3>1. cpu.A # 0
      BY <2>2, <2>7
    <3>2. OverflowsDiv(cpu) <=> b = -Half /\ a = -1
      BY <2>2 DEF OverflowsDiv
    <3>3. /\ Quotient(b, a) \in Int /\ b = a * Quotient(b, a) + m
          /\ b # -Half \/ a # -1 => Quotient(b, a) \in SignedWord
          /\ m \in (IF b < 0 THEN -Half .. 0 ELSE 0 .. Half - 1) /\ m \in SignedWord
          /\ -m < a \/ -m < -a
          /\ m < a \/ m < -a
      BY <2>2, <2>7, QuotientIs
    <3>4. /\ Rem(cpu).error = cpu.error
          /\ Rem(cpu).A = IF OverflowsDiv(cpu) THEN 0 ELSE Wrap(m)
      BY <2>1, <3>1 DEF Rem, Cpu
    <3>5. CASE OverflowsDiv(cpu)
      <4>1. q.error
        BY <2>1, <3>5 DEF Div, SetErrorIf, Cpu
      <4>2. r = 0
        BY <2>1, <3>4, <3>5 DEF Signed
      <4>3. b < 0 /\ 0 \in -Half .. 0 /\ -0 < -a
        BY <2>1, <2>2, <3>2, <3>5
      <4> QED BY <3>2, <3>4, <3>5, <4>1, <4>2, <4>3
    <3>6. CASE ~OverflowsDiv(cpu)
      <4>1. q.error = cpu.error /\ q.A = Wrap(Quotient(b, a))
        BY <2>1, <3>1, <3>6 DEF Div, Cpu
      <4>2. Signed(q.A) = Quotient(b, a) /\ r = m
        BY <3>2, <3>3, <3>4, <3>6, <4>1, SignedWrap
      <4> HIDE DEF r, m, q, a, b
      <4> QED BY <3>2, <3>3, <3>4, <3>6, <4>1, <4>2 DEF q, r
    <3> QED BY <3>5, <3>6
  <2>8. f.error <=> (cpu.error \/ (a = -Half /\ b = -Half))
    BY <2>1, <2>2 DEF Fmul, SetErrorIf, Cpu
  <2>9. ASSUME a # -Half \/ b # -Half
        PROVE  /\ 2 * distance \in -Half .. Half
               /\ 2 * distance \in {-Half, Half} => f.A % 2 = 0
    <3>1. ~(cpu.A = Half /\ cpu.B = Half)
      BY <2>2, <2>9
    <3>2. f.A = FMul(cpu.A, cpu.B).lo
      BY <2>1, <3>1 DEF Fmul, Cpu
    <3> HIDE DEF f
    <3> QED BY <2>1, <3>1, <3>2, FMulIsNearest
  <2> QED BY <2>3, <2>4, <2>5, <2>6, <2>7, <2>8, <2>9 DEF ProductsExact, product
<1> QED BY <1>1, TypeCorrect, PTL

-----------------------------------------------------------------------------
\* A set of naturals has a least member.
LEMMA LeastMember ==
  ASSUME NEW T, T \subseteq Nat, T # {}
  PROVE  \E m \in T : \A k \in T : m <= k
<1> DEFINE R == {ss \in Nat \X Nat : ss[1] < ss[2]}
<1>1. IsWellFoundedOn(R, Nat)
  BY NatLessThanWellFounded DEF OpToRel
<1>2. \A x, y \in Nat : <<x, y>> \in R <=> x < y
  OBVIOUS
<1>3. PICK m \in T : \A k \in T : ~(<<k, m>> \in R)
  <2> HIDE DEF R
  <2> QED BY <1>1, WFMin
<1>4. ASSUME NEW k \in T PROVE m <= k
  <2>1. m \in Nat /\ k \in Nat
    OBVIOUS
  <2>2. ~(k < m)
    <3> HIDE DEF R
    <3> QED BY <1>2, <1>3, <2>1
  <2> QED BY <2>1, <2>2
<1> QED BY <1>4

\* The weights of the bits.
LEMMA Weights ==
  /\ Width \in Nat /\ Width >= 2
  /\ \A n \in 0 .. 2 * Width : Pow2[n] \in Nat \ {0}
  /\ Pow2[0] = 1
  /\ \A n \in Nat : n < 2 * Width => Pow2[n + 1] = 2 * Pow2[n]
  /\ Pow2[Width] = Modulus
<1>1. Width \in Nat /\ Width >= 2 /\ Width - 1 \in 0 .. 2 * Width - 1 /\ (Width - 1) + 1 = Width
  BY WidthAssumption
<1>2. \A n \in Nat : n < 2 * Width => n \in 0 .. 2 * Width - 1
  BY <1>1
<1> QED BY <1>1, <1>2, WidthAssumption DEF Modulus, Half

\* A bit weighs no more than a higher one.
LEMMA WeightsRise ==
  \A m, n \in 0 .. 2 * Width : m <= n => Pow2[m] <= Pow2[n]
<1> SUFFICES ASSUME NEW m \in 0 .. 2 * Width
             PROVE  \A n \in 0 .. 2 * Width : m <= n => Pow2[m] <= Pow2[n]
  OBVIOUS
<1> DEFINE T == {n \in 0 .. 2 * Width : m <= n /\ ~(Pow2[m] <= Pow2[n])}
<1> SUFFICES ASSUME T # {} PROVE FALSE
  OBVIOUS
<1>1. Width \in Nat /\ T \subseteq Nat
  BY Weights
<1>2. PICK n \in T : \A k \in T : n <= k
  <2> HIDE DEF T
  <2> QED BY <1>1, LeastMember
<1>3. n \in 0 .. 2 * Width /\ m <= n /\ ~(Pow2[m] <= Pow2[n])
  BY <1>2
<1>4. Pow2[m] \in Nat \ {0} /\ Pow2[n] \in Nat \ {0}
  BY <1>3, Weights
<1>5. n # m
  BY <1>3, <1>4
<1>6. /\ n - 1 \in 0 .. 2 * Width /\ m <= n - 1 /\ n - 1 \in Nat /\ n - 1 < 2 * Width
      /\ (n - 1) + 1 = n /\ ~(n <= n - 1)
  BY <1>1, <1>3, <1>5
<1>7. Pow2[m] <= Pow2[n - 1]
  BY <1>2, <1>6
<1>8. Pow2[n - 1] \in Nat /\ Pow2[n] = 2 * Pow2[n - 1]
  <2>1. Pow2[n - 1] \in Nat
    BY <1>6, Weights
  <2>2. Pow2[(n - 1) + 1] = 2 * Pow2[n - 1]
    BY <1>6, Weights
  <2> QED BY <1>6, <2>1, <2>2
<1> QED BY <1>3, <1>4, <1>7, <1>8

\* The sign bit of a part word weighs no more than that of a word.
LEMMA SignBits == \A x : IsSignBit(x) => x \in Nat \ {0} /\ x <= Half
<1> SUFFICES ASSUME NEW x, IsSignBit(x)
             PROVE  x \in Nat \ {0} /\ x <= Half
  OBVIOUS
<1>1. PICK n \in 0 .. Width - 1 : x = Pow2[n]
  BY DEF IsSignBit
<1>2. n \in 0 .. 2 * Width /\ Width - 1 \in 0 .. 2 * Width /\ n <= Width - 1
  BY Weights
<1> QED BY <1>1, <1>2, Weights, WeightsRise DEF Half

\* The bits of the upper word.
LEMMA UpperWeights == \A n \in 0 .. Width : Pow2[Width + n] = Modulus * Pow2[n]
<1> DEFINE T == {n \in 0 .. Width : Pow2[Width + n] # Modulus * Pow2[n]}
<1> SUFFICES ASSUME T # {} PROVE FALSE
  OBVIOUS
<1>1. Width \in Nat /\ T \subseteq Nat /\ Modulus \in Nat
  BY Weights, HalfType
<1>2. PICK n \in T : \A k \in T : n <= k
  <2> HIDE DEF T
  <2> QED BY <1>1, LeastMember
<1>3. n \in 0 .. Width /\ Pow2[Width + n] # Modulus * Pow2[n]
  BY <1>2
<1>4. n # 0
  <2>1. Width + 0 = Width /\ Modulus * 1 = Modulus
    BY <1>1
  <2> QED BY <1>3, <2>1, Weights
<1> DEFINE k == n - 1
<1>5. /\ k \in 0 .. Width /\ k \in Nat /\ k < 2 * Width /\ k + 1 = n /\ ~(n <= k)
      /\ Width + k \in Nat /\ Width + k < 2 * Width /\ (Width + k) + 1 = Width + n
      /\ k \in 0 .. 2 * Width
  BY <1>1, <1>3, <1>4
<1> HIDE DEF k
<1>6. Pow2[Width + k] = Modulus * Pow2[k]
  BY <1>2, <1>5
<1>7. Pow2[k + 1] = 2 * Pow2[k] /\ Pow2[(Width + k) + 1] = 2 * Pow2[Width + k] /\ Pow2[k] \in Nat
  BY <1>5, Weights
<1>8. 2 * (Modulus * Pow2[k]) = Modulus * (2 * Pow2[k])
  BY <1>1, <1>7
<1> QED BY <1>3, <1>5, <1>6, <1>7, <1>8

\* The two words of any number: it is cut off at a double word.
LEMMA HalvesWrap ==
  ASSUME NEW y \in Int
  PROVE  LET h == Halves(y)
         IN h.lo \in Word /\ h.carry \in Word
            /\ Double(h.carry, h.lo) = y % (Modulus * Modulus)
<1> DEFINE l == y % Modulus
           e == y \div Modulus
           c == e % Modulus
           g == e \div Modulus
           M == Modulus * Modulus
<1>1. Modulus \in Nat \ {0} /\ M \in Nat \ {0}
  <2>1. Modulus \in Nat \ {0} /\ Half \in Nat \ {0}
    BY HalfType
  <2>2. M = 4 * (Half * Half) /\ Half * Half \in Nat /\ Half <= Half * Half
    BY Squares
  <2> QED BY <2>1, <2>2
<1>2. e \in Int /\ l \in 0 .. Modulus - 1 /\ y = e * Modulus + l
  BY <1>1, DivMod
<1>3. Halves(y) = [lo |-> l, carry |-> c]
  BY DEF Halves
<1> HIDE DEF e, l
<1>4. g \in Int /\ c \in 0 .. Modulus - 1 /\ e = g * Modulus + c
  BY <1>1, <1>2, DivMod
<1> HIDE DEF g, c
<1> DEFINE r == c * Modulus + l
<1>5. r \in 0 .. M - 1
  <2>1. 0 * Modulus <= c * Modulus /\ (c + 1) * Modulus <= M
    BY <1>1, <1>4, TimesMonotone
  <2>2. (c + 1) * Modulus = c * Modulus + Modulus /\ 0 * Modulus = 0
    BY <1>1, <1>4
  <2>3. c * Modulus \in Int
    BY <1>1, <1>4
  <2> HIDE DEF M
  <2> QED BY <1>1, <1>2, <2>1, <2>2, <2>3
<1>6. y = g * M + r
  <2>1. e * Modulus = g * M + c * Modulus
    BY <1>1, <1>4
  <2>2. g * M \in Int /\ c * Modulus \in Int
    BY <1>1, <1>4
  <2> HIDE DEF M
  <2> QED BY <1>2, <2>1, <2>2
<1> HIDE DEF M, r
<1>7. y % M = r
  BY <1>1, <1>4, <1>5, <1>6, DivUnique
<1>8. l \in Word /\ c \in Word
  BY <1>2, <1>4 DEF Word
<1> QED BY <1>3, <1>7, <1>8 DEF Double, M, r

\* Two words are those of their double word.
LEMMA HalvesOfDouble ==
  ASSUME NEW h \in Word, NEW l \in Word
  PROVE  Halves(Double(h, l)) = [lo |-> l, carry |-> h]
<1> DEFINE x == Double(h, l)
<1>1. /\ Modulus \in Nat \ {0} /\ h \in Int /\ l \in 0 .. Modulus - 1 /\ x \in Int
      /\ x = h * Modulus + l
  BY HalfType, DoubleType DEF Word, Double
<1>2. x \div Modulus = h /\ x % Modulus = l
  <2> HIDE DEF x
  <2> QED BY <1>1, DivUnique
<1>3. h % Modulus = h
  <2>1. h \in 0 .. Modulus - 1
    BY DEF Word
  <2>2. h = 0 * Modulus + h
    BY <1>1
  <2> QED BY <1>1, <2>1, <2>2, DivUnique
<1> QED BY <1>2, <1>3 DEF Halves

\* A double word fits in two words.
LEMMA DoubleBound ==
  \A h \in Word, l \in Word : Double(h, l) \in Nat /\ Double(h, l) < Modulus * Modulus
<1> TAKE h \in Word, l \in Word
<1>1. /\ Modulus \in Nat /\ h \in 0 .. Modulus - 1 /\ l \in 0 .. Modulus - 1
      /\ h * Modulus \in Int /\ Modulus * Modulus \in Int
  BY HalfType DEF Word
<1>2. (h + 1) * Modulus <= Modulus * Modulus
  BY <1>1, TimesMonotone
<1>3. (h + 1) * Modulus = h * Modulus + Modulus
  BY <1>1
<1>4. Double(h, l) < Modulus * Modulus
  <2> DEFINE u == h * Modulus
             v == Modulus * Modulus
  <2>1. u \in Int /\ v \in Int /\ u + Modulus <= v
    BY <1>1, <1>2, <1>3
  <2> HIDE DEF u, v
  <2>2. u + l < v
    BY <1>1, <2>1
  <2> QED BY <2>2 DEF Double, u, v
<1> QED BY <1>4, DoubleType

\* t4_norm64's count of leading zeros is the one shift that brings the first
\* one bit to the top.
LEMMA NormLenIs ==
  ASSUME NEW x \in Nat, x < Modulus * Modulus
  PROVE  /\ x = 0 => NormLen(x) = 2 * Width
         /\ x # 0 => NormLen(x) \in 0 .. 2 * Width - 1 /\ OnTop(x, NormLen(x))
<1> DEFINE shifts == {n \in 0 .. 2 * Width - 1 : OnTop(x, n)}
           top == Half * Modulus
<1>1. NormLen(x) = IF shifts = {} THEN 2 * Width ELSE CHOOSE n \in shifts : TRUE
  BY DEF NormLen
<1>2. /\ Width \in Nat /\ Width >= 2 /\ Half \in Nat \ {0} /\ Modulus \in Nat \ {0}
      /\ top \in Nat \ {0} /\ Modulus * Modulus = 2 * top
  <2>1. Half \in Nat \ {0} /\ Modulus \in Nat \ {0}
    BY HalfType
  <2>2. Half * Half \in Nat /\ Half <= Half * Half /\ top = 2 * (Half * Half)
        /\ Modulus * Modulus = 4 * (Half * Half)
    BY Squares
  <2> QED BY <2>1, <2>2, Weights
<1>3. \A n \in 0 .. 2 * Width - 1 : n \in 0 .. 2 * Width /\ n \in Nat
  BY <1>2
<1>4. CASE x = 0
  <2>1. \A n \in 0 .. 2 * Width - 1 : ~OnTop(x, n)
    <3> SUFFICES ASSUME NEW n \in 0 .. 2 * Width - 1 PROVE ~OnTop(x, n)
      OBVIOUS
    <3>1. x * Pow2[n] = 0
      BY <1>3, <1>4, Weights
    <3>2. ~(top <= 0)
      BY <1>2
    <3> QED BY <3>1, <3>2 DEF OnTop
  <2> QED BY <1>1, <1>4, <2>1
<1>5. CASE x # 0
  <2> DEFINE T == {n \in 0 .. 2 * Width - 1 : top <= x * Pow2[n]}
             last == 2 * Width - 1
  <2>1. last \in T
    <3>1. /\ last \in 0 .. 2 * Width - 1 /\ Width + (Width - 1) = last
          /\ Width - 1 \in 0 .. Width
      BY <1>2
    <3>2. Pow2[last] = Modulus * Half
      BY <3>1, UpperWeights DEF Half
    <3>3. Pow2[last] = top
      BY <1>2, <3>2
    <3>4. 1 * top <= x * top
      BY <1>2, <1>5, TimesMonotone
    <3>5. 1 * top = top
      BY <1>2
    <3> HIDE DEF top
    <3> QED BY <3>1, <3>3, <3>4, <3>5
  <2>2. T \subseteq Nat
    BY <1>3
  <2>3. PICK n \in T : \A k \in T : n <= k
    <3> HIDE DEF T
    <3> QED BY <2>1, <2>2, LeastMember
  <2>4. n \in 0 .. 2 * Width - 1 /\ top <= x * Pow2[n]
    BY <2>3
  <2>5. x * Pow2[n] < Modulus * Modulus
    <3>1. CASE n = 0
      <4>1. x * Pow2[n] = x
        BY <3>1, Weights
      <4> QED BY <4>1
    <3>2. CASE n # 0
      <4> DEFINE k == n - 1
      <4>1. /\ k \in 0 .. 2 * Width - 1 /\ k \in Nat /\ k < 2 * Width /\ k + 1 = n
            /\ ~(n <= k) /\ k \in 0 .. 2 * Width
        BY <1>2, <2>4, <3>2
      <4> HIDE DEF k
      <4>2. ~(top <= x * Pow2[k])
        <5> HIDE DEF top
        <5> QED BY <2>3, <4>1
      <4>3. Pow2[k] \in Nat /\ Pow2[n] = 2 * Pow2[k]
        BY <4>1, Weights
      <4>4. x * Pow2[k] \in Nat /\ x * Pow2[n] = 2 * (x * Pow2[k])
        BY <4>3
      <4> DEFINE z == x * Pow2[k]
      <4>5. z \in Nat /\ ~(top <= z) /\ x * Pow2[n] = 2 * z
        BY <4>2, <4>4
      <4> HIDE DEF z, top
      <4> QED BY <1>2, <4>5
    <3> QED BY <3>1, <3>2
  <2>6. n \in shifts
    BY <2>4, <2>5 DEF OnTop
  <2>7. NormLen(x) \in shifts
    <3> HIDE DEF shifts
    <3> QED BY <1>1, <2>6
  <2> QED BY <1>5, <2>7
<1> QED BY <1>4, <1>5

\* t4_norm64 and t4_shr64: the words are normalised, and shifted back they are
\* what they were.
LEMMA NormIsUndone ==
  ASSUME NEW h \in Word, NEW l \in Word
  PROVE  LET n == Norm64(h, l)
         IN IF h = 0 /\ l = 0 THEN n.normlen = 2 * Width
            ELSE /\ Negative(n.carry)
                 /\ Shr64(n.carry, n.lo, n.normlen) = [lo |-> l, carry |-> h]
<1> DEFINE x == Double(h, l)
           k == NormLen(x)
           y == x * Pow2[k]
           n == Norm64(h, l)
<1>1. x \in Nat /\ x < Modulus * Modulus
  BY DoubleBound
<1>2. n = [lo |-> Halves(y).lo, carry |-> Halves(y).carry, normlen |-> k]
  BY DEF Norm64
<1>3. x = 0 <=> h = 0 /\ l = 0
  <2>1. /\ Modulus \in Nat \ {0} /\ h \in 0 .. Modulus - 1 /\ l \in 0 .. Modulus - 1
        /\ h * Modulus \in Nat
    BY HalfType DEF Word
  <2>2. h # 0 => 1 * Modulus <= h * Modulus
    BY <2>1, TimesMonotone
  <2>3. h = 0 => h * Modulus = 0
    BY <2>1
  <2> DEFINE u == h * Modulus
  <2>4. u \in Nat /\ (h # 0 => Modulus <= u) /\ (h = 0 => u = 0) /\ x = u + l
    BY <2>1, <2>2, <2>3 DEF Double
  <2> HIDE DEF u, x
  <2> QED BY <2>1, <2>4
<1> HIDE DEF x, n
<1>4. CASE x = 0
  <2>1. n.normlen = 2 * Width
    BY <1>1, <1>2, <1>4, NormLenIs
  <2> QED BY <1>3, <1>4, <2>1 DEF n
<1>5. CASE x # 0
  <2>1. k \in 0 .. 2 * Width - 1 /\ Half * Modulus <= y /\ y < Modulus * Modulus
    BY <1>1, <1>5, NormLenIs DEF OnTop
  <2>2. Width \in Nat /\ k \in Nat /\ k \in 0 .. 2 * Width /\ ~(k >= 2 * Width)
    BY <2>1, Weights
  <2> HIDE DEF k
  <2>3. Pow2[k] \in Nat \ {0} /\ y \in Nat
    BY <1>1, <2>2, Weights
  <2> DEFINE c == Halves(y).carry
             o == Halves(y).lo
  <2>4. o \in Word /\ c \in Word /\ y = Double(c, o)
    <3> HIDE DEF y
    <3> QED BY <2>1, <2>3, HalvesAre
  <2>5. Negative(c)
    <3>1. /\ Half \in Nat \ {0} /\ Modulus \in Nat \ {0}
          /\ c \in 0 .. Modulus - 1 /\ o \in 0 .. Modulus - 1
          /\ c * Modulus \in Int /\ Half * Modulus \in Int
      BY <2>4, HalfType DEF Word
    <3> HIDE DEF c, o
    <3> SUFFICES ASSUME c + 1 <= Half PROVE FALSE
      BY <3>1 DEF Negative
    <3>2. (c + 1) * Modulus <= Half * Modulus
      BY <3>1, TimesMonotone
    <3>3. (c + 1) * Modulus = c * Modulus + Modulus
      BY <3>1
    <3> DEFINE u == c * Modulus
               v == Half * Modulus
    <3>4. u \in Int /\ v \in Int /\ u + Modulus <= v /\ v <= y /\ y = u + o
      BY <2>1, <2>4, <3>1, <3>2, <3>3 DEF Double
    <3> HIDE DEF u, v, y
    <3> QED BY <2>3, <3>1, <3>4
  <2>6. y \div Pow2[k] = x
    <3> DEFINE p == Pow2[k]
    <3>1. p \in Nat \ {0} /\ 0 \in 0 .. p - 1 /\ y = x * p + 0 /\ x \in Int /\ y \in Int
      BY <1>1, <2>3
    <3> HIDE DEF p, y
    <3>2. y \div p = x
      BY <3>1, DivUnique
    <3> QED BY <3>2 DEF p
  <2>7. Shr64(c, o, k) = [lo |-> l, carry |-> h]
    <3>1. Shr64(c, o, k) = Halves(x)
      <4> HIDE DEF y, c, o
      <4> QED BY <2>2, <2>4, <2>6 DEF Shr64
    <3> QED BY <3>1, HalvesOfDouble DEF x
  <2>8. n.lo = o /\ n.carry = c /\ n.normlen = k
    BY <1>2
  <2> HIDE DEF c, o, y
  <2> QED BY <1>3, <1>5, <2>5, <2>7, <2>8 DEF n
<1> QED BY <1>4, <1>5

\* Two words are a signed word when the upper one is the sign of the lower.
LEMMA SingleFits ==
  ASSUME NEW h \in Word, NEW l \in Word
  PROVE  Double(Signed(h), l) \in SignedWord
           <=> h = IF Negative(l) THEN Modulus - 1 ELSE 0
<1> DEFINE s == Signed(h)
           u == s * Modulus
<1>1. /\ Half \in Nat \ {0} /\ Modulus \in Nat \ {0} /\ Modulus = 2 * Half
      /\ h \in 0 .. Modulus - 1 /\ l \in 0 .. Modulus - 1 /\ s \in Int /\ u \in Int
  BY HalfType, SignedType DEF Word
<1>2. (s = 0 <=> h = 0) /\ (s = -1 <=> h = Modulus - 1)
  BY <1>1 DEF Signed
<1>3. s >= 1 => 1 * Modulus <= u
  BY <1>1, TimesMonotone
<1>4. s <= -2 => u <= -2 * Modulus
  BY <1>1, TimesMonotone
<1>5. (s = 0 => u = 0) /\ (s = -1 => u = -Modulus)
  BY <1>1
<1>6. Double(s, l) = u + l
  BY DEF Double
<1> HIDE DEF s, u
<1>7. u + l \in SignedWord <=> -Half <= u + l /\ u + l < Half
  BY <1>1 DEF SignedWord
<1>8. CASE s = 0 \/ s = -1
  BY <1>1, <1>2, <1>5, <1>6, <1>7, <1>8 DEF Negative, s
<1>9. CASE s >= 1 \/ s <= -2
  BY <1>1, <1>2, <1>3, <1>4, <1>6, <1>7, <1>9 DEF Negative, s
<1> QED BY <1>1, <1>8, <1>9

\* A part word is extended to the signed word that is the same but for its
\* upper bits.
LEMMA ExtendIs ==
  ASSUME NEW a \in Word, NEW b \in Word, IsSignBit(a), b < 2 * a
  PROVE  LET x == Signed(IF a > b THEN b ELSE Wrap(b - 2 * a))
         IN x \in -a .. a - 1 /\ (x - b) % (2 * a) = 0
<1>1. /\ a \in Nat \ {0} /\ a <= Half /\ 2 * a \in Nat \ {0}
      /\ Half \in Nat \ {0} /\ Modulus = 2 * Half /\ b \in Int /\ 0 <= b /\ a \in Int
  BY HalfType, SignBits DEF Word
<1>2. CASE a > b
  <2>1. Signed(b) = b
    BY <1>1, <1>2 DEF Signed
  <2>2. b - b = 0 * (2 * a) + 0 /\ 0 \in 0 .. 2 * a - 1
    BY <1>1
  <2>3. (b - b) % (2 * a) = 0
    BY <1>1, <2>2, DivUnique
  <2> QED BY <1>1, <1>2, <2>1, <2>3
<1>3. CASE ~(a > b)
  <2>1. b - 2 * a \in -a .. -1 /\ b - 2 * a \in SignedWord
    BY <1>1, <1>3 DEF SignedWord
  <2>2. Signed(Wrap(b - 2 * a)) = b - 2 * a
    BY <2>1, SignedWrap
  <2>3. (b - 2 * a) - b = (-1) * (2 * a) + 0 /\ 0 \in 0 .. 2 * a - 1 /\ (b - 2 * a) - b \in Int
    BY <1>1
  <2>4. ((b - 2 * a) - b) % (2 * a) = 0
    BY <1>1, <2>3, DivUnique
  <2> QED BY <1>1, <1>3, <2>1, <2>2, <2>4
<1> QED BY <1>2, <1>3

\* In every reachable state: xdble and csngl, xword and cword agree on what
\* fits the shorter length, lshr undoes norm, and lshl multiplies.
THEOREM LengthsDoAgree == Spec => []LengthsAgree
<1>1. TypeOK => LengthsAgree
  <2> SUFFICES ASSUME cpu \in Cpu
               PROVE  LengthsAgree
    BY DEF TypeOK
  <2> DEFINE n == Norm(cpu)
             back == Lshr([cpu EXCEPT !.A = n.C, !.B = n.A, !.C = n.B])
             double == Double(Signed(cpu.B), cpu.A)
             x == Xword(cpu)
             shifted == Lshl(cpu)
  <2>1. /\ cpu.A \in Word /\ cpu.B \in Word /\ cpu.C \in Word /\ cpu.error \in BOOLEAN
        /\ Half \in Nat \ {0} /\ Modulus \in Nat \ {0} /\ Modulus = 2 * Half
        /\ cpu.A \in Nat /\ cpu.B \in Nat
    BY HalfType DEF Cpu, Word
  <2>2. Csngl(Xdble(cpu)).A = cpu.A /\ Csngl(Xdble(cpu)).error = cpu.error
    BY <2>1 DEF Csngl, Xdble, SetErrorIf, Cpu
  <2>3. Csngl(cpu).error <=> (cpu.error \/ double \notin SignedWord)
    <3>1. Csngl(cpu).error
            <=> (cpu.error \/ cpu.B # IF Negative(cpu.A) THEN Modulus - 1 ELSE 0)
      BY <2>1 DEF Csngl, SetErrorIf, Cpu
    <3> QED BY <2>1, <3>1, SingleFits
  <2>4. ASSUME IsSignBit(cpu.A), cpu.B < 2 * cpu.A
        PROVE  /\ Signed(x.A) \in -cpu.A .. cpu.A - 1
               /\ (Signed(x.A) - cpu.B) % (2 * cpu.A) = 0
    <3>1. x.A = IF cpu.A > cpu.B THEN cpu.B ELSE Wrap(cpu.B - 2 * cpu.A)
      BY <2>4 DEF Xword, Binary, Cpu
    <3> HIDE DEF x
    <3> QED BY <2>1, <2>4, <3>1, ExtendIs
  <2>5. ASSUME IsSignBit(cpu.A)
        PROVE  Cword(cpu).error
                 <=> (cpu.error \/ Signed(cpu.B) \notin -cpu.A .. cpu.A - 1)
    <3>1. Signed(cpu.B) \in Int /\ -Half <= Signed(cpu.B) /\ Signed(cpu.B) < Half
      BY <2>1, SignedType DEF SignedWord
    <3>2. Cword(cpu).error
            <=> \/ cpu.error
                \/ cpu.A # Half /\ (Signed(cpu.B) >= cpu.A \/ Signed(cpu.B) < -cpu.A)
      BY <2>1, <2>5 DEF Cword, SetErrorIf, Cpu
    <3> QED BY <2>1, <3>1, <3>2
  <2>6. IF cpu.A = 0 /\ cpu.B = 0 THEN n.C = 2 * Width
        ELSE Negative(n.B) /\ back.A = cpu.A /\ back.B = cpu.B
    <3> DEFINE r == Norm64(cpu.B, cpu.A)
               q == Shr64(r.carry, r.lo, r.normlen)
    <3>1. n.A = r.lo /\ n.B = r.carry /\ n.C = r.normlen
      BY <2>1 DEF Norm, Cpu
    <3>2. IF cpu.B = 0 /\ cpu.A = 0 THEN r.normlen = 2 * Width
          ELSE Negative(r.carry) /\ q = [lo |-> cpu.A, carry |-> cpu.B]
      BY <2>1, NormIsUndone
    <3> HIDE DEF n, r
    <3>3. back.A = q.lo /\ back.B = q.carry
      BY <2>1, <3>1 DEF Lshr, LongResult, Cpu
    <3> HIDE DEF back, q
    <3> QED BY <3>1, <3>2, <3>3
  <2>7. Double(shifted.B, shifted.A) =
          IF cpu.A >= 2 * Width THEN 0
          ELSE (Double(cpu.C, cpu.B) * Pow2[cpu.A]) % (Modulus * Modulus)
    <3> DEFINE r == Shl64(cpu.C, cpu.B, cpu.A)
               y == Double(cpu.C, cpu.B) * Pow2[cpu.A]
    <3>1. shifted.A = r.lo /\ shifted.B = r.carry
      BY <2>1 DEF Lshl, LongResult, Cpu
    <3>2. CASE cpu.A >= 2 * Width
      <4>1. r = Halves(0)
        BY <3>2 DEF Shl64
      <4>2. 0 \in Word /\ Double(0, 0) = 0
        BY <2>1 DEF Word, Double
      <4>3. r.lo = 0 /\ r.carry = 0
        BY <4>1, <4>2, HalvesOfDouble
      <4> QED BY <3>1, <3>2, <4>2, <4>3
    <3>3. CASE ~(cpu.A >= 2 * Width)
      <4>1. r = Halves(y)
        BY <3>3 DEF Shl64
      <4>2. cpu.A \in 0 .. 2 * Width
        BY <2>1, <3>3, Weights
      <4>3. Pow2[cpu.A] \in Nat /\ Double(cpu.C, cpu.B) \in Nat
        BY <2>1, <4>2, Weights, DoubleBound
      <4>4. y \in Int
        BY <4>3
      <4> HIDE DEF y, r, shifted
      <4>5. Double(r.carry, r.lo) = y % (Modulus * Modulus)
        BY <4>1, <4>4, HalvesWrap
      <4> QED BY <3>1, <3>3, <4>5 DEF y
    <3> QED BY <3>2, <3>3
  <2> HIDE DEF n, back, double, x, shifted
  <2> QED BY <2>2, <2>3, <2>4, <2>5, <2>6, <2>7
          DEF LengthsAgree, n, back, double, x, shifted
<1> QED BY <1>1, TypeCorrect, PTL
=============================================================================
