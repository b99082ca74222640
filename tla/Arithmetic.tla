----------------------------- MODULE Arithmetic -----------------------------
(***************************************************************************)
(* The routines of arithmetic.c that the integer instructions call, for    *)
(* words of any width.  A routine leaves its result in the C function's    *)
(* value and in the globals t4_carry, t4_overflow and t4_normlen; here it  *)
(* returns a record of them.                                               *)
(***************************************************************************)
EXTENDS Integers

CONSTANTS
  Width,        \* bits of a word, 32 in the code
  Pow2          \* the weight of bit n, for n up to two words

ASSUME WidthAssumption ==
  /\ Width \in Nat /\ Width >= 2
  /\ Pow2 \in [0 .. 2 * Width -> Nat \ {0}]
  /\ Pow2[0] = 1
  /\ \A n \in 0 .. 2 * Width - 1 : Pow2[n + 1] = 2 * Pow2[n]
  /\ 2 * Width < Pow2[Width]

Half == Pow2[Width - 1]         \* 0x80000000
Modulus == 2 * Half             \* 2^32
Word == 0 .. Modulus - 1
SignedWord == -Half .. Half - 1

\* What a C expression of type uint32_t keeps of a value.
Wrap_None(x) == x
Wrap(x) == x % Modulus
\* INT32, and the sign bit.
Signed(x) == IF x >= Half THEN x - Modulus ELSE x
Negative(x) == x >= Half
Not(x) == Modulus - 1 - x

\* The value of a double-length word of which hi is the upper half.
Double(hi, lo) == hi * Modulus + lo
Halves(x) == [lo |-> x % Modulus, carry |-> (x \div Modulus) % Modulus]

-----------------------------------------------------------------------------
\* A bug: the carry in cannot carry out.
Add32_OneCarry(a, b, carry) ==
  LET part == Wrap(a + b)
  IN [lo |-> Wrap(part + carry), carry |-> IF part < a THEN 1 ELSE 0]
Add32(a, b, carry) ==
  LET part == Wrap(a + b)
      sum == Wrap(part + carry)
  IN [lo |-> sum, carry |-> IF part < a \/ sum < part THEN 1 ELSE 0]

EAdd32(a, b, carry) ==
  LET r == Add32(a, b, carry)
  IN [lo |-> r.lo,
      over |-> Negative(a) = Negative(b) /\ Negative(a) # Negative(r.lo)]

Sub32(a, b, borrow) ==
  LET part == Wrap(a - b)
      diff == Wrap(part - borrow)
  IN [lo |-> diff, carry |-> IF part > a \/ diff > part THEN 1 ELSE 0]

\* A bug: the rule of the sum for the overflow of the difference.
ESub32_LikeSum(a, b, borrow) ==
  LET r == Sub32(a, b, borrow)
  IN [lo |-> r.lo,
      over |-> Negative(a) = Negative(b) /\ Negative(b) # Negative(r.lo)]
ESub32(a, b, borrow) ==
  LET r == Sub32(a, b, borrow)
  IN [lo |-> r.lo,
      over |-> Negative(a) # Negative(b) /\ Negative(b) = Negative(r.lo)]

Mul32(a, b, carry) == Halves(a * b + carry)

\* The product of the magnitudes, negated over both words if the signs differ.
Magnitude(x) == IF Negative(x) THEN Wrap(1 + Not(x)) ELSE x

\* A bug: the upper word of a negative product does not get the carry of the
\* lower one.
EMul32_NoCarry(a, b, carry) ==
  LET r == Mul32(Magnitude(a), Magnitude(b), carry)
      differ == Negative(a) # Negative(b)
      lo == IF differ THEN Wrap(Not(r.lo) + 1) ELSE r.lo
      hi == IF differ THEN Not(r.carry) ELSE r.carry
  IN [lo |-> lo, carry |-> hi,
      over |-> hi # (IF Negative(lo) THEN Modulus - 1 ELSE 0)]
EMul32(a, b, carry) ==
  LET r == Mul32(Magnitude(a), Magnitude(b), carry)
      differ == Negative(a) # Negative(b)
      lo == IF differ THEN Wrap(Not(r.lo) + 1) ELSE r.lo
      hi == IF ~differ THEN r.carry
            ELSE IF r.lo = 0 THEN Wrap(Not(r.carry) + 1) ELSE Not(r.carry)
  IN [lo |-> lo, carry |-> hi,
      over |-> hi # (IF Negative(lo) THEN Modulus - 1 ELSE 0)]

Shl64(hi, lo, n) ==
  IF n >= 2 * Width THEN Halves(0) ELSE Halves(Double(hi, lo) * Pow2[n])

Shr64(hi, lo, n) ==
  IF n >= 2 * Width THEN Halves(0) ELSE Halves(Double(hi, lo) \div Pow2[n])

\* The leading zeros of a double-length word: the shift that brings its first
\* one bit to the top, if it has one.
OnTop(x, n) == Half * Modulus <= x * Pow2[n] /\ x * Pow2[n] < Modulus * Modulus
NormLen(x) ==
  LET shifts == {n \in 0 .. 2 * Width - 1 : OnTop(x, n)}
  IN IF shifts = {} THEN 2 * Width ELSE CHOOSE n \in shifts : TRUE

Norm64(hi, lo) ==
  LET x == Double(hi, lo)
      n == NormLen(x)
  IN [lo |-> Halves(x * Pow2[n]).lo, carry |-> Halves(x * Pow2[n]).carry, normlen |-> n]

LongDiv(hi, lo, divisor) ==
  [quotient |-> Wrap(Double(hi, lo) \div divisor),
   carry |-> Double(hi, lo) % divisor]

\* Fractional multiplication: the product shifted right by all but one bit of
\* a word and rounded to the nearest, a tie to the even one.
FMul(a, b) ==
  LET p == EMul32(a, b, 0)
      frac == p.lo % Half
      c == Shr64(p.carry, p.lo, Width - 1).lo
      up == 2 * frac > Half \/ (2 * frac = Half /\ c % 2 = 1)
  IN [lo |-> IF up THEN Wrap(c + 1) ELSE c,
      carry |-> Wrap(2 * p.carry + IF Negative(p.lo) THEN 1 ELSE 0)]
=============================================================================
