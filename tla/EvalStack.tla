------------------------------ MODULE EvalStack ------------------------------
(***************************************************************************)
(* The evaluation stack and the error flag, and the instructions of        *)
(* mainloop() that compute on them.  An instruction is an operator from    *)
(* the registers before it to the registers after it; Next executes one.   *)
(* ldc stands for every instruction that pushes a word the stack does not  *)
(* determine, stl for every one that takes a word off.                     *)
(***************************************************************************)
EXTENDS Arithmetic

CONSTANTS
  BytesPerWord, \* 4
  Undefined_p   \* what xword leaves when AReg is no sign bit

ASSUME StackAssumption == BytesPerWord \in Nat \ {0} /\ Undefined_p \in Word

VARIABLE cpu    \* AReg, BReg, CReg and ErrorFlag

Cpu == [A : Word, B : Word, C : Word, error : BOOLEAN]

Push(s, v) == [s EXCEPT !.A = v, !.B = s.A, !.C = s.B]
\* The result of two operands: the stack moves up.
Binary(s, v) == [s EXCEPT !.A = v, !.B = s.C]
SetErrorIf(s, p) == [s EXCEPT !.error = @ \/ p]
True(p) == IF p THEN 1 ELSE 0

Rev(s) == [s EXCEPT !.A = s.B, !.B = s.A]
Dup(s) == Push(s, s.A)
Pop(s) == [s EXCEPT !.A = s.B, !.B = s.C, !.C = s.A]
Ldc(s, o) == Push(s, o)
Stl(s) == [s EXCEPT !.A = s.B, !.B = s.C]
Mint(s) == Push(s, Half)
Eqc(s, o) == [s EXCEPT !.A = True(s.A = o)]
Gt(s) == Binary(s, True(Signed(s.B) > Signed(s.A)))
NotA(s) == [s EXCEPT !.A = Not(@)]

\* Unchecked arithmetic, of addresses and of times.
Diff(s) == Binary(s, Wrap(s.B - s.A))
Sum(s) == Binary(s, Wrap(s.B + s.A))
Bsub(s) == Binary(s, Wrap(s.A + s.B))
Wsub(s) == Binary(s, Wrap(s.A + BytesPerWord * s.B))
Bcnt(s) == [s EXCEPT !.A = Wrap(@ * BytesPerWord)]
Wcnt(s) == [s EXCEPT !.A = Wrap(Signed(s.A) \div BytesPerWord),
                     !.B = s.A % BytesPerWord, !.C = s.B]
Prod(s) == Binary(s, Wrap(s.B * s.A))
Shl(s) == Binary(s, IF s.A < Width THEN Wrap(s.B * Pow2[s.A]) ELSE 0)
Shr(s) == Binary(s, IF s.A < Width THEN s.B \div Pow2[s.A] ELSE 0)

\* Checked arithmetic.
Adc(s, o) ==
  LET r == EAdd32(s.A, o, 0) IN SetErrorIf([s EXCEPT !.A = r.lo], r.over)
Add(s) ==
  LET r == EAdd32(s.B, s.A, 0) IN SetErrorIf(Binary(s, r.lo), r.over)
Sub(s) ==
  LET r == ESub32(s.B, s.A, 0) IN SetErrorIf(Binary(s, r.lo), r.over)
Mul(s) ==
  LET r == EMul32(s.B, s.A, 0) IN SetErrorIf(Binary(s, r.lo), r.over)

\* The C operators / and % of int32_t: the quotient is cut off towards zero.
Quotient(b, a) == LET q == (IF b < 0 THEN -b ELSE b) \div (IF a < 0 THEN -a ELSE a)
                  IN IF (b < 0) = (a < 0) THEN q ELSE -q
Remainder(b, a) == b - a * Quotient(b, a)
\* abs() of int32_t: the most negative number is its own.
Abs(x) == Wrap(IF Signed(x) < 0 THEN -Signed(x) ELSE Signed(x))
OverflowsDiv(s) == Signed(s.A) = -1 /\ s.B = Half

Div(s) ==
  IF s.A = 0 \/ OverflowsDiv(s)
  THEN SetErrorIf([s EXCEPT !.B = s.C], TRUE)
  ELSE LET q == Wrap(Quotient(Signed(s.B), Signed(s.A)))
           odd == Abs(q) + (1 - (Abs(q) % 2))           \* abs (...) | 1
       IN [s EXCEPT !.A = q, !.B = s.C, !.C = Wrap(Abs(s.B) - odd * Abs(s.A))]

Rem(s) ==
  IF s.A = 0 THEN SetErrorIf([s EXCEPT !.A = s.B, !.B = s.C], TRUE)
  ELSE LET r == IF OverflowsDiv(s) THEN 0
                ELSE Wrap(Remainder(Signed(s.B), Signed(s.A)))
       IN [s EXCEPT !.A = r, !.B = s.C, !.C = Abs(r)]

\* Long arithmetic: operands and results of two words.
Carry(s) == s.C % 2
Ladd(s) ==
  LET r == EAdd32(s.B, s.A, Carry(s)) IN SetErrorIf([s EXCEPT !.A = r.lo], r.over)
Lsub(s) ==
  LET r == ESub32(s.B, s.A, Carry(s)) IN SetErrorIf([s EXCEPT !.A = r.lo], r.over)
Lsum(s) ==
  LET r == Add32(s.B, s.A, Carry(s)) IN [s EXCEPT !.A = r.lo, !.B = r.carry]
Ldiff(s) ==
  LET r == Sub32(s.B, s.A, Carry(s)) IN [s EXCEPT !.A = r.lo, !.B = r.carry]
LongResult(s, r) == [s EXCEPT !.A = r.lo, !.B = r.carry, !.C = r.carry]
Lmul(s) == LongResult(s, Mul32(s.B, s.A, s.C))
Lshl(s) == LongResult(s, Shl64(s.C, s.B, s.A))
Lshr(s) == LongResult(s, Shr64(s.C, s.B, s.A))
Ldiv(s) ==
  IF s.C >= s.A
  THEN SetErrorIf([s EXCEPT !.A = s.B, !.B = s.C], TRUE)
  ELSE LET r == LongDiv(s.C, s.B, s.A)
       IN [s EXCEPT !.A = r.quotient, !.B = r.carry, !.C = r.carry]
Norm(s) ==
  LET r == Norm64(s.B, s.A) IN [s EXCEPT !.A = r.lo, !.B = r.carry, !.C = r.normlen]

\* Changes of length.  AReg is the sign bit of a part word for xword and cword.
IsSignBit(x) == \E n \in 0 .. Width - 1 : x = Pow2[n]
Xdble(s) == [s EXCEPT !.B = IF Negative(s.A) THEN Modulus - 1 ELSE 0, !.C = s.B]
Csngl(s) ==
  SetErrorIf([s EXCEPT !.B = s.C], s.B # IF Negative(s.A) THEN Modulus - 1 ELSE 0)
\* Beyond the part word, xword keeps the bits above and fills them with ones
\* if the sign bit is set.
Xword(s) ==
  LET part == s.B % (2 * s.A)
      fits == s.B < 2 * s.A
  IN Binary(s, IF ~IsSignBit(s.A) THEN Undefined_p
               ELSE IF fits THEN (IF s.A > s.B THEN s.B ELSE Wrap(s.B - 2 * s.A))
               ELSE IF part < s.A THEN s.B
               ELSE Wrap(part - 2 * s.A))
\* A bug: the bound is one too low.
Cword_OffByOne(s) ==
  LET fails == /\ IsSignBit(s.A) /\ s.A # Half
               /\ Signed(s.B) >= s.A \/ Signed(s.B) <= -s.A
  IN SetErrorIf([s EXCEPT !.A = s.B, !.B = s.C], fails)
Cword(s) ==
  LET fails == /\ IsSignBit(s.A) /\ s.A # Half
               /\ Signed(s.B) >= s.A \/ Signed(s.B) < -s.A
  IN SetErrorIf([s EXCEPT !.A = s.B, !.B = s.C], fails)

Csub0(s) == SetErrorIf([s EXCEPT !.A = s.B, !.B = s.C], s.B >= s.A)
Ccnt1(s) == SetErrorIf([s EXCEPT !.A = s.B, !.B = s.C], s.B = 0 \/ s.B > s.A)
Fmul(s) ==
  IF s.A = Half /\ s.B = Half
  THEN SetErrorIf([s EXCEPT !.B = s.C, !.C = Half], TRUE)
  ELSE LET r == FMul(s.A, s.B) IN [s EXCEPT !.A = r.lo, !.B = s.C, !.C = r.carry]

Seterr(s) == SetErrorIf(s, TRUE)
Testerr(s) == [Push(s, True(~s.error)) EXCEPT !.error = FALSE]

-----------------------------------------------------------------------------
\* A process starts with an empty stack; what the registers held is not used.
Init == cpu = [A |-> 0, B |-> 0, C |-> 0, error |-> FALSE]

Moves == \/ cpu' = Rev(cpu)
         \/ cpu' = Dup(cpu)
         \/ cpu' = Pop(cpu)
         \/ cpu' = Stl(cpu)
         \/ cpu' = Mint(cpu)
         \/ cpu' = Gt(cpu)
         \/ cpu' = NotA(cpu)
         \/ cpu' = Seterr(cpu)
         \/ cpu' = Testerr(cpu)
         \/ \E o \in Word : cpu' = Ldc(cpu, o) \/ cpu' = Eqc(cpu, o)

Unchecked == \/ cpu' = Diff(cpu)
             \/ cpu' = Sum(cpu)
             \/ cpu' = Bsub(cpu)
             \/ cpu' = Wsub(cpu)
             \/ cpu' = Bcnt(cpu)
             \/ cpu' = Wcnt(cpu)
             \/ cpu' = Prod(cpu)
             \/ cpu' = Shl(cpu)
             \/ cpu' = Shr(cpu)

Checked == \/ cpu' = Add(cpu)
           \/ cpu' = Sub(cpu)
           \/ cpu' = Mul(cpu)
           \/ cpu' = Div(cpu)
           \/ cpu' = Rem(cpu)
           \/ cpu' = Csub0(cpu)
           \/ cpu' = Ccnt1(cpu)
           \/ cpu' = Fmul(cpu)
           \/ \E o \in Word : cpu' = Adc(cpu, o)

Long == \/ cpu' = Ladd(cpu)
        \/ cpu' = Lsub(cpu)
        \/ cpu' = Lsum(cpu)
        \/ cpu' = Ldiff(cpu)
        \/ cpu' = Lmul(cpu)
        \/ cpu' = Ldiv(cpu)
        \/ cpu' = Lshl(cpu)
        \/ cpu' = Lshr(cpu)
        \/ cpu' = Norm(cpu)

Lengths == \/ cpu' = Xdble(cpu)
           \/ cpu' = Csngl(cpu)
           \/ cpu' = Xword(cpu)
           \/ cpu' = Cword(cpu)

Next == Moves \/ Unchecked \/ Checked \/ Long \/ Lengths

Spec == Init /\ [][Next]_cpu

-----------------------------------------------------------------------------
\* The registers hold words.
TypeOK == cpu \in Cpu

\* What a checked instruction promises: the error flag is set exactly when
\* the result x does not fit a signed word, and AReg is x when it does.
Exact(s, x) ==
  /\ s.error <=> (cpu.error \/ x \notin SignedWord)
  /\ x \in SignedWord => Signed(s.A) = x

\* adc, add, sub, ladd and lsub are exact sums of signed words with their
\* carries, and lsum and ldiff of unsigned words, whatever the carry adds to
\* which operand (eadd32, esub32, add32, sub32).
SumsExact ==
  LET a == Signed(cpu.A)
      b == Signed(cpu.B)
      carry == Carry(cpu)
      sum == Lsum(cpu)
      diff == Ldiff(cpu)
  IN /\ \A o \in Word : Exact(Adc(cpu, o), a + Signed(o))
     /\ Exact(Add(cpu), b + a)
     /\ Exact(Sub(cpu), b - a)
     /\ Exact(Ladd(cpu), b + a + carry)
     /\ Exact(Lsub(cpu), b - a - carry)
     /\ Double(sum.B, sum.A) = cpu.B + cpu.A + carry
     /\ diff.A - diff.B * Modulus = cpu.B - cpu.A - carry

\* lsum of the lower words followed by ladd of the upper words is one sum of
\* double length: exact, or the error flag is set; ldiff and lsub likewise.
\* The carry has to go from BReg of the one to CReg of the other.
ChainsExact ==
  \A h, k \in Word :
    LET low == Lsum(cpu)
        high == Ladd([cpu EXCEPT !.A = k, !.B = h, !.C = low.B])
        sum == Double(Signed(h), cpu.B) + Double(Signed(k), cpu.A) + Carry(cpu)
        lowD == Ldiff(cpu)
        highD == Lsub([cpu EXCEPT !.A = k, !.B = h, !.C = lowD.B])
        diff == Double(Signed(h), cpu.B) - Double(Signed(k), cpu.A) - Carry(cpu)
        Fits(x) == -Half * Modulus <= x /\ x < Half * Modulus
    IN /\ high.error <=> (cpu.error \/ ~Fits(sum))
       /\ Fits(sum) => Double(Signed(high.A), low.A) = sum
       /\ highD.error <=> (cpu.error \/ ~Fits(diff))
       /\ Fits(diff) => Double(Signed(highD.A), lowD.A) = diff

\* mul is exact or sets the error flag; lmul is the whole product; ldiv takes
\* it apart again, and sets the error flag exactly when the quotient does not
\* fit; div and rem agree on one division; fmul is the fraction nearest to
\* the product.
ProductsExact ==
  LET a == Signed(cpu.A)
      b == Signed(cpu.B)
      product == Lmul(cpu)
      whole == Double(product.B, product.A)
      f == Fmul(cpu)
      distance == Signed(f.A) * Half - a * b
  IN /\ Exact(Mul(cpu), b * a)
     /\ whole = cpu.B * cpu.A + cpu.C
     /\ \A d \in Word :
          LET q == Ldiv([cpu EXCEPT !.A = d, !.B = product.A, !.C = product.B])
          IN /\ q.error <=> (cpu.error \/ whole >= d * Modulus)
             /\ whole < d * Modulus => whole = q.A * d + q.B /\ q.B < d
     /\ a = 0 => Div(cpu).error /\ Rem(cpu).error
     /\ a # 0 => LET q == Div(cpu)
                     r == Signed(Rem(cpu).A)
                 IN /\ Rem(cpu).error = cpu.error
                    /\ q.error <=> (cpu.error \/ (b = -Half /\ a = -1))
                    /\ b # -Half \/ a # -1 => b = a * Signed(q.A) + r
                    /\ r \in (IF b < 0 THEN -Half .. 0 ELSE 0 .. Half - 1)
                    /\ -r < a \/ -r < -a
                    /\ r < a \/ r < -a
     /\ f.error <=> (cpu.error \/ (a = -Half /\ b = -Half))
     /\ a # -Half \/ b # -Half =>
          /\ 2 * distance \in -Half .. Half
          /\ 2 * distance \in {-Half, Half} => f.A % 2 = 0

\* xdble and csngl, xword and cword are inverses on the words they stand for,
\* and the check of the one fails exactly where the other would lose a bit;
\* norm moves the first one bit to the top and lshr moves it back; lshl
\* multiplies.
LengthsAgree ==
  LET n == Norm(cpu)
      back == Lshr([cpu EXCEPT !.A = n.C, !.B = n.A, !.C = n.B])
      double == Double(Signed(cpu.B), cpu.A)
      x == Xword(cpu)
      shifted == Lshl(cpu)
  IN /\ Csngl(Xdble(cpu)).A = cpu.A /\ Csngl(Xdble(cpu)).error = cpu.error
     /\ Csngl(cpu).error <=> (cpu.error \/ double \notin SignedWord)
     /\ IsSignBit(cpu.A) /\ cpu.B < 2 * cpu.A =>
          /\ Signed(x.A) \in -cpu.A .. cpu.A - 1
          /\ (Signed(x.A) - cpu.B) % (2 * cpu.A) = 0
     /\ IsSignBit(cpu.A) =>
          Cword(cpu).error <=> (cpu.error \/ Signed(cpu.B) \notin -cpu.A .. cpu.A - 1)
     /\ IF cpu.A = 0 /\ cpu.B = 0 THEN n.C = 2 * Width
        ELSE Negative(n.B) /\ back.A = cpu.A /\ back.B = cpu.B
     /\ Double(shifted.B, shifted.A) =
          IF cpu.A >= 2 * Width THEN 0
          ELSE (Double(cpu.C, cpu.B) * Pow2[cpu.A]) % (Modulus * Modulus)
=============================================================================
