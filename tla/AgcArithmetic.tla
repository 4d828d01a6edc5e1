--------------------------- MODULE AgcArithmetic ---------------------------
(***************************************************************************)
(* What the instructions of the AGC compute: overflow, comparison, double  *)
(* precision and division (src/yaAGC/agc_engine.c).  A double word is a    *)
(* pair of words, most significant first; its "decent" form has one sign   *)
(* bit, of weight HALF * HALF, and one more bit that repeats it.           *)
(***************************************************************************)
EXTENDS AgcWord

CONSTANT Digits                    \* 14 in the code: HALF is 2^Digits

\* The weight of each binary digit, and of the sign.
Weight[i \in 0 .. Digits] == IF i = 0 THEN 1 ELSE 2 * Weight[i - 1]

ASSUME DigitsAssumption == Digits \in Nat \ {0} /\ HALF = Weight[Digits] /\ HALF > 1

Register == 0 .. 4 * HALF - 1      \* A, Q and Z keep 16 bits

Not(v) == 4 * HALF - 1 - v

\* The bits that a and b have in common.
And[p \in Register \X Register] ==
  IF p[1] = 0 \/ p[2] = 0 THEN 0
  ELSE 2 * And[<<p[1] \div 2, p[2] \div 2>>] + ((p[1] % 2) * (p[2] % 2))

ValueOverflowed(v) == IF v \in HALF .. 2 * HALF - 1 THEN AGC_P1
                      ELSE IF v \in 2 * HALF .. 3 * HALF - 1 THEN AGC_M1
                      ELSE AGC_P0

Diminished(n) == IF n > 1 THEN n - 1 ELSE AGC_P0
dabs(w) == Diminished(AbsSP(w))
odabs(v) == Diminished(IF v >= 2 * HALF THEN Not(v) ELSE v)

-----------------------------------------------------------------------------
(* Words and double words as integers.                                     *)

SignBit(v) == (v \div HALF) % 2

agc2cpu(w) == IF SignBit(w) = 1 THEN (w % HALF) - (HALF - 1) ELSE w % HALF
cpu2agc(n) == IF n < 0 THEN 2 * HALF - 1 - ((-n) % (2 * HALF)) ELSE n % (2 * HALF)

agc2cpu2(d) == LET m == d % (HALF * HALF)
               IN  IF (d \div (HALF * HALF)) % 2 = 1 THEN m - (HALF * HALF - 1) ELSE m
cpu2agc2(n) == IF n < 0 THEN 2 * HALF * HALF - 1 - ((-n) % (HALF * HALF))
               ELSE n % (HALF * HALF)

\* The sign bit of a decent double word, repeated.
Extended(d) == IF d >= HALF * HALF THEN d + 2 * HALF * HALF ELSE d

Juxtaposed(msb, lsb) == Extended(msb * HALF + (lsb % HALF))

\* Slip: the borrow forgets that a negative word is complemented.
BorrowedShort(msb, lsb) == <<msb - 1, (lsb + HALF) % (2 * HALF)>>

\* A positive double word whose low word is negative borrows from its high one.
Borrowed(msb, lsb) == <<msb - 1, (lsb + HALF + 1) % (2 * HALF)>>

\* The code compares the low word, a register of 16 bits, with words of 15.
SpToDecent(msb, lsb) ==
  IF IsZero(msb)
  THEN LET v == SignExtend(lsb % (2 * HALF))
       IN  IF v >= 2 * HALF THEN v + 4 * HALF * HALF - 4 * HALF ELSE v
  ELSE IF SignBit(lsb) = SignBit(msb) THEN Juxtaposed(msb, lsb)
  ELSE IF IsZero(lsb) THEN Juxtaposed(msb, IF IsNegative(msb) THEN AGC_M0 ELSE AGC_P0)
  ELSE IF IsNegative(msb)
       THEN LET p == Borrowed(NegateSP(msb), NegateSP(lsb % (2 * HALF)))
            IN  Juxtaposed(NegateSP(p[1]), NegateSP(p[2]))
       ELSE LET p == Borrowed(msb, lsb) IN Juxtaposed(p[1], p[2])

DecentToSp(d) ==
  <<OverflowCorrected((d \div HALF) % (4 * HALF)),
    (d % HALF) + (IF d >= 2 * HALF * HALF THEN HALF ELSE 0)>>

-----------------------------------------------------------------------------
(* Products.                                                               *)

\* Slip: the sign bit of the product is not repeated.
ProductUnsigned(a, k) ==
  IF IsZero(k) THEN <<AGC_P0, AGC_P0>>
  ELSE IF IsZero(a)
  THEN IF IsNegative(a) # IsNegative(k) THEN <<AGC_M0, AGC_M0>> ELSE <<AGC_P0, AGC_P0>>
  ELSE DecentToSp(cpu2agc2(agc2cpu(a) * agc2cpu(k)))

\* A zero factor makes a zero, whose sign is the accumulator's only when the
\* accumulator is the zero.
Product(a, k) ==
  IF IsZero(k) THEN <<AGC_P0, AGC_P0>>
  ELSE IF IsZero(a)
  THEN IF IsNegative(a) # IsNegative(k) THEN <<AGC_M0, AGC_M0>> ELSE <<AGC_P0, AGC_P0>>
  ELSE DecentToSp(Extended(cpu2agc2(agc2cpu(a) * agc2cpu(k))))

-----------------------------------------------------------------------------
(* Quotients.  A quotient is what the registers A and L are left with.     *)

HighBit(v) == v \div (2 * HALF)

\* The shift of a register that keeps its sign bit in place.
Shifted(v) == HighBit(v) * 2 * HALF + 2 * (v % HALF)

\* One of the Digits steps of the hardware: the quotient q and the remainder r.
DvStep(s, divisor) ==
  LET q == (2 * s.q) % (4 * HALF)
      r == Shifted(s.r) + (IF HighBit(q) = 0 THEN HighBit(s.r) ELSE 0)
      sum == AddSP16(r, divisor)
  IN  IF HighBit(sum) = 1 THEN [q |-> q + 1, r |-> sum] ELSE [q |-> q, r |-> r]

DvSteps(start, divisor) ==
  LET after[i \in 0 .. Digits] == IF i = 0 THEN start ELSE DvStep(after[i - 1], divisor)
  IN  after[Digits]

\* The division the hardware performs on A, L and a divisor, all of 16 bits.
SimulateDV(A, L, divisor) ==
  LET a == IF HighBit(A) = 0 THEN Not(A) ELSE A
      dividendSign == IF a = 4 * HALF - 1 THEN HighBit(L) ELSE HighBit(A)
      l == AddSP16(IF dividendSign = 1 THEN Not(L) ELSE L, HALF)
      d == IF HighBit(divisor) = 1 THEN Not(divisor) ELSE divisor
      start == [q |-> Shifted(l) + HighBit(l),
                r |-> IF ValueOverflowed(l) # AGC_P1 THEN AddSP16(a, 1) ELSE a]
      end == DvSteps(start, d)
      quotient == HighBit(l) * 2 * HALF + (end.q % (2 * HALF))
  IN  <<IF dividendSign # HighBit(divisor) THEN Not(quotient) ELSE quotient,
        IF dividendSign = 1 THEN end.r ELSE Not(end.r)>>

\* Truncating division, as C divides.
Truncated(n, d) == LET q == (IF n < 0 THEN -n ELSE n) \div (IF d < 0 THEN -d ELSE d)
                   IN  IF (n < 0) = (d < 0) THEN q ELSE -q

Largest == HALF - 1
Smallest == HALF

\* DV of the accumulator pair A, L by the 16 bits of a divisor.
Quotient(A, L, div16) ==
  LET decent == SpToDecent(OverflowCorrected(A), L)
      pair == DecentToSp(decent)
      k == OverflowCorrected(div16)
      absA == AbsSP(pair[1])
      absL == AbsSP(pair[2])
      absK == AbsSP(k)
      dividend == agc2cpu2(decent)
      divisor == agc2cpu(k)
      remainder == dividend - divisor * Truncated(dividend, divisor)
  IN  IF absA > absK \/ (absA = absK /\ absL # AGC_P0) \/ ValueOverflowed(div16) # AGC_P0
      THEN SimulateDV(A, L, div16)
      ELSE IF absA = 0 /\ absL = 0
      THEN <<SignExtend(IF SignBit(L) = SignBit(k)
                        THEN IF absK = 0 THEN Largest ELSE AGC_P0
                        ELSE IF absK = 0 THEN Smallest ELSE AGC_M0), L>>
      ELSE IF absA = absK
      THEN <<SignExtend(IF pair[1] = k THEN Largest ELSE Smallest), SignExtend(pair[1])>>
      ELSE <<SignExtend(cpu2agc(Truncated(dividend, divisor))),
             IF remainder # 0 THEN SignExtend(cpu2agc(remainder))
             ELSE IF dividend >= 0 THEN AGC_P0 ELSE SignExtend(AGC_M0)>>
=============================================================================
