-------------------------- MODULE AgcInstructions --------------------------
(***************************************************************************)
(* The arithmetic and data instructions of the AGC on its registers and    *)
(* erasable memory: the big switch of agc_engine(), and what the end of    *)
(* every instruction does to the registers (src/yaAGC/agc_engine.c).       *)
(*                                                                         *)
(* Where an instruction goes next, INDEX, EXTEND, TC and the interrupts    *)
(* are AgcCycle's; the channel instructions are ChannelIO's.  An address   *)
(* is one of the eight registers, a word of Memory, or a word of Memory    *)
(* seen through the window on the bank that EB names.                      *)
(***************************************************************************)
EXTENDS AgcArithmetic

CONSTANTS Memory,         \* the words of erasable memory that are used
          BANK,           \* 0400: words of an erasable bank
          EBS, EBUNIT,    \* 8 banks, counted by EB in units of 0400
          FBUNIT,         \* 02000: the unit of FB
          EDOPUNIT,       \* 0200: EDOP keeps the upper half of a word
          ZMOD            \* 010000: Z keeps 12 bits between instructions

RegA == 0
RegL == 1
RegQ == 2
RegEB == 3
RegFB == 4
RegZ == 5
RegBB == 6
RegZERO == 7
REG16 == 3                \* the registers below it have 16 bits

RegCYR == \o20
RegSR == \o21
RegCYL == \o22
RegEDOP == \o23
Editing == {RegCYR, RegSR, RegCYL, RegEDOP}

RegTIME2 == \o24
RegTIME1 == \o25
RegTIME3 == \o26
RegTIME4 == \o27
RegTIME5 == \o30

Registers == RegA .. RegZERO
Cells == Registers \cup Memory

ASSUME MachineAssumption ==
  /\ Memory \subseteq Nat \ Registers
  /\ RegTIME1 \in Memory => RegTIME2 \in Memory
  /\ BANK \in Nat /\ BANK > RegTIME5
  /\ EBS \in Nat \ {0} /\ EBUNIT \in Nat \ {0} /\ FBUNIT \in Nat \ {0}
  /\ EDOPUNIT \in Nat \ {0} /\ ZMOD \in Nat \ {0}
  /\ \A n \in 1 .. EBS : (EBUNIT * (n - 1)) \in Word   \* EB is a word,
  /\ FBUNIT % EBS = 0                    \* BB holds FB and the number of EB,
  /\ (2 * HALF) % FBUNIT = 0              \* and both are words
  /\ ZMOD <= HALF

VARIABLES
  cell,        \* Erasable: what every register and word of memory holds
  rupts,       \* the counters whose interrupt the program has asked for
  last         \* the instruction that was executed last

vars == <<cell, rupts, last>>

-----------------------------------------------------------------------------
(* Words and banks.                                                        *)

EBank(eb) == (eb \div EBUNIT) % EBS
FBank(w) == w - (w % FBUNIT)

\* The cell an address means.
FindMemoryWord(k) == IF k < 3 * BANK THEN k ELSE BANK * EBank(cell[RegEB]) + (k % BANK)

\* Slip: the bit shifted out on the left is kept.
EditedWide(p, w) == IF p = RegCYL THEN 2 * w + (IF IsNegative(w) THEN 1 ELSE 0) ELSE w

\* What is stored in a word of memory when w is written to it.
Edited(p, w) ==
  CASE p = RegCYR -> (w \div 2) + (w % 2) * HALF
    [] p = RegSR -> (w \div 2) + (IF IsNegative(w) THEN HALF ELSE 0)
    [] p = RegCYL -> ((2 * w) % (2 * HALF)) + (IF IsNegative(w) THEN 1 ELSE 0)
    [] p = RegEDOP -> (w \div EDOPUNIT) % EDOPUNIT
    [] p = RegZERO -> AGC_P0
    [] OTHER -> w

(***************************************************************************)
(* The machine in the middle of an instruction: c is memory, z is NextZ    *)
(* and r the interrupts it asks for.                                       *)
(***************************************************************************)
Begin == [c |-> [cell EXCEPT ![RegZ] = @ + 1], z |-> cell[RegZ] + 1, r |-> {}]

Put(m, p, v) == [m EXCEPT !.c[p] = v]

\* A word written to memory: editing, and Z takes effect at the end.
Assign(m, p, w) == [m EXCEPT !.c[p] = Edited(p, w), !.z = IF p = RegZ THEN w ELSE @]

\* The 16 bits of an operand, and a result of 16 bits stored over it.
Load(m, p) == IF p < REG16 THEN m.c[p] ELSE SignExtend(m.c[p])
Store(m, p, v) == IF p < REG16 THEN Put(m, p, v) ELSE Assign(m, p, OverflowCorrected(v))

\* A word that is read is written back, to be edited again.
Rewrite(m, p) == IF p < REG16 THEN m ELSE Assign(m, p, m.c[p])
RewriteEditing(m, p) == IF p \in Editing THEN Assign(m, p, m.c[p]) ELSE m

Corrected(v) == SignExtend(OverflowCorrected(v))

\* Slip: only a write to BB is mirrored.
BanksOneWay(c) ==
  LET eb == IF cell[RegBB] # c[RegBB] THEN (c[RegBB] % EBS) * EBUNIT ELSE c[RegEB]
      fb == IF cell[RegBB] # c[RegBB] THEN FBank(c[RegBB]) ELSE c[RegFB]
  IN  [c EXCEPT ![RegEB] = EBank(eb) * EBUNIT, ![RegFB] = FBank(fb),
                ![RegBB] = FBank(@) + (@ % EBS)]

\* EB and FB are mirrored in BB, and BB in EB and FB.
Banks(c) ==
  LET eb == IF cell[RegBB] # c[RegBB] THEN (c[RegBB] % EBS) * EBUNIT ELSE c[RegEB]
      fb == IF cell[RegBB] # c[RegBB] THEN FBank(c[RegBB]) ELSE c[RegFB]
      bb == IF /\ cell[RegBB] = c[RegBB]
               /\ cell[RegEB] # c[RegEB] \/ cell[RegFB] # c[RegFB]
            THEN FBank(c[RegFB]) + EBank(c[RegEB]) ELSE c[RegBB]
  IN  [c EXCEPT ![RegEB] = EBank(eb) * EBUNIT, ![RegFB] = FBank(fb),
                ![RegBB] = FBank(bb) + (bb % EBS)]

\* The end of every instruction.
Finish(op, k, m) ==
  /\ cell' = Banks([m.c EXCEPT ![RegZERO] = AGC_P0, ![RegZ] = m.z % ZMOD,
                               ![RegL] = Corrected(@)])
  /\ rupts' = rupts \cup m.r
  /\ last' = <<op, k>>

-----------------------------------------------------------------------------
(* Instructions on one word.                                               *)

A == Begin.c[RegA]
L == Begin.c[RegL]
Operand(k) == Load(Begin, FindMemoryWord(k))

\* The four branches of CCS: positive, +0, negative, -0.
CcsSkip(v) == LET w == OverflowCorrected(v)
              IN  IF ValueOverflowed(v) = AGC_P1 THEN 0
                  ELSE IF ValueOverflowed(v) = AGC_M1 THEN 2
                  ELSE IF w = AGC_P0 THEN 1
                  ELSE IF w = AGC_M0 THEN 3
                  ELSE IF IsNegative(w) THEN 2 ELSE 0

CCS(k) == LET m == Rewrite(Put(Begin, RegA, odabs(Operand(k))), FindMemoryWord(k))
          IN  Finish("CCS", k, [m EXCEPT !.z = @ + CcsSkip(Operand(k))])

\* Exchanges of a register with a word.
Exchange(reg, k) == Store(Put(Begin, reg, Operand(k)), FindMemoryWord(k), Begin.c[reg])
LXCH(k) == Finish("LXCH", k, Exchange(RegL, k))
QXCH(k) == Finish("QXCH", k, Exchange(RegQ, k))
XCH(k) == Finish("XCH", k, Exchange(RegA, k))

\* A counter that the program makes overflow.
InterruptRequests(m, k, sum) ==
  IF ValueOverflowed(sum) = AGC_P0 THEN m
  ELSE IF k = RegTIME1 THEN [m EXCEPT !.c[RegTIME2] = CounterPINC(@)]
  ELSE [m EXCEPT !.r = @ \cup ({k} \cap {RegTIME3, RegTIME4, RegTIME5})]

PlusOne == AGC_P1
MinusOne == SignExtend(AGC_M1)

Changed(k, by) == Store(Begin, FindMemoryWord(k), AddSP16(by, Operand(k)))

INCR(k) == Finish("INCR", k, InterruptRequests(Changed(k, PlusOne), k,
                                               AddSP16(PlusOne, Operand(k))))
AUG(k) == LET by == IF Operand(k) < 2 * HALF THEN PlusOne ELSE MinusOne
          IN  Finish("AUG", k, InterruptRequests(Changed(k, by), k, AddSP16(by, Operand(k))))
DIM(k) == Finish("DIM", k,
                 IF Operand(k) \in {0, SignExtend(AGC_M0)} THEN Begin
                 ELSE Changed(k, IF Operand(k) < 2 * HALF THEN MinusOne ELSE PlusOne))

CA(k) == Finish("CA", k, Rewrite(Put(Begin, RegA, Operand(k)), FindMemoryWord(k)))
CS(k) == Finish("CS", k, Rewrite(Put(Begin, RegA, Not(Operand(k))), FindMemoryWord(k)))

AD(k) == Finish("AD", k, Put(Rewrite(Begin, FindMemoryWord(k)), RegA,
                             AddSP16(A, Operand(k))))
SU(k) == Finish("SU", k, Put(Rewrite(Begin, FindMemoryWord(k)), RegA,
                             AddSP16(A, Not(Operand(k)))))
ADS(k) == LET sum == AddSP16(A, Operand(k))
          IN  Finish("ADS", k, Store(Put(Begin, RegA, sum), FindMemoryWord(k), sum))

\* Overflow in the accumulator skips an instruction and leaves its sign in A.
TS(k) ==
  LET stored == IF k = RegA THEN Begin
                ELSE IF k = RegZ THEN [Begin EXCEPT !.z = A % (2 * HALF)]
                ELSE Store(Begin, FindMemoryWord(k), A)
      signed == IF k = RegA THEN stored ELSE Put(stored, RegA, SignExtend(ValueOverflowed(A)))
  IN  Finish("TS", k, IF ValueOverflowed(A) = AGC_P0 THEN stored
                      ELSE [signed EXCEPT !.z = IF k = RegZ THEN @ ELSE @ + 1])

MASK(k) == Finish("MASK", k, Put(Begin, RegA,
             IF k < REG16 THEN And[<<A, Operand(k)>>]
             ELSE SignExtend(And[<<OverflowCorrected(A), OverflowCorrected(Operand(k))>>])))

\* Two's-complement difference, brought back to one's complement.
Difference(u, v) ==
  LET d == u + v + 1
  IN  IF SignBit(d) = 0 THEN d ELSE (IF HighBit(d) % 2 = 0 THEN d + 2 * HALF ELSE d) - 1

MSU(k) ==
  LET d == IF k < REG16 THEN Difference(A, Not(Operand(k)))
           ELSE Difference(OverflowCorrected(A), NegateSP(OverflowCorrected(Operand(k))))
  IN  Finish("MSU", k,
             RewriteEditing(Put(Begin, RegA, IF k = RegQ THEN d % (4 * HALF)
                                             ELSE SignExtend(d % (2 * HALF))), k))

MP(k) == LET p == Product(OverflowCorrected(A), OverflowCorrected(Operand(k)))
         IN  Finish("MP", k, Put(Put(Begin, RegA, SignExtend(p[1])), RegL, SignExtend(p[2])))

\* DV changes A, L and Z before it reads a divisor there.
DvNegative == IF IsZero(DecentToSp(SpToDecent(OverflowCorrected(A), L))[1])
              THEN L >= 2 * HALF ELSE A >= 2 * HALF
DvOperand(k) ==
  CASE k = RegA -> IF A < 2 * HALF THEN Not(A) ELSE A
    [] k = RegL -> Corrected(AddSP16(IF DvNegative THEN Not(L) ELSE L, HALF))
    [] k = RegZ -> Begin.c[RegZ] + (IF DvNegative THEN 2 * HALF ELSE 0)
    [] OTHER -> Operand(k)

DV(k) == LET q == Quotient(A, L, DvOperand(k))
         IN  Finish("DV", k, Put(Put(Begin, RegA, q[1]), RegL, q[2]))

-----------------------------------------------------------------------------
(* Instructions on two words.  The address is that of the second, less     *)
(* significant one.                                                        *)

\* Slip: a negative overflow carries nothing.
CarryUpOnly(v) == IF ValueOverflowed(v) = AGC_P1 THEN PlusOne ELSE 0

\* What an overflow carries into the next word.
Carry(v) == SignExtend(ValueOverflowed(v))

LowSum(k) == AddSP16(L, Operand(k))
HighSum(k) == AddSP16(AddSP16(A, Load(Begin, FindMemoryWord(k) - 1)), Carry(LowSum(k)))

DAS(k) ==
  LET p == FindMemoryWord(k)
      low == Corrected(LowSum(k))
      cleared == Put(Put(Begin, RegA, Carry(HighSum(k))), RegL, AGC_P0)
  IN  Finish("DAS", k,
             IF k = RegL THEN Put(Put(Begin, RegA, HighSum(k)), RegL, low)
             ELSE Store(Store(cleared, p, low), p - 1, HighSum(k)))

DXCH(k) ==
  LET p == FindMemoryWord(k)
      low == Store(Put(Begin, RegL, Operand(k)), p, L)
      mid == [low EXCEPT !.c[RegL] = Corrected(@)]
  IN  Finish("DXCH", k, Store(Put(mid, RegA, Load(mid, p - 1)), p - 1, mid.c[RegA]))

DCA(k) ==
  LET p == FindMemoryWord(k)
      low == Put(Begin, RegL, Corrected(Operand(k)))
      m == Put(low, RegA, Load(low, p - 1))
  IN  Finish("DCA", k, RewriteEditing(RewriteEditing(m, k), k - 1))

DCS(k) ==
  LET p == FindMemoryWord(k)
      low == Put(Begin, RegL, Corrected(Not(Operand(k))))
      m == Put(low, RegA, Not(Load(low, p - 1)))
  IN  Finish("DCS", k, RewriteEditing(RewriteEditing(m, k), k - 1))

OneWord(k) == \/ CCS(k) \/ LXCH(k) \/ QXCH(k) \/ XCH(k) \/ INCR(k) \/ AUG(k) \/ DIM(k)
              \/ CA(k) \/ CS(k) \/ AD(k) \/ SU(k) \/ ADS(k) \/ TS(k) \/ MASK(k)
              \/ MSU(k) \/ MP(k) \/ DV(k)
TwoWords(k) == DAS(k) \/ DXCH(k) \/ DCA(k) \/ DCS(k)

\* The addresses of the program: registers, memory and the window.
Addresses == Cells \cup {3 * BANK + (p % BANK) : p \in Memory}
Reaches(k) == FindMemoryWord(k) \in Cells /\ (k >= 3 * BANK => FindMemoryWord(k) \in Memory)
ReachesTwo(k) == Reaches(k) /\ FindMemoryWord(k) - 1 \in Cells

Init == /\ cell = [p \in Cells |-> IF p = RegZ THEN ZMOD \div 2 ELSE 0]
        /\ rupts = {}
        /\ last = <<"start", 0>>

Next == \E k \in Addresses : \/ Reaches(k) /\ OneWord(k)
                             \/ ReachesTwo(k) /\ TwoWords(k)

Spec == Init /\ [][Next]_vars

-----------------------------------------------------------------------------
(* What the numbers should be.                                             *)

\* The integer that 16 bits stand for, and the one an address holds.
Value(v) == IF v >= 2 * HALF THEN v - Not(0) ELSE v
Holds(p) == Value(IF p < REG16 THEN cell[p] ELSE SignExtend(cell[p]))

\* Sums are taken modulo 4 * HALF - 1, and are exact when they fit.
Adds(before, by, after) ==
  /\ \E lap \in {-1, 0, 1} : after = before + by - lap * Not(0)
  /\ before + by \in 1 - 2 * HALF .. 2 * HALF - 1 => after = before + by

\* A sum over a word of memory loses one unit of overflow, a register none.
Counts(p, by) ==
  IF p < REG16 THEN Adds(Holds(p), by, Holds(p)')
  ELSE \E over \in {-1, 0, 1} :
         /\ Holds(p) + by = Holds(p)' + over * HALF
         /\ over # 0 => Holds(p) * over >= 0 /\ by * over > 0

Executes(op, k) == last' = <<op, k>>

\* TIME1 and TIME2 are one counter, whose carry the program makes as well.
ClockCounts == Holds(RegTIME2)' * HALF + Holds(RegTIME1)'
                 = Holds(RegTIME2) * HALF + Holds(RegTIME1) + 1

\* A timer asks for its interrupt when the program counts it past its end: up
\* with INCR, away from zero on either side with AUG.
Timers == {RegTIME3, RegTIME4, RegTIME5}
AtEnd(k) == Holds(k) = HALF - 1 \/ (Executes("AUG", k) /\ Holds(k) = 1 - HALF)
TimerAsks(k) == rupts' = IF AtEnd(k) THEN rupts \cup {k} ELSE rupts

\* A double sum is exact: what overflows the high word is left in A.
DoubleAdds(p) ==
  Holds(RegA)' * HALF * HALF + Holds(p - 1)' * HALF + Holds(p)'
    = (Holds(RegA) + Holds(p - 1)) * HALF + Holds(RegL) + Holds(p)

Plain == ValueOverflowed(cell[RegA]) = AGC_P0

\* Sums of one and of two words, in the accumulator and in memory, are those
\* of the integers they stand for: no carry, overflow or minus zero is lost
\* between two words, between TIME1 and TIME2, or between A and memory, and no
\* interrupt of a timer.
SumIsExact(k, p) ==
  /\ Executes("AD", k) /\ k # RegZ => Adds(Holds(RegA), Holds(p), Holds(RegA)')
  /\ Executes("SU", k) /\ k # RegZ => Adds(Holds(RegA), -Holds(p), Holds(RegA)')
  /\ Executes("ADS", k) /\ p \in Memory \ Editing =>
       Adds(Holds(RegA), Holds(p), Holds(RegA)') /\ (Plain => Counts(p, Holds(RegA)))
  /\ Executes("INCR", k) /\ p \in (Memory \ Editing) \cup {RegA, RegQ} => Counts(p, 1)
  /\ Executes("INCR", RegTIME1) /\ Holds(RegTIME2) < HALF - 1 => ClockCounts
  /\ k \in Timers /\ (Executes("INCR", k) \/ Executes("AUG", k)) => TimerAsks(k)
  /\ Executes("DAS", k) /\ p \in Memory \ Editing /\ p - 1 \in Memory \ Editing /\ Plain
       => DoubleAdds(p)
SumsAreExact == [][\A k \in Addresses : \A p \in {FindMemoryWord(k)} : SumIsExact(k, p)]_vars

Magnitude(n) == IF n < 0 THEN -n ELSE n
SameSign(m, n) == (m > 0 /\ n > 0) \/ (m < 0 /\ n < 0)

\* A product is the double word that stands for the product of the factors,
\* with both of its words on the same side of zero.
ProductIsExact(k) ==
  LET p == FindMemoryWord(k) IN
  Executes("MP", k) /\ Plain /\ (p < REG16 => ValueOverflowed(cell[p]) = AGC_P0) /\ p # RegZ
    => /\ Holds(RegA)' * HALF + Holds(RegL)' = Holds(RegA) * Holds(p)
       /\ Holds(RegA)' * Holds(RegL)' >= 0
ProductsAreExact == [][\A k \in Addresses : ProductIsExact(k)]_vars

Dividend == Holds(RegA) * HALF + Holds(RegL)

\* The one low word that DV does not recognise as zero: -0 under a positive A.
MinusZeroLow == cell[RegL] = Not(0) /\ Value(cell[RegA]) > 0

\* A quotient that fits a word is the truncated one, and the remainder is of
\* the dividend's sign and smaller than the divisor.
Divides(dividend, divisor, quotient, remainder) ==
  /\ dividend = quotient * divisor + remainder
  /\ Magnitude(remainder) < Magnitude(divisor)
  /\ remainder # 0 => SameSign(remainder, dividend)

\* DV of A and L by a word is a division whenever the quotient fits.
DivisionIsExact(k) ==
  LET p == FindMemoryWord(k) IN
  Executes("DV", k) /\ Plain /\ p \in Memory \cup {RegQ} /\ ValueOverflowed(cell[p]) = AGC_P0
    /\ Magnitude(Dividend) < Magnitude(Holds(p)) * HALF
    => Divides(Dividend, Holds(p), Holds(RegA)', Holds(RegL)')
QuotientsAreExact == [][\A k \in Addresses : DivisionIsExact(k)]_vars

\* The division that the code does in C and the one it does as the hardware,
\* bit by bit, leave the same numbers in A and L, whatever is divided by what:
\* the two may only differ in the sign of a zero quotient.
DivisionAgrees(k) ==
  Executes("DV", k) /\ Plain /\ ~MinusZeroLow
    => LET hardware == SimulateDV(A, L, DvOperand(k))
       IN  /\ Holds(RegA)' = Value(hardware[1])
           /\ Holds(RegL)' = Value(Corrected(hardware[2]))
DivisionsAgree == [][\A k \in Addresses :
                       DivisionAgrees(k) /\ (MinusZeroLow \/ DivisionIsExact(k))]_vars

\* EB, FB and BB name the same banks after every instruction, however the
\* program writes them: alone, in pairs, or with bits they do not have.
BanksAgree ==
  /\ cell[RegBB] = cell[RegFB] + EBank(cell[RegEB])
  /\ cell[RegEB] = EBank(cell[RegEB]) * EBUNIT
  /\ cell[RegFB] = FBank(cell[RegFB])

\* What the words hold.  L keeps no overflow, and ZERO is zero.
TypeOK ==
  /\ cell \in [Cells -> Register]
  /\ \A p \in Cells : p >= REG16 => cell[p] \in Word
  /\ cell[RegL] = Corrected(cell[RegL])
  /\ cell[RegZ] \in 0 .. ZMOD - 1
  /\ cell[RegZERO] = AGC_P0
  /\ rupts \subseteq {RegTIME3, RegTIME4, RegTIME5}
=============================================================================
