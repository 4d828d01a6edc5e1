------------------------------ MODULE AgcWord ------------------------------
(***************************************************************************)
(* The one's-complement words of the AGC and the operations the engine     *)
(* performs on them (src/yaAGC/agc_engine.c).                              *)
(*                                                                         *)
(* The code keeps a single-precision word in 15 bits and the accumulator,  *)
(* Q and Z in 16, and works on them with masks.  Here the width is a       *)
(* parameter: HALF is the weight of the sign bit of a 15-bit word, 040000  *)
(* in the code, so a word is 0 .. 2*HALF-1 and a 16-bit register           *)
(* 0 .. 4*HALF-1.  A mask of the code becomes the arithmetic it performs,  *)
(* which is what lets TLC enumerate every word of a narrow machine and the *)
(* proofs speak of the machine of every width.                             *)
(***************************************************************************)
EXTENDS Integers

CONSTANT HALF

ASSUME HALFAssumption == HALF \in Nat /\ HALF >= 1

Word == 0 .. 2 * HALF - 1      \* a 15-bit word

AGC_P0 == 0
AGC_M0 == 2 * HALF - 1
AGC_P1 == 1
AGC_M1 == 2 * HALF - 2

IsZero(w) == w = AGC_P0 \/ w = AGC_M0
IsNegative(w) == w >= HALF

NegateSP(w) == AGC_M0 - w

AbsSP(w) == IF IsNegative(w) THEN NegateSP(w) ELSE w

-----------------------------------------------------------------------------
(* 16-bit registers, 0 .. 4*HALF-1.  A value whose two high bits differ    *)
(* carries overflow.                                                       *)

SignExtend(w) == IF IsNegative(w) THEN w + 2 * HALF ELSE w

OverflowCorrected(v) == IF v < HALF THEN v
                        ELSE IF v < 3 * HALF THEN v - HALF
                        ELSE v - 2 * HALF

\* One's-complement addition: the carry out of the top bit is added back.
AddSP16(a, b) == IF a + b >= 4 * HALF THEN (a + b + 1) - 4 * HALF ELSE a + b

-----------------------------------------------------------------------------
(* The counter cells.  Each operation is a value and an overflow flag.     *)

CounterPINC(w) == IF w = HALF - 1 THEN AGC_P0
                  ELSE IF w = AGC_M0 THEN AGC_P1 ELSE w + 1
PincOverflows(w) == w = HALF - 1

CounterMINC(w) == IF w = HALF THEN AGC_M0
                  ELSE IF w = AGC_P0 THEN AGC_M1 ELSE w - 1

CounterPCDU(w) == IF w = AGC_M0 THEN 0 ELSE w + 1
CounterMCDU(w) == IF w = 0 THEN AGC_M0 ELSE w - 1

\* Slip: a negative counter is diminished away from zero.
DincWrongWay(w) == IF IsZero(w) THEN w ELSE w - 1

\* DINC counts towards zero and reports (ZOUT) when it already stands there.
CounterDINC(w) ==
  IF IsZero(w) THEN w
  ELSE IF IsNegative(w)
       THEN AddSP16(SignExtend(w), SignExtend(AGC_P1)) % (2 * HALF)
       ELSE AddSP16(SignExtend(w), SignExtend(AGC_M1)) % (2 * HALF)
DincReportsZero(w) == IsZero(w)

\* The shifting counters, which lose the sign bit.
CounterSHINC(w) == (2 * w) % HALF
CounterSHANC(w) == (2 * w + 1) % HALF
=============================================================================
