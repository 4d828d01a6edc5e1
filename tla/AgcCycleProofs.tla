--------------------------- MODULE AgcCycleProofs ---------------------------
(***************************************************************************)
(* AgcCycle implements AgcProgram, for every memory image that keeps the   *)
(* discipline: interrupts are invisible to the interrupted program.        *)
(***************************************************************************)
EXTENDS MCCycle, TLAPS

-----------------------------------------------------------------------------
(* Words and addresses.                                                    *)

LEMMA IndexedType ==
  ASSUME NEW index \in Word, NEW w \in Word
  PROVE  Indexed(index, w) \in Word
BY HALFAssumption, SMT
   DEF Word, Indexed, OverflowCorrected, AddSP16, SignExtend, IsNegative

LEMMA IndexedByZero ==
  ASSUME NEW w \in Word
  PROVE  Indexed(AGC_P0, w) = w
BY HALFAssumption, SMT
   DEF Word, Indexed, OverflowCorrected, AddSP16, SignExtend, IsNegative, AGC_P0

LEMMA DecodeType ==
  ASSUME NEW extra \in BOOLEAN, NEW w \in Word
  PROVE  /\ Decode[extra][w] \in Instructions
         /\ Decode[extra][w].amount \in IndexValues
<1>1. Decode[extra][w] \in Instructions
  BY CodeAssumption
<1>2. Decode[extra][w] \in { Decode[x][v] : x \in BOOLEAN, v \in Word }
  OBVIOUS
<1> QED
  BY <1>1, <1>2 DEF IndexValues

LEMMA IndexValuesAreWords == IndexValues \subseteq Word /\ AGC_P0 \in IndexValues
<1>1. ASSUME NEW x \in BOOLEAN, NEW v \in Word
      PROVE  Decode[x][v].amount \in Word
  BY DecodeType DEF Instructions
<1>2. AGC_P0 \in Word
  BY HALFAssumption DEF AGC_P0, Word
<1> QED
  BY <1>1, <1>2 DEF IndexValues

LEMMA SequelType ==
  ASSUME NEW a \in Address, NEW d \in Instructions
  PROVE  Sequel(a, d) \subseteq Address
<1>1. \A n \in Nat : (a + n) % AddressMod \in Address
  BY CodeAssumption, SMT DEF Address
<1>2. d.target \in Address
  BY DEF Instructions
<1> QED
  BY <1>1, <1>2 DEF Sequel

\* What the discipline says of an instruction met at a.
LEMMA Discipline ==
  ASSUME NEW a \in Address, NEW index \in IndexValues, NEW extra \in BOOLEAN,
         NEW w, w = Indexed(index, Memory[a])
  PROVE  /\ w \in Word
         /\ a \in ProgramCode => /\ Decode[extra][w].op # "resume"
                                 /\ Sequel(a, Decode[extra][w]) \subseteq ProgramCode
         /\ a \in IsrCode => /\ Decode[extra][w].op # "edrupt"
                             /\ Decode[extra][w].op # "resume" =>
                                  Sequel(a, Decode[extra][w]) \subseteq IsrCode
<1>1. w \in Word
  BY IndexedType, IndexValuesAreWords, CodeAssumption
<1> QED
  BY <1>1, DisciplineAssumption

-----------------------------------------------------------------------------
(* The inductive invariant is TypeOK and ReturnIsKept together.            *)

LEMMA FetchedIsOfZ ==
  ASSUME TypeOK, ReturnIsKept
  PROVE  /\ \E index \in IndexValues : Fetched = Indexed(index, Memory[Z])
         /\ Fetched \in Word
         /\ Decoded \in Instructions /\ Decoded.amount \in IndexValues
         /\ Z \in ProgramCode => /\ Decoded.op # "resume"
                                 /\ Sequel(Z, Decoded) \subseteq ProgramCode
         /\ Z \in IsrCode => /\ Decoded.op # "edrupt"
                             /\ Decoded.op # "resume" => Sequel(Z, Decoded) \subseteq IsrCode
<1>1. PICK index \in IndexValues : Fetched = Indexed(index, Memory[Z])
  BY DEF Fetched, ReturnIsKept
<1>2. Z \in Address /\ ExtraCode \in BOOLEAN
  BY DEF TypeOK
<1>3. Fetched \in Word
  BY <1>1, <1>2, Discipline
<1> QED
  BY <1>1, <1>2, <1>3, Discipline, DecodeType DEF Decoded

LEMMA NextZInSequel ==
  ASSUME TypeOK
  PROVE  NextZ \subseteq Sequel(Z, Decoded)
BY DEF NextZ, Sequel, TypeOK

LEMMA FirstRequestType ==
  ASSUME TypeOK
  PROVE  VectorTaken \subseteq IsrCode
<1>1. FirstRequest \subseteq Interrupts
  BY DEF FirstRequest, TypeOK
<1> QED
  BY <1>1, CodeAssumption DEF VectorTaken

LEMMA ExecuteOK ==
  ASSUME TypeOK, ReturnIsKept, Execute
  PROVE  TypeOK' /\ ReturnIsKept'
<1>1. /\ Z' \in Sequel(Z, Decoded)
      /\ InIsr' = InIsr /\ ZRUPT' = ZRUPT /\ BRUPT' = BRUPT
      /\ SubstituteInstruction' = FALSE
  BY NextZInSequel DEF Execute, returnVars
<1>2. IndexValue' \in IndexValues
  BY FetchedIsOfZ, IndexValuesAreWords DEF Execute
<1>3. Z \in Address /\ Z' \in Address
  BY <1>1, FetchedIsOfZ, SequelType DEF TypeOK
<1>4. /\ InIsr => Z' \in IsrCode
      /\ ~InIsr => Z' \in ProgramCode
  BY <1>1, FetchedIsOfZ DEF Execute, ReturnIsKept
<1>5. ReturnIsKept'
  BY <1>1, <1>2, <1>4 DEF ReturnIsKept
<1>6. done' \in Address \X Word \X BOOLEAN
  BY FetchedIsOfZ DEF Execute, TypeOK
<1>7. /\ ExtraCode' \in BOOLEAN /\ AllowInterrupt' \in BOOLEAN /\ Overflow' \in BOOLEAN
      /\ PendFlag' \in BOOLEAN /\ SubstituteInstruction' \in BOOLEAN
  <2>1. ExtraCode \in BOOLEAN /\ AllowInterrupt \in BOOLEAN
    BY DEF TypeOK
  <2>2. ExtraCode' \in BOOLEAN
    BY <2>1 DEF Execute
  <2>3. AllowInterrupt' \in BOOLEAN
    BY <2>1, Zenon DEF Execute
  <2>4. Overflow' \in BOOLEAN /\ PendFlag' \in BOOLEAN /\ SubstituteInstruction' \in BOOLEAN
    BY Zenon DEF Execute
  <2> QED
    BY <2>2, <2>3, <2>4
<1>8. IndexValue' \in Word
  BY <1>2, IndexValuesAreWords
<1>9. TypeOK'
  BY <1>1, <1>3, <1>6, <1>7, <1>8 DEF TypeOK, Execute, returnVars
<1> QED
  BY <1>5, <1>9

LEMMA InterruptOK ==
  ASSUME TypeOK, ReturnIsKept, Interrupt
  PROVE  TypeOK' /\ ReturnIsKept' /\ ~InIsr
<1>1. ~InIsr
  BY FetchedIsOfZ DEF Interrupt, Window, ReturnIsKept
<1>2. Z \in ProgramCode /\ Z \in Address
  BY <1>1 DEF ReturnIsKept, TypeOK
<1>3. Z' \in IsrCode /\ InIsr' /\ ~SubstituteInstruction'
  BY FirstRequestType DEF Interrupt
<1>4. ZRUPT' = Z + 1 /\ BRUPT' = Fetched /\ IndexValue' = AGC_P0
  BY DEF Interrupt, SavedInstruction
<1>5. ZRUPT' - 1 = Z /\ ZRUPT' \in 0 .. AddressMod
  BY <1>2, <1>4, CodeAssumption DEF Address
<1>6. ReturnIsKept'
  BY <1>2, <1>3, <1>4, <1>5, FetchedIsOfZ, IndexValuesAreWords DEF ReturnIsKept
<1>7. /\ InIsr' \in BOOLEAN /\ ExtraCode' \in BOOLEAN /\ SubstituteInstruction' \in BOOLEAN
  BY Zenon DEF Interrupt
<1>8. Z' \in Address /\ BRUPT' \in Word /\ IndexValue' \in Word
  BY <1>3, <1>4, FetchedIsOfZ, IndexValuesAreWords, CodeAssumption
<1>9. ExtraDelay' \in 0 .. MaxOwed + 1
  BY OwedAssumption DEF Interrupt
<1>10. TypeOK'
  BY <1>5, <1>7, <1>8, <1>9 DEF TypeOK, Interrupt, pendVars
<1> QED
  BY <1>1, <1>6, <1>10

LEMMA ResumeOK ==
  ASSUME TypeOK, ReturnIsKept, Resume
  PROVE  TypeOK' /\ ReturnIsKept' /\ InIsr /\ Z' \in ProgramCode
<1>1. InIsr
  BY FetchedIsOfZ DEF Resume, ReturnIsKept
<1>2. Z' = ZRUPT - 1 /\ Z' \in ProgramCode /\ Z' \in Address
  BY <1>1 DEF Resume, ResumeZ, ReturnIsKept, ProgramCode
<1>3. /\ ~InIsr' /\ IndexValue' = AGC_P0 /\ BRUPT' = BRUPT
  BY DEF Resume, returnVars
<1>4. ReturnIsKept'
  BY <1>1, <1>2, <1>3, IndexValuesAreWords DEF ReturnIsKept
<1>5. /\ InIsr' \in BOOLEAN /\ ExtraCode' \in BOOLEAN /\ PendFlag' \in BOOLEAN
      /\ SubstituteInstruction' \in BOOLEAN
  BY Zenon DEF Resume
<1>6. IndexValue' \in Word
  BY <1>3, IndexValuesAreWords
<1>7. TypeOK'
  BY <1>2, <1>5, <1>6 DEF TypeOK, Resume, returnVars
<1> QED
  BY <1>1, <1>2, <1>4, <1>7

LEMMA GojamOK ==
  ASSUME TypeOK, ReturnIsKept, NEW owed \in 0 .. MaxOwed, Gojam(owed)
  PROVE  TypeOK' /\ ReturnIsKept'
<1>1. /\ Z' = Start /\ ~InIsr' /\ ~SubstituteInstruction' /\ IndexValue' = AGC_P0
  BY DEF Gojam, GojamClears
<1>2. ReturnIsKept'
  BY <1>1, CodeAssumption, IndexValuesAreWords DEF ReturnIsKept
<1>3. /\ InIsr' \in BOOLEAN /\ ExtraCode' \in BOOLEAN /\ PendFlag' \in BOOLEAN
      /\ SubstituteInstruction' \in BOOLEAN /\ AllowInterrupt' \in BOOLEAN
  BY Zenon DEF Gojam, GojamClears
<1>4. ExtraDelay' \in 0 .. MaxOwed + 1 /\ PendDelay' \in Nat
  BY OwedAssumption DEF Gojam, GojamOwes, GojamClears
<1>5. Z' \in Address /\ IndexValue' \in Word /\ InterruptRequests' \subseteq Interrupts
  BY <1>1, CodeAssumption, IndexValuesAreWords DEF ProgramCode, Gojam
<1>6. TypeOK'
  BY <1>3, <1>4, <1>5 DEF TypeOK, Gojam, returnVars
<1> QED
  BY <1>2, <1>6

LEMMA WaitingOK ==
  ASSUME TypeOK, ReturnIsKept,
         \/ DelayCycle \/ PendCycle \/ Fetch \/ UNCHANGED vars
         \/ \E owed \in 1 .. MaxOwed : Count(owed)
         \/ \E i \in Interrupts : Request(i)
  PROVE  TypeOK' /\ ReturnIsKept'
         /\ UNCHANGED <<fetchVars, returnVars, InIsr, done>>
<1>1. UNCHANGED <<fetchVars, returnVars, InIsr, done>>
  BY DEF DelayCycle, PendCycle, Fetch, Count, Request, vars, ruptVars
<1>2. ReturnIsKept'
  BY <1>1 DEF ReturnIsKept, fetchVars, returnVars
<1>3. UNCHANGED <<AllowInterrupt, Overflow>>
  BY DEF DelayCycle, PendCycle, Fetch, Count, Request, vars, ruptVars
<1>4. InterruptRequests' \subseteq Interrupts
  BY DEF DelayCycle, PendCycle, Fetch, Count, Request, vars, ruptVars, TypeOK
<1>5. PendFlag' \in BOOLEAN /\ PendDelay' \in Nat
  <2>1. CASE Fetch
    <3>1. Decoded.cycles \in Nat
      BY FetchedIsOfZ DEF Instructions
    <3> QED
      BY <2>1, <3>1, SMT DEF Fetch
  <2>2. CASE PendCycle
    BY <2>2 DEF PendCycle, TypeOK
  <2>3. CASE ~Fetch /\ ~PendCycle
    BY <2>3 DEF DelayCycle, Count, Request, vars, pendVars, TypeOK
  <2> QED
    BY <2>1, <2>2, <2>3
<1>6. ExtraDelay' \in 0 .. MaxOwed + 1
  <2>1. ExtraDelay \in 0 .. MaxOwed + 1
    BY DEF TypeOK
  <2>2. CASE \E owed \in 1 .. MaxOwed : Count(owed)
    BY <2>2, OwedAssumption DEF Count
  <2>3. CASE DelayCycle
    BY <2>1, <2>3, OwedAssumption DEF DelayCycle
  <2>4. CASE PendCycle \/ Fetch \/ UNCHANGED vars \/ \E i \in Interrupts : Request(i)
    BY <2>1, <2>4 DEF PendCycle, Fetch, Request, vars
  <2> QED
    BY <2>2, <2>3, <2>4
<1>7. TypeOK'
  BY <1>1, <1>3, <1>4, <1>5, <1>6 DEF TypeOK, fetchVars, returnVars
<1> QED
  BY <1>1, <1>2, <1>7

-----------------------------------------------------------------------------
LEMMA InitOK ==
  ASSUME Init
  PROVE  TypeOK /\ ReturnIsKept
<1>1. Start \in Address /\ Memory[Start] \in Word /\ 0 \in 0 .. AddressMod
      /\ 0 \in Word
  BY CodeAssumption, HALFAssumption DEF ProgramCode, Word
<1>2. /\ ExtraCode \in BOOLEAN /\ SubstituteInstruction \in BOOLEAN
      /\ InIsr \in BOOLEAN /\ AllowInterrupt \in BOOLEAN
      /\ PendFlag \in BOOLEAN /\ Overflow \in BOOLEAN
  BY Zenon DEF Init
<1>3. ExtraDelay \in 0 .. MaxOwed + 1 /\ PendDelay \in Nat
  BY OwedAssumption DEF Init
<1>4. done \in Address \X Word \X BOOLEAN
  BY <1>1 DEF Init
<1>5. TypeOK
  BY <1>1, <1>2, <1>3, <1>4, IndexValuesAreWords DEF Init, TypeOK
<1>6. ReturnIsKept
  BY CodeAssumption, IndexValuesAreWords DEF Init, ReturnIsKept
<1> QED
  BY <1>5, <1>6

LEMMA StepOK ==
  ASSUME TypeOK, ReturnIsKept, [Next]_vars
  PROVE  TypeOK' /\ ReturnIsKept'
BY ExecuteOK, InterruptOK, ResumeOK, GojamOK, WaitingOK DEF Next, Cycle

\* The registers keep their ranges; programs and interrupts keep to their own
\* code; ZRUPT and BRUPT lead back to the interrupted instruction.
THEOREM ReturnAlwaysKept == Spec => [](TypeOK /\ ReturnIsKept)
<1>1. Init => TypeOK /\ ReturnIsKept
  BY InitOK
<1>2. TypeOK /\ ReturnIsKept /\ [Next]_vars => (TypeOK /\ ReturnIsKept)'
  BY StepOK
<1> QED
  BY <1>1, <1>2, PTL DEF Spec

-----------------------------------------------------------------------------
(* Every step maps to a step of the program, or to none.                   *)

\* The abstract program reads the same code.
LEMMA SameCode ==
  /\ Program!AGC_P0 = AGC_P0
  /\ \A a, d : Program!Sequel(a, d) = Sequel(a, d)
  /\ \A index, w : Program!Indexed(index, w) = Indexed(index, w)
BY DEF Program!AGC_P0, AGC_P0, Program!Sequel, Sequel, Program!Indexed, Indexed,
   Program!OverflowCorrected, OverflowCorrected, Program!AddSP16, AddSP16,
   Program!SignExtend, SignExtend, Program!IsNegative, IsNegative

LEMMA InitMaps ==
  ASSUME Init
  PROVE  Program!Init
<1>1. Memory[Start] \in Word
  BY CodeAssumption DEF ProgramCode
<1>2. Fetched = Memory[Start]
  BY <1>1, IndexedByZero DEF Init, Fetched
<1> QED
  BY <1>2 DEF Init, Program!Init

LEMMA ExecuteMaps ==
  ASSUME TypeOK, ReturnIsKept, Execute
  PROVE  [Program!Next]_(Program!pvars)
<1>1. CASE InIsr
  <2>1. UNCHANGED <<InIsr, ZRUPT, BRUPT, done>>
    BY <1>1 DEF Execute, returnVars
  <2> QED
    BY <1>1, <2>1 DEF Program!pvars
<1>2. CASE ~InIsr
  <2>1. ~InIsr' /\ SubstituteInstruction' = FALSE
    BY <1>2 DEF Execute
  <2>2. Z' \in Sequel(Z, Decoded) /\ Decoded.op \notin {"resume", "edrupt"}
    BY NextZInSequel DEF Execute, Uninterrupted
  <2>3. /\ IndexValue' = IF Decoded.op = "index" THEN Decoded.amount ELSE AGC_P0
        /\ ExtraCode' = (Decoded.op = "extend" \/ (Decoded.op = "index" /\ ExtraCode))
        /\ done' = <<Z, Fetched, ExtraCode>>
    BY <1>2, Zenon DEF Execute
  <2>4. Fetched' = Indexed(IndexValue', Memory[Z'])
    BY <2>1 DEF Fetched
  <2>5. /\ (IF InIsr THEN ZRUPT - 1 ELSE Z) = Z
        /\ (IF InIsr THEN ZRUPT - 1 ELSE Z)' = Z'
        /\ (IF InIsr THEN BRUPT ELSE Fetched) = Fetched
        /\ (IF InIsr THEN BRUPT ELSE Fetched)' = Fetched'
    BY <1>2, <2>1
  <2>6. /\ (~InIsr /\ ExtraCode) = ExtraCode
        /\ (~InIsr /\ ExtraCode)' = ExtraCode'
    BY <1>2, <2>1, ExecuteOK, Zenon DEF TypeOK
  <2>7. Decode[ExtraCode][Fetched] = Decoded
    BY DEF Decoded
  <2>8. Program!Instruction
    <3> DEFINE d == Decode[~InIsr /\ ExtraCode][IF InIsr THEN BRUPT ELSE Fetched]
               index == IF d.op = "index" THEN d.amount ELSE AGC_P0
    <3>1. d = Decoded
      BY <2>5, <2>6, <2>7
    <3>2. index = IndexValue'
      BY <2>3, <3>1
    <3>3. /\ d.op \notin {"resume", "edrupt"}
          /\ done' = <<IF InIsr THEN ZRUPT - 1 ELSE Z,
                       IF InIsr THEN BRUPT ELSE Fetched, ~InIsr /\ ExtraCode>>
          /\ (IF InIsr THEN ZRUPT - 1 ELSE Z)'
                \in Sequel(IF InIsr THEN ZRUPT - 1 ELSE Z, d)
      BY <2>2, <2>3, <2>5, <2>6, <3>1
    <3>4. (IF InIsr THEN BRUPT ELSE Fetched)'
            = Indexed(index, Memory[(IF InIsr THEN ZRUPT - 1 ELSE Z)'])
      BY <2>4, <2>5, <3>2
    <3>5. (~InIsr /\ ExtraCode)'
            = (d.op = "extend" \/ (d.op = "index" /\ ~InIsr /\ ExtraCode))
      BY <1>2, <2>1, <2>3, <3>1
    <3> QED
      BY <3>3, <3>4, <3>5, SameCode, Zenon DEF Program!Instruction
  <2> QED
    BY <2>8 DEF Program!Next
<1> QED
  BY <1>1, <1>2

LEMMA InterruptMaps ==
  ASSUME TypeOK, ReturnIsKept, Interrupt
  PROVE  [Program!Next]_(Program!pvars)
<1>1. ~InIsr /\ InIsr' /\ done' = done
  BY InterruptOK DEF Interrupt
<1>2. ZRUPT' - 1 = Z /\ BRUPT' = Fetched
  BY <1>1, CodeAssumption DEF Interrupt, SavedInstruction, ReturnIsKept, ProgramCode,
     Address
<1>3. CASE Decoded.op = "edrupt"
  <2>1. /\ (IF InIsr THEN ZRUPT - 1 ELSE Z) = Z
        /\ (IF InIsr THEN ZRUPT - 1 ELSE Z)' = Z
        /\ (IF InIsr THEN BRUPT ELSE Fetched) = Fetched
        /\ (IF InIsr THEN BRUPT ELSE Fetched)' = Fetched
    BY <1>1, <1>2
  <2>2. /\ (~InIsr /\ ExtraCode) = ExtraCode
        /\ (~InIsr /\ ExtraCode)' = FALSE
    BY <1>1, Zenon DEF TypeOK
  <2>3. Decode[ExtraCode][Fetched].op = "edrupt"
    BY <1>3 DEF Decoded
  <2>4. Program!Edrupt
    BY <1>1, <2>1, <2>2, <2>3, Zenon DEF Program!Edrupt
  <2> QED
    BY <2>4 DEF Program!Next
<1>4. CASE Decoded.op # "edrupt"
  <2>1. ExtraCode = FALSE
    BY <1>4 DEF Interrupt, Window, TypeOK
  <2> QED
    BY <1>1, <1>2, <2>1 DEF Program!pvars
<1> QED
  BY <1>3, <1>4

LEMMA ResumeMaps ==
  ASSUME TypeOK, ReturnIsKept, Resume
  PROVE  UNCHANGED Program!pvars
<1>1. InIsr /\ ~InIsr' /\ SubstituteInstruction' = TRUE /\ ExtraCode' = FALSE
  BY ResumeOK DEF Resume
<1>2. Z' = ZRUPT - 1 /\ BRUPT' = BRUPT /\ done' = done
  BY DEF Resume, ResumeZ, returnVars
<1>3. Fetched' = BRUPT
  BY <1>1, <1>2 DEF Fetched
<1> QED
  BY <1>1, <1>2, <1>3 DEF Program!pvars

LEMMA GojamMaps ==
  ASSUME TypeOK, NEW owed \in 0 .. MaxOwed, Gojam(owed)
  PROVE  Program!Next
<1>1. Memory[Start] \in Word
  BY CodeAssumption DEF ProgramCode
<1>2. /\ ~InIsr' /\ Z' = Start /\ IndexValue' = AGC_P0 /\ ExtraCode' = FALSE
      /\ SubstituteInstruction' = FALSE /\ done' = done
  BY DEF Gojam, GojamClears
<1>3. Fetched' = Memory[Start]
  BY <1>1, <1>2, IndexedByZero DEF Fetched
<1>4. Program!Restart
  BY <1>2, <1>3 DEF Program!Restart
<1> QED
  BY <1>4 DEF Program!Next

LEMMA WaitingMaps ==
  ASSUME UNCHANGED <<fetchVars, returnVars, InIsr, done>>
  PROVE  UNCHANGED Program!pvars
BY DEF fetchVars, returnVars, Program!pvars, Fetched

\* Interrupts, counts and delays are invisible to the interrupted program,
\* for every disciplined memory image, set of interrupts and word length.
THEOREM InterruptsAreInvisible == Spec => ProgramSpec
<1>1. Init => Program!Init
  BY InitMaps
<1>2. TypeOK /\ ReturnIsKept /\ [Next]_vars => [Program!Next]_(Program!pvars)
  BY ExecuteMaps, InterruptMaps, ResumeMaps, GojamMaps, WaitingOK, WaitingMaps
     DEF Next, Cycle
<1>3. Spec => [](TypeOK /\ ReturnIsKept)
  BY ReturnAlwaysKept
<1> QED
  BY <1>1, <1>2, <1>3, PTL DEF Spec, ProgramSpec, Program!Spec

\* The fields of the instruction cycle keep their ranges: the engine never owes
\* more cycles than one call's counts and restart can earn.
THEOREM CycleTypes == Spec => []TypeOK
BY ReturnAlwaysKept, PTL

-----------------------------------------------------------------------------
(* The cycles of an instruction.                                           *)

\* What has been spent on the instruction that waits and what it still waits
\* for are its cycles; EDRUPT never waits.
TimeInv ==
  IF PendFlag THEN Decoded.op # "edrupt" /\ spent + PendDelay = Decoded.cycles
  ELSE spent = 0

LEMMA TimeInvStep ==
  ASSUME TypeOK, Decoded \in Instructions, TimeInv, spent \in Int, [MNext]_mvars
  PROVE  TimeInv' /\ spent' \in Int
<1>1. PendDelay \in Nat /\ PendFlag \in BOOLEAN /\ Decoded.cycles \in Nat
  BY DEF TypeOK, Instructions
<1>2. CASE UNCHANGED mvars
  BY <1>2 DEF mvars, vars, fetchVars, returnVars, ruptVars, pendVars, TimeInv,
     Decoded, Fetched
<1>3. CASE MNext /\ PendCycle
  <2>1. UNCHANGED Decoded /\ PendDelay' = PendDelay - 1 /\ PendFlag /\ PendFlag'
    BY <1>3 DEF PendCycle, fetchVars, returnVars, Decoded, Fetched
  <2>2. spent' = spent + (PendDelay - PendDelay')
    BY <1>3, <2>1 DEF MNext
  <2> QED
    BY <1>1, <2>1, <2>2 DEF TimeInv
<1>4. CASE MNext /\ Fetch
  <2>1. /\ UNCHANGED Decoded /\ ~PendFlag /\ PendFlag'
        /\ PendDelay' = Decoded.cycles - 1 /\ Decoded.op # "edrupt"
    BY <1>4 DEF Fetch, Uninterrupted, fetchVars, returnVars, Decoded, Fetched
  <2>2. spent' = 1
    BY <1>4, <2>1 DEF MNext
  <2> QED
    BY <1>1, <2>1, <2>2 DEF TimeInv
<1>5. CASE MNext /\ (Execute \/ Resume \/ \E owed \in 0 .. MaxOwed : Gojam(owed))
  <2>1. ~PendFlag'
    BY <1>5 DEF Execute, Resume, Gojam, GojamClears
  <2> QED
    BY <1>5, <2>1 DEF MNext, TimeInv
<1>6. CASE MNext /\ Interrupt
  <2>1. ~PendFlag /\ ~PendFlag'
    BY <1>6 DEF Interrupt, Window, TimeInv, pendVars
  <2> QED
    BY <1>6, <2>1 DEF MNext, TimeInv
<1>7. CASE /\ MNext
           /\ \/ DelayCycle \/ \E owed \in 1 .. MaxOwed : Count(owed)
              \/ \E i \in Interrupts : Request(i)
  <2>1. UNCHANGED <<Decoded, PendFlag, PendDelay>>
    BY <1>7 DEF DelayCycle, Count, Request, fetchVars, returnVars, pendVars,
       Decoded, Fetched
  <2>2. spent' = spent
    BY <1>1, <1>7, <2>1 DEF MNext, TimeInv
  <2> QED
    BY <2>1, <2>2 DEF TimeInv
<1> QED
  BY <1>2, <1>3, <1>4, <1>5, <1>6, <1>7 DEF MNext, Next, Cycle

\* Every instruction takes the cycles that the timing tables give it, no more and
\* no fewer, whatever counts, restarts and interrupts come between its first cycle
\* and its last (PendFlag, PendDelay), in every disciplined memory image.
THEOREM EveryInstructionInItsTime == MSpec => InstructionsTakeTheirTime
<1> DEFINE IInv == TypeOK /\ ReturnIsKept /\ TimeInv /\ spent \in Int
<1>1. MInit => IInv
  <2> SUFFICES ASSUME Init, spent = 0
               PROVE  IInv
    BY DEF MInit
  <2>1. ~PendFlag
    BY DEF Init
  <2> QED
    BY <2>1, InitOK DEF TimeInv
<1>2. IInv /\ [MNext]_mvars => IInv'
  <2> SUFFICES ASSUME IInv, [MNext]_mvars
               PROVE  IInv'
    OBVIOUS
  <2>1. [Next]_vars
    BY DEF MNext, mvars
  <2> QED
    BY <2>1, StepOK, FetchedIsOfZ, TimeInvStep
<1>3. IInv /\ [MNext]_mvars => [Execute \/ Resume => spent = Decoded.cycles]_mvars
  <2> SUFFICES ASSUME IInv, Execute \/ Resume
               PROVE  spent = Decoded.cycles
    OBVIOUS
  <2>1. /\ PendDelay \in Nat /\ PendFlag \in BOOLEAN
        /\ Decoded.cycles \in Nat
    BY FetchedIsOfZ DEF TypeOK, Instructions
  <2>2. /\ PendFlag \/ Decoded.cycles = 0
        /\ ~(PendFlag /\ PendDelay > 0)
    BY DEF Execute, Resume, Uninterrupted, Free
  <2> QED
    BY <2>1, <2>2 DEF TimeInv
<1> HIDE DEF IInv
<1> QED
  BY <1>1, <1>2, <1>3, PTL DEF MSpec, InstructionsTakeTheirTime
=============================================================================
