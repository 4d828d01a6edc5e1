------------------------------ MODULE AgcCycle ------------------------------
(***************************************************************************)
(* The sequencing of instructions, cycle by cycle: fetch, INDEX, EXTEND,   *)
(* the cycles of long instructions, the cycles that counts take, entering  *)
(* and leaving interrupts, EDRUPT and the restart (src/yaAGC/agc_engine.c).*)
(*                                                                         *)
(* Every call of agc_engine() is one of the actions, or takes a stuttering *)
(* step: a call that an input count or the CDU uses up, or that finds the  *)
(* computer in standby, changes nothing here.  A pass of the scaler that   *)
(* counts nothing is followed by an instruction in the same call.          *)
(***************************************************************************)
EXTENDS AgcCode

CONSTANT MaxOwed      \* the most cycles that one call's counts can owe

ASSUME OwedAssumption == MaxOwed \in Nat

VARIABLES
  Z,                      \* the program counter
  IndexValue, ExtraCode, SubstituteInstruction,
  ZRUPT, BRUPT,
  InIsr, AllowInterrupt, InterruptRequests,
  PendFlag, PendDelay,    \* a long instruction is waiting, and how long
  ExtraDelay,
  Overflow,               \* the accumulator holds an overflow
  done                    \* history: the program's last executed instruction

fetchVars == <<Z, IndexValue, ExtraCode, SubstituteInstruction>>
returnVars == <<ZRUPT, BRUPT>>
ruptVars == <<InIsr, AllowInterrupt, InterruptRequests>>
pendVars == <<PendFlag, PendDelay>>
vars == <<fetchVars, returnVars, ruptVars, pendVars, ExtraDelay, Overflow, done>>

TypeOK ==
  /\ Z \in Address /\ IndexValue \in Word
  /\ ExtraCode \in BOOLEAN /\ SubstituteInstruction \in BOOLEAN
  /\ ZRUPT \in 0 .. AddressMod /\ BRUPT \in Word
  /\ InIsr \in BOOLEAN /\ AllowInterrupt \in BOOLEAN
  /\ InterruptRequests \subseteq Interrupts
  /\ PendFlag \in BOOLEAN /\ PendDelay \in Nat
  /\ ExtraDelay \in 0 .. MaxOwed + 1
  /\ Overflow \in BOOLEAN
  /\ done \in Address \X Word \X BOOLEAN

Init == /\ Z = Start /\ IndexValue = AGC_P0
        /\ ExtraCode = FALSE /\ SubstituteInstruction = FALSE
        /\ ZRUPT = 0 /\ BRUPT = 0
        /\ InIsr = FALSE /\ AllowInterrupt = TRUE /\ InterruptRequests = {}
        /\ PendFlag = FALSE /\ PendDelay = 0 /\ ExtraDelay = 0
        /\ Overflow = FALSE
        /\ done = <<Start, Memory[Start], FALSE>>

-----------------------------------------------------------------------------
(* The instruction this call works on.                                     *)

\* Slip: the instruction that RESUME restored is indexed again.
IndexedTwice == Indexed(IndexValue, IF SubstituteInstruction THEN BRUPT ELSE Memory[Z])
Fetched == IF SubstituteInstruction THEN BRUPT ELSE Indexed(IndexValue, Memory[Z])
Decoded == Decode[ExtraCode][Fetched]

\* Slip: an interrupt may separate EXTEND from what it extends.
WindowAfterExtend == /\ ~InIsr /\ AllowInterrupt /\ ~PendFlag /\ ~Overflow
                     /\ Decoded.op \notin {"relint", "inhint", "extend"}
Window == /\ ~InIsr /\ AllowInterrupt /\ ~ExtraCode /\ ~PendFlag /\ ~Overflow
          /\ Decoded.op \notin {"relint", "inhint", "extend"}

\* The cycles that are not owed to anything else.
Free == ExtraDelay = 0 /\ ~(PendFlag /\ PendDelay > 0)

-----------------------------------------------------------------------------
(* Cycles without an instruction.                                          *)

DelayCycle == /\ ExtraDelay > 0
              /\ ExtraDelay' = ExtraDelay - 1
              /\ UNCHANGED <<fetchVars, returnVars, ruptVars, pendVars, Overflow, done>>

PendCycle == /\ ExtraDelay = 0 /\ PendFlag /\ PendDelay > 0
             /\ PendDelay' = PendDelay - 1
             /\ UNCHANGED <<fetchVars, returnVars, ruptVars, PendFlag, ExtraDelay,
                            Overflow, done>>

\* The scaler's counts take owed cycles, this one included.
Count(owed) == /\ Free
               /\ ExtraDelay' = owed - 1
               /\ UNCHANGED <<fetchVars, returnVars, ruptVars, pendVars, Overflow, done>>

\* Somebody asks for interrupt i.
Request(i) == /\ InterruptRequests' = InterruptRequests \cup {i}
              /\ UNCHANGED <<fetchVars, returnVars, InIsr, AllowInterrupt, pendVars,
                             ExtraDelay, Overflow, done>>

\* Slips: a restart forgets the index, and the long instruction it cut short.
GojamKeepsIndex == /\ ExtraCode' = FALSE /\ SubstituteInstruction' = FALSE
                   /\ PendFlag' = FALSE /\ PendDelay' = 0
                   /\ UNCHANGED IndexValue
GojamKeepsPend == /\ IndexValue' = AGC_P0
                  /\ ExtraCode' = FALSE /\ SubstituteInstruction' = FALSE
                  /\ UNCHANGED pendVars
GojamClears == /\ IndexValue' = AGC_P0
               /\ ExtraCode' = FALSE /\ SubstituteInstruction' = FALSE
               /\ PendFlag' = FALSE /\ PendDelay' = 0

\* Slip: the call's own cycle is counted again.
GojamOwesOwn(owed) == owed + 2
\* GOJAM and TC 4000, less the cycle of this call.
GojamOwes(owed) == owed + 1

\* A restart, in a call whose counts take owed cycles.
Gojam(owed) ==
  /\ Free
  /\ Z' = Start
  /\ GojamClears
  /\ InIsr' = FALSE /\ AllowInterrupt' = TRUE /\ InterruptRequests' = {}
  /\ ExtraDelay' = GojamOwes(owed)
  /\ UNCHANGED <<returnVars, Overflow, done>>

-----------------------------------------------------------------------------
(* Cycles with one.                                                        *)

\* Slip: the priorities are searched from the wrong end.
LastRequest == { i \in InterruptRequests : \A j \in InterruptRequests : j <= i }
\* The request to serve, of the highest priority, if there is one.
FirstRequest == { i \in InterruptRequests : \A j \in InterruptRequests : i <= j }

\* Where an interrupt goes.  EDRUPT goes somewhere even with none requested.
VectorTaken == { Vector[i] : i \in FirstRequest } \cup
               (IF InterruptRequests = {} THEN {0} ELSE {})

\* Slip: the index that was on its way is lost to the interrupted program.
BruptUnindexed == IF SubstituteInstruction THEN BRUPT ELSE Memory[Z]
SavedInstruction == Fetched

Interrupt ==
  /\ Free
  /\ (Window /\ InterruptRequests # {}) \/ Decoded.op = "edrupt"
  /\ Z' \in VectorTaken
  /\ InterruptRequests' = InterruptRequests \ FirstRequest
  /\ ZRUPT' = Z + 1 /\ BRUPT' = SavedInstruction
  /\ ExtraCode' = FALSE /\ IndexValue' = AGC_P0 /\ SubstituteInstruction' = FALSE
  /\ InIsr' = TRUE
  /\ ExtraDelay' = 1
  /\ UNCHANGED <<AllowInterrupt, pendVars, Overflow, done>>

\* Executing is what a call does when no interrupt takes it.
Uninterrupted == /\ Free
                 /\ ~(Window /\ InterruptRequests # {})
                 /\ Decoded.op # "edrupt"

\* The first cycle of an instruction of several.
Fetch == /\ Uninterrupted
         /\ ~PendFlag /\ Decoded.cycles > 0
         /\ PendFlag' = TRUE /\ PendDelay' = Decoded.cycles - 1
         /\ UNCHANGED <<fetchVars, returnVars, ruptVars, ExtraDelay, Overflow, done>>

\* The last cycle of every instruction but RESUME.  overflow is what the
\* accumulator is left with.
OverflowAfter(overflow) == CASE Decoded.op = "add" -> overflow \in BOOLEAN
                             [] Decoded.op = "ts" -> overflow = FALSE
                             [] OTHER -> overflow = Overflow
NextZ == IF Decoded.op = "ts" THEN {(Z + (IF Overflow THEN 2 ELSE 1)) % AddressMod}
         ELSE Sequel(Z, Decoded)

Execute ==
  /\ Uninterrupted
  /\ Decoded.op # "resume"
  /\ PendFlag \/ Decoded.cycles = 0
  /\ Z' \in NextZ
  /\ IndexValue' = IF Decoded.op = "index" THEN Decoded.amount ELSE AGC_P0
  /\ ExtraCode' = (Decoded.op = "extend" \/ (Decoded.op = "index" /\ ExtraCode))
  /\ SubstituteInstruction' = FALSE
  /\ AllowInterrupt' = CASE Decoded.op = "relint" -> TRUE
                         [] Decoded.op = "inhint" -> FALSE
                         [] OTHER -> AllowInterrupt
  /\ \E overflow \in BOOLEAN : OverflowAfter(overflow) /\ Overflow' = overflow
  /\ PendFlag' = FALSE
  /\ done' = IF InIsr THEN done ELSE <<Z, Fetched, ExtraCode>>
  /\ UNCHANGED <<returnVars, InIsr, InterruptRequests, PendDelay, ExtraDelay>>

\* Slip: RESUME goes back one instruction too late.
ResumeLate == ZRUPT % AddressMod
ResumeZ == ZRUPT - 1

Resume ==
  /\ Uninterrupted
  /\ Decoded.op = "resume"
  /\ PendFlag \/ Decoded.cycles = 0
  /\ Z' = ResumeZ
  /\ IndexValue' = AGC_P0 /\ ExtraCode' = FALSE
  /\ SubstituteInstruction' = TRUE
  /\ InIsr' = FALSE
  /\ PendFlag' = FALSE
  /\ UNCHANGED <<returnVars, AllowInterrupt, InterruptRequests, PendDelay, ExtraDelay,
                 Overflow, done>>

-----------------------------------------------------------------------------
Cycle == DelayCycle \/ PendCycle \/ Interrupt \/ Fetch \/ Execute \/ Resume

Next == \/ Cycle
        \/ \E owed \in 1 .. MaxOwed : Count(owed)
        \/ \E owed \in 0 .. MaxOwed : Gojam(owed)
        \/ \E i \in Interrupts : Request(i)

Spec == Init /\ [][Next]_vars

-----------------------------------------------------------------------------
(* The program's view: in an interrupt the program stands where it was     *)
(* left, with the instruction it was about to execute.                     *)

Program == INSTANCE AgcProgram WITH
  pc <- IF InIsr THEN ZRUPT - 1 ELSE Z,
  word <- IF InIsr THEN BRUPT ELSE Fetched,
  extra <- ~InIsr /\ ExtraCode,
  done <- done

\* Interrupts, counts and delays are invisible to the interrupted program:
\* every instruction of it is executed once, in its order, with the index and
\* the EXTEND that it was given, and a restart leaves nothing behind.
ProgramSpec == Program!Spec

\* Program and interrupts stay in their own code, and the instruction that
\* RESUME restores is the one that was interrupted, with an index that the
\* program gave it; it waits only outside interrupts.
ReturnIsKept ==
  /\ IndexValue \in IndexValues
  /\ InIsr => /\ Z \in IsrCode /\ ZRUPT - 1 \in ProgramCode
              /\ \E index \in IndexValues : BRUPT = Indexed(index, Memory[ZRUPT - 1])
  /\ ~InIsr => Z \in ProgramCode
  /\ SubstituteInstruction =>
       ~InIsr /\ \E index \in IndexValues : BRUPT = Indexed(index, Memory[Z])
=============================================================================
