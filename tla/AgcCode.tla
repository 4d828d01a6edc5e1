------------------------------ MODULE AgcCode ------------------------------
(***************************************************************************)
(* A memory image and what its words mean to the sequencing of             *)
(* instructions (src/yaAGC/agc_engine.c).  What an instruction does to its *)
(* operands is left out: Decode gives the class that decides which         *)
(* instruction comes next and how many cycles this one takes.              *)
(***************************************************************************)
EXTENDS AgcWord

CONSTANTS
  AddressMod,    \* the size of the address space of Z (010000 in the code)
  Memory,        \* the image: Memory[a] is the word at a
  Decode,        \* Decode[extra][w]: the class of w, after EXTEND or not
  Start,         \* where a restart goes (04000)
  Vector,        \* Vector[i]: where interrupt i goes (04000 + 4*i)
  IsrCode        \* the addresses of the interrupts' code

Interrupts == DOMAIN Vector
Address == 0 .. AddressMod - 1
ProgramCode == Address \ IsrCode

\* "skip" is CCS, "branch" BZF and BZMF, "add" what may overflow the
\* accumulator, "ts" TS to memory, "tcf" TC and TCF, "plain" the rest.
Ops == {"plain", "add", "ts", "skip", "tcf", "branch", "relint", "inhint", "extend",
        "index", "resume", "edrupt"}

\* cycles: what InstructionTiming and ExtracodeTiming add to the first one;
\* target: of a jump; amount: what an INDEX leaves in IndexValue.
Instructions == [op : Ops, cycles : Nat, target : Address, amount : Word]

ASSUME CodeAssumption ==
  /\ AddressMod \in Nat \ {0}
  /\ Memory \in [Address -> Word]
  /\ Decode \in [BOOLEAN -> [Word -> Instructions]]
  /\ IsrCode \subseteq Address /\ Start \in ProgramCode /\ 0 \in IsrCode
  /\ Interrupts \subseteq Nat /\ Vector \in [Interrupts -> IsrCode]

\* The word an index makes of an instruction.
Indexed(index, w) == OverflowCorrected(AddSP16(SignExtend(index), SignExtend(w)))

\* Where an instruction at a may go, RESUME and interrupts apart.
Sequel(a, d) ==
  CASE d.op = "tcf" -> {d.target}
    [] d.op = "branch" -> {d.target, (a + 1) % AddressMod}
    [] d.op = "ts" -> {(a + n) % AddressMod : n \in 1 .. 2}
    [] d.op = "skip" -> {(a + n) % AddressMod : n \in 1 .. 4}
    [] OTHER -> {(a + 1) % AddressMod}

\* What IndexValue may hold.
IndexValues == {AGC_P0} \cup
  { d.amount : d \in { Decode[extra][w] : extra \in BOOLEAN, w \in Word } }

\* The discipline of the AGC's programs: only the code of interrupts resumes,
\* it uses no EDRUPT, and neither kind of code runs into the other.
ASSUME DisciplineAssumption ==
  \A a \in Address, index \in IndexValues, extra \in BOOLEAN :
    LET d == Decode[extra][Indexed(index, Memory[a])]
    IN  /\ a \in ProgramCode => d.op # "resume" /\ Sequel(a, d) \subseteq ProgramCode
        /\ a \in IsrCode => /\ d.op # "edrupt"
                            /\ d.op # "resume" => Sequel(a, d) \subseteq IsrCode
=============================================================================
