----------------------------- MODULE AgcProgram -----------------------------
(***************************************************************************)
(* What a program of the AGC may count on: its instructions are executed   *)
(* one after another, each as INDEX and EXTEND before it have made it, as  *)
(* if there were no interrupts, no input counts and no delays; only a      *)
(* restart takes it away from where it is.  AgcCycle implements this.      *)
(***************************************************************************)
EXTENDS AgcCode

VARIABLES
  pc,      \* the address of the next instruction
  word,    \* that instruction, indexed
  extra,   \* whether it follows EXTEND
  done     \* the instruction last executed: where, what, and extended or not

pvars == <<pc, word, extra, done>>

Init == /\ pc = Start /\ word = Memory[Start] /\ extra = FALSE
        /\ done = <<Start, word, FALSE>>

\* An instruction of the program.
Instruction ==
  LET d == Decode[extra][word]
      index == IF d.op = "index" THEN d.amount ELSE AGC_P0
  IN  /\ d.op \notin {"resume", "edrupt"}
      /\ done' = <<pc, word, extra>>
      /\ pc' \in Sequel(pc, d)
      /\ word' = Indexed(index, Memory[pc'])
      /\ extra' = (d.op = "extend" \/ (d.op = "index" /\ extra))

\* EDRUPT calls for an interrupt; when it is over, the same word is executed
\* as an instruction that follows no EXTEND.
Edrupt == /\ Decode[extra][word].op = "edrupt"
          /\ extra' = FALSE
          /\ UNCHANGED <<pc, word, done>>

\* A restart (GOJAM).
Restart == /\ pc' = Start /\ word' = Memory[Start] /\ extra' = FALSE
           /\ UNCHANGED done

Next == Instruction \/ Edrupt \/ Restart

Spec == Init /\ [][Next]_pvars
=============================================================================
