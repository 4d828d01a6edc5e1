------------------------------ MODULE MCCycle ------------------------------
(***************************************************************************)
(* A program and two interrupts for AgcCycle, small but with every class   *)
(* of instruction next to every other that matters: INDEX before a plain,  *)
(* a long and an extended instruction, EXTEND before INDEX, a critical     *)
(* section, an accumulator in overflow, a branch, EDRUPT.                  *)
(***************************************************************************)
EXTENDS AgcCycle, Sequences, TLC

VARIABLE spent     \* the cycles spent so far on the instruction that is waiting

mvars == <<vars, spent>>

D(op, cycles, target, amount) ==
  [op |-> op, cycles |-> cycles, target |-> target, amount |-> amount]
Plain(cycles) == D("plain", cycles, 0, 0)

\* The classes of the words, those not after EXTEND and those after it.
MCDecode ==
  FALSE :> [w \in Word |->
     CASE w = 1 -> Plain(1)                  [] w = 2 -> Plain(2)
       [] w = 3 -> D("relint", 0, 0, 0)      [] w = 4 -> D("inhint", 0, 0, 0)
       [] w = 6 -> D("extend", 0, 0, 0)      [] w = 8 -> D("index", 1, 0, 1)
       [] w = 10 -> D("add", 1, 0, 0)        [] w = 11 -> D("ts", 1, 0, 0)
       [] w = 12 -> D("skip", 1, 0, 0)       [] w \in {20, 21} -> D("tcf", 0, 2, 0)
       [] w \in {24, 25} -> D("resume", 1, 0, 0)
       [] OTHER -> Plain(0)] @@
  TRUE :> [w \in Word |->
     CASE w = 2 -> Plain(3)                  [] w = 15 -> D("edrupt", 0, 0, 0)
       [] w = 17 -> D("branch", 0, 2, 0)      [] w = 8 -> D("index", 1, 0, 1)
       [] w \in {20, 21} -> D("tcf", 0, 2, 0)
       [] w \in {24, 25} -> D("resume", 1, 0, 0)
       [] OTHER -> Plain(1)]

\* Addresses 0 and 1 are the interrupt EDRUPT falls back to, 2 to 20 the
\* program, the rest the two interrupts.
MCCode == << 9, 24,
             8, 1,              \* INDEX, and what it makes of 1: a longer one
             6, 8, 1,           \* EXTEND, INDEX, and the long extended 2
             4, 9, 3,           \* INHINT ... RELINT
             10, 11,            \* an overflow, and the TS that clears it
             12, 9, 9, 9,       \* CCS
             6, 17,             \* BZF
             6, 15,             \* EDRUPT
             20,                \* TCF to the beginning
             6, 8, 1, 24,       \* an interrupt that extends and indexes
             8, 4, 3, 24 >>     \* one that indexes and inhibits interrupts
MCMemory == [a \in 0 .. 28 |-> MCCode[a + 1]]
MCIsrCode == {0, 1} \cup 21 .. 28
MCVector == 1 :> 21 @@ 2 :> 25

MInit == Init /\ spent = 0
MNext == /\ Next
         /\ spent' = IF ~PendFlag' THEN 0
                     ELSE IF ~PendFlag THEN 1
                     ELSE spent + (PendDelay - PendDelay')
MSpec == MInit /\ [][MNext]_mvars

\* Input counts and the scaler's take some cycles, never all of them: at most
\* eight cycles of every 26 are owed to the scaler, and a call that is not
\* Free comes to its end.
FairMSpec == /\ MSpec
             /\ WF_mvars(MNext /\ (DelayCycle \/ PendCycle))
             /\ SF_mvars(MNext /\ (Interrupt \/ Fetch \/ Execute \/ Resume))

-----------------------------------------------------------------------------
\* An instruction takes the cycles that the tables give it, whatever counts,
\* restarts and interrupts come between its first cycle and its last: the
\* wait of one instruction is never left over for another.
InstructionsTakeTheirTime ==
  [][Execute \/ Resume => spent = Decoded.cycles]_mvars

\* The most urgent interrupt is served, or cleared by a restart: no critical
\* section, long instruction, other interrupt or overflow keeps it out for
\* ever.
UrgentIsServed == 1 \in InterruptRequests ~> 1 \notin InterruptRequests
=============================================================================
