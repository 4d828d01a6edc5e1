--------------------------- MODULE MCInstructions ---------------------------
(***************************************************************************)
(* AgcInstructions for TLC: programs of a few instructions from every      *)
(* content of the words they work on.                                      *)
(***************************************************************************)
EXTENDS AgcInstructions

CONSTANTS Programs        \* the programs of this run, by name

VARIABLES program,        \* what is being run: the words it uses
          steps           \* and how many instructions are left

mcvars == <<vars, program, steps>>

X == 49                   \* two words of memory, of which X is the second
Y == 48
InBank1 == BANK + X       \* the word of bank 1 that the window shows there
InWindow == 3 * BANK + X

\* The words used by a program, the cells that start with any value, the
\* number of instructions, and whether they are on one word or on two.
Scenario == [
  one      |-> [operands |-> {RegA, RegL, X}, any |-> {RegA, RegL, X}, steps |-> 1,
                two |-> FALSE],
  two      |-> [operands |-> {X}, any |-> {RegA, RegL, X, Y}, steps |-> 1, two |-> TRUE],
  pairs    |-> [operands |-> {RegL, RegQ, RegEB, RegFB, RegZ, RegBB}, any |-> {RegA, RegL},
                steps |-> 2, two |-> TRUE],
  clock    |-> [operands |-> {RegTIME1}, any |-> {RegTIME1, RegTIME2}, steps |-> 1,
                two |-> FALSE],
  timers   |-> [operands |-> {RegTIME3, RegTIME4}, any |-> {RegTIME3, RegTIME4}, steps |-> 2,
                two |-> FALSE],
  banks    |-> [operands |-> {RegQ, RegEB, RegFB, RegZ, RegBB, RegZERO, InWindow},
                any |-> {RegA}, steps |-> 2, two |-> FALSE],
  editing  |-> [operands |-> {RegCYR, RegSR, RegCYL, RegEDOP}, any |-> {RegA},
                steps |-> 2, two |-> FALSE]]

Values(p) == IF p < RegL THEN Register
             ELSE IF p = RegL THEN {SignExtend(w) : w \in Word} ELSE Word

MCInit ==
  /\ program \in Programs
  /\ steps = Scenario[program].steps
  /\ \E v \in [Scenario[program].any -> Register] :
       /\ \A p \in Scenario[program].any : v[p] \in Values(p)
       /\ cell = [p \in Cells |-> IF p \in Scenario[program].any THEN v[p]
                                  ELSE IF p = RegZ THEN ZMOD \div 2 ELSE 0]
  /\ rupts = {}
  /\ last = <<"start", 0>>

\* Bound: a program ends after its steps.
MCNext ==
  /\ steps > 0
  /\ steps' = steps - 1
  /\ UNCHANGED program
  /\ \E k \in Scenario[program].operands :
       \/ ~Scenario[program].two /\ Reaches(k) /\ OneWord(k)
       \/ Scenario[program].two /\ ReachesTwo(k) /\ TwoWords(k)

MCSpec == MCInit /\ [][MCNext]_mcvars
=============================================================================
