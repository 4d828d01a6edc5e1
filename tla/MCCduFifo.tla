----------------------------- MODULE MCCduFifo -----------------------------
(***************************************************************************)
(* CduFifo with a bounded supply of pulses and of delay, and the history   *)
(* that its timing properties need.                                        *)
(***************************************************************************)
EXTENDS CduFifo

CONSTANTS
  Budget,      \* the pulses that arrive in a behaviour
  MaxLate,     \* other work is done while no update is later than this
  Types        \* the increment types in use

\* The engine looks at a FIFO in fewer cycles than its pulses are apart, and
\* fast pulses are not further apart than slow ones.
ASSUME SupplyAssumption ==
  /\ Types \subseteq IncTypes
  /\ MaxLate \in Nat
  /\ SlowInterval >= FastInterval /\ FastInterval > NUM_CDU_FIFOS

VARIABLES
  arrived,     \* the pulses that have arrived
  earned       \* earned[c]: cycles since c was empty, less those its applied
               \* pulses are worth at the fast rate

hvars == <<arrived, earned>>
mvars == <<vars, hvars>>

Slow == [down |-> FALSE, fast |-> FALSE]
SlowDown == [down |-> TRUE, fast |-> FALSE]
Fast == [down |-> FALSE, fast |-> TRUE]
FastDown == [down |-> TRUE, fast |-> TRUE]
AllTypes == {Slow, SlowDown, Fast, FastDown}

\* A pulse is applied to c in this step.
Applies(c) == counter'[c] # counter[c]

OtherWork == /\ \A c \in Cdus : due[c] > -MaxLate
             /\ \/ Stolen /\ UNCHANGED arrived
                \/ /\ arrived < Budget
                   /\ arrived' = arrived + 1
                   /\ \E c \in Cdus, type \in Types : Push(c, type)

Serve == ServiceCduFifo /\ UNCHANGED arrived

History ==
  /\ earned' = [c \in Cdus |->
                  IF Size[c] = 0 THEN 0
                  ELSE earned[c] + 1 - (IF Applies(c) THEN FastInterval ELSE 0)]

MInit == /\ Init /\ arrived = 0
         /\ earned = [c \in Cdus |-> 0]
MNext == (OtherWork \/ Serve) /\ History
MSpec == MInit /\ [][MNext]_mvars

-----------------------------------------------------------------------------
\* However late the engine gets to a FIFO, the pulses it has applied since
\* the FIFO was last empty are never more than the fast rate allows for the
\* time that has passed: being late earns nothing that was not waited for.
NeverAheadOfTheRate == \A c \in Cdus : Size[c] > 0 => earned[c] >= 0

\* The engine goes round its FIFOs, so that no update comes later than the
\* other work has made it and a turn of the FIFOs: every accepted pulse is
\* applied, and neither a busy neighbour nor a late update starves it.
UpdatesInTurn ==
  \A c \in Cdus : Size[c] > 0 => due[c] > -(MaxLate + NUM_CDU_FIFOS)
=============================================================================
