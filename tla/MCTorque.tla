------------------------------ MODULE MCTorque ------------------------------
(***************************************************************************)
(* TorqueDrives under a program of a few steps.                            *)
(***************************************************************************)
EXTENDS TorqueDrives

CONSTANTS
  Uses,         \* the sets of drives that a behaviour may be about
  Budget,       \* the steps of the program
  MaxLag,       \* the drives are not left to themselves for longer than this
  Orders        \* the words the program may load

VARIABLES
  acted,        \* the steps the program has taken
  used          \* the drives that the behaviour is about

mvars == <<vars, acted, used>>

MCAxes == {"CDUX", "CDUY"}
MCOptics == {"OPTX"}
MCSelections == {"none", "+X", "-X"}

AllUses == {{"GYRO"}, {"CDUX", "CDUY"}, {"CDUX", "OPTX"}}
OpticsOnly == {{"OPTX"}}

Program ==
  \/ \E bits \in Channels :
       /\ bits # channel14
       /\ bits.gyro \/ bits.selection # NoSelection => "GYRO" \in used
       /\ bits.drives \cup bits.optics \subseteq used
       /\ WriteChannel14(bits)
  \/ \E w \in Orders : \/ "GYRO" \in used /\ LoadGyro(w)
                       \/ \E d \in Axes \cap used : Load(d, w)
                       \/ \E o \in Optics \cap used : Order(o, w)
  \/ \E o \in Optics \cap used : Turn(o) \/ Load(o, AGC_P0)

Acts == /\ acted < Budget /\ acted' = acted + 1
        /\ Program
        /\ UNCHANGED used

Drive == Drives /\ lag' <= MaxLag /\ UNCHANGED <<acted, used>>
Idle == Elapse /\ lag' <= MaxLag /\ UNCHANGED <<acted, used>>

MInit == Init /\ acted = 0 /\ used \in Uses
MNext == Acts \/ Drive \/ Idle
MSpec == MInit /\ [][MNext]_mvars

FairMSpec == MSpec /\ WF_mvars(Drive)

\* "OPTXCMD & OPTYCMD" (agc_engine.c): what the optics are sent is what their
\* orders were, and what the optics count as they turn is not sent back to them.
OpticsObeyOrders ==
  \A o \in Optics : sent[o] + Pulses(OPTCMD[o]) = ordered[o]

\* An order for the IMU is sent to its last pulse while a drive is on.
OrdersAreSent ==
  \A a \in Axes : saved[a] # 0 ~> (saved[a] = 0 \/ channel14.drives = {})
=============================================================================
