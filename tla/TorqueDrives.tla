---------------------------- MODULE TorqueDrives ----------------------------
(***************************************************************************)
(* The pulses with which the AGC turns the gyros, the IMU and the optics:  *)
(* a program loads a counter and sets bits of channel 14, and the engine   *)
(* takes the count out of the counter and sends it, in bursts              *)
(* (src/yaAGC/agc_engine.c).  For the optics the counters that the engine  *)
(* takes are OPTX and OPTY, in which the optics count how they turn; the   *)
(* program's orders are in OPTXCMD and OPTYCMD.                            *)
(*                                                                         *)
(* Drives is the part of a call that does so, Elapse a call that does not  *)
(* get there.  ImuCduCount, the cycle of the last burst, is kept as lag,   *)
(* how long ago that is; while nothing waits to be sent the code sets it   *)
(* anew before it reads it, and lag is kept at 0.                          *)
(***************************************************************************)
EXTENDS AgcWord

CONSTANTS
  Axes,             \* the IMU CDU drives (CDUXCMD, CDUYCMD, CDUZCMD)
  Optics,           \* the optics drives (OPTX, OPTY)
  Selections,       \* the gyro and direction that channel 14 may select
  NoSelection,      \* the selection of a channel that is 0
  GyroStep,         \* GYRO_DIVIDER
  GyroPeriod,       \* GYRO_BURST * GYRO_OVERFLOW
  GYRO_BURST2,      \* the most gyro pulses of a burst
  IMUCDU_BURST_CYCLES,
  CoarseMost        \* the most pulses of an IMU burst (192 / COARSE_SMOOTH)

ASSUME DriveAssumption ==
  /\ Axes \cap Optics = {}
  /\ NoSelection \in Selections
  /\ GyroStep \in Nat \ {0} /\ GyroPeriod \in Nat /\ GyroStep <= GyroPeriod
  /\ GYRO_BURST2 \in Nat \ {0}
  /\ IMUCDU_BURST_CYCLES \in Nat \ {0} /\ CoarseMost \in Nat \ {0}

VARIABLES
  channel14,       \* the bits of the channel
  GYROCTR,         \* the gyro counter
  cell,            \* cell[d]: the counter from which drive d is fed
  OPTCMD,          \* OPTCMD[o]: the counter in which a program orders the optics
  GyroCount, OldChannel14, GyroTimer,
  saved,           \* saved[a]: the pulses of axis a still to be sent
  ImuChannel14,    \* some are
  lag,
  gyroTaken, gyroSent,   \* history: gyro pulses taken and sent, by selection
  commanded, sent,       \* history: pulses put into cell and sent by the others
  ordered                \* history: pulses put into OPTCMD

gyroVars == <<GYROCTR, GyroCount, OldChannel14, GyroTimer, gyroTaken, gyroSent>>
driveVars == <<cell, saved, ImuChannel14, commanded, sent>>
orderVars == <<OPTCMD, ordered>>
vars == <<channel14, gyroVars, driveVars, orderVars, lag>>

Channels == [gyro : BOOLEAN, selection : Selections,
             drives : SUBSET Axes, optics : SUBSET Optics]
Cleared == [gyro |-> FALSE, selection |-> NoSelection, drives |-> {}, optics |-> {}]

TypeOK ==
  /\ channel14 \in Channels
  /\ GYROCTR \in Word /\ cell \in [Axes \cup Optics -> Word]
  /\ GyroCount \in Nat /\ OldChannel14 \in Selections /\ GyroTimer \in 0 .. GyroPeriod - 1
  /\ saved \in [Axes -> Int] /\ ImuChannel14 \in BOOLEAN /\ lag \in Nat
  /\ gyroTaken \in [Selections -> Nat] /\ gyroSent \in [Selections -> Nat]
  /\ commanded \in [Axes \cup Optics -> Int] /\ sent \in [Axes \cup Optics -> Int]
  /\ OPTCMD \in [Optics -> Word] /\ ordered \in [Optics -> Int]

Init ==
  /\ channel14 = Cleared
  /\ GYROCTR = AGC_P0 /\ cell = [d \in Axes \cup Optics |-> AGC_P0]
  /\ GyroCount = 0 /\ OldChannel14 = NoSelection /\ GyroTimer = 0
  /\ saved = [a \in Axes |-> 0] /\ ImuChannel14 = FALSE /\ lag = 0
  /\ gyroTaken = [s \in Selections |-> 0] /\ gyroSent = [s \in Selections |-> 0]
  /\ commanded = [d \in Axes \cup Optics |-> 0] /\ sent = [d \in Axes \cup Optics |-> 0]
  /\ OPTCMD = [o \in Optics |-> AGC_P0] /\ ordered = [o \in Optics |-> 0]

-----------------------------------------------------------------------------
(* The gyros.  A new count is taken when the gyro is on and its counter is *)
(* not 0; what is left of the last one is sent at once before that.        *)

GyroTakes == channel14.gyro /\ GYROCTR # 0
\* Slip: what is left is forgotten.
ForgetsLeft == 0
Flushed == IF GyroTakes THEN GyroCount ELSE 0
CountTaken == IF GyroTakes THEN GYROCTR ELSE GyroCount
Selected == IF GyroTakes THEN channel14.selection ELSE OldChannel14
TimerNow == (IF GyroTakes THEN GyroPeriod - GyroStep ELSE GyroTimer) + GyroStep
GyroBurst == IF TimerNow < GyroPeriod THEN 0
             ELSE IF CountTaken < GYRO_BURST2 THEN CountTaken ELSE GYRO_BURST2

DriveGyros ==
  /\ GYROCTR' = IF GyroTakes THEN 0 ELSE GYROCTR
  /\ OldChannel14' = Selected
  /\ GyroCount' = CountTaken - GyroBurst
  /\ GyroTimer' = IF TimerNow < GyroPeriod THEN TimerNow ELSE TimerNow - GyroPeriod
  /\ gyroTaken' = IF GyroTakes THEN [gyroTaken EXCEPT ![Selected] = @ + GYROCTR]
                  ELSE gyroTaken
  /\ gyroSent' = [s \in Selections |->
                    gyroSent[s] + (IF s = OldChannel14 THEN Flushed ELSE 0)
                                + (IF s = Selected THEN GyroBurst ELSE 0)]

-----------------------------------------------------------------------------
(* The IMU.  Bursts of all axes come together, an interval apart while     *)
(* pulses wait, and at once when none did.                                 *)

\* The pulses that a counter orders.
Pulses(w) == IF IsNegative(w) THEN -NegateSP(w) ELSE w

\* Slip: a call does not make the last burst older.
LagStuck == IF ~ImuChannel14 THEN IMUCDU_BURST_CYCLES ELSE lag
LagNow == IF ~ImuChannel14 THEN IMUCDU_BURST_CYCLES ELSE lag + 1
CoarseBurst == channel14.drives # {} /\ LagNow >= IMUCDU_BURST_CYCLES

Ordered(a) == saved[a] + (IF a \in channel14.drives THEN Pulses(cell[a]) ELSE 0)
Delta(a) == IF Ordered(a) < -CoarseMost THEN -CoarseMost
            ELSE IF Ordered(a) > CoarseMost THEN CoarseMost ELSE Ordered(a)
\* Slip: the direction is lost with the sign of the count.
LeftUnsigned(a) == IF Ordered(a) < 0 THEN -(Ordered(a) - Delta(a)) ELSE Ordered(a) - Delta(a)
Left(a) == Ordered(a) - Delta(a)

\* The optics drives send the whole count at once.
OpticsTake(o) == o \in channel14.optics /\ cell[o] # 0

DriveImuAndOptics ==
  /\ saved' = IF CoarseBurst THEN [a \in Axes |-> Left(a)] ELSE saved
  /\ ImuChannel14' = IF CoarseBurst THEN \E a \in Axes : Left(a) # 0 ELSE ImuChannel14
  /\ lag' = IF ~ImuChannel14' THEN 0
            ELSE IF CoarseBurst THEN LagNow - IMUCDU_BURST_CYCLES ELSE LagNow
  /\ cell' = [d \in Axes \cup Optics |->
                IF OpticsTake(d) \/ (CoarseBurst /\ d \in channel14.drives)
                THEN 0 ELSE cell[d]]
  /\ sent' = [d \in Axes \cup Optics |->
                IF d \in Axes THEN sent[d] + (IF CoarseBurst THEN Delta(d) ELSE 0)
                ELSE sent[d] + (IF OpticsTake(d) THEN Pulses(cell[d]) ELSE 0)]
  /\ UNCHANGED commanded

Drives == DriveGyros /\ DriveImuAndOptics /\ UNCHANGED <<channel14, orderVars>>

\* A call that pays back a cycle, counts, or finds the computer in standby.
Elapse == /\ lag' = IF ImuChannel14 THEN lag + 1 ELSE 0
          /\ UNCHANGED <<channel14, gyroVars, driveVars, orderVars>>

-----------------------------------------------------------------------------
(* The program and the optics.                                             *)

\* A restart writes Cleared.
WriteChannel14(bits) == /\ channel14' = bits
                        /\ UNCHANGED <<gyroVars, driveVars, orderVars, lag>>

LoadGyro(w) == /\ GYROCTR' = w
               /\ UNCHANGED <<channel14, driveVars, orderVars, lag, GyroCount,
                              OldChannel14, GyroTimer, gyroTaken, gyroSent>>

\* A count that was not taken yet is ordered no more.
Load(d, w) == /\ cell' = [cell EXCEPT ![d] = w]
              /\ commanded' = [commanded EXCEPT ![d] = @ + Pulses(w) - Pulses(cell[d])]
              /\ UNCHANGED <<channel14, gyroVars, saved, ImuChannel14, sent,
                              orderVars, lag>>

\* The optics turn by a pulse.
Turn(o) == Load(o, CounterPCDU(cell[o])) \/ Load(o, CounterMCDU(cell[o]))

Order(o, w) == /\ OPTCMD' = [OPTCMD EXCEPT ![o] = w]
               /\ ordered' = [ordered EXCEPT ![o] = @ + Pulses(w) - Pulses(OPTCMD[o])]
               /\ UNCHANGED <<channel14, gyroVars, driveVars, lag>>

Next == \/ Drives
        \/ Elapse
        \/ \E bits \in Channels : WriteChannel14(bits)
        \/ \E o \in Optics : Turn(o)
        \/ \E w \in Word : \/ LoadGyro(w)
                           \/ \E d \in Axes \cup Optics : Load(d, w)
                           \/ \E o \in Optics : Order(o, w)

Spec == Init /\ [][Next]_vars

-----------------------------------------------------------------------------
\* No pulse is lost, invented or turned round: what was put into the counter
\* of a drive is what it has sent, what waits for the next burst and what the
\* counter holds, whatever loads, bits and idle calls come between two bursts.
DrivesKeepCount ==
  \A d \in Axes \cup Optics :
    sent[d] + (IF d \in Axes THEN saved[d] ELSE 0) + Pulses(cell[d]) = commanded[d]

\* Every gyro pulse is sent to the gyro that was selected when the count was
\* taken, whatever is selected, loaded and cleared before it is sent.
GyrosKeepCount ==
  \A s \in Selections :
    gyroSent[s] + (IF s = OldChannel14 THEN GyroCount ELSE 0) = gyroTaken[s]
=============================================================================
