---------------------------- MODULE TorqueProofs ----------------------------
(***************************************************************************)
(* What TorqueDrives keeps, for every number of drives, every interval and *)
(* every burst: the types and the account of the pulses.                   *)
(***************************************************************************)
EXTENDS TorqueDrives, TLAPS

Account == TypeOK /\ DrivesKeepCount /\ GyrosKeepCount

\* A word orders a whole number of pulses.
LEMMA PulsesAreWhole ==
  ASSUME NEW w \in Word
  PROVE  Pulses(w) \in Int
BY HALFAssumption DEF Pulses, NegateSP, IsNegative, AGC_M0, Word

\* The word 0 orders none.
LEMMA NoPulses ==
  /\ 0 \in Word
  /\ Pulses(0) = 0
BY HALFAssumption DEF Pulses, NegateSP, IsNegative, AGC_M0, Word

\* A burst takes off what it sends.
LEMMA BurstIsTakenOff ==
  ASSUME TypeOK, NEW a \in Axes
  PROVE  /\ Ordered(a) \in Int /\ Delta(a) \in Int /\ Left(a) \in Int
         /\ Left(a) + Delta(a) = Ordered(a)
<1>1. saved[a] \in Int /\ Pulses(cell[a]) \in Int
  BY PulsesAreWhole DEF TypeOK
<1>2. Ordered(a) \in Int
  BY <1>1 DEF Ordered
<1>3. Delta(a) \in Int
  BY <1>2, DriveAssumption DEF Delta
<1> QED
  BY <1>2, <1>3 DEF Left

LEMMA InitOK ==
  ASSUME Init
  PROVE  Account
<1>1. TypeOK
  <2>1. channel14 \in Channels
    BY DriveAssumption DEF Init, Channels, Cleared
  <2>2. GYROCTR \in Word /\ cell \in [Axes \cup Optics -> Word]
    BY NoPulses DEF Init, AGC_P0
  <2>3. GyroCount \in Nat /\ OldChannel14 \in Selections /\ GyroTimer \in 0 .. GyroPeriod - 1
    BY DriveAssumption DEF Init
  <2>4. ImuChannel14 \in BOOLEAN
    BY Zenon DEF Init
  <2>5. saved \in [Axes -> Int] /\ lag \in Nat
    BY DEF Init
  <2>6. /\ gyroTaken \in [Selections -> Nat] /\ gyroSent \in [Selections -> Nat]
        /\ commanded \in [Axes \cup Optics -> Int] /\ sent \in [Axes \cup Optics -> Int]
        /\ OPTCMD \in [Optics -> Word] /\ ordered \in [Optics -> Int]
    BY NoPulses DEF Init, AGC_P0
  <2> QED
    BY <2>1, <2>2, <2>3, <2>4, <2>5, <2>6 DEF TypeOK
<1>2. DrivesKeepCount /\ GyrosKeepCount
  BY NoPulses, DriveAssumption DEF Init, DrivesKeepCount, GyrosKeepCount, AGC_P0
<1> QED
  BY <1>1, <1>2 DEF Account

-----------------------------------------------------------------------------
(* The gyros' part of a call.                                              *)

LEMMA GyrosOK ==
  ASSUME TypeOK, GyrosKeepCount, DriveGyros
  PROVE  /\ GYROCTR' \in Word /\ GyroCount' \in Nat /\ OldChannel14' \in Selections
         /\ GyroTimer' \in 0 .. GyroPeriod - 1
         /\ gyroTaken' \in [Selections -> Nat] /\ gyroSent' \in [Selections -> Nat]
         /\ GyrosKeepCount'
<1>1. /\ GYROCTR \in Nat /\ GyroCount \in Nat /\ GYRO_BURST2 \in Nat
      /\ channel14.selection \in Selections /\ OldChannel14 \in Selections
      /\ GyroPeriod \in Nat /\ GyroStep \in Nat /\ GyroStep <= GyroPeriod /\ GyroStep > 0
      /\ GyroTimer \in 0 .. GyroPeriod - 1
  BY DriveAssumption, HALFAssumption DEF TypeOK, Word, Channels
<1>2. /\ CountTaken \in Nat /\ Flushed \in Nat /\ Selected \in Selections
      /\ TimerNow \in Nat /\ TimerNow < 2 * GyroPeriod
  BY <1>1 DEF CountTaken, Flushed, Selected, TimerNow
<1>3. GyroBurst \in 0 .. CountTaken
  BY <1>1, <1>2 DEF GyroBurst
<1>4. /\ GYROCTR' \in Word /\ OldChannel14' \in Selections
      /\ GyroCount' = CountTaken - GyroBurst /\ GyroCount' \in Nat
  <2>1. GYROCTR' \in Word
    BY NoPulses DEF DriveGyros, TypeOK
  <2> QED
    BY <1>2, <1>3, <2>1 DEF DriveGyros
<1>5. GyroTimer' \in 0 .. GyroPeriod - 1
  BY <1>1, <1>2 DEF DriveGyros
<1>6. /\ gyroTaken' \in [Selections -> Nat]
      /\ \A s \in Selections :
           gyroTaken'[s] = gyroTaken[s] + (IF GyroTakes /\ s = Selected THEN GYROCTR ELSE 0)
  <2>1. gyroTaken \in [Selections -> Nat]
    BY DEF TypeOK
  <2>2. CASE GyroTakes
    <3>1. gyroTaken' = [gyroTaken EXCEPT ![Selected] = @ + GYROCTR]
      BY <2>2 DEF DriveGyros
    <3> QED
      BY <1>1, <1>2, <2>1, <2>2, <3>1
  <2>3. CASE ~GyroTakes
    BY <2>1, <2>3 DEF DriveGyros
  <2> QED
    BY <2>2, <2>3
<1>7. gyroSent' \in [Selections -> Nat]
  BY <1>1, <1>2, <1>3 DEF DriveGyros, TypeOK
<1>8. ASSUME NEW s \in Selections
      PROVE  gyroSent'[s] + (IF s = OldChannel14' THEN GyroCount' ELSE 0) = gyroTaken'[s]
  <2>1. /\ gyroSent[s] \in Nat /\ gyroTaken[s] \in Nat
        /\ gyroSent[s] + (IF s = OldChannel14 THEN GyroCount ELSE 0) = gyroTaken[s]
    BY DEF TypeOK, GyrosKeepCount
  <2>2. /\ OldChannel14' = Selected
        /\ gyroSent'[s] = gyroSent[s] + (IF s = OldChannel14 THEN Flushed ELSE 0)
                                      + (IF s = Selected THEN GyroBurst ELSE 0)
    BY DEF DriveGyros
  <2>3. gyroTaken'[s] = gyroTaken[s] + (IF GyroTakes /\ s = Selected THEN GYROCTR ELSE 0)
    BY <1>6
  <2>4. CASE GyroTakes
    <3>1. Flushed = GyroCount /\ CountTaken = GYROCTR
      BY <2>4 DEF Flushed, CountTaken
    <3> QED
      BY <1>1, <1>3, <1>4, <2>1, <2>2, <2>3, <2>4, <3>1
  <2>5. CASE ~GyroTakes
    <3>1. Flushed = 0 /\ CountTaken = GyroCount /\ Selected = OldChannel14
      BY <2>5 DEF Flushed, CountTaken, Selected
    <3> QED
      BY <1>1, <1>3, <1>4, <2>1, <2>2, <2>3, <2>5, <3>1
  <2> QED
    BY <2>4, <2>5
<1> QED
  BY <1>4, <1>5, <1>6, <1>7, <1>8 DEF GyrosKeepCount

-----------------------------------------------------------------------------
(* The other drives' part.                                                 *)

LEMMA ImuAndOpticsOK ==
  ASSUME TypeOK, DrivesKeepCount, DriveImuAndOptics
  PROVE  /\ cell' \in [Axes \cup Optics -> Word] /\ saved' \in [Axes -> Int]
         /\ ImuChannel14' \in BOOLEAN /\ lag' \in Nat
         /\ commanded' = commanded /\ sent' \in [Axes \cup Optics -> Int]
         /\ DrivesKeepCount'
<1>1. /\ channel14.drives \subseteq Axes /\ channel14.optics \subseteq Optics
      /\ Axes \cap Optics = {}
  BY DriveAssumption DEF TypeOK, Channels
<1>2. cell' \in [Axes \cup Optics -> Word]
  BY NoPulses DEF DriveImuAndOptics, TypeOK
<1>3. saved' \in [Axes -> Int]
  BY BurstIsTakenOff DEF DriveImuAndOptics, TypeOK
<1>4. ImuChannel14' \in BOOLEAN
  BY Zenon DEF DriveImuAndOptics, TypeOK
<1>5. lag' \in Nat
  <2>1. LagNow \in Nat
    BY DriveAssumption DEF LagNow, TypeOK
  <2> QED
    BY <2>1, DriveAssumption DEF DriveImuAndOptics, CoarseBurst
<1>6. ASSUME NEW d \in Axes \cup Optics
      PROVE  /\ sent'[d] \in Int
             /\ sent'[d] + (IF d \in Axes THEN saved'[d] ELSE 0) + Pulses(cell'[d])
                  = commanded[d]
  <2>1. /\ sent[d] \in Int /\ Pulses(cell[d]) \in Int /\ (d \in Axes => saved[d] \in Int)
        /\ sent[d] + (IF d \in Axes THEN saved[d] ELSE 0) + Pulses(cell[d]) = commanded[d]
    BY PulsesAreWhole DEF TypeOK, DrivesKeepCount
  <2>2. CASE d \in Axes
    <3>1. /\ sent'[d] = sent[d] + (IF CoarseBurst THEN Delta(d) ELSE 0)
          /\ saved'[d] = IF CoarseBurst THEN Left(d) ELSE saved[d]
          /\ cell'[d] = IF CoarseBurst /\ d \in channel14.drives THEN 0 ELSE cell[d]
      BY <1>1, <2>2 DEF DriveImuAndOptics, OpticsTake
    <3>2. /\ Delta(d) \in Int /\ Left(d) \in Int
          /\ Left(d) + Delta(d) = saved[d]
               + (IF d \in channel14.drives THEN Pulses(cell[d]) ELSE 0)
      BY <2>2, BurstIsTakenOff DEF Ordered
    <3>3. Pulses(cell'[d]) = IF CoarseBurst /\ d \in channel14.drives THEN 0
                             ELSE Pulses(cell[d])
      BY <3>1, NoPulses, Zenon
    <3> QED
      BY <2>1, <2>2, <3>1, <3>2, <3>3
  <2>3. CASE d \notin Axes
    <3>1. /\ sent'[d] = sent[d] + (IF OpticsTake(d) THEN Pulses(cell[d]) ELSE 0)
          /\ cell'[d] = IF OpticsTake(d) THEN 0 ELSE cell[d]
      BY <1>1, <2>3 DEF DriveImuAndOptics
    <3>2. Pulses(cell'[d]) = IF OpticsTake(d) THEN 0 ELSE Pulses(cell[d])
      BY <3>1, NoPulses, Zenon
    <3> QED
      BY <2>1, <2>3, <3>1, <3>2
  <2> QED
    BY <2>2, <2>3
<1>7. commanded' = commanded
  BY DEF DriveImuAndOptics
<1>8. sent' \in [Axes \cup Optics -> Int]
  <2>1. sent' = [d \in Axes \cup Optics |-> sent'[d]]
    BY DEF DriveImuAndOptics
  <2> QED
    BY <1>6, <2>1
<1> QED
  BY <1>2, <1>3, <1>4, <1>5, <1>6, <1>7, <1>8 DEF DrivesKeepCount

-----------------------------------------------------------------------------
LEMMA LoadOK ==
  ASSUME Account, NEW d \in Axes \cup Optics, NEW w \in Word, Load(d, w)
  PROVE  Account'
<1>1. /\ cell' = [cell EXCEPT ![d] = w]
      /\ commanded' = [commanded EXCEPT ![d] = @ + Pulses(w) - Pulses(cell[d])]
      /\ UNCHANGED <<channel14, gyroVars, saved, ImuChannel14, sent, orderVars, lag>>
  BY DEF Load
<1>2. Pulses(w) \in Int /\ \A e \in Axes \cup Optics : Pulses(cell[e]) \in Int
  BY PulsesAreWhole DEF Account, TypeOK
<1>3. TypeOK'
  BY <1>1, <1>2 DEF Account, TypeOK, gyroVars, orderVars
<1>4. ASSUME NEW e \in Axes \cup Optics
      PROVE  sent'[e] + (IF e \in Axes THEN saved'[e] ELSE 0) + Pulses(cell'[e])
               = commanded'[e]
  <2>1. /\ sent[e] \in Int /\ commanded[e] \in Int /\ (e \in Axes => saved[e] \in Int)
        /\ sent[e] + (IF e \in Axes THEN saved[e] ELSE 0) + Pulses(cell[e]) = commanded[e]
    BY DEF Account, TypeOK, DrivesKeepCount
  <2>2. /\ cell'[e] = IF e = d THEN w ELSE cell[e]
        /\ commanded'[e] = IF e = d THEN commanded[e] + Pulses(w) - Pulses(cell[e])
                           ELSE commanded[e]
    BY <1>1 DEF Account, TypeOK
  <2>3. Pulses(cell'[e]) = IF e = d THEN Pulses(w) ELSE Pulses(cell[e])
    BY <2>2, Zenon
  <2> QED
    BY <1>1, <1>2, <2>1, <2>2, <2>3
<1>5. GyrosKeepCount'
  BY <1>1 DEF Account, GyrosKeepCount, gyroVars
<1> QED
  BY <1>3, <1>4, <1>5 DEF Account, DrivesKeepCount

\* A counter that the optics count up or down holds a word.
LEMMA CountsAreWords ==
  ASSUME NEW w \in Word
  PROVE  CounterPCDU(w) \in Word /\ CounterMCDU(w) \in Word
BY HALFAssumption DEF CounterPCDU, CounterMCDU, AGC_M0, Word

LEMMA TurnOK ==
  ASSUME Account, NEW o \in Optics, Turn(o)
  PROVE  Account'
<1>1. CounterPCDU(cell[o]) \in Word /\ CounterMCDU(cell[o]) \in Word
  BY CountsAreWords DEF Account, TypeOK
<1>2. CASE Load(o, CounterPCDU(cell[o]))
  BY <1>1, <1>2, LoadOK
<1>3. CASE Load(o, CounterMCDU(cell[o]))
  BY <1>1, <1>3, LoadOK
<1> QED
  BY <1>2, <1>3 DEF Turn

LEMMA OrderOK ==
  ASSUME Account, NEW o \in Optics, NEW w \in Word, Order(o, w)
  PROVE  Account'
<1>1. Pulses(w) \in Int /\ Pulses(OPTCMD[o]) \in Int
  BY PulsesAreWhole DEF Account, TypeOK
<1>2. OPTCMD' \in [Optics -> Word] /\ ordered' \in [Optics -> Int]
  BY <1>1 DEF Order, Account, TypeOK
<1> QED
  BY <1>2 DEF Order, Account, TypeOK, DrivesKeepCount, GyrosKeepCount, gyroVars, driveVars

LEMMA StepOK ==
  ASSUME Account, [Next]_vars
  PROVE  Account'
<1>1. CASE Drives
  BY <1>1, GyrosOK, ImuAndOpticsOK DEF Account, Drives, TypeOK, orderVars
<1>2. CASE Elapse
  BY <1>2 DEF Elapse, Account, TypeOK, DrivesKeepCount, GyrosKeepCount, gyroVars, driveVars,
              orderVars
<1>3. ASSUME NEW bits \in Channels, WriteChannel14(bits)
      PROVE  Account'
  BY <1>3 DEF WriteChannel14, Account, TypeOK, DrivesKeepCount, GyrosKeepCount, gyroVars,
              driveVars, orderVars
<1>4. ASSUME NEW w \in Word, LoadGyro(w)
      PROVE  Account'
  BY <1>4 DEF LoadGyro, Account, TypeOK, DrivesKeepCount, GyrosKeepCount, driveVars,
              orderVars
<1>5. CASE UNCHANGED vars
  BY <1>5 DEF vars, Account, TypeOK, DrivesKeepCount, GyrosKeepCount, gyroVars, driveVars,
              orderVars
<1> QED
  BY <1>1, <1>2, <1>3, <1>4, <1>5, LoadOK, TurnOK, OrderOK DEF Next

\* The account of every drive balances at every moment: no sequence of
\* loads, bits, bursts and restarts loses, invents or turns round a pulse.
THEOREM PulsesAreKept == Spec => [](TypeOK /\ DrivesKeepCount /\ GyrosKeepCount)
<1>1. Init => Account
  BY InitOK
<1>2. Account /\ [Next]_vars => Account'
  BY StepOK
<1>3. Account => TypeOK /\ DrivesKeepCount /\ GyrosKeepCount
  BY DEF Account
<1> QED
  BY <1>1, <1>2, <1>3, PTL DEF Spec

\* Of these, every gyro pulse goes to the gyro that was selected for it.
THEOREM GyroPulsesAreKept == Spec => []GyrosKeepCount
BY PulsesAreKept, PTL

\* The counts, timers and saved pulses of the drives keep their ranges.
THEOREM TorqueTypes == Spec => []TypeOK
BY PulsesAreKept, PTL
=============================================================================
