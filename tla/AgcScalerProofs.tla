-------------------------- MODULE AgcScalerProofs --------------------------
(***************************************************************************)
(* Theorems about AgcScaler, and about the histories AgcTimers, AgcStandby *)
(* and MCWatchdog add to it, for every choice of the constants.            *)
(***************************************************************************)
EXTENDS AgcTimers, AgcStandby, MCWatchdog, DataLemmas, TLAPS

USE DEF Word

-----------------------------------------------------------------------------
(* The counters stay words.                                                *)

LEMMA CountersAreWords ==
  ASSUME NEW w \in Word
  PROVE  CounterPINC(w) \in Word /\ CounterDINC(w) \in Word
BY HALFAssumption, SMT
   DEF CounterPINC, CounterDINC, AGC_P0, AGC_P1, AGC_M0, AGC_M1, IsZero,
       IsNegative, AddSP16, SignExtend

LEMMA TimeNextType ==
  ASSUME TIME \in [1 .. 6 -> Word]
  PROVE  TimeNext \in [1 .. 6 -> Word]
BY CountersAreWords DEF TimeNext

LEMMA DownlinkAfterType ==
  ASSUME NEW words \in {{}, {34}, {35}}, NEW channel \in {34, 35}
  PROVE  DownlinkAfter(words, channel) \in {{}, {34}, {35}}
BY DEF DownlinkAfter

-----------------------------------------------------------------------------
(* Modular arithmetic: the phase of a divider inside a wider one.          *)

LEMMA PhaseStep ==
  ASSUME NEW M \in Nat \ {0}, NEW P \in Nat \ {0}, M % P = 0, NEW s \in 0 .. M - 1
  PROVE  ((s + 1) % M) % P = IF s % P = P - 1 THEN 0 ELSE (s % P) + 1
<1> DEFINE q == s \div P
           r == s % P
           k == M \div P
<1>1. q \in Int /\ r \in 0 .. P - 1 /\ s = P * q + r
  BY DivMod
<1>2. k \in Int /\ M = P * k
  BY DivMod
<1> HIDE DEF q, r, k
<1>3. CASE s + 1 = M
  <2>1. (s + 1) % M = 0
    BY <1>3, ModUnique
  <2>2. 0 % P = 0
    BY ModUnique
  <2>3. s = P * (k - 1) + (P - 1)
    BY <1>2, <1>3
  <2>4. s % P = P - 1
    BY <2>3, <1>2, ModUnique
  <2> QED
    BY <2>1, <2>2, <2>4
<1>4. CASE s + 1 < M
  <2>1. (s + 1) % M = s + 1
    BY <1>4, ModUnique
  <2>2. CASE r = P - 1
    <3>1. s + 1 = P * (q + 1) + 0
      BY <1>1, <2>2
    <3>2. (s + 1) % P = 0
      BY <3>1, <1>1, ModUnique
    <3> QED
      BY <2>1, <2>2, <3>2 DEF r
  <2>3. CASE r < P - 1
    <3>1. s + 1 = P * q + (r + 1) /\ r + 1 \in 0 .. P - 1
      BY <1>1, <2>3
    <3>2. (s + 1) % P = r + 1
      BY <3>1, <1>1, ModUnique
    <3> QED
      BY <2>1, <2>3, <3>2 DEF r
  <2> QED
    BY <1>1, <2>2, <2>3
<1> QED
  BY <1>3, <1>4

-----------------------------------------------------------------------------
(* What the phases have to do with each other.                             *)

LEMMA ScalerType ==
  ASSUME TypeOK
  PROVE  Scaler \in 0 .. ScalerModulus - 1
<1>1. SCALER1 + 1 \in Int /\ ScalerModulus \in Nat \ {0}
  BY PeriodAssumption DEF TypeOK
<1> QED
  BY <1>1, DivMod DEF Scaler

LEMMA DividerOfDivider ==
  ASSUME NEW a \in Nat \ {0}, NEW b \in Nat \ {0}, NEW x \in Int,
         a % b = 0, x % a = 0
  PROVE  x % b = 0
<1> DEFINE k == a \div b
           j == x \div a
<1>1. k \in Int /\ a = b * k
  BY DivMod
<1>2. j \in Int /\ x = a * j
  BY DivMod
<1> HIDE DEF k, j
<1> DEFINE q == k * j
<1>3. q \in Int /\ x = b * q + 0
  BY <1>1, <1>2
<1> HIDE DEF q
<1> QED
  BY <1>3, ModUnique

LEMMA HalfIsMultiple ==
  ASSUME NEW a \in Nat \ {0}, NEW b \in Nat \ {0}, a % (2 * b) = 0
  PROVE  a % b = 0 /\ a \div 2 \in Nat \ {0} /\ (a \div 2) % b = 0
<1> DEFINE c == 2 * b
           k == a \div c
<1>1. c \in Nat \ {0} /\ a % c = 0
  OBVIOUS
<1>2. c = 2 * b
  OBVIOUS
<1> HIDE DEF c
<1>3. k \in Int /\ a = c * k
  BY <1>1, DivMod
<1> HIDE DEF k
<1> DEFINE half == b * k
           k2 == 2 * k
<1>4. half \in Int /\ half = b * k + 0 /\ k2 \in Int
  BY <1>3
<1>5. a = 2 * half /\ a = b * k2 + 0
  BY <1>2, <1>3, <1>4
<1> HIDE DEF half, k2
<1>6. a % b = 0
  BY <1>4, <1>5, ModUnique, SMTT(30)
<1>7. a \div 2 = half /\ half \in Nat \ {0}
  BY <1>4, <1>5
<1>8. half % b = 0
  BY <1>3, <1>4, ModUnique
<1> QED
  BY <1>6, <1>7, <1>8

LEMMA TcDivides ==
  /\ TcPeriod \in Nat \ {0} /\ ScalerModulus \in Nat \ {0}
  /\ ScalerModulus % TcPeriod = 0
  /\ NightPeriod \div 2 \in Nat \ {0}
  /\ NightPeriod % TcPeriod = 0
  /\ (NightPeriod \div 2) % TcPeriod = 0
<1>1. /\ TcPeriod \in Nat \ {0} /\ ScalerModulus \in Nat \ {0}
      /\ RuptPeriod \in Nat \ {0} /\ NightPeriod \in Nat \ {0}
      /\ NightPeriod \in Int /\ ScalerModulus \in Int
  BY PeriodAssumption
<1> DEFINE half == NightPeriod \div 2
<1>2. RuptPeriod % TcPeriod = 0
  BY PeriodAssumption, <1>1, HalfIsMultiple
<1>3. NightPeriod % RuptPeriod = 0 /\ half \in Nat \ {0} /\ half % RuptPeriod = 0
  BY PeriodAssumption, <1>1, HalfIsMultiple
<1> HIDE DEF half
<1>4. NightPeriod % TcPeriod = 0
  BY <1>1, <1>2, <1>3, DividerOfDivider, Zenon
<1>5. half \in Int /\ half % TcPeriod = 0
  <2>1. half \in Int
    BY <1>3
  <2> QED
    BY <2>1, <1>1, <1>2, <1>3, DividerOfDivider, Zenon
<1>6. ScalerModulus % NightPeriod = 0
  BY PeriodAssumption
<1>7. ScalerModulus % TcPeriod = 0
  BY <1>1, <1>4, <1>6, DividerOfDivider, Zenon
<1> QED
  BY <1>1, <1>3, <1>4, <1>5, <1>7 DEF half

LEMMA SamePhase ==
  ASSUME NEW a \in Nat \ {0}, NEW b \in Nat \ {0}, NEW x \in Int, NEW h \in Int,
         a % b = 0, h % b = 0, x % a = h
  PROVE  x % b = 0
<1> DEFINE k == a \div b
           l == h \div b
           j == x \div a
<1>1. k \in Int /\ a = b * k
  BY DivMod
<1>2. l \in Int /\ h = b * l
  BY DivMod
<1>3. j \in Int /\ x = a * j + h
  BY DivMod
<1> HIDE DEF k, l, j
<1> DEFINE q == k * j + l
<1>4. q \in Int /\ x = b * q + 0
  BY <1>1, <1>2, <1>3
<1> HIDE DEF q
<1> QED
  BY <1>4, ModUnique

\* The phase of a pass in the TC trap's period; standby begins at phase 0.
LEMMA ScalerPhase ==
  ASSUME TypeOK
  PROVE  /\ Scaler % TcPeriod = IF SCALER1 % TcPeriod = TcPeriod - 1 THEN 0
                                ELSE (SCALER1 % TcPeriod) + 1
         /\ NightBegins => Scaler % TcPeriod = 0
         /\ SCALER1 % TcPeriod \in 0 .. TcPeriod - 1
<1>1. SCALER1 \in 0 .. ScalerModulus - 1 /\ SCALER1 \in Int
  BY TcDivides DEF TypeOK
<1>2. (Scaler % TcPeriod) = IF SCALER1 % TcPeriod = TcPeriod - 1 THEN 0
                            ELSE (SCALER1 % TcPeriod) + 1
  BY <1>1, TcDivides, PhaseStep, Zenon DEF Scaler
<1>3. ASSUME NightBegins PROVE Scaler % TcPeriod = 0
  <2> DEFINE half == NightPeriod \div 2
  <2>1. Scaler \in Int /\ half \in Int /\ NightPeriod \in Nat \ {0}
    BY ScalerType, TcDivides, PeriodAssumption
  <2>2. Scaler % NightPeriod = half
    BY <1>3 DEF NightBegins, At
  <2>3. half % TcPeriod = 0
    BY TcDivides
  <2> HIDE DEF half
  <2> QED
    BY <2>1, <2>2, <2>3, TcDivides, SamePhase, Zenon
<1>4. SCALER1 % TcPeriod \in 0 .. TcPeriod - 1
  BY <1>1, TcDivides, DivMod
<1> QED
  BY <1>2, <1>3, <1>4

-----------------------------------------------------------------------------
(* The type invariant: the code's bit fields hold what they must.          *)

LEMMA FilterNextType ==
  ASSUME TypeOK
  PROVE  FilterNext \in 0 .. WARNING_FILTER_MAX
BY FilterAssumption DEF TypeOK, FilterNext, FilterUp

\* A pass never owes more than seven cycles after its own.
LEMMA DelayNextType == DelayNext \in 0 .. 7
<1> DEFINE t1 == IF Time1Counts THEN 2 ELSE 0
           t2 == IF Time2Counts THEN 1 ELSE 0
           t4 == IF Time4Counts THEN 1 ELSE 0
           t5 == IF Time5Counts THEN 1 ELSE 0
           t6 == IF Time6Counts THEN 1 ELSE 0
           g == IF Gojam THEN 2 ELSE 0
<1>1. t1 \in 0 .. 2 /\ t2 \in 0 .. 1 /\ t4 \in 0 .. 1 /\ t5 \in 0 .. 1
      /\ t6 \in 0 .. 1 /\ g \in 0 .. 2
  OBVIOUS
<1>2. DelayNext = LET owed == (t1 + t2 + t4 + t5 + t6) + g
                  IN  IF owed = 0 THEN 0 ELSE owed - 1
  BY DEF DelayNext, TickDelay
<1> HIDE DEF t1, t2, t4, t5, t6, g
<1> QED
  BY <1>1, <1>2

LEMMA RadarNextType ==
  ASSUME TypeOK, RadarGateBounded
  PROVE  RadarNext \in 0 .. 15 /\ RadarNext <= RadarGates
<1>1. CASE RadarCounts
  <2>1. Scaler % TcPeriod = 0
    BY <1>1 DEF RadarCounts, Time5Counts, At
  <2>2. SCALER1 % TcPeriod = TcPeriod - 1
    BY <2>1, ScalerPhase, TcDivides
  <2>3. RadarGateCounter # RadarGates
    BY <2>2, TcDivides DEF RadarGateBounded
  <2> QED
    BY <2>3, RadarAssumption DEF RadarNext, RadarGateBounded, TypeOK
<1>2. CASE ~RadarCounts
  BY <1>2, RadarAssumption DEF RadarNext, RadarGateBounded, TypeOK
<1> QED
  BY <1>1, <1>2

LEMMA TickType ==
  ASSUME TypeOK, RadarGateBounded, Tick
  PROVE  TypeOK'
<1>1. SCALER1' \in 0 .. ScalerModulus - 1
  BY ScalerType DEF Tick
<1>2. TIME' \in [1 .. 6 -> Word]
  BY TimeNextType DEF Tick, TypeOK
<1>3. /\ Standby' \in BOOLEAN /\ SbyPressed' \in BOOLEAN
      /\ SbyStillPressed' \in BOOLEAN /\ proDown' \in BOOLEAN
  BY DEF Tick, TypeOK, StandbyNext, Pressed, StillPressed
<1>4. /\ NightWatchman' \in BOOLEAN /\ NightWatchmanTripped' \in BOOLEAN
      /\ RuptLock' \in BOOLEAN /\ NoRupt' \in BOOLEAN
      /\ TCTrap' \in BOOLEAN /\ NoTC' \in BOOLEAN
  <2>1. NightAlarm \in BOOLEAN
    BY DEF NightAlarm, TypeOK
  <2> QED
    BY <2>1 DEF Tick, TypeOK
<1>5. ParityFail' \in BOOLEAN /\ GeneratedWarning' \in BOOLEAN
  BY DEF Tick, TypeOK
<1>6. InIsr' \in BOOLEAN /\ AllowInterrupt' \in BOOLEAN /\ DownruptTimeValid' \in BOOLEAN
  BY DEF Tick, TypeOK, downVars
<1>7. WarningFilter' \in 0 .. WARNING_FILTER_MAX
  BY FilterNextType DEF Tick
<1>8. channel13' \subseteq Ch13Bits /\ channel77' \subseteq Alarms
  BY DEF Tick, TypeOK, NewAlarms
<1>9. armed' \subseteq Traps /\ handActive' \subseteq Traps
  BY DEF Tick, TypeOK
<1>10. RadarGateCounter' \in 0 .. 15
  BY RadarNextType DEF Tick
<1>11. InterruptRequests' \subseteq Interrupts
  BY DEF Tick, TypeOK, TickRequests
<1>12. ExtraDelay' \in 0 .. 7
  BY DelayNextType DEF Tick
<1>13. Downlink' \in {{}, {34}, {35}}
  BY DownlinkAfterType, ZenonT(60) DEF Tick, TypeOK, downVars
<1> QED
  BY <1>1, <1>2, <1>3, <1>4, <1>5, <1>6, <1>7, <1>8, <1>9, <1>10, <1>11, <1>12,
     <1>13 DEF TypeOK

LEMMA ProgramType ==
  ASSUME TypeOK, Program
  PROVE  TypeOK'
<1> USE DEF TypeOK, CanExecute, SeePro, FeedWatchdogs, clockVars, faultVars,
            channelVars, handVars, ruptVars, downVars, Pressed, StillPressed
<1>1. CASE \E kind \in Kinds, touch \in Touches : Execute(kind, touch)
  BY <1>1 DEF Execute
<1>2. CASE ParityError
  BY <1>2 DEF ParityError, Alarms
<1>3. CASE \E bits \in SUBSET (Ch13Bits \cap Ops), traps \in SUBSET (Traps \cap Ops) :
             WriteChannel13(bits, traps)
  BY <1>3 DEF WriteChannel13
<1>4. CASE WriteChannel77
  BY <1>4 DEF WriteChannel77, Channel77Kept, Alarms
<1>5. CASE \E w \in TimerWrites : WriteTime6(w)
  <2>1. PICK w \in TimerWrites : WriteTime6(w)
    BY <1>5
  <2>2. TIME' \in [1 .. 6 -> Word]
    BY <2>1, SwitchAssumption DEF WriteTime6
  <2> QED
    BY <2>1, <2>2 DEF WriteTime6
<1>6. CASE \E allow \in BOOLEAN : SetAllowInterrupt(allow)
  BY <1>6 DEF SetAllowInterrupt
<1>7. CASE TakeInterrupt
  BY <1>7 DEF TakeInterrupt
<1>8. CASE Resume
  BY <1>8, ZenonT(60) DEF Resume
<1>9. CASE \E channel \in {34, 35} : WriteDownlink(channel)
  <2>1. PICK channel \in {34, 35} : WriteDownlink(channel)
    BY <1>9
  <2>2. Downlink' \in {{}, {34}, {35}}
    BY <2>1, DownlinkAfterType DEF WriteDownlink
  <2> QED
    BY <2>1, <2>2 DEF WriteDownlink
<1> QED
  BY <1>1, <1>2, <1>3, <1>4, <1>5, <1>6, <1>7, <1>8, <1>9
     DEF Program, ProgramBesidesDownlink

LEMMA WorldType ==
  ASSUME TypeOK, World
  PROVE  TypeOK'
<1> USE DEF TypeOK, clockVars, standbyVars, watchVars, faultVars, channelVars, handVars,
            ruptVars, downVars
<1>1. CASE MovePro
  BY <1>1 DEF MovePro
<1>2. CASE \E input \in Traps \cap Ops : MoveHandController(input)
  <2>1. PICK input \in Traps \cap Ops : MoveHandController(input)
    BY <1>2
  <2>2. handActive' \subseteq Traps
    BY <2>1 DEF MoveHandController
  <2> QED
    BY <2>1, <2>2 DEF MoveHandController
<1>3. CASE \E i \in {5, 7} : InputRupt(i)
  BY <1>3 DEF InputRupt, Interrupts
<1>4. CASE Downrupt
  <2>1. InterruptRequests' = InterruptRequests \cup {8} /\ 8 \in Interrupts
    BY <1>4 DEF Downrupt, Interrupts
  <2>2. InterruptRequests' \subseteq Interrupts
    BY <2>1
  <2>3. /\ UNCHANGED <<clockVars, standbyVars, proDown, watchVars, faultVars, channelVars,
                       handVars, RadarGateCounter, InIsr, AllowInterrupt, Downlink>>
        /\ DownruptTimeValid' \in BOOLEAN
    BY <1>4, Zenon DEF Downrupt
  <2> QED
    BY <2>2, <2>3
<1> QED
  BY <1>1, <1>2, <1>3, <1>4, Zenon DEF World

\* A machine made of a core dump keeps every invariant: what no dump holds is
\* forgotten, and the rest is one of the states the old machine may be in.
LEMMA RestoredKeeps ==
  ASSUME TypeOK, Restored
  PROVE  /\ TypeOK' /\ RadarGateBounded'
         /\ TrippedIsLatched' /\ StandbyHoldsRestartState'
<1>1. Forgotten
  BY DEF Restored, ResumeCoreDump, StartFromErasable
<1>2. /\ Standby' \in BOOLEAN /\ SbyPressed' \in BOOLEAN /\ SbyStillPressed' \in BOOLEAN
      /\ NightWatchman' \in BOOLEAN /\ NightWatchmanTripped' \in BOOLEAN
      /\ RuptLock' \in BOOLEAN /\ NoRupt' \in BOOLEAN
      /\ TCTrap' \in BOOLEAN /\ NoTC' \in BOOLEAN
      /\ ParityFail' \in BOOLEAN /\ GeneratedWarning' \in BOOLEAN
  BY <1>1, Zenon DEF Forgotten
<1>3. /\ WarningFilter' \in 0 .. WARNING_FILTER_MAX
      /\ armed' \subseteq Traps /\ RadarGateCounter' \in 0 .. 15
  BY <1>1, FilterAssumption DEF Forgotten
<1>4. /\ SCALER1' \in 0 .. ScalerModulus - 1 /\ TIME' \in [1 .. 6 -> Word]
      /\ ExtraDelay' \in 0 .. 7 /\ channel13' \subseteq Ch13Bits
      /\ channel77' \subseteq Alarms /\ handActive' \subseteq Traps
      /\ Downlink' \in {{}, {34}, {35}}
  BY PeriodAssumption DEF Restored, ResumeCoreDump, StartFromErasable, TypeOK, clockVars,
     channelVars, downVars
<1>5. InterruptRequests' \subseteq Interrupts
  <2>1. 8 \in Interrupts /\ InterruptRequests \subseteq Interrupts
    BY DEF Interrupts, TypeOK
  <2>2. InterruptRequests' \subseteq InterruptRequests \cup {8}
    BY DEF Restored, ResumeCoreDump, RequestsAfterDump, StartFromErasable
  <2> QED
    BY <2>1, <2>2
<1>6. /\ proDown' \in BOOLEAN /\ InIsr' \in BOOLEAN /\ AllowInterrupt' \in BOOLEAN
      /\ DownruptTimeValid' \in BOOLEAN
  <2>1. CASE ResumeCoreDump
    BY <2>1 DEF ResumeCoreDump, TypeOK, downVars
  <2>2. CASE StartFromErasable
    BY <2>2, Zenon DEF StartFromErasable
  <2> QED
    BY <2>1, <2>2 DEF Restored
<1>7. TypeOK'
  BY <1>2, <1>3, <1>4, <1>5, <1>6 DEF TypeOK
<1>8. RadarGateBounded'
  BY <1>1, RadarAssumption DEF Forgotten, RadarGateBounded
<1> QED
  BY <1>1, <1>7, <1>8 DEF Forgotten, TrippedIsLatched, StandbyHoldsRestartState

-----------------------------------------------------------------------------
(* The radar gate.                                                         *)

LEMMA TickRadar ==
  ASSUME TypeOK, RadarGateBounded, Tick
  PROVE  RadarGateBounded'
<1> DEFINE phase == SCALER1 % TcPeriod
           next == Scaler % TcPeriod
<1>1. /\ phase \in 0 .. TcPeriod - 1
      /\ next = IF phase = TcPeriod - 1 THEN 0 ELSE phase + 1
      /\ NightBegins => next = 0
  BY ScalerPhase
<1>2. (SCALER1 % TcPeriod)' = next /\ RadarGateCounter' = RadarNext
      /\ Standby' = StandbyNext
  BY DEF Tick
<1>3. RadarCounts => next = 0
  BY DEF RadarCounts, Time5Counts, At
<1>4. RadarCycleEnds <=> /\ Running /\ RadarGateCounter = RadarGates
                         /\ next = TcPeriod - 2
  BY DEF RadarCycleEnds, At
<1>5. /\ TcPeriod \in Nat /\ TcPeriod >= 8 /\ RadarGates \in 1 .. 15
      /\ RadarGateCounter \in 0 .. 15
      /\ RadarGateCounter = RadarGates => phase < TcPeriod - 2
      /\ Standby => RadarGateCounter # RadarGates
  <2>1. TcPeriod \in Nat /\ TcPeriod >= 8 /\ RadarGates \in 1 .. 15
    BY PeriodAssumption, RadarAssumption
  <2>2. RadarGateCounter \in 0 .. 15
    BY DEF TypeOK
  <2>3. /\ RadarGateCounter = RadarGates => phase < TcPeriod - 2
        /\ Standby => RadarGateCounter # RadarGates
    BY <2>1, <2>2 DEF RadarGateBounded
  <2> QED
    BY <2>1, <2>2, <2>3, Zenon
<1> HIDE DEF phase, next
<1>6. RadarNext <= RadarGates
  BY RadarNextType
<1>7. ASSUME RadarNext = RadarGates PROVE next < TcPeriod - 2
  <2>1. CASE RadarCounts
    BY <2>1, <1>3, <1>5
  <2>2. CASE ~RadarCounts
    <3>1. RadarGateCounter = RadarGates /\ ~RadarCycleEnds
      BY <2>2, <1>7, <1>5 DEF RadarNext
    <3>2. Running
      <4>1. SUFFICES ASSUME StandbyNext PROVE FALSE
        BY DEF Running
      <4>2. EntersStandby
        BY <4>1, <3>1, <1>5 DEF StandbyNext
      <4>3. next = 0
        BY <4>2, <1>1 DEF EntersStandby
      <4> QED
        BY <4>3, <1>1, <1>5, <3>1
    <3> QED
      BY <3>1, <3>2, <1>1, <1>4, <1>5
  <2> QED
    BY <2>1, <2>2
<1>8. ASSUME StandbyNext PROVE RadarNext # RadarGates
  <2>1. ~RadarCounts /\ ~RadarCycleEnds
    BY <1>8 DEF RadarCounts, RadarCycleEnds, Time5Counts, Running
  <2>2. RadarNext = RadarGateCounter
    BY <2>1 DEF RadarNext
  <2>3. CASE Standby
    BY <2>2, <2>3, <1>5
  <2>4. CASE EntersStandby
    <3>1. next = 0
      BY <2>4, <1>1 DEF EntersStandby
    <3> QED
      BY <3>1, <2>2, <1>1, <1>5
  <2> QED
    BY <1>8, <2>3, <2>4 DEF StandbyNext
<1> QED
  BY <1>2, <1>6, <1>7, <1>8 DEF RadarGateBounded

LEMMA OtherwiseRadar ==
  ASSUME RadarGateBounded, Delay \/ Idle \/ Program \/ World \/ UNCHANGED vars
  PROVE  RadarGateBounded'
<1>1. UNCHANGED <<SCALER1, Standby, RadarGateCounter>>
  <2> USE DEF vars, clockVars, standbyVars
  <2>1. CASE Delay
    BY <2>1 DEF Delay
  <2>2. CASE Idle
    BY <2>2 DEF Idle
  <2>3. CASE Program
    BY <2>3 DEF Program, ProgramBesidesDownlink, Execute, ParityError, WriteChannel13,
       WriteChannel77, WriteTime6, SetAllowInterrupt, TakeInterrupt, Resume,
       WriteDownlink
  <2>4. CASE World
    BY <2>4 DEF World, MovePro, MoveHandController, InputRupt, Downrupt
  <2>5. CASE UNCHANGED vars
    BY <2>5
  <2> QED
    BY <2>1, <2>2, <2>3, <2>4, <2>5
<1> QED
  BY <1>1 DEF RadarGateBounded

-----------------------------------------------------------------------------
(* The latch of channel 77 and the state standby keeps.                    *)

LEMMA StepTripped ==
  ASSUME TypeOK, TrippedIsLatched, [Next]_vars
  PROVE  TrippedIsLatched'
<1> USE DEF TrippedIsLatched
<1>1. CASE Tick
  BY <1>1 DEF Tick, NewAlarms, Alarms
<1>2. CASE WriteChannel77
  BY <1>2 DEF WriteChannel77, Channel77Kept
<1>3. CASE ParityError
  BY <1>3 DEF ParityError
<1>4. CASE /\ Delay \/ Idle \/ Program \/ World \/ UNCHANGED vars
           /\ ~WriteChannel77 /\ ~ParityError
  <2>1. UNCHANGED <<NightWatchmanTripped, channel77>>
    <3> USE DEF vars, watchVars, channelVars
    <3>1. CASE Delay \/ Idle \/ UNCHANGED vars
      BY <3>1 DEF Delay, Idle
    <3>2. CASE Program
      BY <1>4, <3>2 DEF Program, ProgramBesidesDownlink, Execute, WriteChannel13,
         WriteTime6, SetAllowInterrupt, TakeInterrupt, Resume, WriteDownlink
    <3>3. CASE World
      BY <3>3 DEF World, MovePro, MoveHandController, InputRupt, Downrupt
    <3> QED
      BY <1>4, <3>1, <3>2, <3>3
  <2> QED
    BY <2>1
<1>5. CASE Restored
  BY <1>5, RestoredKeeps
<1> QED
  BY <1>1, <1>2, <1>3, <1>4, <1>5 DEF Next

\* In standby nothing counts, nothing springs and nothing ends.
LEMMA StandbyTick ==
  ASSUME StandbyNext
  PROVE  TickRequests = {} /\ Springing = {} /\ ~RadarCycleEnds /\ ~Time6Ends
<1>1. ~Running
  BY DEF Running
<1>2. /\ ~Time6Counts /\ ~Time5Counts /\ ~Time4Counts /\ ~Time1Counts
      /\ ~RadarCycleEnds /\ Springing = {}
  BY <1>1 DEF Time6Counts, Time5Counts, Time4Counts, Time1Counts, RadarCycleEnds, Springing
<1> QED
  BY <1>2 DEF TickRequests, Time6Ends

LEMMA StepStandby ==
  ASSUME TypeOK, StandbyHoldsRestartState, [Next]_vars
  PROVE  StandbyHoldsRestartState'
<1> SUFFICES ASSUME Standby', ~InhibitAlarms
             PROVE  /\ ~InIsr' /\ AllowInterrupt'
                    /\ armed' = {} /\ channel13' = {}
                    /\ InterruptRequests' \subseteq {5, 7}
                    /\ ~DownruptTimeValid'
  BY DEF StandbyHoldsRestartState
<1>1. CASE Tick
  <2>1. StandbyNext
    BY <1>1 DEF Tick
  <2>2. CASE Gojam
    BY <1>1, <2>2 DEF Tick
  <2>3. CASE ~Gojam
    <3>1. Standby
      BY <2>1, <2>3 DEF Gojam, TriggeredAlarm, StandbyNext
    <3>2. /\ ~InIsr /\ AllowInterrupt /\ armed = {} /\ channel13 = {}
          /\ InterruptRequests \subseteq {5, 7} /\ ~DownruptTimeValid
      BY <3>1 DEF StandbyHoldsRestartState
    <3>3. /\ TickRequests = {} /\ Springing = {} /\ ~RadarCycleEnds /\ ~Time6Ends
      BY <2>1, StandbyTick
    <3>4. /\ InterruptRequests' = InterruptRequests \cup TickRequests
          /\ armed' = armed \ Springing
          /\ channel13' = channel13 \ ((IF Time6Ends THEN {"TIME6"} ELSE {})
                                        \cup (IF RadarCycleEnds THEN {"RADAR"} ELSE {}))
          /\ UNCHANGED <<InIsr, AllowInterrupt, DownruptTimeValid>>
      BY <1>1, <2>3 DEF Tick, downVars
    <3> QED
      BY <3>2, <3>3, <3>4
  <2> QED
    BY <2>2, <2>3
<1>2. CASE Delay \/ Idle \/ World \/ UNCHANGED vars
  <2>1. Standby
    BY <1>2 DEF Delay, Idle, World, MovePro, MoveHandController, InputRupt, Downrupt,
       vars, standbyVars
  <2>2. /\ ~InIsr /\ AllowInterrupt /\ armed = {} /\ channel13 = {}
        /\ InterruptRequests \subseteq {5, 7} /\ ~DownruptTimeValid
    BY <2>1 DEF StandbyHoldsRestartState
  <2>3. UNCHANGED <<InIsr, AllowInterrupt, armed, channel13, DownruptTimeValid>>
    BY <1>2, <2>2 DEF Delay, Idle, World, MovePro, MoveHandController, InputRupt,
       Downrupt, vars, ruptVars, handVars, channelVars, downVars
  <2>4. InterruptRequests' \subseteq InterruptRequests \cup {5, 7}
    BY <1>2, <2>2 DEF Delay, Idle, World, MovePro, MoveHandController, InputRupt,
       Downrupt, vars, ruptVars
  <2> QED
    BY <2>2, <2>3, <2>4
<1>3. CASE Program
  \* The program does not run in standby, nor can it begin it.
  BY <1>3 DEF Program, ProgramBesidesDownlink, CanExecute, Execute, ParityError,
     WriteChannel13, WriteChannel77, WriteTime6, SetAllowInterrupt, TakeInterrupt,
     Resume, WriteDownlink
<1>4. CASE Restored
  BY <1>4, RestoredKeeps DEF StandbyHoldsRestartState
<1> QED
  BY <1>1, <1>2, <1>3, <1>4 DEF Next

-----------------------------------------------------------------------------
(* The theorems.  TypeOK and RadarGateBounded are one inductive invariant: *)
(* the gate counter fits its four bits because its cycle always ends.      *)

LEMMA InitOK == Init => /\ TypeOK /\ RadarGateBounded
                        /\ TrippedIsLatched /\ StandbyHoldsRestartState
<1> SUFFICES ASSUME Init PROVE /\ TypeOK /\ RadarGateBounded
                               /\ TrippedIsLatched /\ StandbyHoldsRestartState
  OBVIOUS
<1>1. 0 \in 0 .. ScalerModulus - 1 /\ AGC_P0 \in Word
  BY PeriodAssumption, HALFAssumption DEF AGC_P0
<1>2. TypeOK
  <2>1. TIME \in [1 .. 6 -> Word]
    BY <1>1 DEF Init
  <2>2. WarningFilter \in 0 .. WARNING_FILTER_MAX
    BY FilterAssumption DEF Init
  <2>3. /\ Standby \in BOOLEAN /\ SbyPressed \in BOOLEAN /\ SbyStillPressed \in BOOLEAN
        /\ proDown \in BOOLEAN /\ NightWatchman \in BOOLEAN
        /\ NightWatchmanTripped \in BOOLEAN /\ RuptLock \in BOOLEAN
        /\ NoRupt \in BOOLEAN /\ TCTrap \in BOOLEAN /\ NoTC \in BOOLEAN
        /\ ParityFail \in BOOLEAN /\ GeneratedWarning \in BOOLEAN
        /\ InIsr \in BOOLEAN /\ AllowInterrupt \in BOOLEAN
        /\ DownruptTimeValid \in BOOLEAN
    BY Zenon DEF Init
  <2> QED
    BY <1>1, <2>1, <2>2, <2>3 DEF Init, TypeOK, Interrupts
<1>3. RadarGateBounded
  BY RadarAssumption DEF Init, RadarGateBounded
<1> QED
  BY <1>2, <1>3 DEF Init, TrippedIsLatched, StandbyHoldsRestartState

\* The fields of the engine keep their ranges, the bit fields ExtraDelay and
\* RadarGateCounter included, and the radar gate counter never outlives its
\* cycle, whatever the periods of the scaler.
THEOREM TypesAndRadar == Spec => [](TypeOK /\ RadarGateBounded)
<1>1. Init => TypeOK /\ RadarGateBounded
  BY InitOK
<1>2. TypeOK /\ RadarGateBounded /\ [Next]_vars => (TypeOK /\ RadarGateBounded)'
  <2> SUFFICES ASSUME TypeOK, RadarGateBounded, [Next]_vars
               PROVE  TypeOK' /\ RadarGateBounded'
    OBVIOUS
  <2>1. CASE Tick
    BY <2>1, TickType, TickRadar
  <2>2. CASE Delay \/ Idle \/ Program \/ World \/ UNCHANGED vars
    <3>1. RadarGateBounded'
      BY <2>2, OtherwiseRadar
    <3>2. CASE Delay \/ Idle \/ UNCHANGED vars
      BY <3>1, <3>2 DEF Delay, Idle, SeePro, Pressed, StillPressed, TypeOK, vars,
         clockVars, standbyVars, watchVars, faultVars, channelVars, handVars, ruptVars,
         downVars
    <3> QED
      BY <2>2, <3>1, <3>2, ProgramType, WorldType
  <2>3. CASE Restored
    BY <2>3, RestoredKeeps
  <2> QED
    BY <2>1, <2>2, <2>3 DEF Next
<1> QED
  BY <1>1, <1>2, PTL DEF Spec

\* The Night Watchman's bit of channel 77 cannot be cleared early.
THEOREM NightWatchmanLatched == Spec => []TrippedIsLatched
<1>1. Init => TrippedIsLatched
  BY InitOK
<1>2. TypeOK /\ TrippedIsLatched /\ [Next]_vars => TrippedIsLatched'
  BY StepTripped
<1>3. Spec => [](TypeOK /\ RadarGateBounded)
  BY TypesAndRadar
<1> QED
  BY <1>1, <1>2, <1>3, PTL DEF Spec

\* Standby keeps the state the restart left, for as long as it lasts.
THEOREM StandbyKeepsRestart == Spec => []StandbyHoldsRestartState
<1>1. Init => StandbyHoldsRestartState
  BY InitOK
<1>2. TypeOK /\ StandbyHoldsRestartState /\ [Next]_vars => StandbyHoldsRestartState'
  BY StepStandby
<1>3. Spec => [](TypeOK /\ RadarGateBounded)
  BY TypesAndRadar
<1> QED
  BY <1>1, <1>2, <1>3, PTL DEF Spec

-----------------------------------------------------------------------------
(* The requests.                                                           *)

\* There is a most urgent one among any requests.
LEMMA LeastRequest ==
  ASSUME InterruptRequests \subseteq Interrupts, InterruptRequests # {}
  PROVE  /\ FirstRequest \in InterruptRequests
         /\ \A j \in InterruptRequests : FirstRequest <= j
<1>1. \E i \in InterruptRequests : \A j \in InterruptRequests : i <= j
  <2> SUFFICES ASSUME \A i \in InterruptRequests : \E j \in InterruptRequests : ~(i <= j)
               PROVE  FALSE
    OBVIOUS
  <2> USE DEF Interrupts
  <2>1. 1 \notin InterruptRequests
    OBVIOUS
  <2>2. 2 \notin InterruptRequests
    BY <2>1
  <2>3. 3 \notin InterruptRequests
    BY <2>1, <2>2
  <2>4. 4 \notin InterruptRequests
    BY <2>1, <2>2, <2>3
  <2>5. 5 \notin InterruptRequests
    BY <2>1, <2>2, <2>3, <2>4
  <2>6. 6 \notin InterruptRequests
    BY <2>1, <2>2, <2>3, <2>4, <2>5
  <2>7. 7 \notin InterruptRequests
    BY <2>1, <2>2, <2>3, <2>4, <2>5, <2>6
  <2>8. 8 \notin InterruptRequests
    BY <2>1, <2>2, <2>3, <2>4, <2>5, <2>6, <2>7
  <2>9. 9 \notin InterruptRequests
    BY <2>1, <2>2, <2>3, <2>4, <2>5, <2>6, <2>7, <2>8
  <2>10. 10 \notin InterruptRequests
    BY <2>1, <2>2, <2>3, <2>4, <2>5, <2>6, <2>7, <2>8, <2>9
  <2>11. PICK i \in InterruptRequests : TRUE
    OBVIOUS
  <2>12. i \in 1 .. 10
    BY <2>11
  <2>13. i \in {1, 2, 3, 4, 5, 6, 7, 8, 9, 10}
    BY <2>12
  <2> QED
    BY <2>1, <2>2, <2>3, <2>4, <2>5, <2>6, <2>7, <2>8, <2>9, <2>10, <2>11, <2>13, Zenon
<1> QED
  BY <1>1, Zenon DEF FirstRequest, Min

LEMMA StepRequests ==
  ASSUME TypeOK, [Next]_vars
  PROVE  [\A i \in InterruptRequests \ InterruptRequests' : MayGo(i)]_vars
<1> SUFFICES ASSUME NEW i \in InterruptRequests \ InterruptRequests'
             PROVE  MayGo(i)
  OBVIOUS
<1>1. CASE Tick
  <2>1. Gojam
    BY <1>1 DEF Tick
  <2>2. SCALER1' # SCALER1
    <3> DEFINE phase == SCALER1 % TcPeriod
    <3>1. TcPeriod \in Nat /\ TcPeriod >= 8 /\ phase \in 0 .. TcPeriod - 1
      BY PeriodAssumption, ScalerPhase
    <3>2. Scaler % TcPeriod = IF phase = TcPeriod - 1 THEN 0 ELSE phase + 1
      BY ScalerPhase
    <3> HIDE DEF phase
    <3>3. Scaler % TcPeriod # phase
      BY <3>1, <3>2
    <3> QED
      BY <1>1, <3>3, Zenon DEF Tick, phase
  <2> QED
    BY <1>1, <2>1, <2>2 DEF Tick, MayGo
<1>2. CASE TakeInterrupt
  <2>1. /\ InterruptRequests # {} /\ InterruptRequests \subseteq Interrupts
        /\ InterruptRequests' = InterruptRequests \ {FirstRequest} /\ ~InIsr /\ InIsr'
    BY <1>2 DEF TakeInterrupt, TypeOK
  <2>2. i = FirstRequest
    BY <2>1
  <2> QED
    BY <2>1, <2>2, LeastRequest DEF MayGo
<1>3. CASE Restored
  BY <1>3 DEF Restored, ResumeCoreDump, RequestsAfterDump, MayGo
<1>4. CASE (Delay \/ Idle \/ Program \/ World \/ UNCHANGED vars) /\ ~TakeInterrupt
  \* Nothing else withdraws a request.
  <2>1. CASE Delay \/ Idle \/ UNCHANGED vars
    BY <2>1 DEF Delay, Idle, vars, ruptVars
  <2>2. CASE Program
    BY <1>4, <2>2 DEF Program, ProgramBesidesDownlink, Execute, ParityError,
       WriteChannel13, WriteChannel77, WriteTime6, SetAllowInterrupt, Resume,
       WriteDownlink, ruptVars
  <2>3. CASE World
    BY <2>3 DEF World, MovePro, MoveHandController, InputRupt, Downrupt, ruptVars
  <2> QED
    BY <1>4, <2>1, <2>2, <2>3
<1> QED
  BY <1>1, <1>2, <1>3, <1>4 DEF Next

\* No request for an interrupt is lost: it goes only when it is served as the
\* most urgent one, when a restart clears all, or when a new machine starts.
THEOREM NoRequestIsLost == Spec => RequestsServedOrReset
<1>1. TypeOK /\ [Next]_vars
        => [\A i \in InterruptRequests \ InterruptRequests' : MayGo(i)]_vars
  BY StepRequests
<1>2. Spec => [](TypeOK /\ RadarGateBounded)
  BY TypesAndRadar
<1> QED
  BY <1>1, <1>2, PTL DEF Spec, RequestsServedOrReset

-----------------------------------------------------------------------------
(* The two specifications only add a history to AgcScaler's.               *)

LEMMA TimersAreScaler == TSpec => Spec
<1>1. TInit => Init
  BY DEF TInit
<1>2. [TNext]_tvars => [Next]_vars
  BY DEF TNext, tvars
<1> QED
  BY <1>1, <1>2, PTL DEF TSpec, Spec

LEMMA StandbyIsScaler == SSpec => Spec
<1>1. SInit => Init
  BY DEF SInit
<1>2. [SNext]_svars => [Next]_vars
  BY DEF SNext, svars, Next
<1> QED
  BY <1>1, <1>2, PTL DEF SSpec, Spec

-----------------------------------------------------------------------------
(* What moves the scaler and the timers.                                   *)

\* A tick moves the scaler.
LEMMA TickMoves ==
  ASSUME TypeOK, Tick
  PROVE  SCALER1' # SCALER1
<1> DEFINE phase == SCALER1 % TcPeriod
<1>1. TcPeriod \in Nat /\ TcPeriod >= 8 /\ phase \in 0 .. TcPeriod - 1
  BY PeriodAssumption, ScalerPhase
<1>2. Scaler % TcPeriod = IF phase = TcPeriod - 1 THEN 0 ELSE phase + 1
  BY ScalerPhase
<1> HIDE DEF phase
<1>3. Scaler % TcPeriod # phase
  BY <1>1, <1>2
<1> QED
  BY <1>3, Zenon DEF Tick, phase

\* Nothing else does but the start of a new machine.
LEMMA OthersKeepScaler ==
  ASSUME [Next]_vars, ~Tick, ~StartFromErasable
  PROVE  SCALER1' = SCALER1
<1> USE DEF clockVars
<1>1. CASE Delay \/ Idle \/ UNCHANGED vars
  BY <1>1 DEF Delay, Idle, vars
<1>2. CASE Program
  BY <1>2 DEF Program, ProgramBesidesDownlink, Execute, ParityError, WriteChannel13,
     WriteChannel77, WriteTime6, SetAllowInterrupt, TakeInterrupt, Resume, WriteDownlink
<1>3. CASE World
  BY <1>3 DEF World, MovePro, MoveHandController, InputRupt, Downrupt
<1>4. CASE ResumeCoreDump
  BY <1>4 DEF ResumeCoreDump
<1> QED
  BY <1>1, <1>2, <1>3, <1>4 DEF Next, Restored

\* Only ticks count, and the program writes no timer but TIME6.
LEMMA OthersKeepClock ==
  ASSUME TypeOK, [Next]_vars, ~Tick
  PROVE  TIME'[1] = TIME[1] /\ TIME'[2] = TIME[2]
<1> USE DEF clockVars
<1>1. CASE Delay \/ Idle \/ UNCHANGED vars
  BY <1>1 DEF Delay, Idle, vars
<1>2. CASE Program
  <2>1. CASE \E w \in TimerWrites : WriteTime6(w)
    BY <2>1 DEF WriteTime6, TypeOK
  <2>2. CASE ~ \E w \in TimerWrites : WriteTime6(w)
    BY <1>2, <2>2 DEF Program, ProgramBesidesDownlink, Execute, ParityError,
       WriteChannel13, WriteChannel77, SetAllowInterrupt, TakeInterrupt, Resume,
       WriteDownlink
  <2> QED
    BY <2>1, <2>2
<1>3. CASE World
  BY <1>3 DEF World, MovePro, MoveHandController, InputRupt, Downrupt
<1>4. CASE Restored
  BY <1>4 DEF Restored, ResumeCoreDump, StartFromErasable
<1> QED
  BY <1>1, <1>2, <1>3, <1>4 DEF Next

-----------------------------------------------------------------------------
(* The mission clock.                                                      *)

\* Counting a two-digit number in base h.
LEMMA TwoDigits ==
  ASSUME NEW h \in Nat \ {0}, NEW a \in 0 .. h - 1, NEW b \in 0 .. h - 1
  PROVE  ((a * h + b) + 1) % (h * h)
           = IF b # h - 1 THEN a * h + (b + 1)
             ELSE IF a # h - 1 THEN (a + 1) * h + 0 ELSE 0
<1> DEFINE n == h * h
           c == (a * h + b) + 1
<1>1. n \in Nat \ {0} /\ c \in Nat
  OBVIOUS
<1>2. CASE b # h - 1
  <2>1. (h - 1 - a) * h >= 0
    OBVIOUS
  <2>2. a * h + (b + 1) < n
    BY <1>2, <2>1
  <2>3. c = n * 0 + (a * h + (b + 1)) /\ a * h + (b + 1) \in 0 .. n - 1
    BY <2>2, <1>1
  <2> HIDE DEF n, c
  <2>4. c % n = a * h + (b + 1)
    BY <2>3, <1>1, ModUnique
  <2> QED
    BY <2>4, <1>2 DEF n, c
<1>3. CASE b = h - 1 /\ a # h - 1
  <2>1. (h - 2 - a) * h >= 0
    BY <1>3
  <2>2. (a + 1) * h < n
    BY <2>1
  <2>3. c = n * 0 + (a + 1) * h /\ (a + 1) * h \in 0 .. n - 1
    BY <2>2, <1>1, <1>3
  <2> HIDE DEF n, c
  <2>4. c % n = (a + 1) * h
    BY <2>3, <1>1, ModUnique
  <2> QED
    BY <2>4, <1>3 DEF n, c
<1>4. CASE b = h - 1 /\ a = h - 1
  <2>1. c = n * 1 + 0 /\ 0 \in 0 .. n - 1
    BY <1>1, <1>4
  <2> HIDE DEF n, c
  <2>2. c % n = 0
    BY <2>1, <1>1, ModUnique
  <2> QED
    BY <2>2, <1>4 DEF n, c
<1> QED
  BY <1>2, <1>3, <1>4

\* TIME1 and TIME2 never leave the non-negative words.
ClockDigits == TIME[1] \in 0 .. HALF - 1 /\ TIME[2] \in 0 .. HALF - 1

\* A running tick at the phase of the clock counts, and no other step does.
LEMMA ClockTicks ==
  ASSUME TypeOK, [Next]_vars
  PROVE  /\ RunningTick({TcPeriod \div 2}) <=> Tick /\ Time1Counts
         /\ ~Tick => TIME'[1] = TIME[1] /\ TIME'[2] = TIME[2]
<1>1. CASE Tick
  BY <1>1, TickMoves DEF Tick, RunningTick, Time1Counts, Running, At
<1>2. CASE ~Tick
  <2>1. ~RunningTick({TcPeriod \div 2})
    <3>1. CASE StartFromErasable
      <4>1. TcPeriod \in Nat /\ TcPeriod >= 8
        BY PeriodAssumption
      <4>2. 0 % TcPeriod = 0 /\ TcPeriod \div 2 # 0
        BY <4>1
      <4>3. SCALER1' = 0
        BY <3>1 DEF StartFromErasable
      <4> QED
        BY <4>2, <4>3 DEF RunningTick
    <3>2. CASE ~StartFromErasable
      BY <1>2, <3>2, OthersKeepScaler DEF RunningTick
    <3> QED
      BY <3>1, <3>2
  <2> QED
    BY <1>2, <2>1, OthersKeepClock
<1> QED
  BY <1>1, <1>2

LEMMA StepClock ==
  ASSUME TypeOK, ClockDigits, MissionClock, [TNext]_tvars
  PROVE  ClockDigits' /\ MissionClock'
<1>1. [Next]_vars
  BY DEF TNext, tvars
<1>2. CASE Tick /\ Time1Counts /\ TNext
  <2>1. clock' = (clock + 1) % (HALF * HALF)
    BY <1>1, <1>2, ClockTicks DEF TNext, ClockRange
  <2>2. /\ TIME'[1] = CounterPINC(TIME[1])
        /\ TIME'[2] = IF TIME[1] = HALF - 1 THEN CounterPINC(TIME[2]) ELSE TIME[2]
    BY <1>2 DEF Tick, TimeNext, Counts, Time2Counts, PincOverflows
  <2> DEFINE a == TIME[2]
             b == TIME[1]
  <2>3. HALF \in Nat \ {0} /\ a \in 0 .. HALF - 1 /\ b \in 0 .. HALF - 1
        /\ clock = a * HALF + b
    BY HALFAssumption DEF ClockDigits, MissionClock
  <2>4. /\ TIME'[1] = IF b = HALF - 1 THEN 0 ELSE b + 1
        /\ TIME'[2] = IF b # HALF - 1 THEN a ELSE IF a = HALF - 1 THEN 0 ELSE a + 1
    BY <2>2, <2>3 DEF CounterPINC, AGC_P0, AGC_M0
  <2> HIDE DEF a, b
  <2>5. clock' = IF b # HALF - 1 THEN a * HALF + (b + 1)
                 ELSE IF a # HALF - 1 THEN (a + 1) * HALF + 0 ELSE 0
    BY <2>1, <2>3, TwoDigits
  <2>6. TIME'[2] * HALF + TIME'[1] = clock'
    <3>1. CASE b # HALF - 1
      BY <3>1, <2>4, <2>5
    <3>2. CASE b = HALF - 1 /\ a # HALF - 1
      BY <3>2, <2>4, <2>5
    <3>3. CASE b = HALF - 1 /\ a = HALF - 1
      BY <3>3, <2>4, <2>5, <2>3
    <3> QED
      BY <3>1, <3>2, <3>3
  <2> QED
    BY <2>3, <2>4, <2>6 DEF ClockDigits, MissionClock
<1>3. CASE ~(Tick /\ Time1Counts) /\ TNext
  <2>1. clock' = clock
    BY <1>1, <1>3, ClockTicks DEF TNext
  <2>2. TIME'[1] = TIME[1] /\ TIME'[2] = TIME[2]
    <3>1. CASE Tick
      BY <1>3, <3>1 DEF Tick, TimeNext, Counts, Time2Counts
    <3>2. CASE ~Tick
      BY <3>2, <1>1, ClockTicks
    <3> QED
      BY <3>1, <3>2
  <2> QED
    BY <2>1, <2>2 DEF ClockDigits, MissionClock
<1>4. CASE UNCHANGED tvars
  BY <1>4 DEF tvars, vars, clockVars, ClockDigits, MissionClock
<1> QED
  BY <1>2, <1>3, <1>4

\* TIME2 and TIME1 hold the count of the 10 ms for which the machine ran, on a
\* machine of any word length and any scaler, through alarms, restarts,
\* standby and core dumps.
THEOREM ClockIsExact == TSpec => []MissionClock
<1>1. TInit => ClockDigits /\ MissionClock
  <2>1. HALF \in Nat /\ HALF >= 1
    BY HALFAssumption
  <2> QED
    BY <2>1 DEF TInit, Init, AGC_P0, ClockDigits, MissionClock
<1>2. TypeOK /\ ClockDigits /\ MissionClock /\ [TNext]_tvars
        => ClockDigits' /\ MissionClock'
  BY StepClock
<1>3. TSpec => [](TypeOK /\ RadarGateBounded)
  BY TimersAreScaler, TypesAndRadar
<1> QED
  BY <1>1, <1>2, <1>3, PTL DEF TSpec

-----------------------------------------------------------------------------
(* TIME6.                                                                  *)

\* A phase of an even period is as odd as the scaler.
LEMMA OddPhase ==
  ASSUME NEW s \in Int
  PROVE  s % TcPeriod \in Odd <=> s % 2 = 1
<1> DEFINE p == TcPeriod
           r == s % p
           q == s \div p
           h == p \div 2
<1>1. p \in Nat \ {0} /\ p = 2 * h /\ h \in Int
  BY PeriodAssumption
<1>2. s = p * q + r /\ r \in 0 .. p - 1 /\ q \in Int
  BY <1>1, DivMod
<1> HIDE DEF p, q, r, h
<1> DEFINE m == h * q
<1>3. m \in Int /\ s = 2 * m + r
  BY <1>1, <1>2
<1> HIDE DEF m
<1>4. s % 2 = 1 <=> r % 2 = 1
  BY <1>2, <1>3
<1> QED
  BY <1>2, <1>4 DEF p, r, Odd

\* DINC takes one off the magnitude, of either sign, until it is zero.
LEMMA DincDiminishes ==
  ASSUME NEW w \in Word
  PROVE  /\ AbsSP(w) \in Nat
         /\ IsZero(w) <=> AbsSP(w) = 0
         /\ AbsSP(CounterDINC(w)) = IF AbsSP(w) > 0 THEN AbsSP(w) - 1 ELSE AbsSP(w)
<1>1. HALF \in Nat /\ HALF >= 1
  BY HALFAssumption
<1>2. AbsSP(w) \in Nat /\ (IsZero(w) <=> AbsSP(w) = 0)
  BY <1>1 DEF AbsSP, IsNegative, NegateSP, IsZero, AGC_P0, AGC_M0
<1>3. CASE IsZero(w)
  BY <1>2, <1>3 DEF CounterDINC
<1>4. CASE ~IsZero(w) /\ IsNegative(w)
  <2>1. w >= HALF /\ w < 2 * HALF - 1
    BY <1>1, <1>4 DEF IsZero, IsNegative, AGC_M0
  <2>2. AddSP16(SignExtend(w), SignExtend(AGC_P1)) = 2 * HALF + (w + 1)
    BY <1>1, <2>1 DEF AddSP16, SignExtend, IsNegative, AGC_P1
  <2>3. CounterDINC(w) = w + 1
    <3> DEFINE n == 2 * HALF
    <3>1. n \in Nat \ {0} /\ w + 1 \in 0 .. n - 1
      BY <1>1, <2>1
    <3>2. CounterDINC(w) = (n + (w + 1)) % n
      BY <1>4, <2>2, Zenon DEF CounterDINC
    <3>3. n + (w + 1) = n * 1 + (w + 1)
      BY <3>1
    <3> HIDE DEF n
    <3> QED
      BY <3>1, <3>2, <3>3, ModUnique
  <2> QED
    BY <1>1, <1>2, <1>4, <2>1, <2>3 DEF AbsSP, IsNegative, NegateSP, AGC_M0
<1>5. CASE ~IsZero(w) /\ ~IsNegative(w)
  <2>1. w > 0 /\ w < HALF /\ HALF >= 2
    BY <1>1, <1>5 DEF IsZero, IsNegative, AGC_P0
  <2>2. AddSP16(SignExtend(w), SignExtend(AGC_M1))
          = IF w = 1 THEN 2 * HALF + (2 * HALF - 1) ELSE w - 1
    BY <1>1, <2>1 DEF AddSP16, SignExtend, IsNegative, AGC_M1
  <2>3. CounterDINC(w) = IF w = 1 THEN AGC_M0 ELSE w - 1
    <3> DEFINE n == 2 * HALF
               c == IF w = 1 THEN n + (n - 1) ELSE w - 1
    <3>1. n \in Nat \ {0} /\ w - 1 \in 0 .. n - 1 /\ n - 1 \in 0 .. n - 1
      BY <1>1, <2>1
    <3>2. CounterDINC(w) = c % n
      BY <1>5, <2>2, Zenon DEF CounterDINC
    <3>3. n + (n - 1) = n * 1 + (n - 1) /\ w - 1 = n * 0 + (w - 1)
      BY <3>1
    <3>4. AGC_M0 = n - 1
      BY DEF AGC_M0
    <3> HIDE DEF n
    <3> QED
      BY <3>1, <3>2, <3>3, <3>4, ModUnique, SMTT(30)
  <2> QED
    BY <1>1, <1>2, <1>5, <2>1, <2>3 DEF AbsSP, IsNegative, NegateSP, AGC_M0
<1> QED
  BY <1>2, <1>3, <1>4, <1>5

LEMMA StepTime6 ==
  ASSUME TypeOK, AbsSP(TIME[6]) = left, [TNext]_tvars
  PROVE  AbsSP(TIME'[6]) = left'
<1>1. [Next]_vars /\ TIME[6] \in Word
  BY DEF TNext, tvars, TypeOK
<1>2. CASE Tick /\ TNext
  <2>1. SCALER1' # SCALER1 /\ SCALER1' = Scaler /\ Scaler \in Int
    <3>1. Scaler \in Int
      BY ScalerType, TcDivides
    <3> QED
      BY <1>2, <3>1, TickMoves DEF Tick
  <2>2. RunningTick(Odd) /\ "TIME6" \in channel13 <=> Time6Counts
    BY <1>2, <2>1, OddPhase DEF RunningTick, Time6Counts, Running, Tick
  <2>3. left' = IF Time6Counts /\ left > 0 THEN left - 1 ELSE left
    BY <1>2, <2>1, <2>2 DEF TNext
  <2>4. TIME'[6] = IF Time6Counts THEN CounterDINC(TIME[6]) ELSE TIME[6]
    BY <1>2 DEF Tick, TimeNext, Counts
  <2> QED
    BY <1>1, <2>3, <2>4, DincDiminishes
<1>3. CASE StartFromErasable /\ TNext
  <2>1. SCALER1' = 0 /\ TIME' = TIME
    BY <1>3 DEF StartFromErasable
  <2>2. ~RunningTick(Odd)
    BY <2>1, OddPhase DEF RunningTick
  <2> QED
    BY <1>3, <2>1, <2>2 DEF TNext
<1>4. CASE ~Tick /\ ~StartFromErasable /\ TNext
  <2>1. SCALER1' = SCALER1
    BY <1>1, <1>4, OthersKeepScaler
  <2>2. left' = IF TIME' # TIME THEN AbsSP(TIME'[6]) ELSE left
    BY <1>4, <2>1 DEF TNext
  <2> QED
    BY <2>2
<1>5. CASE UNCHANGED tvars
  BY <1>5 DEF tvars, vars, clockVars
<1> QED
  BY <1>2, <1>3, <1>4, <1>5

\* TIME6 counts its magnitude down from either sign and through either zero,
\* and T6RUPT comes on the count that finds it at zero, for any word length.
THEOREM Time6IsExact == TSpec => []Time6CountsDown
<1> DEFINE Exact == AbsSP(TIME[6]) = left
<1>1. TInit => Exact
  BY HALFAssumption DEF TInit, Init, AGC_P0, AbsSP, IsNegative
<1>2. TypeOK /\ Exact /\ [TNext]_tvars => Exact'
  BY StepTime6
<1>3. TypeOK /\ Exact => Time6CountsDown
  BY DincDiminishes DEF TypeOK, Time6CountsDown, Time6Ends, DincReportsZero
<1>4. TSpec => [](TypeOK /\ RadarGateBounded)
  BY TimersAreScaler, TypesAndRadar
<1> QED
  BY <1>1, <1>2, <1>3, <1>4, PTL DEF TSpec

\* The histories themselves stay in range with the fields they are about.
THEOREM TimerTypes == TSpec => []TTypeOK
<1> DEFINE Exact == AbsSP(TIME[6]) = left
<1>1. TInit => ClockDigits /\ MissionClock /\ Exact
  BY HALFAssumption DEF TInit, Init, AGC_P0, ClockDigits, MissionClock, AbsSP, IsNegative
<1>2. TypeOK /\ ClockDigits /\ MissionClock /\ Exact /\ [TNext]_tvars
        => ClockDigits' /\ MissionClock' /\ Exact'
  BY StepClock, StepTime6
<1>3. TypeOK /\ ClockDigits /\ MissionClock /\ Exact => TTypeOK
  <2> SUFFICES ASSUME TypeOK, ClockDigits, MissionClock, Exact PROVE TTypeOK
    OBVIOUS
  <2>1. HALF \in Nat \ {0} /\ TIME[6] \in Word
    BY HALFAssumption DEF TypeOK
  <2>2. left \in 0 .. HALF - 1
    BY <2>1 DEF AbsSP, IsNegative, NegateSP, AGC_M0
  <2>3. clock \in 0 .. ClockRange - 1
    <3> DEFINE a == TIME[2]
               b == TIME[1]
    <3>1. a \in 0 .. HALF - 1 /\ b \in 0 .. HALF - 1 /\ clock = a * HALF + b
      BY DEF ClockDigits, MissionClock
    <3> HIDE DEF a, b
    <3>2. (HALF - 1 - a) * HALF >= 0 /\ a * HALF >= 0
      BY <2>1, <3>1
    <3> QED
      BY <2>1, <3>1, <3>2 DEF ClockRange
  <2> QED
    BY <2>2, <2>3 DEF TTypeOK
<1>4. TSpec => [](TypeOK /\ RadarGateBounded)
  BY TimersAreScaler, TypesAndRadar
<1> QED
  BY <1>1, <1>2, <1>3, <1>4, PTL DEF TSpec

-----------------------------------------------------------------------------
(* The standby circuit.                                                    *)

\* While standby lasts, SbyStillPressed is cleared only by a release.
Released == Standby /\ ~SbyStillPressed => sawRelease

\* The circuit's memory of PRO dates from the end of the last Night Watchman
\* period, and PRO has been held in every tick since.
HeldSince ==
  /\ held \in 0 .. HoldTime
  /\ SbyPressed => held >= HoldTime \/ held >= (SCALER1 % NightPeriod) + 1

\* What the steps of SNext but the ticks do to the circuit.
LEMMA StandbySteps ==
  ASSUME TypeOK, [SNext]_svars, ~(Tick /\ HistoryTicks)
  PROVE  /\ UNCHANGED <<SCALER1, Standby>>
         /\ \/ SeePro /\ HistorySees
            \/ UNCHANGED <<SbyPressed, SbyStillPressed, held, sawRelease>>
<1> USE DEF clockVars, standbyVars
<1>1. CASE Idle /\ HistorySees
  BY <1>1 DEF Idle
<1>2. CASE Program /\ HistorySees
  BY <1>2 DEF Program, ProgramBesidesDownlink, Execute, ParityError, WriteChannel13,
     WriteChannel77, WriteTime6, SetAllowInterrupt, TakeInterrupt, Resume, WriteDownlink
<1>3. CASE Delay /\ UNCHANGED <<held, sawRelease>>
  BY <1>3 DEF Delay
<1>4. CASE World /\ UNCHANGED <<held, sawRelease>>
  BY <1>4 DEF World, MovePro, MoveHandController, InputRupt, Downrupt
<1>5. CASE UNCHANGED svars
  BY <1>5 DEF svars, vars
<1> QED
  BY <1>1, <1>2, <1>3, <1>4, <1>5 DEF SNext

LEMMA StepReleased ==
  ASSUME TypeOK, Released, [SNext]_svars
  PROVE  Released' /\ (Standby /\ ~Standby' => sawRelease)
<1>1. CASE Tick /\ HistoryTicks
  BY <1>1 DEF Tick, HistoryTicks, StandbyNext, LeavesStandby, StillPressed, Pressed,
     Released, TypeOK
<1>2. CASE ~(Tick /\ HistoryTicks)
  <2>1. CASE SeePro /\ HistorySees
    <3>1. /\ Standby' = Standby
          /\ SbyStillPressed' = (SbyStillPressed /\ proDown)
          /\ sawRelease' = (sawRelease \/ ~proDown)
      BY <1>2, <2>1, StandbySteps DEF SeePro, HistorySees, StillPressed
    <3> QED
      BY <3>1, Zenon DEF Released
  <2>2. CASE UNCHANGED <<SbyPressed, SbyStillPressed, held, sawRelease>>
    BY <1>2, <2>2, StandbySteps DEF Released
  <2> QED
    BY <1>2, <2>1, <2>2, StandbySteps
<1> QED
  BY <1>1, <1>2

LEMMA StepHeld ==
  ASSUME TypeOK, HeldSince, [SNext]_svars
  PROVE  HeldSince' /\ (~Standby /\ Standby' => held >= HoldTime)
<1> DEFINE phase == SCALER1 % NightPeriod
           next == Scaler % NightPeriod
<1>1. /\ NightPeriod \in Nat \ {0} /\ HoldTime \in Nat \ {0}
      /\ ScalerModulus \in Nat \ {0} /\ ScalerModulus % NightPeriod = 0
  BY PeriodAssumption, TcDivides DEF HoldTime
<1>2. SCALER1 \in 0 .. ScalerModulus - 1
  BY DEF TypeOK
<1>3. next = IF phase = NightPeriod - 1 THEN 0 ELSE phase + 1
  BY <1>1, <1>2, PhaseStep DEF Scaler
<1>4. phase \in 0 .. NightPeriod - 1
  <2>1. SCALER1 \in Int
    BY <1>2, <1>1
  <2> QED
    BY <1>1, <2>1, DivMod
<1>5. held \in 0 .. HoldTime /\ (SbyPressed => held >= HoldTime \/ held >= phase + 1)
  BY DEF HeldSince
<1>6. CASE Tick /\ HistoryTicks
  <2>1. /\ SCALER1' = Scaler
        /\ SbyPressed' = (Pressed \/ (NightEnds /\ proDown))
        /\ held' = IF ~proDown THEN 0 ELSE IF held < HoldTime THEN held + 1 ELSE held
    BY <1>6 DEF Tick, HistoryTicks
  <2>2. NightEnds <=> next = 0
    BY DEF NightEnds, At
  <2>3. NightBegins <=> next = HoldTime
    BY DEF NightBegins, At, HoldTime
  <2> HIDE DEF phase, next
  <2>4. held' \in 0 .. HoldTime
    BY <1>1, <1>5, <2>1
  <2>5. SbyPressed' => held' >= HoldTime \/ held' >= next + 1
    <3>1. CASE NightEnds /\ proDown
      BY <3>1, <1>1, <1>5, <2>1, <2>2
    <3>2. CASE Pressed
      BY <3>2, <1>1, <1>3, <1>4, <1>5, <2>1 DEF Pressed
    <3> QED
      BY <2>1, <3>1, <3>2
  <2>6. ~Standby /\ Standby' => held >= HoldTime
    <3> SUFFICES ASSUME ~Standby, Standby' PROVE held >= HoldTime
      OBVIOUS
    <3>1. NightBegins /\ SbyPressed
      BY <1>6 DEF Tick, StandbyNext, EntersStandby, Pressed
    <3> QED
      BY <3>1, <2>3, <1>1, <1>3, <1>4, <1>5
  <2>7. HeldSince'
    <3>1. (SCALER1 % NightPeriod)' = next
      BY <2>1 DEF next
    <3> QED
      BY <3>1, <2>4, <2>5 DEF HeldSince, HoldTime
  <2> QED
    BY <2>6, <2>7
<1>7. CASE ~(Tick /\ HistoryTicks)
  <2>1. UNCHANGED <<SCALER1, Standby>>
    BY <1>7, StandbySteps
  <2>2. (SbyPressed' => SbyPressed /\ held' = held) /\ held' \in {held, 0}
    <3>1. CASE SeePro /\ HistorySees
      BY <3>1 DEF SeePro, HistorySees, Pressed
    <3>2. CASE UNCHANGED <<SbyPressed, SbyStillPressed, held, sawRelease>>
      BY <3>2
    <3> QED
      BY <1>7, StandbySteps, <3>1, <3>2
  <2> QED
    BY <1>1, <1>5, <2>1, <2>2 DEF HeldSince, HoldTime
<1> QED
  BY <1>6, <1>7

\* One press cannot switch the machine off and on again.
THEOREM OnePressOneSwitch == SSpec => ExitNeedsRelease
<1>1. SInit => Released
  BY DEF SInit, Init, Released
<1>2. TypeOK /\ Released /\ [SNext]_svars
        => Released' /\ [Standby /\ ~Standby' => sawRelease]_svars
  BY StepReleased
<1>3. SSpec => [](TypeOK /\ RadarGateBounded)
  BY StandbyIsScaler, TypesAndRadar
<1> QED
  BY <1>1, <1>2, <1>3, PTL DEF SSpec, ExitNeedsRelease

\* Standby begins only when PRO was held, without a release that the engine
\* could see, for half a Night Watchman period.
THEOREM ShortPressIsIgnored == SSpec => EntryNeedsHold
<1>1. SInit => HeldSince
  <2>1. HoldTime \in Nat
    BY TcDivides DEF HoldTime
  <2> QED
    BY <2>1 DEF SInit, Init, HistoryInit, HeldSince
<1>2. TypeOK /\ HeldSince /\ [SNext]_svars
        => HeldSince' /\ [~Standby /\ Standby' => held >= HoldTime]_svars
  BY StepHeld
<1>3. SSpec => [](TypeOK /\ RadarGateBounded)
  BY StandbyIsScaler, TypesAndRadar
<1> QED
  BY <1>1, <1>2, <1>3, PTL DEF SSpec, EntryNeedsHold

-----------------------------------------------------------------------------
(* The watchdogs.  Half a period is h ticks, p is the phase of the scaler  *)
(* in the period, on the watchdog's flag, sb standby and q the ticks since *)
(* the watchdog was fed.                                                   *)

\* A watchdog whose watch begins at phase h and which looks at phase c: what a
\* raised flag says of the past, and the most that may have gone by.
Earned(h, c, p, on, sb, q) ==
  on => /\ sb => q >= h
        /\ ~sb /\ p >= h => q >= (p - h) + 1
        /\ ~sb /\ p < c => q >= (h + p) + 1

Due(h, c, p, on, sb, q) ==
  /\ sb /\ ~on => q <= h - 1
  /\ sb /\ on => q <= 3 * h - 1
  /\ ~sb /\ ~on /\ p >= h => q <= p - h
  /\ ~sb /\ ~on /\ p < h => q <= p + h
  /\ ~sb /\ on /\ p >= h => q <= p + h
  /\ ~sb /\ on /\ p < c => q <= p + 3 * h
  /\ ~sb /\ on /\ p < h /\ p >= c => q <= p - c

\* The Night Watchman, whose watch begins when standby may, and does so even as
\* standby begins.
NightEarned(h, p, on, sb, q) == on /\ ~sb /\ p >= h => q >= (p - h) + 1

NightDue(h, p, on, sb, q) ==
  /\ sb => on /\ q <= 2 * h - 1
  /\ ~sb /\ ~on /\ p >= h => q <= p - h
  /\ ~sb /\ ~on /\ p < h => q <= p + h
  /\ ~sb /\ on /\ p >= h => q <= p + h
  /\ ~sb /\ on /\ p < h => q <= p

\* One tick of such a watchdog, which takes p to next, on to on2 and so on;
\* standby begins and ends at phase 0.
WatchTicks(h, c, p, on, sb, q, on2, sb2, q2, next, bites) ==
  /\ h \in Nat \ {0} /\ c \in 0 .. h - 1 /\ p \in 0 .. 2 * h - 1 /\ q \in Nat
  /\ on \in BOOLEAN /\ sb \in BOOLEAN /\ on2 \in BOOLEAN /\ sb2 \in BOOLEAN
  /\ bites \in BOOLEAN
  /\ Earned(h, c, p, on, sb, q) /\ Due(h, c, p, on, sb, q)
  /\ next = IF p = 2 * h - 1 THEN 0 ELSE p + 1
  /\ sb2 # sb => next = 0
  /\ bites <=> ~sb2 /\ next = c /\ on
  /\ on2 <=> on \/ (~sb2 /\ next = h)
  /\ q2 = IF bites THEN 0 ELSE IF ~sb2 THEN q + 1 ELSE q

LEMMA WatchTick ==
  ASSUME NEW h, NEW c, NEW p, NEW on, NEW sb, NEW q, NEW on2, NEW sb2, NEW q2, NEW next,
         NEW bites, WatchTicks(h, c, p, on, sb, q, on2, sb2, q2, next, bites)
  PROVE  /\ Earned(h, c, next, on2, sb2, q2) /\ Due(h, c, next, on2, sb2, q2)
         /\ bites => q >= h + c
         /\ q + 1 <= 3 * h + c
<1> USE DEF Earned, Due, WatchTicks
<1>1. CASE sb2 /\ sb
  BY <1>1
<1>2. CASE sb2 /\ ~sb
  <2>1. next = 0
    BY <1>2, Zenon
  <2> QED
    BY <1>2, <2>1
<1>3. CASE ~sb2 /\ sb
  <2>1. next = 0
    BY <1>3, Zenon
  <2> QED
    BY <1>3, <2>1
<1>4. CASE ~sb2 /\ ~sb
  BY <1>4
<1> QED
  BY <1>1, <1>2, <1>3, <1>4

\* One tick of the Night Watchman; standby begins and ends at phase h.
NightTicks(h, p, on, sb, q, on2, sb2, q2, next, bites) ==
  /\ h \in Nat \ {0} /\ p \in 0 .. 2 * h - 1 /\ q \in Nat
  /\ on \in BOOLEAN /\ sb \in BOOLEAN /\ on2 \in BOOLEAN /\ sb2 \in BOOLEAN
  /\ bites \in BOOLEAN
  /\ NightEarned(h, p, on, sb, q) /\ NightDue(h, p, on, sb, q)
  /\ next = IF p = 2 * h - 1 THEN 0 ELSE p + 1
  /\ sb2 # sb => next = h
  /\ bites <=> next = 0 /\ ~sb /\ on
  /\ on2 <=> on \/ (next = h /\ ~sb)
  /\ q2 = IF bites THEN 0 ELSE IF ~sb2 THEN q + 1 ELSE q

LEMMA NightTick ==
  ASSUME NEW h, NEW p, NEW on, NEW sb, NEW q, NEW on2, NEW sb2, NEW q2, NEW next,
         NEW bites, NightTicks(h, p, on, sb, q, on2, sb2, q2, next, bites)
  PROVE  /\ NightEarned(h, next, on2, sb2, q2) /\ NightDue(h, next, on2, sb2, q2)
         /\ bites => q >= h
         /\ q + 1 <= 3 * h
<1> USE DEF NightEarned, NightDue, NightTicks
<1>1. CASE sb2 /\ sb
  BY <1>1
<1>2. CASE sb2 /\ ~sb
  <2>1. next = h
    BY <1>2, Zenon
  <2> QED
    BY <1>2, <2>1
<1>3. CASE ~sb2 /\ sb
  <2>1. next = h
    BY <1>3, Zenon
  <2> QED
    BY <1>3, <2>1
<1>4. CASE ~sb2 /\ ~sb
  BY <1>4
<1> QED
  BY <1>1, <1>2, <1>3, <1>4

\* The health of the watchdog w with flag on, when the scaler is at s.
Healthy(w, s, on, sb, q) ==
  /\ w \in {"NightWatchman", "RuptLock", "NoRupt", "TCTrap", "NoTC"} /\ q \in Nat
  /\ w = "NightWatchman" =>
       /\ NightEarned(NightPeriod \div 2, s % NightPeriod, on, sb, q)
       /\ NightDue(NightPeriod \div 2, s % NightPeriod, on, sb, q)
  /\ w \in {"RuptLock", "NoRupt"} =>
       /\ Earned(RuptPeriod \div 2, RuptCheck, s % RuptPeriod, on, sb, q)
       /\ Due(RuptPeriod \div 2, RuptCheck, s % RuptPeriod, on, sb, q)
  /\ w \in {"TCTrap", "NoTC"} =>
       /\ Earned(TcPeriod \div 2, 0, s % TcPeriod, on, sb, q)
       /\ Due(TcPeriod \div 2, 0, s % TcPeriod, on, sb, q)

WatchdogIsHealthy == Healthy(watched, SCALER1, Flag, Standby, quiet)

LEMMA MinOfTwo ==
  ASSUME NEW a \in Int, NEW b \in Int, a <= b
  PROVE  Min({a, b}) = a
BY DEF Min

LEMMA EvenPeriod ==
  ASSUME NEW a \in Nat \ {0}, NEW b \in Nat \ {0}, a % (2 * b) = 0
  PROVE  a = 2 * (a \div 2)
<1> DEFINE c == 2 * b
           k == a \div c
<1>1. c \in Nat \ {0} /\ a % c = 0
  OBVIOUS
<1>2. c = 2 * b
  OBVIOUS
<1> HIDE DEF c
<1>3. k \in Int /\ a = c * k
  BY <1>1, DivMod
<1> HIDE DEF k
<1> DEFINE half == b * k
<1>4. half \in Int /\ a = 2 * half
  BY <1>2, <1>3
<1> HIDE DEF half
<1> QED
  BY <1>4

\* The halves of the three periods, and where the shorter ones stand when the
\* longer ones come round.
LEMMA Periods ==
  /\ TcPeriod \in Nat \ {0} /\ TcPeriod \div 2 \in Nat \ {0}
  /\ TcPeriod = 2 * (TcPeriod \div 2)
  /\ RuptPeriod \in Nat \ {0} /\ RuptPeriod \div 2 \in Nat \ {0}
  /\ RuptPeriod = 2 * (RuptPeriod \div 2)
  /\ RuptCheck \in 0 .. (RuptPeriod \div 2) - 1 /\ RuptCheck \in Nat
  /\ NightPeriod \in Nat \ {0} /\ NightPeriod \div 2 \in Nat \ {0}
  /\ NightPeriod = 2 * (NightPeriod \div 2)
  /\ (NightPeriod \div 2) % RuptPeriod = 0
  /\ ScalerModulus \in Nat \ {0} /\ ScalerModulus % RuptPeriod = 0
  /\ ScalerModulus % NightPeriod = 0
<1>1. /\ TcPeriod \in Nat \ {0} /\ TcPeriod % 4 = 0 /\ TcPeriod >= 8
      /\ RuptPeriod \in Nat \ {0} /\ RuptPeriod % (2 * TcPeriod) = 0
      /\ RuptCheck \in 1 .. RuptPeriod \div 2 - 1
      /\ NightPeriod \in Nat \ {0} /\ NightPeriod % (2 * RuptPeriod) = 0
      /\ ScalerModulus \in Nat \ {0} /\ ScalerModulus % NightPeriod = 0
  BY PeriodAssumption
<1>2. TcPeriod \div 2 \in Nat \ {0} /\ TcPeriod = 2 * (TcPeriod \div 2)
  BY <1>1
<1>3. RuptPeriod \div 2 \in Nat \ {0} /\ RuptPeriod = 2 * (RuptPeriod \div 2)
  BY <1>1, EvenPeriod, HalfIsMultiple, Zenon
<1>4. RuptCheck \in 0 .. (RuptPeriod \div 2) - 1 /\ RuptCheck \in Nat
  <2> DEFINE half == RuptPeriod \div 2
  <2>1. RuptCheck \in 1 .. half - 1 /\ half \in Nat
    BY <1>1, <1>3
  <2> HIDE DEF half
  <2>2. RuptCheck \in 0 .. half - 1 /\ RuptCheck \in Nat
    BY <2>1
  <2> QED
    BY <2>2 DEF half
<1>5. /\ NightPeriod \div 2 \in Nat \ {0} /\ NightPeriod = 2 * (NightPeriod \div 2)
      /\ NightPeriod % RuptPeriod = 0 /\ (NightPeriod \div 2) % RuptPeriod = 0
  <2>1. NightPeriod \in Nat \ {0} /\ RuptPeriod \in Nat \ {0} /\ NightPeriod % (2 * RuptPeriod) = 0
    BY <1>1
  <2>2. NightPeriod = 2 * (NightPeriod \div 2)
    BY <2>1, EvenPeriod, Zenon
  <2>3. /\ NightPeriod % RuptPeriod = 0 /\ NightPeriod \div 2 \in Nat \ {0}
        /\ (NightPeriod \div 2) % RuptPeriod = 0
    BY <2>1, HalfIsMultiple, Zenon
  <2> QED
    BY <2>2, <2>3
<1>6. ScalerModulus % RuptPeriod = 0
  <2>1. ScalerModulus \in Int
    BY <1>1
  <2> QED
    BY <2>1, <1>1, <1>5, DividerOfDivider, Zenon
<1> QED
  BY <1>1, <1>2, <1>3, <1>4, <1>5, <1>6

LEMMA WatchPhase ==
  ASSUME TypeOK, NEW P \in Nat \ {0}, ScalerModulus % P = 0
  PROVE  /\ Scaler % P = IF SCALER1 % P = P - 1 THEN 0 ELSE (SCALER1 % P) + 1
         /\ SCALER1 % P \in 0 .. P - 1
<1>1. /\ SCALER1 \in 0 .. ScalerModulus - 1 /\ SCALER1 \in Int
      /\ ScalerModulus \in Nat \ {0}
  BY Periods DEF TypeOK
<1>2. Scaler % P = IF SCALER1 % P = P - 1 THEN 0 ELSE (SCALER1 % P) + 1
  <2>1. ScalerModulus % P = 0 /\ ScalerModulus \in Nat \ {0} /\ SCALER1 \in 0 .. ScalerModulus - 1
    BY <1>1
  <2>2. ((SCALER1 + 1) % ScalerModulus) % P
          = IF SCALER1 % P = P - 1 THEN 0 ELSE (SCALER1 % P) + 1
    BY <2>1, PhaseStep, Zenon
  <2> QED
    BY <2>2, Zenon DEF Scaler
<1>3. SCALER1 % P \in 0 .. P - 1
  BY <1>1, DivMod
<1> QED
  BY <1>2, <1>3

\* Standby begins and ends only where the rupt lock's and the TC trap's
\* periods begin.
LEMMA StandbyTurns ==
  ASSUME TypeOK
  PROVE  /\ StandbyNext # Standby => NightBegins
         /\ NightBegins => Scaler % RuptPeriod = 0 /\ Scaler % TcPeriod = 0
<1>1. StandbyNext # Standby => NightBegins
  BY DEF StandbyNext, EntersStandby, LeavesStandby, TypeOK
<1>2. ASSUME NightBegins PROVE Scaler % RuptPeriod = 0
  <2> DEFINE half == NightPeriod \div 2
  <2>1. Scaler \in Int /\ half \in Int /\ NightPeriod \in Nat \ {0}
    BY ScalerType, Periods
  <2>2. Scaler % NightPeriod = half
    BY <1>2 DEF NightBegins, At
  <2>3. half % RuptPeriod = 0 /\ NightPeriod % RuptPeriod = 0 /\ RuptPeriod \in Nat \ {0}
    BY Periods, HalfIsMultiple, PeriodAssumption
  <2> HIDE DEF half
  <2> QED
    BY <2>1, <2>2, <2>3, SamePhase, Zenon
<1> QED
  BY <1>1, <1>2, ScalerPhase

\* What the next pass makes of the watchdog's flag and of its history.
FlagNext == Flag \/ CASE watched = "NightWatchman" -> NightBegins /\ ~Standby
                      [] watched \in {"RuptLock", "NoRupt"} -> RuptWatchBegins
                      [] OTHER -> TcWatchBegins
QuietNext == IF Bites THEN 0 ELSE IF Running THEN quiet + 1 ELSE quiet

LEMMA WatchBooleans ==
  ASSUME TypeOK
  PROVE  /\ Flag \in BOOLEAN /\ FlagNext \in BOOLEAN /\ Bites \in BOOLEAN
         /\ Standby \in BOOLEAN /\ StandbyNext \in BOOLEAN
<1>1. Flag \in BOOLEAN
  BY DEF Flag, TypeOK
<1>2. FlagNext \in BOOLEAN /\ Bites \in BOOLEAN
  BY <1>1, Zenon DEF FlagNext, Bites
<1>3. Standby \in BOOLEAN /\ StandbyNext \in BOOLEAN
  BY Zenon DEF TypeOK, StandbyNext
<1> QED
  BY <1>1, <1>2, <1>3

LEMMA PassKeepsHealth ==
  ASSUME TypeOK, WatchdogIsHealthy
  PROVE  /\ Healthy(watched, Scaler, FlagNext, StandbyNext, QuietNext)
         /\ AlarmsAreEarned
         /\ quiet + 1 <= Patience
<1>1. /\ watched \in {"NightWatchman", "RuptLock", "NoRupt", "TCTrap", "NoTC"}
      /\ quiet \in Nat /\ QuietNext \in Nat
  BY DEF WatchdogIsHealthy, Healthy, QuietNext
<1>2. CASE watched = "NightWatchman"
  <2> DEFINE h == NightPeriod \div 2
             p == SCALER1 % NightPeriod
             next == Scaler % NightPeriod
  <2>1. /\ h \in Nat \ {0} /\ NightPeriod = 2 * h
        /\ next = IF p = NightPeriod - 1 THEN 0 ELSE p + 1
        /\ p \in 0 .. NightPeriod - 1
    BY Periods, WatchPhase, Zenon
  <2>4. NightEarned(h, p, Flag, Standby, quiet) /\ NightDue(h, p, Flag, Standby, quiet)
    BY <1>2 DEF WatchdogIsHealthy, Healthy
  <2>5. StandbyNext # Standby => next = h
    BY StandbyTurns DEF NightBegins, At
  <2>6. Bites <=> next = 0 /\ ~Standby /\ Flag
    BY <1>2 DEF Bites, OwnAlarm, NewAlarms, Alarms, NightAlarm, NightEnds, At, Flag
  <2>7. FlagNext <=> Flag \/ (next = h /\ ~Standby)
    BY <1>2 DEF FlagNext, NightBegins, At
  <2>8. QuietNext = IF Bites THEN 0 ELSE IF ~StandbyNext THEN quiet + 1 ELSE quiet
    BY DEF QuietNext, Running
  <2>9. Window = h /\ Patience = h + NightPeriod
    BY <1>2 DEF Window, Patience
  <2> HIDE DEF h, p, next
  <2>2. next = IF p = 2 * h - 1 THEN 0 ELSE p + 1
    BY <2>1
  <2>3. p \in 0 .. 2 * h - 1
    BY <2>1
  <2>10. /\ NightEarned(h, next, FlagNext, StandbyNext, QuietNext)
         /\ NightDue(h, next, FlagNext, StandbyNext, QuietNext)
         /\ Bites => quiet >= h
         /\ quiet + 1 <= 3 * h
    <3>1. NightTicks(h, p, Flag, Standby, quiet, FlagNext, StandbyNext, QuietNext,
               next, Bites)
      BY <1>1, <2>1, <2>2, <2>3, <2>4, <2>5, <2>6, <2>7, <2>8, WatchBooleans, Zenon DEF NightTicks
    <3> QED
      BY <3>1, NightTick, Zenon
  <2>11. Healthy(watched, Scaler, FlagNext, StandbyNext, QuietNext)
    BY <1>1, <1>2, <2>10 DEF Healthy, h, next
  <2> QED
    BY <1>1, <2>1, <2>9, <2>10, <2>11 DEF AlarmsAreEarned
<1>3. CASE watched \in {"RuptLock", "NoRupt"}
  <2> DEFINE h == RuptPeriod \div 2
             p == SCALER1 % RuptPeriod
             next == Scaler % RuptPeriod
             c == RuptCheck
  <2>1. /\ h \in Nat \ {0} /\ RuptPeriod = 2 * h /\ c \in 0 .. h - 1
        /\ next = IF p = RuptPeriod - 1 THEN 0 ELSE p + 1
        /\ p \in 0 .. RuptPeriod - 1
    BY Periods, WatchPhase, Zenon
  <2>4. Earned(h, c, p, Flag, Standby, quiet) /\ Due(h, c, p, Flag, Standby, quiet)
    BY <1>3 DEF WatchdogIsHealthy, Healthy
  <2>5. StandbyNext # Standby => next = 0
    BY StandbyTurns
  <2>6. Bites <=> ~StandbyNext /\ next = c /\ Flag
    BY <1>3 DEF Bites, OwnAlarm, NewAlarms, Alarms, RuptAlarm, Running, At, Flag
  <2>7. FlagNext <=> Flag \/ (~StandbyNext /\ next = h)
    BY <1>3 DEF FlagNext, RuptWatchBegins, Running, At
  <2>8. QuietNext = IF Bites THEN 0 ELSE IF ~StandbyNext THEN quiet + 1 ELSE quiet
    BY DEF QuietNext, Running
  <2>9. Window = h + c /\ Patience = (h + c) + RuptPeriod
    BY <1>3 DEF Window, Patience
  <2> HIDE DEF h, p, next, c
  <2>2. next = IF p = 2 * h - 1 THEN 0 ELSE p + 1
    BY <2>1
  <2>3. p \in 0 .. 2 * h - 1
    BY <2>1
  <2>10. /\ Earned(h, c, next, FlagNext, StandbyNext, QuietNext)
         /\ Due(h, c, next, FlagNext, StandbyNext, QuietNext)
         /\ Bites => quiet >= h + c
         /\ quiet + 1 <= 3 * h + c
    <3>1. WatchTicks(h, c, p, Flag, Standby, quiet, FlagNext, StandbyNext, QuietNext,
               next, Bites)
      BY <1>1, <2>1, <2>2, <2>3, <2>4, <2>5, <2>6, <2>7, <2>8, WatchBooleans, Zenon DEF WatchTicks
    <3> QED
      BY <3>1, WatchTick, Zenon
  <2>11. Healthy(watched, Scaler, FlagNext, StandbyNext, QuietNext)
    BY <1>1, <1>3, <2>10 DEF Healthy, h, next, c
  <2> QED
    BY <1>1, <2>1, <2>9, <2>10, <2>11 DEF AlarmsAreEarned
<1>4. CASE watched \in {"TCTrap", "NoTC"}
  <2> DEFINE h == TcPeriod \div 2
             p == SCALER1 % TcPeriod
             next == Scaler % TcPeriod
  <2>1. /\ h \in Nat \ {0} /\ TcPeriod = 2 * h
        /\ next = IF p = TcPeriod - 1 THEN 0 ELSE p + 1
        /\ p \in 0 .. TcPeriod - 1
    BY Periods, TcDivides, WatchPhase, Zenon
  <2>4. Earned(h, 0, p, Flag, Standby, quiet) /\ Due(h, 0, p, Flag, Standby, quiet)
    BY <1>4 DEF WatchdogIsHealthy, Healthy
  <2>5. StandbyNext # Standby => next = 0
    BY StandbyTurns
  <2>6. Bites <=> ~StandbyNext /\ next = 0 /\ Flag
    BY <1>4 DEF Bites, OwnAlarm, NewAlarms, Alarms, TcAlarm, Running, At, Flag
  <2>7. FlagNext <=> Flag \/ (~StandbyNext /\ next = h)
    BY <1>4 DEF FlagNext, TcWatchBegins, Running, At
  <2>8. QuietNext = IF Bites THEN 0 ELSE IF ~StandbyNext THEN quiet + 1 ELSE quiet
    BY DEF QuietNext, Running
  <2>9. Window = h /\ Patience = h + TcPeriod
    BY <1>4 DEF Window, Patience
  <2> HIDE DEF h, p, next
  <2>2. next = IF p = 2 * h - 1 THEN 0 ELSE p + 1
    BY <2>1
  <2>3. p \in 0 .. 2 * h - 1
    BY <2>1
  <2>10. 0 \in 0 .. h - 1
    BY <2>1
  <2>11. /\ Earned(h, 0, next, FlagNext, StandbyNext, QuietNext)
         /\ Due(h, 0, next, FlagNext, StandbyNext, QuietNext)
         /\ Bites => quiet >= h + 0
         /\ quiet + 1 <= 3 * h + 0
    <3>1. WatchTicks(h, 0, p, Flag, Standby, quiet, FlagNext, StandbyNext, QuietNext,
               next, Bites)
      BY <1>1, <2>1, <2>2, <2>3, <2>4, <2>5, <2>6, <2>7, <2>8, <2>10,
         WatchBooleans, Zenon DEF WatchTicks
    <3> QED
      BY <3>1, WatchTick, Zenon
  <2>12. Healthy(watched, Scaler, FlagNext, StandbyNext, QuietNext)
    BY <1>1, <1>4, <2>11 DEF Healthy, h, next
  <2> QED
    BY <1>1, <2>1, <2>9, <2>11, <2>12 DEF AlarmsAreEarned
<1> QED
  BY <1>1, <1>2, <1>3, <1>4

\* A watchdog that is fed is healthy whatever went before.
LEMMA FedIsHealthy ==
  ASSUME TypeOK, WatchdogIsHealthy, ~Standby
  PROVE  Healthy(watched, SCALER1, FALSE, Standby, 0)
<1>1. watched \in {"NightWatchman", "RuptLock", "NoRupt", "TCTrap", "NoTC"}
  BY DEF WatchdogIsHealthy, Healthy
<1> DEFINE n == SCALER1 % NightPeriod
           r == SCALER1 % RuptPeriod
           c == SCALER1 % TcPeriod
           hn == NightPeriod \div 2
           hr == RuptPeriod \div 2
           hc == TcPeriod \div 2
<1>2. n \in Nat /\ r \in Nat /\ c \in Nat
  BY Periods, TcDivides, WatchPhase
<1>3. hn \in Nat /\ hr \in Nat /\ hc \in Nat
  BY Periods
<1> HIDE DEF n, r, c, hn, hr, hc
<1>4. NightEarned(hn, n, FALSE, Standby, 0) /\ NightDue(hn, n, FALSE, Standby, 0)
  BY <1>2, <1>3 DEF NightEarned, NightDue
<1>5. /\ Earned(hr, RuptCheck, r, FALSE, Standby, 0) /\ Due(hr, RuptCheck, r, FALSE, Standby, 0)
      /\ Earned(hc, 0, c, FALSE, Standby, 0) /\ Due(hc, 0, c, FALSE, Standby, 0)
  BY <1>2, <1>3 DEF Earned, Due
<1> QED
  BY <1>1, <1>4, <1>5 DEF Healthy, n, r, c, hn, hr, hc

\* What an instruction does to the watchdog: it feeds it or leaves it alone.
LEMMA InstructionFeeds ==
  ASSUME TypeOK, WatchdogIsHealthy, NEW kind, NEW touch \in BOOLEAN, NEW isr \in BOOLEAN,
         FeedWatchdogs(kind, isr), NightWatchman' = (NightWatchman /\ ~touch),
         kind \in {"tc", "transient", "other"}, watched' = watched
  PROVE  Flag' = (Flag /\ ~Feeds(kind, touch, isr))
BY DEF FeedWatchdogs, Flag, Feeds, TypeOK, WatchdogIsHealthy, Healthy

LEMMA AfterFeeding ==
  ASSUME TypeOK, WatchdogIsHealthy, ~Standby, watched' = watched,
         UNCHANGED <<SCALER1, Standby>>, NEW fed \in BOOLEAN,
         Flag' = (Flag /\ ~fed), quiet' = IF fed THEN 0 ELSE quiet
  PROVE  WatchdogIsHealthy'
<1>1. CASE fed
  <2>1. Flag' = FALSE /\ quiet' = 0
    BY <1>1
  <2>2. Healthy(watched, SCALER1, FALSE, Standby, 0)
    BY FedIsHealthy
  <2> QED
    BY <2>1, <2>2 DEF WatchdogIsHealthy
<1>2. CASE ~fed
  <2>1. Flag' = Flag /\ quiet' = quiet
    BY <1>2, WatchBooleans
  <2> QED
    BY <2>1 DEF WatchdogIsHealthy
<1> QED
  BY <1>1, <1>2

LEMMA WatchedTick ==
  ASSUME TypeOK, WatchdogIsHealthy, Tick, watched' = watched,
         quiet' = IF Bites THEN 0
                  ELSE IF Running THEN Min({quiet + 1, Patience + 1}) ELSE quiet
  PROVE  WatchdogIsHealthy'
<1>1. /\ Healthy(watched, Scaler, FlagNext, StandbyNext, QuietNext)
      /\ quiet + 1 <= Patience
  BY PassKeepsHealth
<1>2. quiet' = QuietNext
  <2>1. quiet \in Nat /\ Patience \in Int
    <3>1. quiet \in Nat /\ Window \in Int
      BY Periods DEF WatchdogIsHealthy, Healthy, Window
    <3> QED
      BY <3>1, Periods DEF Patience
  <2>2. Min({quiet + 1, Patience + 1}) = quiet + 1
    BY <1>1, <2>1, MinOfTwo
  <2> QED
    BY <2>2 DEF QuietNext
<1>3. Flag' = FlagNext
  BY DEF Tick, Flag, FlagNext, TypeOK, WatchdogIsHealthy, Healthy
<1>4. SCALER1' = Scaler /\ Standby' = StandbyNext
  BY DEF Tick
<1> QED
  BY <1>1, <1>2, <1>3, <1>4 DEF WatchdogIsHealthy

LEMMA WatchedStep ==
  ASSUME TypeOK, WatchdogIsHealthy, [MCNext]_mcvars
  PROVE  WatchdogIsHealthy'
<1>1. CASE /\ Tick
           /\ quiet' = IF Bites THEN 0
                       ELSE IF Running THEN Min({quiet + 1, Patience + 1}) ELSE quiet
           /\ watched' = watched
  BY <1>1, WatchedTick
<1>2. ASSUME NEW kind \in Kinds, NEW touch \in Touches, Execute(kind, touch),
             quiet' = (IF Feeds(kind, touch, InIsr) THEN 0 ELSE quiet), watched' = watched
      PROVE  WatchdogIsHealthy'
  <2>1. kind \in {"tc", "transient", "other"} /\ touch \in BOOLEAN /\ InIsr \in BOOLEAN
    BY SwitchAssumption DEF TypeOK
  <2>2. /\ ~Standby /\ UNCHANGED <<SCALER1, Standby>> /\ FeedWatchdogs(kind, InIsr)
        /\ NightWatchman' = (NightWatchman /\ ~touch)
    BY <1>2 DEF Execute, CanExecute, clockVars
  <2>3. Flag' = (Flag /\ ~Feeds(kind, touch, InIsr))
    BY <1>2, <2>1, <2>2, InstructionFeeds
  <2>4. Feeds(kind, touch, InIsr) \in BOOLEAN
    BY <2>1 DEF Feeds
  <2> QED
    BY <1>2, <2>2, <2>3, <2>4, AfterFeeding
<1>3. CASE /\ \/ \E bits \in SUBSET (Ch13Bits \cap Ops) : WriteChannel13(bits, {})
              \/ TakeInterrupt
              \/ Resume
           /\ quiet' = (IF Feeds("other", FALSE, InIsr') THEN 0 ELSE quiet)
           /\ watched' = watched
  <2>1. /\ ~Standby /\ UNCHANGED <<SCALER1, Standby>>
        /\ NightWatchman' = NightWatchman /\ InIsr' \in BOOLEAN
        /\ FeedWatchdogs("other", InIsr')
    <3>1. CASE \E bits \in SUBSET (Ch13Bits \cap Ops) : WriteChannel13(bits, {})
      BY <3>1 DEF WriteChannel13, CanExecute, clockVars, ruptVars, TypeOK
    <3>2. CASE TakeInterrupt
      BY <3>2 DEF TakeInterrupt, CanExecute
    <3>3. CASE Resume
      BY <3>3 DEF Resume, CanExecute, clockVars
    <3> QED
      BY <1>3, <3>1, <3>2, <3>3
  <2>2. NightWatchman' = (NightWatchman /\ ~FALSE)
    BY <2>1 DEF TypeOK
  <2>3. Flag' = (Flag /\ ~Feeds("other", FALSE, InIsr'))
    BY <1>3, <2>1, <2>2, InstructionFeeds
  <2>4. Feeds("other", FALSE, InIsr') \in BOOLEAN
    BY <2>1 DEF Feeds
  <2> QED
    BY <1>3, <2>1, <2>3, <2>4, AfterFeeding
<1>4. CASE (Delay \/ Idle \/ World \/ UNCHANGED vars) /\ UNCHANGED <<quiet, watched>>
  <2>1. UNCHANGED <<SCALER1, Standby, NightWatchman, RuptLock, NoRupt, TCTrap, NoTC>>
    BY <1>4 DEF Delay, Idle, World, MovePro, MoveHandController, InputRupt, Downrupt,
       vars, clockVars, standbyVars, watchVars
  <2>2. Flag' = Flag
    BY <1>4, <2>1 DEF Flag
  <2> QED
    BY <1>4, <2>1, <2>2 DEF WatchdogIsHealthy
<1> QED
  BY <1>1, <1>2, <1>3, <1>4 DEF MCNext, mcvars

LEMMA WatchIsScaler == MCSpec => Spec
<1>1. MCInit => Init
  BY DEF MCInit
<1>2. [MCNext]_mcvars => [Next]_vars
  <2> SUFFICES ASSUME MCNext PROVE Next
    BY DEF mcvars
  <2>1. CASE \E bits \in SUBSET (Ch13Bits \cap Ops) : WriteChannel13(bits, {})
    BY <2>1 DEF Next, Program, ProgramBesidesDownlink
  <2> QED
    BY <2>1 DEF MCNext, Next, Program, ProgramBesidesDownlink
<1> QED
  BY <1>1, <1>2, PTL DEF MCSpec, Spec

\* Both of the watchdogs' promises follow from their health.
LEMMA WatchdogsAreRight == MCSpec => [](AlarmsAreEarned /\ WatchdogsBite)
<1>1. MCInit => WatchdogIsHealthy
  <2> SUFFICES ASSUME MCInit PROVE WatchdogIsHealthy
    OBVIOUS
  <2>1. /\ SCALER1 = 0 /\ quiet = 0 /\ Standby = FALSE
        /\ watched \in {"NightWatchman", "RuptLock", "NoRupt", "TCTrap", "NoTC"}
    BY DEF MCInit, Init, Watches
  <2>2. Flag = FALSE
    BY DEF MCInit, Init, Flag
  <2>3. /\ 0 % NightPeriod = 0 /\ 0 % RuptPeriod = 0 /\ 0 % TcPeriod = 0
    BY Periods
  <2> DEFINE hn == NightPeriod \div 2
             hr == RuptPeriod \div 2
             hc == TcPeriod \div 2
  <2>4. hn \in Nat \ {0} /\ hr \in Nat \ {0} /\ hc \in Nat \ {0}
    BY Periods
  <2> HIDE DEF hn, hr, hc
  <2>5. /\ NightEarned(hn, 0, FALSE, FALSE, 0) /\ NightDue(hn, 0, FALSE, FALSE, 0)
        /\ Earned(hr, RuptCheck, 0, FALSE, FALSE, 0) /\ Due(hr, RuptCheck, 0, FALSE, FALSE, 0)
        /\ Earned(hc, 0, 0, FALSE, FALSE, 0) /\ Due(hc, 0, 0, FALSE, FALSE, 0)
    BY <2>4 DEF NightEarned, NightDue, Earned, Due
  <2> QED
    BY <2>1, <2>2, <2>3, <2>5 DEF WatchdogIsHealthy, Healthy, hn, hr, hc
<1>2. TypeOK /\ WatchdogIsHealthy /\ [MCNext]_mcvars => WatchdogIsHealthy'
  BY WatchedStep
<1>3. TypeOK /\ WatchdogIsHealthy => AlarmsAreEarned /\ WatchdogsBite
  <2> SUFFICES ASSUME TypeOK, WatchdogIsHealthy PROVE AlarmsAreEarned /\ WatchdogsBite
    OBVIOUS
  <2>1. AlarmsAreEarned /\ quiet + 1 <= Patience /\ quiet \in Nat
    BY PassKeepsHealth DEF WatchdogIsHealthy, Healthy
  <2>2. Patience \in Int
    <3>1. Window \in Int
      BY Periods DEF Window
    <3> QED
      BY <3>1, Periods DEF Patience
  <2> QED
    BY <2>1, <2>2 DEF WatchdogsBite
<1>4. MCSpec => [](TypeOK /\ RadarGateBounded)
  BY WatchIsScaler, TypesAndRadar
<1> QED
  BY <1>1, <1>2, <1>3, <1>4, PTL DEF MCSpec

\* No watchdog bites a program that fed it within its window, for any periods
\* of the scaler: through restarts, other alarms and standby.
THEOREM AlarmsAreNotEarly == MCSpec => []AlarmsAreEarned
BY WatchdogsAreRight, PTL

\* None lets a program that does not feed it run for longer than a period and
\* the window, whatever restarts, alarms and standby come between.
THEOREM AlarmsAreNotMissed == MCSpec => []WatchdogsBite
BY WatchdogsAreRight, PTL
=============================================================================
