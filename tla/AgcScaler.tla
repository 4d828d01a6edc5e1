----------------------------- MODULE AgcScaler -----------------------------
(***************************************************************************)
(* The scaler of the AGC and everything its pulses drive: the alarms, the  *)
(* standby circuit, the warning filter, the timers, the HANDRUPT traps,    *)
(* the radar gate and the restart (GOJAM) that an alarm causes             *)
(* (src/yaAGC/agc_engine.c).                                               *)
(*                                                                         *)
(* agc_engine() is called once per machine cycle; every 80/3 cycles, 3200  *)
(* times a second, the call runs one pass of the loop modelled by Tick.    *)
(* Between two passes the calls run the AGC program: what an instruction   *)
(* does to the state of this module is one of the program's actions below. *)
(* Neither the number of cycles between two passes nor the instruction set *)
(* is modelled here (AgcCycle has both): any number of instructions may    *)
(* come between two ticks, none included, since input counts may use up    *)
(* every cycle.                                                            *)
(*                                                                         *)
(* The masks the code tests SCALER1 with are periods here.  In the code    *)
(* TcPeriod is 040, RuptPeriod 01000, NightPeriod 010000, WarnPeriod 010   *)
(* and ScalerModulus 040000.                                               *)
(***************************************************************************)
EXTENDS AgcWord, FiniteSets, FiniteSetsExt

CONSTANTS
  TcPeriod,          \* ticks between two looks of the TC trap
  RuptPeriod,        \* ticks between two looks of the rupt lock
  RuptCheck,         \* the phase of RuptPeriod at which the rupt lock ends
  NightPeriod,       \* ticks between two looks of the Night Watchman
  WarnPeriod,        \* ticks between two steps of the warning filter
  ScalerModulus,     \* SCALER1 counts modulo this
  WARNING_FILTER_INCREMENT, WARNING_FILTER_DECREMENT, WARNING_FILTER_MAX,
  RadarGates,        \* gate pulses of a radar cycle (9 in the code)
  InhibitAlarms,     \* the command-line switch: alarms do not restart
  Ops,               \* the operations the program and its world may use
  Kinds,             \* the kinds of instruction the program is made of
  Touches,           \* whether its instructions address 067
  TimerWrites        \* the words the program may store in TIME6

ASSUME PeriodAssumption ==
  /\ TcPeriod \in Nat /\ TcPeriod >= 8 /\ TcPeriod % 4 = 0
  /\ RuptPeriod \in Nat \ {0} /\ RuptPeriod % (2 * TcPeriod) = 0
  /\ RuptCheck \in 1 .. RuptPeriod \div 2 - 1 /\ RuptCheck % TcPeriod = 0
  /\ NightPeriod \in Nat \ {0} /\ NightPeriod % (2 * RuptPeriod) = 0
  /\ WarnPeriod \in Nat \ {0} /\ RuptPeriod % (2 * WarnPeriod) = 0
  /\ ScalerModulus \in Nat \ {0} /\ ScalerModulus % NightPeriod = 0
ASSUME FilterAssumption ==
  /\ WARNING_FILTER_INCREMENT \in Nat
  /\ WARNING_FILTER_DECREMENT \in Nat
  /\ WARNING_FILTER_MAX \in Nat
ASSUME RadarAssumption == RadarGates \in 1 .. 15
ASSUME SwitchAssumption ==
  /\ InhibitAlarms \in BOOLEAN
  /\ TimerWrites \subseteq Word
  /\ Kinds \subseteq {"tc", "transient", "other"}
  /\ Touches \subseteq BOOLEAN

Interrupts == 1 .. 10          \* NUM_INTERRUPT_TYPES
Alarms == {"NIGHT_WATCHMAN", "RUPT_LOCK", "TC_TRAP", "PARITY_FAIL"}
Traps == {"Trap31A", "Trap31B", "Trap32"}
Ch13Bits == {"TIME6", "STANDBY", "LAMP_TEST", "RADAR"}

VARIABLES
  SCALER1,               \* the input channel of the clock divider
  TIME,                  \* TIME[i] is the timer cell TIMEi, 1 <= i <= 6
  Standby,               \* the computer is in standby
  SbyPressed,            \* the standby circuit has seen PRO held
  SbyStillPressed,       \* PRO has not been released since standby began
  proDown,               \* PRO is held (bit 14 of channel 32 is 0)
  NightWatchman, NightWatchmanTripped,
  RuptLock, NoRupt, TCTrap, NoTC,
  ParityFail,
  GeneratedWarning, WarningFilter,
  channel13,             \* the bits of channel 13 this module reads
  channel77,             \* the alarms latched in channel 77
  armed,                 \* the HANDRUPT traps that are set
  handActive,            \* the traps whose inputs in channels 31, 32 are on
  RadarGateCounter,
  InterruptRequests,     \* the interrupts requested
  InIsr, AllowInterrupt,
  ExtraDelay,            \* cycles the engine still owes
  Downlink,              \* the downlink words written since the last pair
  DownruptTimeValid      \* a DOWNRUPT is due

clockVars == <<SCALER1, TIME, ExtraDelay>>
standbyVars == <<Standby, SbyPressed, SbyStillPressed>>
watchVars == <<NightWatchman, NightWatchmanTripped, RuptLock, NoRupt, TCTrap, NoTC>>
faultVars == <<ParityFail, GeneratedWarning, WarningFilter>>
channelVars == <<channel13, channel77>>
handVars == <<armed, handActive>>
ruptVars == <<InterruptRequests, InIsr, AllowInterrupt>>
downVars == <<Downlink, DownruptTimeValid>>
vars == <<clockVars, standbyVars, proDown, watchVars, faultVars, channelVars,
          handVars, RadarGateCounter, ruptVars, downVars>>

\* Fields count without bound in the actions, so that this is also the claim
\* that the code's bit fields (ExtraDelay:3, RadarGateCounter:4) hold them.
TypeOK ==
  /\ SCALER1 \in 0 .. ScalerModulus - 1
  /\ TIME \in [1 .. 6 -> Word]
  /\ Standby \in BOOLEAN /\ SbyPressed \in BOOLEAN /\ SbyStillPressed \in BOOLEAN
  /\ proDown \in BOOLEAN
  /\ NightWatchman \in BOOLEAN /\ NightWatchmanTripped \in BOOLEAN
  /\ RuptLock \in BOOLEAN /\ NoRupt \in BOOLEAN
  /\ TCTrap \in BOOLEAN /\ NoTC \in BOOLEAN
  /\ ParityFail \in BOOLEAN /\ GeneratedWarning \in BOOLEAN
  /\ InIsr \in BOOLEAN /\ AllowInterrupt \in BOOLEAN
  /\ DownruptTimeValid \in BOOLEAN
  /\ WarningFilter \in 0 .. WARNING_FILTER_MAX
  /\ channel13 \subseteq Ch13Bits
  /\ channel77 \subseteq Alarms
  /\ armed \subseteq Traps /\ handActive \subseteq Traps
  /\ RadarGateCounter \in 0 .. 15
  /\ InterruptRequests \subseteq Interrupts
  /\ ExtraDelay \in 0 .. 7
  /\ Downlink \in {{}, {34}, {35}}

\* agc_engine_init: memory and flags are 0, interrupts are allowed, the
\* inputs read as idle, and the DOWNRUPT due at cycle 0 is requested by the
\* first call before anything else happens.
Init ==
  /\ SCALER1 = 0 /\ TIME = [i \in 1 .. 6 |-> AGC_P0] /\ ExtraDelay = 0
  /\ Standby = FALSE /\ SbyPressed = FALSE /\ SbyStillPressed = FALSE
  /\ proDown = FALSE
  /\ NightWatchman = FALSE /\ NightWatchmanTripped = FALSE
  /\ RuptLock = FALSE /\ NoRupt = FALSE /\ TCTrap = FALSE /\ NoTC = FALSE
  /\ ParityFail = FALSE /\ GeneratedWarning = FALSE /\ WarningFilter = 0
  /\ channel13 = {} /\ channel77 = {}
  /\ armed = {} /\ handActive = {}
  /\ RadarGateCounter = 0
  /\ InterruptRequests = {8} /\ InIsr = FALSE /\ AllowInterrupt = TRUE
  /\ Downlink = {} /\ DownruptTimeValid = FALSE

-----------------------------------------------------------------------------
(* What every cycle that gets as far as the scaler does first: releasing   *)
(* PRO clears the standby circuit's memory of it.                          *)

\* Slips: PRO's release is missed; the inverted input bit is read as it is.
ReleaseMissed == SbyPressed
PolaritySwapped == SbyPressed /\ ~proDown
Pressed == SbyPressed /\ proDown
StillPressedForEver == SbyStillPressed
StillPressed == SbyStillPressed /\ proDown
SeePro == SbyPressed' = Pressed /\ SbyStillPressed' = StillPressed

-----------------------------------------------------------------------------
(* One pass of the scaler loop, idea by idea, in the order of the code.    *)

\* Slip: the scaler is not cut to its width.
ScalerUnbounded == SCALER1 + 1
Scaler == (SCALER1 + 1) % ScalerModulus      \* what the pass counts up to
At(period, phase) == Scaler % period = phase
NightBegins == At(NightPeriod, NightPeriod \div 2)
NightEnds == At(NightPeriod, 0)

\* The standby circuit decides half a period after it looked at PRO.
EntersStandby == NightBegins /\ Pressed /\ ~Standby /\ "STANDBY" \in channel13
\* Slip: the press that began standby may end it.
LeavesWhileHeld == NightBegins /\ Pressed /\ Standby
LeavesStandby == NightBegins /\ Pressed /\ Standby /\ ~StillPressed
StandbyNext == (Standby \/ EntersStandby) /\ ~LeavesStandby
Running == ~StandbyNext

NightAlarm == NightEnds /\ ~Standby /\ NightWatchman
\* Slip: the watch is armed during standby too.
RuptWatchInStandby == At(RuptPeriod, RuptPeriod \div 2)
RuptWatchBegins == Running /\ At(RuptPeriod, RuptPeriod \div 2)
RuptAlarm == Running /\ At(RuptPeriod, RuptCheck) /\ (RuptLock \/ NoRupt)
\* Slip: the watch begins with the wrong bit of the scaler.
TcWatchLate == Running /\ At(TcPeriod, TcPeriod - 2)
TcWatchBegins == Running /\ At(TcPeriod, TcPeriod \div 2)
\* Slip: both halves of the trap are asked for.
TcAlarmBoth == Running /\ At(TcPeriod, 0) /\ TCTrap /\ NoTC
TcAlarm == Running /\ At(TcPeriod, 0) /\ (TCTrap \/ NoTC)
NewAlarms == { a \in Alarms : \/ a = "NIGHT_WATCHMAN" /\ NightAlarm
                              \/ a = "RUPT_LOCK" /\ RuptAlarm
                              \/ a = "TC_TRAP" /\ TcAlarm }
\* Slip: going to standby does not restart.
StandbyWithoutRestart == NewAlarms # {}
TriggeredAlarm == EntersStandby \/ NewAlarms # {}
Gojam == (TriggeredAlarm \/ ParityFail) /\ ~InhibitAlarms

\* The filter is looked at only on ticks that are neither end of the night.
WarnStep == At(WarnPeriod, 0) /\ ~NightBegins /\ ~NightEnds
ChargesFilter == /\ WarnStep /\ At(RuptPeriod, RuptPeriod \div 2)
                 /\ GeneratedWarning \/ "LAMP_TEST" \in channel13
FilterUp == WarningFilter + WARNING_FILTER_INCREMENT
FilterNext == IF ChargesFilter
              THEN IF FilterUp > WARNING_FILTER_MAX THEN WARNING_FILTER_MAX ELSE FilterUp
              ELSE IF WarnStep
              THEN IF WarningFilter >= WARNING_FILTER_DECREMENT
                   THEN WarningFilter - WARNING_FILTER_DECREMENT ELSE 0
              ELSE WarningFilter

\* The timers that count on this tick.
\* Slip: the clock runs on in standby.
Time1InStandby == At(TcPeriod, TcPeriod \div 2)
Time1Counts == Running /\ At(TcPeriod, TcPeriod \div 2)      \* and TIME3
Time2Counts == Time1Counts /\ PincOverflows(TIME[1])
Time5Counts == Running /\ At(TcPeriod, 0)
Time4Counts == Running /\ At(TcPeriod, TcPeriod \div 4)
Time6Counts == Running /\ "TIME6" \in channel13 /\ Scaler % 2 = 1
Time6Ends == Time6Counts /\ DincReportsZero(TIME[6])

Counts(i) == CASE i \in {1, 3} -> Time1Counts
               [] i = 2 -> Time2Counts
               [] i = 4 -> Time4Counts
               [] i = 5 -> Time5Counts
               [] OTHER -> Time6Counts
TimeNext == [i \in 1 .. 6 |-> IF ~Counts(i) THEN TIME[i]
                              ELSE IF i = 6 THEN CounterDINC(TIME[i])
                              ELSE CounterPINC(TIME[i])]

\* Every count takes a cycle of its own; TIME1, TIME3 and TIME2 one each.
TickDelay == (IF Time1Counts THEN 2 ELSE 0) + (IF Time2Counts THEN 1 ELSE 0)
             + (IF Time4Counts THEN 1 ELSE 0) + (IF Time5Counts THEN 1 ELSE 0)
             + (IF Time6Counts THEN 1 ELSE 0)
DelayNext == LET owed == TickDelay + (IF Gojam THEN 2 ELSE 0)
             IN  IF owed = 0 THEN 0 ELSE owed - 1

Springing == IF Running THEN armed \cap handActive ELSE {}

RadarCounts == Time5Counts /\ "RADAR" \in channel13
\* Slip: the cycle's end is seen only while the radar is still on.
RadarEndsIfOn == /\ Running /\ RadarGateCounter = RadarGates
                 /\ At(TcPeriod, TcPeriod - 2) /\ "RADAR" \in channel13
RadarCycleEnds == /\ Running /\ RadarGateCounter = RadarGates
                  /\ At(TcPeriod, TcPeriod - 2)
RadarNext == IF RadarCycleEnds THEN 0
             ELSE IF RadarCounts THEN RadarGateCounter + 1
             ELSE RadarGateCounter

TickRequests == { i \in Interrupts :
                    \/ i = 1 /\ Time6Ends
                    \/ i = 2 /\ Time5Counts /\ PincOverflows(TIME[5])
                    \/ i = 3 /\ Time1Counts /\ PincOverflows(TIME[3])
                    \/ i = 4 /\ Time4Counts /\ PincOverflows(TIME[4])
                    \/ i = 9 /\ RadarCycleEnds
                    \/ i = 10 /\ Springing # {} }

\* CpuWriteIO to channels 34 and 35: two words written make a downlink pair.
DownlinkAfter(words, channel) ==
  IF words \cup {channel} = {34, 35} THEN {} ELSE words \cup {channel}

Tick ==
  /\ ExtraDelay = 0
  /\ SCALER1' = Scaler
  /\ Standby' = StandbyNext
  /\ SbyPressed' = (Pressed \/ (NightEnds /\ proDown))
  /\ SbyStillPressed' = (StillPressed \/ EntersStandby)
  /\ NightWatchman' = (NightWatchman \/ (NightBegins /\ ~Standby))
  /\ NightWatchmanTripped' = IF NightEnds THEN NightAlarm ELSE NightWatchmanTripped
  /\ RuptLock' = (RuptLock \/ RuptWatchBegins)
  /\ NoRupt' = (NoRupt \/ RuptWatchBegins)
  /\ TCTrap' = (TCTrap \/ TcWatchBegins)
  /\ NoTC' = (NoTC \/ TcWatchBegins)
  /\ channel77' = channel77 \cup NewAlarms
  /\ WarningFilter' = FilterNext
  /\ GeneratedWarning' = ((GeneratedWarning /\ ~ChargesFilter)
                            \/ (Gojam /\ ~StandbyNext))
  /\ TIME' = TimeNext
  /\ RadarGateCounter' = RadarNext
  /\ ExtraDelay' = DelayNext
  /\ IF Gojam
     THEN /\ ParityFail' = FALSE
          /\ InIsr' = FALSE /\ AllowInterrupt' = TRUE
          /\ InterruptRequests' = {}
          /\ armed' = {} /\ channel13' = {}
          /\ Downlink' = DownlinkAfter(DownlinkAfter(Downlink, 34), 35)
          /\ DownruptTimeValid' = FALSE
     ELSE /\ InterruptRequests' = InterruptRequests \cup TickRequests
          /\ armed' = armed \ Springing
          /\ channel13' = channel13 \ ((IF Time6Ends THEN {"TIME6"} ELSE {})
                                        \cup (IF RadarCycleEnds THEN {"RADAR"} ELSE {}))
          /\ UNCHANGED <<ParityFail, InIsr, AllowInterrupt, downVars>>
  /\ UNCHANGED <<proDown, handActive>>

-----------------------------------------------------------------------------
(* Cycles that do not reach the scaler loop, or reach it between pulses.   *)

\* A cycle of the delay a count, a restart or an interrupt has earned.
Delay == /\ ExtraDelay > 0
         /\ ExtraDelay' = ExtraDelay - 1
         /\ UNCHANGED <<SCALER1, TIME, standbyVars, proDown, watchVars, faultVars,
                        channelVars, handVars, RadarGateCounter, ruptVars, downVars>>

\* A cycle in which the machine only looks at PRO: in standby, or the first
\* cycle of an instruction that takes several.
Idle == /\ ExtraDelay = 0
        /\ SeePro
        /\ UNCHANGED <<clockVars, Standby, proDown, watchVars, faultVars, channelVars,
                       handVars, RadarGateCounter, ruptVars, downVars>>

-----------------------------------------------------------------------------
(* The program.  Each action is the last cycle of an instruction; the      *)
(* watchdogs are fed at its end.  kind is "tc" for TC and TCF, "transient" *)
(* for the instructions that disturb the TC trap as a TC would, "other"    *)
(* for the rest.                                                           *)

CanExecute == ExtraDelay = 0 /\ ~Standby

FeedWatchdogs(kind, inIsr) ==
  /\ NoTC' = (NoTC /\ kind = "other")
  /\ TCTrap' = (TCTrap /\ kind = "tc")
  /\ NoRupt' = (NoRupt /\ ~inIsr)
  /\ RuptLock' = (RuptLock /\ inIsr)

\* An instruction with no effect of its own here; touch: it addresses 067.
Execute(kind, touch) ==
  /\ CanExecute /\ SeePro
  /\ FeedWatchdogs(kind, InIsr)
  /\ NightWatchman' = (NightWatchman /\ ~touch)
  /\ UNCHANGED <<clockVars, Standby, proDown, NightWatchmanTripped, faultVars,
                 channelVars, handVars, RadarGateCounter, ruptVars, downVars>>

\* An access to a fixed-memory word whose parity bit is wrong.
ParityError ==
  /\ "parity" \in Ops
  /\ CanExecute /\ SeePro
  /\ FeedWatchdogs("other", InIsr)
  /\ ParityFail' = TRUE
  /\ channel77' = channel77 \cup {"PARITY_FAIL"}
  /\ UNCHANGED <<clockVars, Standby, proDown, NightWatchman, NightWatchmanTripped,
                 GeneratedWarning, WarningFilter, channel13, handVars,
                 RadarGateCounter, ruptVars, downVars>>

\* CpuWriteIO to channel 13: the trap bits set traps and are not kept.
WriteChannel13(bits, traps) ==
  /\ CanExecute /\ SeePro
  /\ FeedWatchdogs("other", InIsr)
  /\ channel13' = bits
  /\ armed' = armed \cup traps
  /\ UNCHANGED <<clockVars, Standby, proDown, NightWatchman, NightWatchmanTripped,
                 faultVars, channel77, handActive, RadarGateCounter, ruptVars, downVars>>

\* Slip: the program clears every latch of channel 77.
Channel77Cleared == {}
\* CpuWriteIO to channel 77 clears the latches it may clear.
Channel77Kept == IF NightWatchmanTripped THEN {"NIGHT_WATCHMAN"} ELSE {}
WriteChannel77 ==
  /\ "ch77" \in Ops
  /\ CanExecute /\ SeePro
  /\ FeedWatchdogs("other", InIsr)
  /\ channel77' = Channel77Kept
  /\ UNCHANGED <<clockVars, Standby, proDown, NightWatchman, NightWatchmanTripped,
                 faultVars, channel13, handVars, RadarGateCounter, ruptVars, downVars>>

\* CpuWriteIO to channels 34 and 35; the pair starts the 20 ms to DOWNRUPT.
WriteDownlink(channel) ==
  /\ "downlink" \in Ops
  /\ CanExecute /\ SeePro
  /\ FeedWatchdogs("other", InIsr)
  /\ Downlink' = DownlinkAfter(Downlink, channel)
  /\ DownruptTimeValid' = (DownruptTimeValid \/ Downlink' = {})
  /\ UNCHANGED <<clockVars, Standby, proDown, NightWatchman, NightWatchmanTripped,
                 faultVars, channelVars, handVars, RadarGateCounter, ruptVars>>

\* The program loads TIME6.
WriteTime6(w) ==
  /\ CanExecute /\ SeePro
  /\ FeedWatchdogs("other", InIsr)
  /\ TIME' = [TIME EXCEPT ![6] = w]
  /\ UNCHANGED <<SCALER1, ExtraDelay, Standby, proDown, NightWatchman,
                 NightWatchmanTripped, faultVars, channelVars, handVars,
                 RadarGateCounter, ruptVars, downVars>>

\* INHINT and RELINT.
SetAllowInterrupt(allow) ==
  /\ "inhint" \in Ops
  /\ CanExecute /\ SeePro
  /\ FeedWatchdogs("other", InIsr)
  /\ AllowInterrupt' = allow
  /\ UNCHANGED <<clockVars, Standby, proDown, NightWatchman, NightWatchmanTripped,
                 faultVars, channelVars, handVars, RadarGateCounter,
                 InterruptRequests, InIsr, downVars>>

\* Slip: the priorities are searched from the wrong end.
LastRequest == Max(InterruptRequests)
\* The engine vectors to the requested interrupt of the highest priority.
FirstRequest == Min(InterruptRequests)
TakeInterrupt ==
  /\ "rupt" \in Ops
  /\ CanExecute /\ SeePro
  /\ ~InIsr /\ AllowInterrupt /\ InterruptRequests # {}
  /\ InterruptRequests' = InterruptRequests \ {FirstRequest}
  /\ InIsr' = TRUE
  /\ ExtraDelay' = 1
  /\ FeedWatchdogs("other", TRUE)
  /\ UNCHANGED <<SCALER1, TIME, Standby, proDown, NightWatchman, NightWatchmanTripped,
                 faultVars, channelVars, handVars, RadarGateCounter, AllowInterrupt,
                 downVars>>

Resume ==
  /\ CanExecute /\ SeePro
  /\ InIsr
  /\ InIsr' = FALSE
  /\ FeedWatchdogs("other", FALSE)
  /\ UNCHANGED <<clockVars, Standby, proDown, NightWatchman, NightWatchmanTripped,
                 faultVars, channelVars, handVars, RadarGateCounter,
                 InterruptRequests, AllowInterrupt, downVars>>

-----------------------------------------------------------------------------
(* The world: channel inputs and the downlink clock.                       *)

MovePro ==
  /\ "pro" \in Ops
  /\ proDown' = ~proDown
  /\ UNCHANGED <<clockVars, standbyVars, watchVars, faultVars, channelVars, handVars,
                 RadarGateCounter, ruptVars, downVars>>

MoveHandController(input) ==
  /\ "hand" \in Ops
  /\ handActive' = IF input \in handActive THEN handActive \ {input}
                   ELSE handActive \cup {input}
  /\ UNCHANGED <<clockVars, standbyVars, proDown, watchVars, faultVars, channelVars,
                 armed, RadarGateCounter, ruptVars, downVars>>

\* A keystroke (KEYRUPT, 5) or an uplink word (UPRUPT, 7) arrives.
InputRupt(i) ==
  /\ "key" \in Ops
  /\ InterruptRequests' = InterruptRequests \cup {i}
  /\ UNCHANGED <<clockVars, standbyVars, proDown, watchVars, faultVars, channelVars,
                 handVars, RadarGateCounter, InIsr, AllowInterrupt, downVars>>

\* The 20 ms since the last downlink pair are over.
Downrupt ==
  /\ DownruptTimeValid
  /\ InterruptRequests' = InterruptRequests \cup {8}
  /\ DownruptTimeValid' = FALSE
  /\ UNCHANGED <<clockVars, standbyVars, proDown, watchVars, faultVars, channelVars,
                 handVars, RadarGateCounter, InIsr, AllowInterrupt, Downlink>>

-----------------------------------------------------------------------------
ProgramBesidesDownlink ==
  \/ \E kind \in Kinds, touch \in Touches : Execute(kind, touch)
  \/ ParityError
  \/ \E bits \in SUBSET (Ch13Bits \cap Ops), traps \in SUBSET (Traps \cap Ops) :
       WriteChannel13(bits, traps)
  \/ WriteChannel77
  \/ \E w \in TimerWrites : WriteTime6(w)
  \/ \E allow \in BOOLEAN : SetAllowInterrupt(allow)
  \/ TakeInterrupt
  \/ Resume

Program == \/ ProgramBesidesDownlink
           \/ \E channel \in {34, 35} : WriteDownlink(channel)

World == \/ MovePro
         \/ \E input \in Traps \cap Ops : MoveHandController(input)
         \/ \E i \in {5, 7} : InputRupt(i)
         \/ Downrupt

-----------------------------------------------------------------------------
(* A core dump, written between two calls of the engine, and the machine   *)
(* that agc_engine_init() makes of it.                                     *)

\* What no dump holds begins anew.
Forgotten ==
  /\ Standby' = FALSE /\ SbyPressed' = FALSE /\ SbyStillPressed' = FALSE
  /\ NightWatchman' = FALSE /\ NightWatchmanTripped' = FALSE
  /\ RuptLock' = FALSE /\ NoRupt' = FALSE /\ TCTrap' = FALSE /\ NoTC' = FALSE
  /\ ParityFail' = FALSE /\ GeneratedWarning' = FALSE /\ WarningFilter' = 0
  /\ armed' = {} /\ RadarGateCounter' = 0

\* DOWNRUPT is requested in any case.
RequestsAfterDump == InterruptRequests \cup {8}

\* --resume: the channels, memory and the fields of the dump are loaded.
ResumeCoreDump ==
  /\ "resume" \in Ops
  /\ Forgotten
  /\ InterruptRequests' = RequestsAfterDump
  /\ UNCHANGED <<clockVars, proDown, channelVars, handActive, InIsr, AllowInterrupt,
                 downVars>>

\* Without it, only memory is, with the timers in it.
StartFromErasable ==
  /\ "start" \in Ops
  /\ Forgotten
  /\ SCALER1' = 0 /\ ExtraDelay' = 0
  /\ proDown' = FALSE /\ handActive' = {}
  /\ channel13' = {} /\ channel77' = {}
  /\ InterruptRequests' = {8} /\ InIsr' = FALSE /\ AllowInterrupt' = TRUE
  /\ Downlink' = {} /\ DownruptTimeValid' = FALSE
  /\ UNCHANGED TIME

Restored == ResumeCoreDump \/ StartFromErasable

Next == Tick \/ Delay \/ Idle \/ Program \/ World \/ Restored

Spec == Init /\ [][Next]_vars

\* The step takes none of the operations that Ops switches but those of ops:
\* the model-checking modules cover several small sets of them in one run.
StaysWithin(ops) ==
  /\ proDown' # proDown => "pro" \in ops
  /\ handActive' # handActive => "hand" \in ops
  /\ (channel13' \ channel13) \cup (armed' \ armed) \subseteq ops
  /\ SCALER1' = SCALER1 /\ TIME' # TIME => "TIME6" \in ops
  /\ InIsr' /\ ~InIsr => "rupt" \in ops
  /\ ~AllowInterrupt' => "inhint" \in ops
  /\ Downlink' # Downlink => "downlink" \in ops
  /\ ParityFail' => "parity" \in ops
  /\ channel77 \ channel77' # {} => "ch77" \in ops
  /\ (InterruptRequests' \ InterruptRequests) \cap {5, 7} # {} => "key" \in ops
  /\ ResumeCoreDump => "resume" \in ops
  /\ StartFromErasable => "start" \in ops

-----------------------------------------------------------------------------
\* The gate counter never passes a full radar cycle, and a full one is
\* consumed before the next pulse can come, whatever restarts and standby
\* do to the scaler's other users: the cycle's end is never skipped, after
\* which the 4-bit counter would have to wrap before it could match again.
\* Standby, which stops the gate but not the scaler, never finds a full one.
RadarGateBounded ==
  /\ RadarGateCounter <= RadarGates
  /\ RadarGateCounter = RadarGates => SCALER1 % TcPeriod < TcPeriod - 2
  /\ Standby => RadarGateCounter # RadarGates

\* The Night Watchman's bit of channel 77 stays asserted while the circuit
\* says so, whatever the program writes to the channel.
TrippedIsLatched == NightWatchmanTripped => "NIGHT_WATCHMAN" \in channel77

\* During standby the machine stays as the restart left it, ready to start
\* at 4000 when standby ends: not in an interrupt, interrupts allowed, no
\* trap set, channel 13 clear, and no interrupt pending but the ones that
\* the outside can raise.
StandbyHoldsRestartState ==
  Standby /\ ~InhibitAlarms =>
    /\ ~InIsr /\ AllowInterrupt
    /\ armed = {} /\ channel13 = {}
    /\ InterruptRequests \subseteq {5, 7}
    /\ ~DownruptTimeValid

\* The interrupt logic loses nothing: a request disappears only when the
\* engine vectors to it, the highest in priority, in a restart, or when a new
\* machine is started that has only memory from the old one.
MayGo(i) == \/ InIsr' /\ ~InIsr /\ \A j \in InterruptRequests : i <= j
            \/ SCALER1' # SCALER1 /\ ~InIsr' /\ InterruptRequests' = {}
            \/ StartFromErasable
RequestsServedOrReset ==
  [][\A i \in InterruptRequests \ InterruptRequests' : MayGo(i)]_vars
=============================================================================
