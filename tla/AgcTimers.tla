----------------------------- MODULE AgcTimers -----------------------------
(***************************************************************************)
(* The timers, the radar gate and the interrupt requests of AgcScaler with *)
(* the history their promises are about: the clock counts since the start  *)
(* and what TIME6 has left to count.  The history reads only the scaler,   *)
(* the standby flag and channel 13, and restricts nothing.  A behaviour    *)
(* uses the operations of one scenario.                                    *)
(***************************************************************************)
EXTENDS AgcScaler

CONSTANT Scenarios     \* sets of operations

VARIABLES
  scenario,
  clock,     \* 10 ms counts while running, modulo the range of TIME2,TIME1
  left       \* the counts TIME6 has left to zero

ClockRange == HALF * HALF

TInit == Init /\ scenario \in Scenarios /\ clock = 0 /\ left = 0

\* The step is a tick of the running machine at a phase of the TC period.
RunningTick(phases) == /\ SCALER1' # SCALER1 /\ ~Standby'
                       /\ SCALER1' % TcPeriod \in phases
Odd == { p \in 0 .. TcPeriod - 1 : p % 2 = 1 }

TNext ==
  /\ Next
  /\ StaysWithin(scenario) /\ UNCHANGED scenario
  /\ clock' = IF RunningTick({TcPeriod \div 2}) THEN (clock + 1) % ClockRange ELSE clock
  /\ left' = IF SCALER1' = SCALER1
             THEN IF TIME' # TIME THEN AbsSP(TIME'[6]) ELSE left
             ELSE IF RunningTick(Odd) /\ "TIME6" \in channel13 /\ left > 0
             THEN left - 1 ELSE left

tvars == <<vars, scenario, clock, left>>
TSpec == TInit /\ [][TNext]_tvars

ClockScenario == {"RADAR", "LAMP_TEST", "pro", "STANDBY"}
AlarmScenario == {"TIME6", "parity", "ch77"}
HandScenario == {"key", "hand", "Trap31A"}
RuptScenario == {"key", "rupt"}
DownlinkScenario == {"downlink", "inhint"}
DumpScenario == {"resume", "RADAR", "key"}
StartScenario == {"start", "RADAR"}
AllScenarios == {ClockScenario, AlarmScenario, HandScenario, RuptScenario,
                 DownlinkScenario, DumpScenario, StartScenario}
AllOps == UNION AllScenarios

TTypeOK == /\ TypeOK
           /\ clock \in 0 .. ClockRange - 1
           /\ left \in 0 .. HALF - 1

-----------------------------------------------------------------------------
\* The mission clock: TIME2 and TIME1 together hold the number of 10 ms
\* counts, carries included, through every alarm, restart and standby, and from
\* one machine to the next that resumes from its core dump.
MissionClock == TIME[2] * HALF + TIME[1] = clock

\* TIME6 counts its magnitude down, one count per odd tick while enabled,
\* from either sign and through either zero, and T6RUPT comes on the count
\* that finds it at zero: one count after the loaded number, never earlier.
Time6CountsDown ==
  /\ AbsSP(TIME[6]) = left
  /\ Time6Ends => left = 0
=============================================================================
