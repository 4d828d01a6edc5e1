----------------------------- MODULE MCWatchdog -----------------------------
(***************************************************************************)
(* AgcScaler with one of its five watchdog flags singled out and the time  *)
(* since the program last fed it measured, in ticks during which the       *)
(* machine was running.  The measure is a history variable: it reads the   *)
(* specification and never restricts it.                                   *)
(***************************************************************************)
EXTENDS AgcScaler

VARIABLES
  watched,      \* the watchdog, one per behaviour
  mix,          \* the operations that the behaviour uses
  quiet         \* the ticks since it was fed

OwnAlarm == CASE watched = "NightWatchman" -> "NIGHT_WATCHMAN"
              [] watched \in {"RuptLock", "NoRupt"} -> "RUPT_LOCK"
              [] OTHER -> "TC_TRAP"

\* The watchdog's own flag, and whether the next tick sounds the alarm on it.
Flag == CASE watched = "NightWatchman" -> NightWatchman
          [] watched = "RuptLock" -> RuptLock
          [] watched = "NoRupt" -> NoRupt
          [] watched = "TCTrap" -> TCTrap
          [] OTHER -> NoTC
Bites == OwnAlarm \in NewAlarms /\ Flag

\* How long the watchdog has to go unfed before it may bite ...
Window == CASE watched = "NightWatchman" -> NightPeriod \div 2
            [] watched \in {"RuptLock", "NoRupt"} -> RuptPeriod \div 2 + RuptCheck
            [] OTHER -> TcPeriod \div 2
\* ... and how long it may go unfed before it has to.
Patience == Window + (CASE watched = "NightWatchman" -> NightPeriod
                        [] watched \in {"RuptLock", "NoRupt"} -> RuptPeriod
                        [] OTHER -> TcPeriod)

\* What the watchdog asks of an instruction.
Feeds(kind, touch, inIsr) ==
  CASE watched = "NightWatchman" -> touch
    [] watched = "RuptLock" -> ~inIsr
    [] watched = "NoRupt" -> inIsr
    [] watched = "TCTrap" -> kind # "tc"
    [] OTHER -> kind # "other"

RuptMix == {"rupt"}
StandbyMix == {"pro", "STANDBY"}
MixOps == RuptMix \cup StandbyMix
Watches == ({"RuptLock", "NoRupt", "TCTrap", "NoTC"} \X {RuptMix})
           \cup ({"NightWatchman", "RuptLock", "NoTC"} \X {StandbyMix})

MCInit == /\ Init /\ quiet = 0
          /\ \E watch \in Watches : watched = watch[1] /\ mix = watch[2]

MCNext ==
  /\ \/ /\ Tick
        /\ quiet' = IF Bites THEN 0
                    ELSE IF Running THEN Min({quiet + 1, Patience + 1}) ELSE quiet
     \/ \E kind \in Kinds, touch \in Touches :
          /\ Execute(kind, touch)
          /\ quiet' = IF Feeds(kind, touch, InIsr) THEN 0 ELSE quiet
     \/ /\ \/ \E bits \in SUBSET (Ch13Bits \cap Ops) : WriteChannel13(bits, {})
           \/ TakeInterrupt
           \/ Resume
        /\ quiet' = IF Feeds("other", FALSE, InIsr') THEN 0 ELSE quiet
     \/ (Delay \/ Idle \/ World) /\ UNCHANGED quiet
  /\ StaysWithin(mix) /\ UNCHANGED <<watched, mix>>

mcvars == <<vars, watched, mix, quiet>>
MCSpec == MCInit /\ [][MCNext]_mcvars

\* What the alarms depend on: everything but the latches of channel 77 and the
\* warning filter, which nothing reads but they themselves.
AlarmView ==
  <<clockVars, standbyVars, proDown, watchVars, ParityFail, channel13, handVars,
    RadarGateCounter, ruptVars, downVars, watched, mix, quiet>>

\* A watchdog never bites a program that fed it: the next tick sounds the
\* alarm only if the whole window of running time went by without a single feed, also
\* when the machine went through standby, or through another alarm's restart, in
\* the middle of the window (the flags are not reset by either).
AlarmsAreEarned == Bites => quiet >= Window

\* A watchdog that is not fed always bites: however standby, restarts and
\* the phases of the scaler interleave, no program runs for longer than one
\* period and a window without feeding it and without its alarm.
WatchdogsBite == quiet <= Patience
=============================================================================
