----------------------------- MODULE AgcStandby -----------------------------
(***************************************************************************)
(* The standby circuit of AgcScaler with the history its promises are      *)
(* about: how long the engine has seen PRO held, and whether it has seen   *)
(* PRO released since standby began.  The history is updated by the cycles *)
(* that look at channel 32 and restricts nothing.                          *)
(***************************************************************************)
EXTENDS AgcScaler

VARIABLES
  held,          \* ticks PRO has been seen held without a release in between
  sawRelease     \* PRO has been seen released since standby was entered

HoldTime == NightPeriod \div 2

HistoryInit == held = 0 /\ sawRelease = FALSE

\* A cycle that looks at PRO.
HistorySees ==
  /\ held' = IF proDown THEN held ELSE 0
  /\ sawRelease' = (sawRelease \/ ~proDown)

HistoryTicks ==
  /\ held' = IF ~proDown THEN 0 ELSE IF held < HoldTime THEN held + 1 ELSE held
  /\ sawRelease' = (~EntersStandby /\ (sawRelease \/ ~proDown))

SInit == Init /\ HistoryInit
SNext == \/ Tick /\ HistoryTicks
         \/ (Idle \/ Program) /\ HistorySees
         \/ (Delay \/ World) /\ UNCHANGED <<held, sawRelease>>

svars == <<vars, held, sawRelease>>
SSpec == SInit /\ [][SNext]_svars

\* agc_engine is called for ever, a delay runs out, and the first call that
\* reaches the scaler after a pulse is due runs a pass: between two delays
\* nothing keeps a call from the loop (channel input permitting), so a tick
\* that is possible again and again happens.
FairSSpec == SSpec /\ WF_svars(Delay /\ UNCHANGED <<held, sawRelease>>)
                   /\ SF_svars(Tick /\ HistoryTicks)

-----------------------------------------------------------------------------
\* One press cannot switch the machine off and on again: standby is left only
\* after the engine saw PRO released since standby began (SbyStillPressed).
ExitNeedsRelease == [][Standby /\ ~Standby' => sawRelease]_svars

\* A short press never stops the computer: standby begins only when PRO was
\* seen held, without a release, for half a Night Watchman period.
EntryNeedsHold == [][~Standby /\ Standby' => held >= HoldTime]_svars

\* A PRO that stays held is obeyed, whatever alarms restart the machine in
\* between: if only the program has standby enabled whenever the circuit
\* decides, the machine goes to standby and stays there.
Decides == SCALER1 % NightPeriod = NightPeriod \div 2 - 1
HeldProIsObeyed ==
  <>[](proDown /\ (Decides => Standby \/ "STANDBY" \in channel13)) => <>[]Standby

\* A second press brings the machine back, unless it is let go too soon.
SecondPressWakes ==
  (Standby /\ proDown /\ sawRelease) ~> (~Standby \/ ~proDown)
=============================================================================
