SPECIFICATION FairSSpec
CONSTANTS
  HALF = 1
  TcPeriod = 8
  RuptPeriod = 32
  RuptCheck = 8
  NightPeriod = 64
  WarnPeriod = 4
  ScalerModulus = 64
  WARNING_FILTER_INCREMENT = 0
  WARNING_FILTER_DECREMENT = 0
  WARNING_FILTER_MAX = 0
  RadarGates = 2
  InhibitAlarms = FALSE
  Ops = {"pro", "STANDBY"}
  Kinds = {"transient"}
  Touches = {TRUE}
  TimerWrites = {}
INVARIANT StandbyHoldsRestartState
PROPERTIES ExitNeedsRelease EntryNeedsHold HeldProIsObeyed SecondPressWakes
CHECK_DEADLOCK FALSE
