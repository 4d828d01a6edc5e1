SPECIFICATION TSpec
CONSTANTS
  HALF = 2
  TcPeriod = 8
  RuptPeriod = 32
  RuptCheck = 8
  NightPeriod = 64
  WarnPeriod = 4
  ScalerModulus = 64
  WARNING_FILTER_INCREMENT = 2
  WARNING_FILTER_DECREMENT = 1
  WARNING_FILTER_MAX = 3
  RadarGates = 2
  InhibitAlarms = FALSE
  Ops <- AllOps
  Scenarios <- AllScenarios
  Kinds = {"transient"}
  Touches = {TRUE}
  TimerWrites = {1, 2}
INVARIANTS TTypeOK MissionClock RadarGateBounded TrippedIsLatched Time6CountsDown
PROPERTY RequestsServedOrReset
CHECK_DEADLOCK FALSE
