CONSTANTS
  HALF = 4
  Axes <- MCAxes
  Optics <- MCOptics
  Selections <- MCSelections
  NoSelection = "none"
  GyroStep = 2
  GyroPeriod = 3
  GYRO_BURST2 = 2
  IMUCDU_BURST_CYCLES = 3
  CoarseMost = 1
  Uses <- AllUses
  Budget = 5
  MaxLag = 5
  Orders = {3, 5}
SPECIFICATION FairMSpec
INVARIANTS DrivesKeepCount GyrosKeepCount
PROPERTY OrdersAreSent
CHECK_DEADLOCK FALSE
