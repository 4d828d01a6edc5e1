CONSTANTS
  HALF = 4
  Axes <- MCAxes
  Optics <- MCOptics
  Selections <- MCSelections
  NoSelection = "none"
  GyroStep = 2
  GyroPeriod = 3
  GYRO_BURST2 = 2
  IMUCDU_BURST_CYCLES = 3
  CoarseMost = 1
  Uses <- OpticsOnly
  Budget = 4
  MaxLag = 9
  Orders = {3, 5}
SPECIFICATION MSpec
INVARIANT OpticsObeyOrders
CHECK_DEADLOCK FALSE
