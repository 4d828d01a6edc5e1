CONSTANTS
  HALF = 2
  NUM_CDU_FIFOS = 2
  MAX_CDU_FIFO_ENTRIES = 2
  SlowInterval = 5
  FastInterval = 3
  Budget = 4
  MaxLate = 2
  Types <- AllTypes
SPECIFICATION MSpec
INVARIANTS TypeOK NeverAheadOfTheRate UpdatesInTurn
PROPERTY QueueSpec
