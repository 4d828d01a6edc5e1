SPECIFICATION MCFairSpec
CONSTANTS
  HALF = 16384
  Channels <- UsedChannels
  Counters <- UsedCounters
  Cdus = {}
  CmOrLm = FALSE
  RINGBUFFER_ELEMENTS = 3
  Families <- HostPackets
  Writes <- Inputs
  Outputs <- Displays
  Lamps <- LitLamps
  Alarms <- NightWatchman
  Budget = 4
  Chatter = 1
INVARIANTS RTypeOK HostsAccountHolds
PROPERTIES RingsAreQueues LastKeyIsSeen
CHECK_DEADLOCK FALSE
