SPECIFICATION ListeningSpec
CONSTANTS
  HALF = 16384
  Channels <- UsedChannels
  Counters <- UsedCounters
  Cdus = {}
  CmOrLm = FALSE
  MAX_CLIENTS = 2
  SocketInterlaceReload = 1
  RoutinePeriod = 2
  TimeoutPeriod = 2
  Outputs <- Relays
  Stories <- TwoClients
  Visits <- OneComesTwice
  Lamps = {0, 128}
INVARIANT NewcomerIsUpToDate
CHECK_DEADLOCK FALSE
