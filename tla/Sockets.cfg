SPECIFICATION MCSpec
CONSTANTS
  HALF = 16384
  Channels <- UsedChannels
  Counters <- UsedCounters
  Cdus = {}
  CmOrLm = FALSE
  MAX_CLIENTS = 2
  SocketInterlaceReload = 1
  RoutinePeriod = 2
  TimeoutPeriod = 2
  Outputs <- Relays
  Stories <- TwoClients
  Visits <- OneComesTwice
  Lamps = {0}
INVARIANTS PacketsAreWhole OneByteOnePacket BitsAreTheirOwners ViewsAgree
PROPERTIES EveryoneIsHeard NewcomersGetIn
CHECK_DEADLOCK FALSE
