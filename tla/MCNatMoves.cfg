SPECIFICATION Spec
CONSTANTS
  Flow <- MCFlow
  Endpoint <- MCEndpoint
  Remote <- MCRemote
  Home <- MCHome
  Slots = 2
  Probe = 2
  PortLo = 1
  PortHi = 2
  TickMod = 16
  Expiry = 1
  Attempts = 2
  LoadsSink = FALSE
  MaxTick = 3
  MaxTakes = 4
INVARIANTS OneSessionPerFlow
CHECK_DEADLOCK FALSE
