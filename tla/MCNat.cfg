SPECIFICATION OneTableSpec
CONSTANTS
  a = a
  b = b
  c = c
  Flow <- MCFlow
  Endpoint <- MCEndpoint
  Remote <- MCRemote
  Home <- MCHome
  Slots = 2
  Probe = 2
  PortLo = 1
  PortHi = 2
  MaxTakes = 4
  EchoFlow <- MCEchoFlow
  EchoEndpoint <- MCEchoEndpoint
  EchoRemote <- MCEchoRemote
  EchoHome <- MCEchoHome
  EchoSlots = 3
  EchoProbe = 2
  IdLo = 1
  IdHi = 2
  IdFirst = 2
  AllocTries = 2
  EchoTakes = 4
  TickMod = 16
  Expiry = 1
  Attempts = 2
  LoadsSink = FALSE
  B = 6
  MaxTick = 3
INVARIANTS IndexIsLatestHolder DnatExact IdsUnique IndexExact EchoDnatExact
PROPERTIES TranslatesAtomically
SYMMETRY Symmetry
CHECK_DEADLOCK FALSE
