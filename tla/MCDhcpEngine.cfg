SPECIFICATION Spec
CONSTANTS
  m1 = m1
  m2 = m2
  NoMac = NoMac
  Mac <- MCMac
  Addr <- MCAddr
  Router <- MCRouter
  Duration <- MCDuration
  MaxPool = 2
  QueueSize = 1
  Budget = 2
  MaxTime = 3
SYMMETRY MCSymmetry
INVARIANTS
  OneLeasePerMac
  NoDoubleLease
PROPERTIES
  RenewalsAcked
