\* Batches of two, so that each core may commit twice.
SPECIFICATION DashboardSpec
CONSTANTS
  ip1 = ip1
  ip2 = ip2
  m1 = m1
  m2 = m2
  Ip <- MCIp
  Mac <- MCMac
  None = None
  Torn = Torn
  MaxDevices = 2
  Scans = 2
  Threshold = 2
  Frame <- MCFrames
  Batch = 2
  Frames = 4
INVARIANTS CountersConserve RatesNeverWrap SettledPageIsCurrent
SYMMETRY Symmetry
CHECK_DEADLOCK FALSE
