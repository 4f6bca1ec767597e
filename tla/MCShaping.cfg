SPECIFICATION ShapingSpec
CONSTANTS
  Rate <- MCRate
  NoRate = NoRate
  Size <- MCSize
  MaxFrame = 2
  MinBurst = 3
  BurstTicks = 1
  RingSize = 2
  MaxPackets = 4
  Horizon = 5
  Edits = 2
INVARIANTS DeliveredInOrder RateCapped FrontAffordable CapsApplied
CHECK_DEADLOCK FALSE
