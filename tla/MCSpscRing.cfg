SPECIFICATION RingSpec
CONSTANTS
  a = a
  b = b
  c = c
  Item <- MCItem
  Capacity <- MCCapacity
INVARIANTS
  NoSlotRace
PROPERTIES
  IsFifo
