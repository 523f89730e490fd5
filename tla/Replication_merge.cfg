SPECIFICATION Spec
CONSTANTS
  NumFields = 2
  Size <- FixedSize
  Initial = 0
  Type = {1, 2}
  RingSlots = 4
  MaxUnacked = 2
  MaxTicks = 4
  MaxIds = 2
  MaxChanges = 4
INVARIANT EveryChangeArrives
CHECK_DEADLOCK FALSE
