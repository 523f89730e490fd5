SPECIFICATION Spec
CONSTANTS
  Addr = {1, 2, 3, 4}
  MaxPlayers = 3
  QueueSize = 2
  MaxRecv = 2
  Kickable = {2}
  None = None
INVARIANTS TypeOK IdsExact QueueExact AppKnowsPlayers RoomKept
