SPECIFICATION Spec
CONSTANTS
  NumFields = 2
  Size <- FixedSize
  Initial = 0
  Type = {t1, t2}
  RingSlots = 5
  MaxUnacked = 1
  MaxTicks = 5
  MaxIds = 2
  MaxChanges = 4
SYMMETRY AnyType
INVARIANTS TypeOK NoChangeForgotten MasterExact ClientMirrors InterpolatesLastTwo GhostsOnlyAfterFull EventsTellAll
CHECK_DEADLOCK FALSE
