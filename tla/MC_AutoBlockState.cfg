SPECIFICATION StateSpec
CONSTANTS
  Addrs = {a1, a2}
  Actors = {p1, p2}
  QueueCap = 1
  MaxHistory = 1
  BootConfigs <- Boots
  MaxOps = 2
  MaxBoots = 1
CHECK_DEADLOCK FALSE
INVARIANTS StateTypeOK RestoredViewIsEnforced FileCatchesUp
SYMMETRY Symmetric
