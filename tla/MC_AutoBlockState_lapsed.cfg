SPECIFICATION StateSpec
CONSTANTS
  Addrs = {a1}
  Actors = {p1, p2}
  QueueCap = 1
  MaxHistory = 1
  BootConfigs <- FirewallBoots
  MaxOps = 2
  MaxBoots = 1
CHECK_DEADLOCK FALSE
PROPERTY LapsedRuleParked
