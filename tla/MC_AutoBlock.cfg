SPECIFICATION Spec
CONSTANTS
  Addrs = {a1}
  Actors = {p1, p2}
  QueueCap = 1
  MaxHistory = 1
  BootConfigs <- Boots
  MaxOps = 4
CHECK_DEADLOCK FALSE
INVARIANTS ViewIsEnforced FlaggedBlockHasRule RuleOutlivesOnlyByRace
PROPERTY LiftedRuleGoes
