SPECIFICATION TiersSpec
CONSTANTS
  Routines = {p1, p2}
  Slots = {s1}
  MaxResponses = 2
  MaxPurges = 2
CHECK_DEADLOCK FALSE
INVARIANT OnlySparedSurvive
