SPECIFICATION Spec
CONSTANTS
  h1 = h1
  h2 = h2
  v1 = v1
  v2 = v2
  Hosts = {h1, h2}
  Values = {v1, v2}
  Absent = Absent
  Boot <- OneSite
  Subsystems <- Order
  Procs = {p1, p2}
  MaxOps = 3
CHECK_DEADLOCK FALSE
INVARIANTS FilesMatchConfig LiveUnlessOvertaken
PROPERTY EveryRequestEnds
