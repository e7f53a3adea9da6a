SPECIFICATION OperationsSpec
CONSTANTS
  Names = {n1, n2}
  Admins = {n1, n2}
  Clients = {c1, c2}
  MaxSessions = 2
  MaxFresh = 3
  MaxRestarts = 1
  MaxObjects = 2
  MaxRuns = 3
  MaxCrashes = 1
  Jobs = {c1, c2}
  MaxKeep = 2
  MaxArchives = 4
  Deployers = {c1, c2}
  MaxRevs = 2
  MaxApps = 2
  MaxEdits = 2
  MaxDirs = 2
  Ports = {p1}
  Protected = {}
  MaxRules = 2
  MaxEnables = 2
  Sites = {c1, c2}
  CheckConcurrency = 1
  FailThreshold = 2
  MaxUpdates = 3
CHECK_DEADLOCK FALSE
INVARIANTS
  OperationsTypeOK RevokedStaysOut NoProcessEscapes NewestSurvive ReportIsTrue
  ConfirmedStaysOn ResultsOfThisDomain
SYMMETRY Symmetric
