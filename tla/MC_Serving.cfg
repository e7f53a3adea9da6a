SPECIFICATION ServingSpec
CONSTANTS
  Requests = {r1, r2}
  Primary = {v1, v2, v3}
  Canary = {b1}
  MaxRetries = 2
  Callers = {c1}
  MaxCerts = 3
  MaxGroups = 2
  MaxFaults = 2
  MaxLoads = 5
  MaxReloads = 4
  PhpRequests = {v1, v2, v3}
  MaxOpen = 2
  MaxIdle = 1
  Visits = {v1, v2, v3}
  MaxConnections = 2
  Quotas <- ThreeQuotas
  MaxChanges = 1
  Pages = {k1, k2}
  Readers = {v1, v2, v3}
  MaxRefreshes = 1
  Hits = {v1, v2, v3}
  HitLimit = 2
  MaxCounters = 3
CHECK_DEADLOCK FALSE
INVARIANTS
  ServingTypeOK SentAtMostOnce ConnsMatchLoad PairStaysLoadable
  ManualCertFollowsConfig SlotsMatchConnections NoLostWakeup BlockFollowsQuota
  GuardHeldByOne OneRunningCount
SYMMETRY Symmetric
