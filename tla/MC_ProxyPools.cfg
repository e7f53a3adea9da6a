SPECIFICATION PoolsSpec
CONSTANTS
  Backends = {b1}
  Rebuilders = {r1, r2}
  Threshold = 2
  Rise = 2
  MaxPools = 3
  MaxFlips = 2
CHECK_DEADLOCK FALSE
INVARIANT OnlyLiveChecked
PROPERTY VerdictsConverge
