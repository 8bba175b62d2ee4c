SPECIFICATION CacheSpec
CONSTANTS
  r1 = r1
  r2 = r2
  k1 = k1
  k2 = k2
  Requests = {r1, r2}
  Keys = {k1}
  Unnamed = {}
  Unusable = {}
  FirstKeys = {k1}
  Presented <- NamelessTokens
  CacheTTL = 3
  RefreshEvery = 2
  Timeout = 1
  MaxTime = 4
  Never = Never
INVARIANTS SingleKeyTakes
SYMMETRY Symmetry
CHECK_DEADLOCK FALSE
