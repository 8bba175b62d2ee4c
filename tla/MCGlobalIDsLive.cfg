SPECIFICATION FairSpec
CONSTANTS
  r1 = r1
  r2 = r2
  r3 = r3
  k1 = k1
  k2 = k2
  Requests = {r1, r2, r3}
  Cores = {"core1"}
  CoreOf <- Together
  Keys = {k1}
  Calls <- CallsForOne
  PoolSize = 2
  NoRequest = NoRequest
  NoKey = NoKey
PROPERTY CallsEnd
