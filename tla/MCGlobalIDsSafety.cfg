SPECIFICATION Spec
CONSTANTS
  r1 = r1
  r2 = r2
  r3 = r3
  k1 = k1
  k2 = k2
  Requests = {r1, r2, r3}
  Cores = {"core1", "core2"}
  CoreOf <- Apart
  Keys = {k1, k2}
  Calls <- SomeCalls
  PoolSize = 2
  NoRequest = NoRequest
  NoKey = NoKey
SYMMETRY Interchangeable
INVARIANTS AnswersAreDurable AnnouncedInOrder OnlyLosersStandStill
PROPERTY ImplementsDirectory
