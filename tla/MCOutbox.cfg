SPECIFICATION FairSpec
CONSTANTS
  c1 = c1
  c2 = c2
  Cores = {c1, c2}
  Events = {1, 2}
  MaxAttempts = 3
  Batch = 2
  MaxFaults = 2
INVARIANTS AttemptTriedOnce
PROPERTIES DeliveredIsFinal ImplementsContract QueueDrains FaultsAbsorbed
CHECK_DEADLOCK FALSE
