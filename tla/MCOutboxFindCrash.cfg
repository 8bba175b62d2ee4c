SPECIFICATION Spec
CONSTANTS
  c1 = c1
  c2 = c2
  Cores = {c1}
  Events = {1}
  MaxAttempts = 2
  Batch = 1
  MaxFaults = 2

PROPERTIES CrashLeavesRowDue
CHECK_DEADLOCK FALSE
