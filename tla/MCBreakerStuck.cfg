SPECIFICATION FairSpec
CONSTANTS
  c1 = c1
  c2 = c2
  c3 = c3
  Callers = {c1, c2}
  FailureThreshold = 2
  HalfOpenProbes = 1
  MaxAttempts = 2

PROPERTIES ProbeDecides
