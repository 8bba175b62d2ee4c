SPECIFICATION FairSpec
CONSTANTS
  c1 = c1
  c2 = c2
  c3 = c3
  Callers = {c1, c2, c3}
  FailureThreshold = 2
  HalfOpenProbes = 2
  MaxAttempts = 2
INVARIANTS ProbesBounded
PROPERTIES ClosesOnlyOnRecovery OpensOnlyOnOutage RecoversWithUpstream
