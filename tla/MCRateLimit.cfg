SPECIFICATION LimiterSpec
CONSTANTS
  r1 = r1
  r2 = r2
  p1 = p1
  p2 = p2
  p3 = p3
  Arrivals = {r1, r2}
  Principals = {p1, p2, p3}
  Watched = p1
  Cost = 3
  Rate = 2
  Burst = 4
  Idle = 3
  MaxKeys = 2
  MaxLag = 1
  MaxClock = 5
  MaxAllowed = 3
  Absent = Absent
INVARIANTS WindowsBounded RefusalsEarned
SYMMETRY Symmetry
CHECK_DEADLOCK FALSE
