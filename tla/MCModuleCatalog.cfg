\* Two Cores, three starts and two changes by an administrator.
SPECIFICATION FairSpec
CONSTANTS
  Cores = {c1, c2}
  Builds = {b1, b2}
  Bodies = {b1, b2}
  BodyOf <- MCBodyOf
  Legacy = {projects}
  Derived = {redmine}
  Direct = {nextcloud}
  Custom = {demo_a}
  Retired = {demo_a}
  SourceOf <- MCSourceOf
  Roles = {administrator}
  Policy <- MCPolicy
  Owner = administrator
  PoolSize = 2
  NoCore = NoCore
  NoBody = NoBody
  NoCatalog = NoCatalog
  MaxStarts = 3
  Administered = {projects, redmine, demo_a}
  MaxEdits = 2
INVARIANTS OnlyKnownStatuses DisabledIsHidden DriftReported
PROPERTIES RestartChangesNothing StartsEnd
\* Starts and changes are bounded: the system may stop.
CHECK_DEADLOCK FALSE
