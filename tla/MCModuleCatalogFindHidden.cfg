\* One Core that restarts after two changes by an administrator.
SPECIFICATION Spec
CONSTANTS
  Cores = {c1}
  Builds = {b1}
  Bodies = {b1}
  BodyOf <- MCBodyOf
  Legacy = {projects}
  Derived = {redmine}
  Direct = {nextcloud}
  Custom = {demo_a}
  Retired = {demo_a}
  SourceOf <- MCSourceOf
  Roles = {administrator}
  Policy <- MCPolicy
  Owner = administrator
  PoolSize = 2
  NoCore = NoCore
  NoBody = NoBody
  NoCatalog = NoCatalog
  MaxStarts = 2
  Administered = {projects, redmine, demo_a}
  MaxEdits = 2
INVARIANT ActiveIsShown
CHECK_DEADLOCK FALSE
