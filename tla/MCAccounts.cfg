SPECIFICATION FairSpec
CONSTANTS
  r1 = r1
  r2 = r2
  u1 = u1
  u2 = u2
  u3 = u3
  u4 = u4
  u5 = u5
  Requests = {r1, r2}
  Users = {u1, u2, u3, u4, u5}
  NoUser = NoUser
  Names <- SmallNames
  Fold <- SmallFold
  StaffRoles = {"support"}
  OtherGroups = {"mail"}
  Initially <- SmallInitially
  Asked <- SmallAsked
  Free = Free
  MaxFaults = 1
INVARIANTS NamesDistinct
PROPERTIES AdminRemains HandsOff CreationLocked RequestsEnd
