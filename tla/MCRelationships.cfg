SPECIFICATION Spec
CONSTANTS
  r1 = r1
  r2 = r2
  r3 = r3
  ua = ua
  ub = ub
  ux = ux
  Requests = {r1, r2, r3}
  Known = {ua, ub}
  Unknown = {ux}
  Relations <- SmallRelations
  Inverse <- SmallInverse
  NoRow = NoRow
  Asked <- SmallAsked
  MaxAsks = 4
SYMMETRY Symmetry
INVARIANTS EventsTellTable AnswersHold
