SPECIFICATION Spec
CONSTANTS
  h1 = h1
  h2 = h2
  i1 = i1
  Handlers = {h1, h2}
  Ids = {i1}
  Severities = {"high", "low"}
  Respond <- SmallRespond
  Resolve <- SmallResolve
  Unchanged = Unchanged
  MaxTime = 3
PROPERTY ClosedIsTerminal
CHECK_DEADLOCK FALSE
