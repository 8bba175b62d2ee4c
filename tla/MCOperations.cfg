SPECIFICATION Spec
CONSTANTS
  r1 = r1
  r2 = r2
  s1 = s1
  u1 = u1
  u2 = u2
  p1 = p1
  Requests = {r1, r2}
  Servers = {s1}
  Statuses = {"ok", "error"}
  NoStatus = NoStatus
  Vocabulary <- SmallVocabulary
  Mappings <- SmallMappings
  Permissions = {p1}
  Readers = {u1}
  Confined = {}
  Severities = {2}
  Times = {1}
  Never = Never
  Limit = 1
  Authorities <- SmallAuthorities
  MaxReports = 2
  MaxNotices = 2
INVARIANTS StatusExplained NoticesBacked WalkComplete
SYMMETRY Symmetry
