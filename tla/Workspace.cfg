SPECIFICATION Spec
CONSTANTS
  u1 = u1
  u2 = u2
  b1 = b1
  b2 = b2
  v1 = v1
  v2 = v2
  f1 = f1
  f2 = f2
  n1 = n1
  n2 = n2
  p1 = p1
  Users = {u1, u2}
  Browsers = {b1, b2}
  CacheAge = 1
  None = None
  Scenes <- MCScenes
  Visits = {v1, v2}
  Facilities = {f1, f2}
  Times = {1, 3}
  Reader = b1
  ExportCap = 1
  PageSizes = {1, 2}
  Ids = {1, 2, 3}
  Names = {n1, n2}
  Parents = {p1}
  Sizes = {1, 2}
  Queries <- MCQueries
INVARIANTS WorkspaceInv SessionsLapse OfferedIsServed ScopedRows ReportsAgree
PROPERTY SavesKept
CHECK_DEADLOCK FALSE
