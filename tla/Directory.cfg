SPECIFICATION Spec
CONSTANTS
  u1 = u1
  u2 = u2
  o1 = o1
  a1 = a1
  Booker = u1
  Users = {u1, u2}
  Emails = {e1, e2}
  Admins = {a1, a2}
  Hosts = {h1, h2, h3}
  Depts = {d1, d2}
  Offices = {o1, o2}
  Texts = {x1, x2, x3}
  None = None
  Scenes <- MCScenes
  MaxRequests = 2
INVARIANTS DirectoryInv BookedInOffice
PROPERTIES HostKeepsItsUser NothingStaleSaved
CHECK_DEADLOCK FALSE
