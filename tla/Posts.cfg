SPECIFICATION PostsSpec
CONSTANTS
  ama = ama  kofi = kofi  desk = desk  gate = gate
  d1 = d1  d2 = d2  t1 = t1  t2 = t2  c1 = c1  c2 = c2  r1 = r1  r2 = r2
  Users = {ama, kofi}
  Points = {desk, gate}
  Devices = {d1, d2}
  Tablets = {t1, t2}
  Codes = {c1, c2}
  SessionIds = {r1, r2}
  RolesOf <- MCRolesOf
  Kind <- MCKind
  NoOne = NoOne  NoPoint = NoPoint  NoDevice = NoDevice  NoCode = NoCode  NoSession = NoSession
  MaxCalls = 1
  FirstStaff <- MCStaff
  FirstPlace <- MCPlace
  MaxChanges = 1
INVARIANTS PostsInv PostIsStaffed
SYMMETRY MCSymmetry
CHECK_DEADLOCK FALSE
