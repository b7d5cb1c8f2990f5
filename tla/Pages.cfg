SPECIFICATION Spec
CONSTANTS
  Visits = {v1}
  WalkIns = {w1}
  Incidents = {i1}
  Entries = {e1}
  Sessions <- MCSessions
  None = None
  MaxInbox = 1
  MaxTrail = 2
INVARIANTS PagesInv OwnWorkShown
PROPERTY MusterCatchesUp
CHECK_DEADLOCK FALSE
