SPECIFICATION DeskSpec
CONSTANTS
  Visits = {b1, w}
  WalkIns = {w}
  Dated = {b1}
  Guarded = {b1}
  NeedsOK = {}
  Zoned = {b1}
  Arrival <- MCArrival
  Departure <- MCDeparture
  Early = 0
  Late = 0
  Validity = 1
  Invitations = {i1, i2}
  Admissions = {a1, a2}
  Requests = {r1, r2}
  Sweepers = {}
  NoVisit = NoVisit
  NoInvitation = NoInvitation
  MaxClock = 1
  MaxAborts = 1
  WebhookLossy = TRUE
INVARIANTS TypeOK MusterComplete AdmittedOnce
PROPERTY KeepsPresence
SYMMETRY Symmetry
