SPECIFICATION Spec
CONSTANTS
  Visits = {b1, w}
  WalkIns = {w}
  Dated = {b1}
  Guarded = {b1}
  NeedsOK = {b1}
  Zoned = {b1}
  Arrival <- MCArrival
  Departure <- MCDeparture
  Early = 0
  Late = 0
  Validity = 1
  Invitations = {i1, i2}
  Admissions = {a1, a2}
  Requests = {r1}
  Sweepers = {}
  NoVisit = NoVisit
  NoInvitation = NoInvitation
  MaxClock = 2
  MaxAborts = 1
  WebhookLossy = FALSE
  MaxOverrides = 1
INVARIANTS DeskPromises OneActiveCode
PROPERTIES TerminalStays NoEntryWhenClosed
SYMMETRY Symmetry
CHECK_DEADLOCK FALSE
