SPECIFICATION DeskFairSpec
CONSTANTS
  Visits = {b1}
  WalkIns = {}
  Dated = {b1}
  Guarded = {}
  NeedsOK = {}
  Zoned = {b1}
  Arrival <- MCArrival
  Departure <- MCDeparture
  Early = 0
  Late = 0
  Validity = 1
  Invitations = {i1}
  Admissions = {a1}
  Requests = {r1, s1}
  Sweepers = {s1}
  NoVisit = NoVisit
  NoInvitation = NoInvitation
  MaxClock = 2
  MaxAborts = 1
  WebhookLossy = TRUE
INVARIANTS GrantsOnSiteOnly OneOverstayOpen
PROPERTIES CheckOutCompletes LapsedBadgeDies
