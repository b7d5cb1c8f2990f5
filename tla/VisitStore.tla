----------------------------- MODULE VisitStore -----------------------------
(***************************************************************************)
(* The tables the visit lifecycle reads and writes, and the requests that  *)
(* are in flight over them.  Desk, Office and VisitLifecycle act on them.  *)
(*                                                                         *)
(* Postgres runs READ COMMITTED and the services open a transaction only   *)
(* for an admission, so every awaited statement of a handler is a step of  *)
(* its own: a request is a program counter with the values the handler     *)
(* read earlier and still holds.                                           *)
(***************************************************************************)
EXTENDS Integers, FiniteSets

CONSTANTS
  Visits,       \* ids of visit rows, written or not yet written
  WalkIns,      \* those that reception will use for walk-in visits
  Dated,        \* booked visits with an expected arrival and departure
  Guarded,      \* visits whose category demands a completed pre-registration
  NeedsOK,      \* visits whose category demands an approval
  Zoned,        \* visits that request access zones
  Arrival, Departure,   \* [Visits -> Nat], read for the dated visits
  Early, Late, Validity,\* the invitation policy
  Invitations,  \* ids of invitation rows
  Admissions,   \* ids of admissions: a check-in record with what it issued
  Requests,     \* slots for requests served at the same time
  Sweepers,     \* the slots of the maintenance worker
  NoVisit, NoInvitation,
  MaxClock,     \* bound: the clock stops here
  MaxAborts     \* bound: requests that die halfway

ASSUME StoreAssumption ==
  /\ WalkIns \subseteq Visits /\ Dated \subseteq Visits \ WalkIns
  /\ Guarded \subseteq Visits \ WalkIns /\ NeedsOK \subseteq Visits \ WalkIns
  /\ Zoned \subseteq Visits \ WalkIns
  /\ Arrival \in [Visits -> Nat] /\ Departure \in [Visits -> Nat]
  /\ Early \in Nat /\ Late \in Nat /\ Validity \in Nat
  /\ Sweepers \subseteq Requests
  /\ NoVisit \notin Visits /\ NoInvitation \notin Invitations
  /\ MaxClock \in Nat /\ MaxAborts \in Nat

VARIABLES
  visit,        \* visit.status; "none" until the row is inserted
  approved,     \* visits whose approvedAt is set
  prereg,       \* visits with a completed pre-registration
  watched,      \* visits whose visitor is on the active watchlist
  invStatus, invVisit, window,               \* visit_invitation
  admVisit, record, badge, access, validUntil, \* check_in_record, credential,
                                             \* access_permission
  overstay,     \* number of open overstay incidents of each visit
  door,         \* badges the external door controller lets through
  clock, aborts,
  req           \* what each request slot is doing

bookings  == <<visit, approved, prereg, watched>>
invites   == <<invStatus, invVisit, window>>
admitted  == <<admVisit, record, badge, access, validUntil>>
vars      == <<visit, approved, prereg, watched, invStatus, invVisit, window,
               admVisit, record, badge, access, validUntil,
               overstay, door, clock, aborts, req>>

-----------------------------------------------------------------------------
(* The statuses the code ever writes.  The enums also have draft, expired   *)
(* and no_show for visits; no statement sets them.                          *)
VisitStatus == {"none", "pending_approval", "approved", "invitation_sent",
                "pre_registered", "checked_in", "checked_out",
                "cancelled", "denied"}

InvitationStatus ==
  {"none", "active", "used", "expired", "revoked", "superseded"}
RecordStatus == {"none", "open", "closed"}
GrantStatus  == {"none", "active", "expired", "disabled"}

(* The statuses of a visit that is booked and has not begun.               *)
Awaited == {"approved", "invitation_sent", "pre_registered"}

(* computeWindow: when a code issued at time t admits, and when it dies.   *)
Window(v, t) ==
  LET arrival == IF v \in Dated THEN Arrival[v] ELSE t
      leaving == IF v \in Dated THEN Departure[v] ELSE t
  IN  [from    |-> arrival - Early,
       until   |-> leaving + Late,
       expires |-> IF v \in Dated THEN leaving + Late ELSE t + Validity]

NoWindow == [from |-> 0, until |-> 0, expires |-> 0]

-----------------------------------------------------------------------------
(* Requests. `visit` and `inv` are what the request works on, `held` the    *)
(* badge it read or issued, `todo` the rows it still has to work through,   *)
(* `saw` whether the row it read demands a later write, `now` its clock.    *)

CheckInSteps  == {"validate", "expire", "screen", "admit", "activate"}
WalkInSteps   == {"register"}
CheckOutSteps == {"findBadge", "closeRecords", "disableBadge",
                  "disableAccess", "leave", "deactivate"}
SweepSteps    == {"sweepBadges", "sweepAccess", "scan", "overstays", "raise"}
OfficeSteps   == {"approve", "cancel", "supersede", "issue", "sent",
                  "findActive", "revoke", "complete", "markPreReg"}
Steps == {"idle"} \cup CheckInSteps \cup WalkInSteps \cup CheckOutSteps
           \cup SweepSteps \cup OfficeSteps

Request == [step : Steps,
            visit : Visits \cup {NoVisit},
            inv : Invitations \cup {NoInvitation},
            held : SUBSET Admissions,
            todo : SUBSET (Visits \cup Invitations),
            saw : BOOLEAN,
            now : Nat]

Idle == [step |-> "idle", visit |-> NoVisit, inv |-> NoInvitation,
         held |-> {}, todo |-> {}, saw |-> FALSE, now |-> 0]

At(r, s) == req[r].step = s

Begin(r, s, v, i) ==
  req' = [req EXCEPT ![r] = [Idle EXCEPT !.step = s, !.visit = v, !.inv = i]]
Goto(r, s) == req' = [req EXCEPT ![r].step = s]
End(r)     == req' = [req EXCEPT ![r] = Idle]

(* A request dies between two of its statements: the process is restarted,  *)
(* a statement fails, the client gives up on a serverless function.         *)
Abort(r) ==
  /\ ~At(r, "idle")
  /\ aborts < MaxAborts
  /\ aborts' = aborts + 1
  /\ End(r)
  /\ UNCHANGED <<bookings, invites, admitted, overstay, door, clock>>

Tick ==
  /\ clock < MaxClock
  /\ clock' = clock + 1
  /\ UNCHANGED <<bookings, invites, admitted, overstay, door, aborts, req>>

(* Security lists a person, or lifts the entry.                             *)
WatchlistAdd(v) ==
  /\ watched' = watched \cup {v}
  /\ UNCHANGED <<visit, approved, prereg, invites, admitted, overstay, door,
                 clock, aborts, req>>
WatchlistRemove(v) ==
  /\ watched' = watched \ {v}
  /\ UNCHANGED <<visit, approved, prereg, invites, admitted, overstay, door,
                 clock, aborts, req>>

-----------------------------------------------------------------------------
TypeOK ==
  /\ visit \in [Visits -> VisitStatus]
  /\ approved \subseteq Visits /\ prereg \subseteq Visits
  /\ watched \subseteq Visits
  /\ invStatus \in [Invitations -> InvitationStatus]
  /\ invVisit \in [Invitations -> Visits \cup {NoVisit}]
  /\ window \in [Invitations -> [from : Int, until : Nat, expires : Nat]]
  /\ admVisit \in [Admissions -> Visits \cup {NoVisit}]
  /\ record \in [Admissions -> RecordStatus]
  /\ badge \in [Admissions -> GrantStatus]
  /\ access \in [Admissions -> GrantStatus]
  /\ validUntil \in [Admissions -> Nat]
  /\ overstay \in [Visits -> Nat]
  /\ door \subseteq Admissions
  /\ clock \in 0..MaxClock
  /\ aborts \in 0..MaxAborts
  /\ req \in [Requests -> Request]
=============================================================================
