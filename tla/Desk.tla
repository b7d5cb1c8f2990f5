-------------------------------- MODULE Desk --------------------------------
(***************************************************************************)
(* The front desk and the kiosk: check-in by code, walk-ins, check-out,    *)
(* and the maintenance sweep, over visits that the office has booked.      *)
(***************************************************************************)
EXTENDS VisitStore

CONSTANT WebhookLossy  \* may a call to the door controller get lost

ASSUME DeskAssumption == WebhookLossy \in BOOLEAN

(* Bookings the desk may start from: every booked visit was invited and has *)
(* its codes, no code was redeemed.                                         *)
DeskInit ==
  /\ visit \in [Visits -> {"none", "invitation_sent", "pre_registered"}]
  /\ \A v \in WalkIns : visit[v] = "none"
  /\ approved = {v \in NeedsOK : visit[v] # "none"}
  /\ prereg = {v \in Visits : visit[v] = "pre_registered"}
  /\ watched = {}
  /\ invVisit \in [Invitations -> {v \in Visits : visit[v] # "none"}
                                    \cup {NoVisit}]
  /\ invStatus = [i \in Invitations |->
                    IF invVisit[i] = NoVisit THEN "none" ELSE "active"]
  /\ window = [i \in Invitations |->
                 IF invVisit[i] = NoVisit THEN NoWindow
                                          ELSE Window(invVisit[i], 0)]
  /\ admVisit = [a \in Admissions |-> NoVisit]
  /\ record = [a \in Admissions |-> "none"]
  /\ badge = [a \in Admissions |-> "none"]
  /\ access = [a \in Admissions |-> "none"]
  /\ validUntil = [a \in Admissions |-> 0]
  /\ overstay = [v \in Visits |-> 0]
  /\ door = {}
  /\ clock = 0 /\ aborts = 0
  /\ req = [r \in Requests |-> Idle]

Clients == Requests \ Sweepers

-----------------------------------------------------------------------------
(* completeCheckIn.  A code that is unknown, revoked or superseded gets an  *)
(* answer and changes nothing; the handler goes on with any other.          *)

(* findInvitation: `saw` remembers that the row was already expired.        *)
FindInvitation(r, i) ==
  /\ At(r, "idle")
  /\ invStatus[i] \in {"active", "used", "expired"}
  /\ req' = [req EXCEPT ![r] =
               [Idle EXCEPT !.step = "validate", !.visit = invVisit[i],
                            !.inv = i, !.saw = (invStatus[i] = "expired")]]
  /\ UNCHANGED <<bookings, invites, admitted, overstay, door, clock, aborts>>

(* The visit statuses the outcome matrix lets through.                      *)
AdmissibleUnlessSeen(v) == visit[v] \notin {"checked_in", "checked_out"}
Admissible(v) == visit[v] \in Awaited

(* validateLookup reads the visit and the clock.                            *)
Validate(r) ==
  LET v == req[r].visit
      w == window[req[r].inv]
  IN  /\ At(r, "validate")
      /\ \/ /\ ~Admissible(v) \/ req[r].saw
            /\ End(r)
         \/ /\ Admissible(v) /\ ~req[r].saw /\ w.expires < clock
            /\ Goto(r, "expire")
         \/ /\ Admissible(v) /\ ~req[r].saw /\ w.expires >= clock
            /\ IF clock \in w.from..w.until THEN Goto(r, "screen") ELSE End(r)
      /\ UNCHANGED <<bookings, invites, admitted, overstay, door, clock,
                     aborts>>

(* ... and flips a code it found past its expiry.                           *)
Expire(r) ==
  /\ At(r, "expire")
  /\ invStatus' = [invStatus EXCEPT ![req[r].inv] = "expired"]
  /\ End(r)
  /\ UNCHANGED <<bookings, invVisit, window, admitted, overstay, door, clock,
                 aborts>>

(* ... then the watchlist and the pre-registration gate.                    *)
ClearedByList(v) == v \notin watched
Cleared(v) == v \notin watched /\ (v \in Guarded => v \in prereg)

Screen(r) ==
  /\ At(r, "screen")
  /\ IF Cleared(req[r].visit) THEN Goto(r, "admit") ELSE End(r)
  /\ UNCHANGED <<bookings, invites, admitted, overstay, door, clock, aborts>>

(* The rows an admission inserts.                                           *)
GrantedOddly(has) == IF has THEN "granted" ELSE "none"
Granted(has) == IF has THEN "active" ELSE "none"

Insert(a, v, hasBadge, hasAccess, until) ==
  /\ record[a] = "none"
  /\ admVisit' = [admVisit EXCEPT ![a] = v]
  /\ record' = [record EXCEPT ![a] = "open"]
  /\ badge' = [badge EXCEPT ![a] = Granted(hasBadge)]
  /\ access' = [access EXCEPT ![a] = Granted(hasAccess)]
  /\ validUntil' = [validUntil EXCEPT ![a] = until]
  /\ visit' = [visit EXCEPT ![v] = "checked_in"]

(* The admission transaction, under the lock on the visit row.              *)
LockedRecheckGone(v) == visit[v] # "checked_out"
LockedRecheck(v) == visit[v] \notin {"checked_in", "checked_out"}

Admit(r, a) ==
  LET v == req[r].visit
      i == req[r].inv
  IN  /\ At(r, "admit")
      /\ LockedRecheck(v)
      /\ Insert(a, v, TRUE, v \in Zoned, window[i].until)
      /\ invStatus' = [invStatus EXCEPT ![i] = "used"]
      /\ req' = [req EXCEPT ![r].step = "activate", ![r].held = {a}]
      /\ UNCHANGED <<approved, prereg, watched, invVisit, window, overstay,
                     door, clock, aborts>>

Duplicate(r) ==
  /\ At(r, "admit")
  /\ ~LockedRecheck(req[r].visit)
  /\ End(r)
  /\ UNCHANGED <<bookings, invites, admitted, overstay, door, clock, aborts>>

(* accessControl.activate: post() swallows a failed call.                   *)
Activate(r) ==
  /\ At(r, "activate")
  /\ \/ door' = door \cup req[r].held
     \/ WebhookLossy /\ door' = door
  /\ End(r)
  /\ UNCHANGED <<bookings, invites, admitted, overstay, clock, aborts>>

-----------------------------------------------------------------------------
(* registerWalkIn: screen the person, then record visit and admission in    *)
(* one transaction; a pass never expires and opens no zone.                 *)
WalkIn(r, v) ==
  /\ At(r, "idle")
  /\ v \in WalkIns /\ visit[v] = "none"
  /\ v \notin watched
  /\ Begin(r, "register", v, NoInvitation)
  /\ UNCHANGED <<bookings, invites, admitted, overstay, door, clock, aborts>>

Register(r, a, issuePass) ==
  LET v == req[r].visit
  IN  /\ At(r, "register")
      /\ visit[v] = "none"     \* the row is this request's own
      /\ Insert(a, v, issuePass, FALSE, 0)
      /\ IF issuePass
         THEN req' = [req EXCEPT ![r].step = "activate", ![r].held = {a}]
         ELSE End(r)
      /\ UNCHANGED <<approved, prereg, watched, invites, overstay, door, clock,
                     aborts>>

-----------------------------------------------------------------------------
(* checkOut, statement by statement: it opens no transaction.  Which rows   *)
(* its updates find:                                                        *)
ClosedRecord(a, v) == admVisit[a] = v /\ record[a] = "closed"
OpenRecord(a, v)   == admVisit[a] = v /\ record[a] = "open"
ExpiredGrant(a, v, grant) == admVisit[a] = v /\ grant[a] = "expired"
ActiveGrant(a, v, grant)  == admVisit[a] = v /\ grant[a] = "active"

CheckOut(r, v) ==
  /\ At(r, "idle")
  /\ visit[v] = "checked_in"
  /\ Begin(r, "findBadge", v, NoInvitation)
  /\ UNCHANGED <<bookings, invites, admitted, overstay, door, clock, aborts>>

FindBadge(r) ==
  LET live == {a \in Admissions : ActiveGrant(a, req[r].visit, badge)}
  IN  /\ At(r, "findBadge")
      /\ \/ live = {} /\ Goto(r, "closeRecords")
         \/ \E a \in live :
              req' = [req EXCEPT ![r].step = "closeRecords", ![r].held = {a}]
      /\ UNCHANGED <<bookings, invites, admitted, overstay, door, clock,
                     aborts>>

CloseRecords(r) ==
  /\ At(r, "closeRecords")
  /\ record' = [a \in Admissions |->
       IF OpenRecord(a, req[r].visit)
       THEN "closed" ELSE record[a]]
  /\ Goto(r, "disableBadge")
  /\ UNCHANGED <<bookings, invites, admVisit, badge, access, validUntil,
                 overstay, door, clock, aborts>>

DisableBadge(r) ==
  /\ At(r, "disableBadge")
  /\ badge' = [a \in Admissions |->
       IF ActiveGrant(a, req[r].visit, badge)
       THEN "disabled" ELSE badge[a]]
  /\ Goto(r, "disableAccess")
  /\ UNCHANGED <<bookings, invites, admVisit, record, access, validUntil,
                 overstay, door, clock, aborts>>

DisableAccess(r) ==
  /\ At(r, "disableAccess")
  /\ access' = [a \in Admissions |->
       IF ActiveGrant(a, req[r].visit, access)
       THEN "disabled" ELSE access[a]]
  /\ Goto(r, "leave")
  /\ UNCHANGED <<bookings, invites, admVisit, record, badge, validUntil,
                 overstay, door, clock, aborts>>

(* The status is written whatever it has become meanwhile.                  *)
Leave(r) ==
  /\ At(r, "leave")
  /\ visit' = [visit EXCEPT ![req[r].visit] = "checked_out"]
  /\ Goto(r, "deactivate")
  /\ UNCHANGED <<approved, prereg, watched, invites, admitted, overstay, door,
                 clock, aborts>>

(* accessControl.deactivate names the badge that was active when the        *)
(* check-out began, or the empty string when none was.                      *)
Deactivate(r) ==
  /\ At(r, "deactivate")
  /\ \/ door' = door \ req[r].held
     \/ WebhookLossy /\ door' = door
  /\ End(r)
  /\ UNCHANGED <<bookings, invites, admitted, overstay, clock, aborts>>

-----------------------------------------------------------------------------
(* runExpirySweep, with the clock it read when it started.                  *)
StillValid(a, now) == admVisit[a] \notin WalkIns /\ validUntil[a] > now
Lapsed(a, now) == admVisit[a] \notin WalkIns /\ validUntil[a] < now

Sweep(r) ==
  /\ At(r, "idle")
  /\ req' = [req EXCEPT ![r] = [Idle EXCEPT !.step = "sweepBadges",
                                            !.now = clock]]
  /\ UNCHANGED <<bookings, invites, admitted, overstay, door, clock, aborts>>

SweepBadges(r) ==
  /\ At(r, "sweepBadges")
  /\ badge' = [a \in Admissions |->
       IF badge[a] = "active" /\ Lapsed(a, req[r].now)
       THEN "expired" ELSE badge[a]]
  /\ Goto(r, "sweepAccess")
  /\ UNCHANGED <<bookings, invites, admVisit, record, access, validUntil,
                 overstay, door, clock, aborts>>

SweepAccess(r) ==
  /\ At(r, "sweepAccess")
  /\ access' = [a \in Admissions |->
       IF access[a] = "active" /\ Lapsed(a, req[r].now)
       THEN "expired" ELSE access[a]]
  /\ Goto(r, "scan")
  /\ UNCHANGED <<bookings, invites, admVisit, record, badge, validUntil,
                 overstay, door, clock, aborts>>

Overstaying(now) ==
  {v \in Dated : visit[v] = "checked_in" /\ Departure[v] < now}

Scan(r) ==
  /\ At(r, "scan")
  /\ req' = [req EXCEPT ![r].step = "overstays",
                        ![r].todo = Overstaying(req[r].now)]
  /\ UNCHANGED <<bookings, invites, admitted, overstay, door, clock, aborts>>

(* For each overstaying visit: look for an open incident ...                *)
HasTwoOverstays(v) == overstay[v] > 1
HasOpenOverstay(v) == overstay[v] > 0

CheckOverstay(r, v) ==
  /\ At(r, "overstays")
  /\ v \in req[r].todo
  /\ IF HasOpenOverstay(v)
     THEN req' = [req EXCEPT ![r].todo = @ \ {v}]
     ELSE req' = [req EXCEPT ![r].step = "raise", ![r].visit = v,
                             ![r].todo = @ \ {v}]
  /\ UNCHANGED <<bookings, invites, admitted, overstay, door, clock, aborts>>

(* ... and raise one when there was none.                                   *)
RaiseOverstay(r) ==
  /\ At(r, "raise")
  /\ overstay' = [overstay EXCEPT ![req[r].visit] = @ + 1]
  /\ Goto(r, "overstays")
  /\ UNCHANGED <<bookings, invites, admitted, door, clock, aborts>>

SweepDone(r) ==
  /\ At(r, "overstays")
  /\ req[r].todo = {}
  /\ End(r)
  /\ UNCHANGED <<bookings, invites, admitted, overstay, door, clock, aborts>>

ResolveOverstay(v) ==
  /\ overstay[v] > 0
  /\ overstay' = [overstay EXCEPT ![v] = @ - 1]
  /\ UNCHANGED <<bookings, invites, admitted, door, clock, aborts, req>>

-----------------------------------------------------------------------------
(* revokeInvitation, pressed by staff: one statement, whatever the status.  *)
RevokeInvitation(i) ==
  /\ invStatus[i] # "none"
  /\ invStatus' = [invStatus EXCEPT ![i] = "revoked"]
  /\ UNCHANGED <<bookings, invVisit, window, admitted, overstay, door, clock,
                 aborts, req>>

CheckInStep(r) ==
  \/ Validate(r) \/ Expire(r) \/ Screen(r)
  \/ (\E a \in Admissions : Admit(r, a)) \/ Duplicate(r)
  \/ Activate(r)

WalkInStep(r) == \E a \in Admissions, p \in BOOLEAN : Register(r, a, p)

CheckOutStep(r) ==
  \/ FindBadge(r) \/ CloseRecords(r) \/ DisableBadge(r)
  \/ DisableAccess(r) \/ Leave(r) \/ Deactivate(r)

SweepStep(r) ==
  \/ SweepBadges(r) \/ SweepAccess(r) \/ Scan(r)
  \/ (\E v \in Visits : CheckOverstay(r, v)) \/ RaiseOverstay(r)
  \/ SweepDone(r)

Arrive(r) ==
  \/ \E i \in Invitations : FindInvitation(r, i)
  \/ \E v \in Visits : WalkIn(r, v) \/ CheckOut(r, v)

DeskNext ==
  \/ \E r \in Clients : Arrive(r)
  \/ \E r \in Sweepers : Sweep(r)
  \/ \E r \in Requests :
       CheckInStep(r) \/ WalkInStep(r) \/ CheckOutStep(r) \/ SweepStep(r)
         \/ Abort(r)
  \/ \E v \in Visits : WatchlistAdd(v) \/ WatchlistRemove(v)
                         \/ ResolveOverstay(v)
  \/ \E i \in Invitations : RevokeInvitation(i)
  \/ Tick

DeskSpec == DeskInit /\ [][DeskNext]_vars

(* A started handler runs on, the worker's repeat job starts the sweep      *)
(* again and again, and time passes.                                        *)
DeskFairness ==
  /\ \A r \in Sweepers : WF_vars(Sweep(r)) /\ WF_vars(SweepStep(r))
  /\ \A r \in Clients : WF_vars(CheckInStep(r)) /\ WF_vars(WalkInStep(r))
                          /\ WF_vars(CheckOutStep(r))
  /\ WF_vars(Tick)

DeskFairSpec == DeskSpec /\ DeskFairness

-----------------------------------------------------------------------------
(* The muster list is complete: whoever came in and has not been recorded   *)
(* out is on the list musterList() reads, the visits that are checked_in,   *)
(* at every moment of a check-out and after one that died halfway.          *)
OnMuster(S) ==
  \A a \in Admissions :
    record[a] = "open" /\ admVisit[a] \in S => visit[admVisit[a]] = "checked_in"

MusterComplete == OnMuster(Visits)

(* A code presented at the kiosk and at reception at the same time, or      *)
(* again later, lets its visitor in once (completeCheckIn's row lock).      *)
EnteredOnce(S) ==
  \A a, b \in Admissions :
    record[a] # "none" /\ record[b] # "none"
      /\ admVisit[a] = admVisit[b] /\ admVisit[a] \in S => a = b

AdmittedOnce == EnteredOnce(Visits)

(* No badge and no zone permission stays live after its visit was closed,   *)
(* whichever requests, sweeps and crashes interleave with the check-out.    *)
LiveOnSite(S) ==
  \A a \in Admissions :
    (badge[a] = "active" \/ access[a] = "active") /\ admVisit[a] \in S
      => visit[admVisit[a]] = "checked_in"

GrantsOnSiteOnly == LiveOnSite(Visits)

(* Why these hold: what the tables and every request in flight satisfy      *)
(* together.  A code that can be looked up belongs to a visit; an admission *)
(* fills its rows at once and puts its visit past LockedRecheck for good;   *)
(* a check-out in flight has a begun visit and has done what its earlier    *)
(* statements did, which nobody undoes.  What depends on the status of a    *)
(* visit is said of the visits of S: of all of them where the desk is       *)
(* alone, of those nobody has overruled where the office works beside it.   *)
Begun(v) == visit[v] \in {"checked_in", "checked_out"}

RowsOK(S) ==
  /\ \A i \in Invitations : invStatus[i] # "none" => invVisit[i] \in Visits
  /\ \A a \in Admissions :
       IF record[a] = "none"
       THEN admVisit[a] = NoVisit /\ badge[a] = "none" /\ access[a] = "none"
       ELSE /\ admVisit[a] \in Visits
            /\ admVisit[a] \in S => Begun(admVisit[a])

HoldsVisit == {"validate", "expire", "screen", "admit", "register", "raise"}
                \cup CheckOutSteps

RequestsOK(S) ==
  \A r \in Requests :
    /\ req[r].step \in HoldsVisit => req[r].visit \in Visits
    /\ req[r].step \in {"validate", "expire", "screen", "admit"}
         => /\ req[r].inv \in Invitations
            /\ invVisit[req[r].inv] = req[r].visit
    /\ req[r].step \in CheckOutSteps /\ req[r].visit \in S
         => Begun(req[r].visit)

CheckOutsOK(S) ==
  \A r \in Requests, a \in Admissions :
    admVisit[a] = req[r].visit /\ admVisit[a] \in S =>
      /\ req[r].step \in CheckOutSteps \ {"findBadge", "closeRecords"}
           => record[a] # "open"
      /\ req[r].step \in {"disableAccess", "leave", "deactivate"}
           => badge[a] # "active"
      /\ req[r].step \in {"leave", "deactivate"} => access[a] # "active"

DeskInv(S) ==
  /\ TypeOK /\ RowsOK(S) /\ RequestsOK(S) /\ CheckOutsOK(S)
  /\ OnMuster(S) /\ EnteredOnce(S) /\ LiveOnSite(S)

(* A sweep that found an open overstay incident raises no second one.       *)
OneOverstayOpen == \A v \in Visits : overstay[v] <= 1

(* A check-out that read its visit ends with the visit closed, signed out   *)
(* and nothing of it live, unless its request dies on the way.              *)
SignedOff(v) ==
  /\ visit[v] = "checked_out"
  /\ \A a \in Admissions : admVisit[a] = v =>
       record[a] = "closed" /\ badge[a] # "active" /\ access[a] # "active"

CheckOutCompletes ==
  \A v \in Visits :
    (\E r \in Clients : At(r, "findBadge") /\ req[r].visit = v)
      ~> (SignedOff(v) \/ aborts > 0)

(* A badge past its validity does not stay active for ever, even when the   *)
(* sweep that should have expired it died.                                  *)
PastValidity(a) == admVisit[a] \in Visits \ WalkIns /\ validUntil[a] < clock

LapsedBadgeDies ==
  \A a \in Admissions :
    (badge[a] = "active" /\ PastValidity(a)) ~> badge[a] # "active"

(* The desk keeps the promise of SitePresence: a visit is on site from the  *)
(* moment its row says checked_in to the moment it says checked_out.        *)
Stage(v) == IF visit[v] = "checked_in" THEN "on site"
            ELSE IF visit[v] = "checked_out" THEN "left" ELSE "outside"

Presence == INSTANCE SitePresence WITH
  Passes <- Admissions,
  stage  <- [v \in Visits |-> Stage(v)],
  holder <- admVisit,
  live   <- {a \in Admissions : badge[a] = "active" \/ access[a] = "active"},
  inside <- {a \in Admissions : record[a] = "open"}

(* Every step of the desk is an entry, a lapse, a sign-out or an exit of    *)
(* the abstract site, or changes nothing there.                             *)
KeepsPresence == Presence!PresenceSpec
=============================================================================
