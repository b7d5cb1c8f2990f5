--------------------------- MODULE LifecycleProofs ---------------------------
(***************************************************************************)
(* What holds of the desk, and of the whole life of a visit, for every     *)
(* choice of the constants: with any number of requests at a time, and,    *)
(* where the office races itself, with one request at a time.              *)
(***************************************************************************)
EXTENDS VisitLifecycle, TLAPS

-----------------------------------------------------------------------------
(* The desk alone.                                                          *)

(* What Goto and End do to the table of requests.                           *)
LEMMA GotoMoves ==
  ASSUME TypeOK, NEW r \in Requests, NEW s \in Steps, Goto(r, s)
  PROVE  /\ req' \in [Requests -> Request]
         /\ \A q \in Requests : q # r => req'[q] = req[q]
         /\ req'[r].step = s
         /\ req'[r].visit = req[r].visit /\ req'[r].inv = req[r].inv
         /\ req'[r].held = req[r].held /\ req'[r].todo = req[r].todo
         /\ req'[r].saw = req[r].saw /\ req'[r].now = req[r].now
BY DEF TypeOK, Goto, Request

LEMMA HoldMoves ==
  ASSUME TypeOK, NEW r \in Requests, NEW s \in Steps,
         NEW h \in SUBSET Admissions,
         req' = [req EXCEPT ![r].step = s, ![r].held = h]
  PROVE  /\ req' \in [Requests -> Request]
         /\ \A q \in Requests : q # r => req'[q] = req[q]
         /\ req'[r].step = s /\ req'[r].held = h
         /\ req'[r].visit = req[r].visit /\ req'[r].inv = req[r].inv
BY DEF TypeOK, Request

LEMMA TodoMoves ==
  ASSUME TypeOK, NEW r \in Requests, NEW s \in Steps,
         NEW t \in SUBSET (Visits \cup Invitations),
         req' = [req EXCEPT ![r].step = s, ![r].todo = t]
  PROVE  /\ req' \in [Requests -> Request]
         /\ \A q \in Requests : q # r => req'[q] = req[q]
         /\ req'[r].step = s /\ req'[r].visit = req[r].visit
         /\ req'[r].todo = t
BY DEF TypeOK, Request

LEMMA IdleIsRequest == Idle \in Request
BY DEF Idle, Request, Steps

LEMMA EndMoves ==
  ASSUME TypeOK, NEW r \in Requests, End(r)
  PROVE  /\ req' \in [Requests -> Request]
         /\ \A q \in Requests : q # r => req'[q] = req[q]
         /\ req'[r].step = "idle"
BY IdleIsRequest DEF TypeOK, End, Idle

LEMMA BeginMoves ==
  ASSUME NEW S, TypeOK, NEW r \in Requests, NEW s \in Steps,
         NEW v \in Visits \cup {NoVisit},
         NEW i \in Invitations \cup {NoInvitation}, Begin(r, s, v, i)
  PROVE  /\ req' \in [Requests -> Request]
         /\ \A q \in Requests : q # r => req'[q] = req[q]
         /\ req'[r].step = s /\ req'[r].visit = v /\ req'[r].inv = i
         /\ req'[r].held = {} /\ req'[r].todo = {} /\ ~req'[r].saw
BY IdleIsRequest DEF TypeOK, Begin, Idle, Request

(* A step that leaves visits and admissions alone keeps the invariant when  *)
(* the requests it moves keep their share of it.                            *)
Quiet == UNCHANGED <<visit, invVisit, admVisit, record, badge, access>>

CodesOK == \A i \in Invitations : invStatus[i] # "none" => invVisit[i] \in Visits

RequestOK(S, r) ==
  /\ req[r].step \in HoldsVisit => req[r].visit \in Visits
  /\ req[r].step \in {"validate", "expire", "screen", "admit"}
       => req[r].inv \in Invitations /\ invVisit[req[r].inv] = req[r].visit
  /\ req[r].step \in CheckOutSteps /\ req[r].visit \in S
       => Begun(req[r].visit)

CheckOutOK(S, r) ==
  \A a \in Admissions :
    admVisit[a] = req[r].visit /\ admVisit[a] \in S =>
      /\ req[r].step \in CheckOutSteps \ {"findBadge", "closeRecords"}
           => record[a] # "open"
      /\ req[r].step \in {"disableAccess", "leave", "deactivate"}
           => badge[a] # "active"
      /\ req[r].step \in {"leave", "deactivate"} => access[a] # "active"

LEMMA QuietKeeps ==
  ASSUME NEW S, DeskInv(S), Quiet, TypeOK', CodesOK',
         \A q \in Requests :
           \/ req'[q] = req[q]
           \/ RequestOK(S, q)' /\ CheckOutOK(S, q)'
  PROVE  DeskInv(S)'
<1> USE DEF Quiet
<1>1. RowsOK(S)' BY DEF DeskInv, RowsOK, CodesOK, Begun
<1>2. RequestsOK(S)' BY DEF DeskInv, RequestsOK, RequestOK, Begun
<1>3. CheckOutsOK(S)' BY DEF DeskInv, CheckOutsOK, CheckOutOK
<1>4. OnMuster(S)' /\ EnteredOnce(S)' /\ LiveOnSite(S)'
  BY DEF DeskInv, OnMuster, EnteredOnce, LiveOnSite
<1> QED BY <1>1, <1>2, <1>3, <1>4 DEF DeskInv

(* One that moves a single request and no row.                              *)
RowsStay == UNCHANGED <<bookings, invites, admitted, overstay, door>>

LEMMA RowsStayKeeps ==
  ASSUME NEW S, DeskInv(S), RowsStay, clock' \in 0..MaxClock,
         aborts' \in 0..MaxAborts,
         NEW r \in Requests, req' \in [Requests -> Request],
         \A q \in Requests : q # r => req'[q] = req[q],
         RequestOK(S, r)', CheckOutOK(S, r)'
  PROVE  DeskInv(S)'
<1> USE DEF RowsStay, bookings, invites, admitted
<1>1. TypeOK' BY DEF DeskInv, TypeOK
<1>2. CodesOK' BY DEF DeskInv, RowsOK, CodesOK
<1>3. Quiet BY DEF Quiet
<1> QED BY <1>1, <1>2, <1>3, QuietKeeps

(* A request that rests holds nothing.                                      *)
LEMMA EndKeeps ==
  ASSUME NEW S, DeskInv(S), RowsStay, clock' \in 0..MaxClock,
         aborts' \in 0..MaxAborts,
         NEW r \in Requests, End(r)
  PROVE  DeskInv(S)'
<1>1. /\ req' \in [Requests -> Request]
      /\ \A q \in Requests : q # r => req'[q] = req[q]
      /\ req'[r].step = "idle"
  BY EndMoves DEF DeskInv
<1>2. RequestOK(S, r)' /\ CheckOutOK(S, r)'
  BY <1>1 DEF RequestOK, CheckOutOK, HoldsVisit, CheckOutSteps
<1> QED BY <1>1, <1>2, RowsStayKeeps

LEMMA InitInv == ASSUME NEW S, StoreAssumption, DeskInit PROVE DeskInv(S)
<1>1. TypeOK
  <2>1. window \in [Invitations -> [from : Int, until : Nat, expires : Nat]]
    BY DEF DeskInit, StoreAssumption, Window, NoWindow
  <2>2. req \in [Requests -> Request]
    BY IdleIsRequest DEF DeskInit
  <2>3. visit \in [Visits -> VisitStatus]
    BY DEF DeskInit, VisitStatus
  <2> QED BY <2>1, <2>2, <2>3 DEF TypeOK, DeskInit, StoreAssumption,
                              InvitationStatus, RecordStatus, GrantStatus
<1>2. RowsOK(S) BY DEF RowsOK, DeskInit, StoreAssumption
<1>3. RequestsOK(S) /\ CheckOutsOK(S)
  BY DEF DeskInit, RequestsOK, CheckOutsOK, Idle, HoldsVisit, CheckOutSteps
<1>4. OnMuster(S) /\ EnteredOnce(S) /\ LiveOnSite(S)
  BY DEF DeskInit, OnMuster, EnteredOnce, LiveOnSite
<1> QED BY <1>1, <1>2, <1>3, <1>4 DEF DeskInv

-----------------------------------------------------------------------------
(* Check-in.                                                                *)
LEMMA FindInvitationKeeps ==
  ASSUME NEW S, DeskInv(S), NEW r \in Requests, NEW i \in Invitations,
         FindInvitation(r, i)
  PROVE  DeskInv(S)'
<1>1. invVisit[i] \in Visits
  BY DEF DeskInv, RowsOK, FindInvitation
<1>2. /\ req' \in [Requests -> Request]
      /\ \A q \in Requests : q # r => req'[q] = req[q]
      /\ req'[r].step = "validate" /\ req'[r].visit = invVisit[i]
      /\ req'[r].inv = i
  BY <1>1 DEF FindInvitation, DeskInv, TypeOK, Idle, Request, Steps,
              CheckInSteps
<1>3. RequestOK(S, r)' /\ CheckOutOK(S, r)'
  BY <1>1, <1>2
     DEF RequestOK, CheckOutOK, CheckOutSteps, FindInvitation, invites
<1>4. RowsStay /\ clock' \in 0..MaxClock /\ aborts' \in 0..MaxAborts
  BY DEF FindInvitation, RowsStay, DeskInv, TypeOK
<1> QED BY <1>2, <1>3, <1>4, RowsStayKeeps

(* A request that goes from one step of a check-in to a later one.          *)
LEMMA CheckInGotoKeeps ==
  ASSUME NEW S, DeskInv(S), NEW r \in Requests,
         NEW s \in {"expire", "screen", "admit"},
         req[r].step \in {"validate", "screen"}, Goto(r, s), RowsStay,
         UNCHANGED <<clock, aborts>>
  PROVE  DeskInv(S)'
<1>1. /\ req' \in [Requests -> Request]
      /\ \A q \in Requests : q # r => req'[q] = req[q]
      /\ req'[r].step = s
      /\ req'[r].visit = req[r].visit /\ req'[r].inv = req[r].inv
  BY GotoMoves DEF DeskInv, Steps, CheckInSteps
<1>2. RequestOK(S, r)' /\ CheckOutOK(S, r)'
  BY <1>1 DEF DeskInv, RequestsOK, RequestOK, CheckOutOK, CheckOutSteps,
              HoldsVisit, RowsStay, invites
<1>3. clock' \in 0..MaxClock /\ aborts' \in 0..MaxAborts
  BY DEF DeskInv, TypeOK
<1> QED BY <1>1, <1>2, <1>3, RowsStayKeeps

LEMMA ValidateKeeps ==
  ASSUME NEW S, DeskInv(S), NEW r \in Requests, Validate(r)
  PROVE  DeskInv(S)'
<1>1. /\ RowsStay /\ UNCHANGED <<clock, aborts>>
      /\ clock' \in 0..MaxClock /\ aborts' \in 0..MaxAborts
  BY DEF Validate, RowsStay, DeskInv, TypeOK
<1>2. CASE End(r)
  BY <1>1, <1>2, EndKeeps
<1>3. CASE Goto(r, "expire") \/ Goto(r, "screen")
  BY <1>1, <1>3, CheckInGotoKeeps DEF Validate, At
<1> QED BY <1>2, <1>3 DEF Validate

LEMMA ScreenKeeps ==
  ASSUME NEW S, DeskInv(S), NEW r \in Requests, Screen(r)
  PROVE  DeskInv(S)'
<1>1. /\ RowsStay /\ UNCHANGED <<clock, aborts>>
      /\ clock' \in 0..MaxClock /\ aborts' \in 0..MaxAborts
  BY DEF Screen, RowsStay, DeskInv, TypeOK
<1>2. CASE End(r)
  BY <1>1, <1>2, EndKeeps
<1>3. CASE Goto(r, "admit")
  BY <1>1, <1>3, CheckInGotoKeeps DEF Screen, At
<1> QED BY <1>2, <1>3 DEF Screen

LEMMA ExpireKeeps ==
  ASSUME NEW S, DeskInv(S), NEW r \in Requests, Expire(r)
  PROVE  DeskInv(S)'
<1>1. /\ req' \in [Requests -> Request]
      /\ \A q \in Requests : q # r => req'[q] = req[q]
      /\ req'[r].step = "idle"
  BY EndMoves DEF DeskInv, Expire
<1>2. RequestOK(S, r)' /\ CheckOutOK(S, r)'
  BY <1>1 DEF RequestOK, CheckOutOK, HoldsVisit, CheckOutSteps
<1>3. req[r].inv \in Invitations /\ invVisit[req[r].inv] \in Visits
  BY DEF DeskInv, RequestsOK, Expire, At, HoldsVisit
<1>4. CodesOK'
  BY <1>3 DEF DeskInv, RowsOK, CodesOK, Expire, TypeOK
<1>5. TypeOK'
  BY <1>1, <1>3 DEF DeskInv, TypeOK, Expire, bookings, admitted,
                    InvitationStatus
<1>6. Quiet
  BY DEF Expire, bookings, admitted, Quiet
<1> QED BY <1>1, <1>2, <1>4, <1>5, <1>6, QuietKeeps

LEMMA DuplicateKeeps ==
  ASSUME NEW S, DeskInv(S), NEW r \in Requests, Duplicate(r)
  PROVE  DeskInv(S)'
BY EndKeeps DEF Duplicate, RowsStay, DeskInv, TypeOK

(* An entry: it begins a visit that had no admission.                       *)
LEMMA InsertRows ==
  ASSUME NEW S, StoreAssumption, DeskInv(S), NEW a \in Admissions,
         NEW v \in Visits,
         NEW b \in BOOLEAN, NEW z \in BOOLEAN, NEW t \in Nat,
         Insert(a, v, b, z, t), ~Begun(v)
  PROVE  /\ visit' \in [Visits -> VisitStatus]
         /\ admVisit' \in [Admissions -> Visits \cup {NoVisit}]
         /\ record' \in [Admissions -> RecordStatus]
         /\ badge' \in [Admissions -> GrantStatus]
         /\ access' \in [Admissions -> GrantStatus]
         /\ validUntil' \in [Admissions -> Nat]
         /\ \A x \in Admissions :
              IF record'[x] = "none"
              THEN admVisit'[x] = NoVisit /\ badge'[x] = "none"
                     /\ access'[x] = "none"
              ELSE /\ admVisit'[x] \in Visits
                   /\ admVisit'[x] \in S => Begun(admVisit[x])'
         /\ \A x \in Visits : Begun(x) => Begun(x)' /\ x # v
         /\ \A x \in Admissions : x # a =>
              /\ admVisit'[x] = admVisit[x] /\ record'[x] = record[x]
              /\ badge'[x] = badge[x] /\ access'[x] = access[x]
         /\ admVisit'[a] = v
         /\ OnMuster(S)' /\ EnteredOnce(S)' /\ LiveOnSite(S)'
<1> USE DEF Insert, DeskInv, TypeOK
<1>1. Granted(b) \in {"none", "active"} /\ Granted(z) \in {"none", "active"}
  BY DEF Granted
<1>2. /\ visit' \in [Visits -> VisitStatus]
      /\ admVisit' \in [Admissions -> Visits \cup {NoVisit}]
      /\ record' \in [Admissions -> RecordStatus]
      /\ badge' \in [Admissions -> GrantStatus]
      /\ access' \in [Admissions -> GrantStatus]
      /\ validUntil' \in [Admissions -> Nat]
  BY <1>1 DEF VisitStatus, RecordStatus, GrantStatus
<1>3. /\ \A x \in Admissions : x # a =>
           /\ admVisit'[x] = admVisit[x] /\ record'[x] = record[x]
           /\ badge'[x] = badge[x] /\ access'[x] = access[x]
      /\ admVisit'[a] = v /\ record'[a] = "open"
  OBVIOUS
<1>4. visit'[v] = "checked_in" /\ \A x \in Visits : x # v => visit'[x] = visit[x]
  OBVIOUS
<1>5. \A x \in Visits : Begun(x) => Begun(x)' /\ x # v
  BY <1>4 DEF Begun
<1>6. \A x \in Admissions : x # a /\ record[x] # "none" =>
        admVisit[x] \in Visits /\ (admVisit[x] \in S => admVisit[x] # v)
  BY <1>5 DEF RowsOK
<1>7. \A x \in Admissions :
        IF record'[x] = "none"
        THEN admVisit'[x] = NoVisit /\ badge'[x] = "none"
               /\ access'[x] = "none"
        ELSE /\ admVisit'[x] \in Visits
             /\ admVisit'[x] \in S => Begun(admVisit[x])'
  BY <1>3, <1>4, <1>5, <1>6 DEF RowsOK, Begun
<1>8. OnMuster(S)' BY <1>3, <1>4, <1>6 DEF OnMuster
<1>9. EnteredOnce(S)' BY <1>3, <1>6 DEF EnteredOnce
<1>10. LiveOnSite(S)'
  BY <1>3, <1>4, <1>6 DEF LiveOnSite, RowsOK
<1> QED BY <1>2, <1>3, <1>5, <1>7, <1>8, <1>9, <1>10

(* What an entry leaves to prove about the requests: its own holds nothing  *)
(* yet, and no check-out in flight is of the visit that begins here.        *)
LEMMA EntryKeeps ==
  ASSUME NEW S, StoreAssumption, DeskInv(S), NEW r \in Requests,
         NEW a \in Admissions,
         NEW v \in Visits, NEW b \in BOOLEAN, NEW z \in BOOLEAN, NEW t \in Nat,
         Insert(a, v, b, z, t), ~Begun(v),
         UNCHANGED <<approved, prereg, watched, invVisit, window, overstay,
                     door, clock, aborts>>,
         invStatus' \in [Invitations -> InvitationStatus], CodesOK',
         req' \in [Requests -> Request],
         \A q \in Requests : q # r => req'[q] = req[q],
         req'[r].step \in {"activate", "idle"}
  PROVE  DeskInv(S)'
<1>0. /\ visit' \in [Visits -> VisitStatus]
      /\ admVisit' \in [Admissions -> Visits \cup {NoVisit}]
      /\ record' \in [Admissions -> RecordStatus]
      /\ badge' \in [Admissions -> GrantStatus]
      /\ access' \in [Admissions -> GrantStatus]
      /\ validUntil' \in [Admissions -> Nat]
  BY InsertRows
<1>1. TypeOK'
  BY <1>0 DEF DeskInv, TypeOK
<1>2. RowsOK(S)'
  BY InsertRows DEF CodesOK, RowsOK
<1>3. /\ \A x \in Visits : Begun(x) => Begun(x)' /\ x # v
      /\ \A x \in Admissions : x # a =>
           /\ admVisit'[x] = admVisit[x] /\ record'[x] = record[x]
           /\ badge'[x] = badge[x] /\ access'[x] = access[x]
      /\ admVisit'[a] = v
      /\ OnMuster(S)' /\ EnteredOnce(S)' /\ LiveOnSite(S)'
  BY InsertRows
<1>4. \A q \in Requests : req[q].step \in CheckOutSteps =>
        /\ req[q].visit \in Visits
        /\ req[q].visit \in S => Begun(req[q].visit)
  BY DEF DeskInv, RequestsOK, HoldsVisit
<1>5. req'[r].step \notin HoldsVisit /\ req'[r].step \notin CheckOutSteps
        /\ req'[r].step \notin {"validate", "expire", "screen", "admit"}
  BY DEF HoldsVisit, CheckOutSteps
<1>6. RequestsOK(S)'
  <2> SUFFICES ASSUME NEW q \in Requests PROVE RequestOK(S, q)'
    BY DEF RequestsOK, RequestOK
  <2>1. CASE q = r
    BY <1>5, <2>1 DEF RequestOK
  <2>2. CASE q # r
    BY <1>3, <1>4, <2>2 DEF DeskInv, RequestsOK, RequestOK
  <2> QED BY <2>1, <2>2
<1>7. CheckOutsOK(S)'
  <2> SUFFICES ASSUME NEW q \in Requests PROVE CheckOutOK(S, q)'
    BY DEF CheckOutsOK, CheckOutOK
  <2>1. CASE q = r
    BY <1>5, <2>1 DEF CheckOutOK, CheckOutSteps
  <2>2. CASE q # r
    <3> SUFFICES ASSUME NEW x \in Admissions,
                        admVisit'[x] = req[q].visit, admVisit'[x] \in S,
                        req[q].step \in CheckOutSteps
                 PROVE  /\ req[q].step \in CheckOutSteps
                                             \ {"findBadge", "closeRecords"}
                             => record'[x] # "open"
                        /\ req[q].step \in {"disableAccess", "leave",
                                            "deactivate"}
                             => badge'[x] # "active"
                        /\ req[q].step \in {"leave", "deactivate"}
                             => access'[x] # "active"
      BY <2>2 DEF CheckOutOK, CheckOutSteps
    <3>1. x # a
      BY <1>3, <1>4
    <3> QED BY <1>3, <3>1 DEF DeskInv, CheckOutsOK
  <2> QED BY <2>1, <2>2
<1> QED BY <1>1, <1>2, <1>3, <1>6, <1>7 DEF DeskInv

LEMMA AdmitKeeps ==
  ASSUME NEW S, StoreAssumption, DeskInv(S), NEW r \in Requests,
         NEW a \in Admissions,
         Admit(r, a)
  PROVE  DeskInv(S)'
<1> DEFINE v == req[r].visit
           i == req[r].inv
<1>1. v \in Visits /\ i \in Invitations /\ invVisit[i] = v
  BY DEF DeskInv, RequestsOK, Admit, At, HoldsVisit
<1>2. ~Begun(v)
  BY DEF Admit, LockedRecheck, Begun
<1>3. window[i].until \in Nat
  BY <1>1 DEF DeskInv, TypeOK
<1>4. PICK z \in BOOLEAN : Insert(a, v, TRUE, z, window[i].until)
  <2>1. CASE v \in Zoned
    BY <2>1 DEF Admit, Insert, Granted
  <2>2. CASE v \notin Zoned
    BY <2>2 DEF Admit, Insert, Granted
  <2> QED BY <2>1, <2>2
<1>5. /\ invStatus' \in [Invitations -> InvitationStatus]
      /\ CodesOK'
  BY <1>1 DEF Admit, DeskInv, TypeOK, RowsOK, CodesOK, InvitationStatus
<1>6. /\ req' \in [Requests -> Request]
      /\ \A q \in Requests : q # r => req'[q] = req[q]
      /\ req'[r].step = "activate"
  <2>1. "activate" \in Steps /\ {a} \in SUBSET Admissions
    BY DEF Steps, CheckInSteps
  <2>2. req' = [req EXCEPT ![r].step = "activate", ![r].held = {a}]
    BY DEF Admit
  <2> QED BY <2>1, <2>2, HoldMoves DEF DeskInv
<1>7. UNCHANGED <<approved, prereg, watched, invVisit, window, overstay,
                  door, clock, aborts>>
  BY DEF Admit
<1> HIDE DEF v, i
<1> QED BY <1>1, <1>2, <1>3, <1>4, <1>5, <1>6, <1>7, EntryKeeps

LEMMA RegisterKeeps ==
  ASSUME NEW S, StoreAssumption, DeskInv(S), NEW r \in Requests,
         NEW a \in Admissions,
         NEW p \in BOOLEAN, Register(r, a, p)
  PROVE  DeskInv(S)'
<1> DEFINE v == req[r].visit
<1>1. v \in Visits /\ ~Begun(v)
  BY DEF DeskInv, RequestsOK, Register, At, HoldsVisit, Begun
<1>2. Insert(a, v, p, FALSE, 0)
  BY DEF Register
<1>3. /\ invStatus' \in [Invitations -> InvitationStatus]
      /\ CodesOK'
  BY DEF Register, DeskInv, TypeOK, RowsOK, CodesOK, invites
<1>4. /\ req' \in [Requests -> Request]
      /\ \A q \in Requests : q # r => req'[q] = req[q]
      /\ req'[r].step \in {"activate", "idle"}
  <2>1. CASE p
    <3>1. "activate" \in Steps /\ {a} \in SUBSET Admissions
      BY DEF Steps, CheckInSteps
    <3>2. req' = [req EXCEPT ![r].step = "activate", ![r].held = {a}]
      BY <2>1 DEF Register
    <3> QED BY <3>1, <3>2, HoldMoves DEF DeskInv
  <2>2. CASE ~p
    BY <2>2, EndMoves DEF Register, DeskInv
  <2> QED BY <2>1, <2>2
<1>5. UNCHANGED <<approved, prereg, watched, invVisit, window, overstay,
                  door, clock, aborts>>
  BY DEF Register, invites
<1> HIDE DEF v
<1> QED BY <1>1, <1>2, <1>3, <1>4, <1>5, EntryKeeps

(* Calls of the door controller move the door and end the request.          *)
LEMMA DoorKeeps ==
  ASSUME NEW S, DeskInv(S), NEW r \in Requests, End(r),
         door' \in SUBSET Admissions,
         UNCHANGED <<bookings, invites, admitted, overstay, clock, aborts>>
  PROVE  DeskInv(S)'
<1> USE DEF bookings, invites, admitted
<1>1. /\ req' \in [Requests -> Request]
      /\ \A q \in Requests : q # r => req'[q] = req[q]
      /\ req'[r].step = "idle"
  BY EndMoves DEF DeskInv
<1>2. RequestOK(S, r)' /\ CheckOutOK(S, r)'
  BY <1>1 DEF RequestOK, CheckOutOK, HoldsVisit, CheckOutSteps
<1>3. TypeOK' BY <1>1 DEF DeskInv, TypeOK
<1>4. CodesOK' BY DEF DeskInv, RowsOK, CodesOK
<1>5. Quiet BY DEF Quiet
<1> QED BY <1>1, <1>2, <1>3, <1>4, <1>5, QuietKeeps

LEMMA ActivateKeeps ==
  ASSUME NEW S, DeskInv(S), NEW r \in Requests, Activate(r)
  PROVE  DeskInv(S)'
<1>1. req[r].held \in SUBSET Admissions /\ door \in SUBSET Admissions
  BY DEF DeskInv, TypeOK, Request
<1> QED BY <1>1, DoorKeeps DEF Activate

LEMMA DeactivateKeeps ==
  ASSUME NEW S, DeskInv(S), NEW r \in Requests, Deactivate(r)
  PROVE  DeskInv(S)'
<1>1. req[r].held \in SUBSET Admissions /\ door \in SUBSET Admissions
  BY DEF DeskInv, TypeOK, Request
<1> QED BY <1>1, DoorKeeps DEF Deactivate

(* Walk-ins and check-outs begin.                                           *)
LEMMA WalkInKeeps ==
  ASSUME NEW S, DeskInv(S), NEW r \in Requests, NEW v \in Visits, WalkIn(r, v)
  PROVE  DeskInv(S)'
<1>1. /\ req' \in [Requests -> Request]
      /\ \A q \in Requests : q # r => req'[q] = req[q]
      /\ req'[r].step = "register" /\ req'[r].visit = v
  BY BeginMoves DEF WalkIn, DeskInv, Steps, WalkInSteps
<1>2. RequestOK(S, r)' /\ CheckOutOK(S, r)'
  BY <1>1 DEF RequestOK, CheckOutOK, CheckOutSteps
<1>3. RowsStay /\ clock' \in 0..MaxClock /\ aborts' \in 0..MaxAborts
  BY DEF WalkIn, RowsStay, DeskInv, TypeOK
<1> QED BY <1>1, <1>2, <1>3, RowsStayKeeps

LEMMA CheckOutKeeps ==
  ASSUME NEW S, DeskInv(S), NEW r \in Requests, NEW v \in Visits, CheckOut(r, v)
  PROVE  DeskInv(S)'
<1>1. /\ req' \in [Requests -> Request]
      /\ \A q \in Requests : q # r => req'[q] = req[q]
      /\ req'[r].step = "findBadge" /\ req'[r].visit = v
  BY BeginMoves DEF CheckOut, DeskInv, Steps, CheckOutSteps
<1>2. Begun(v)'
  BY DEF CheckOut, Begun, bookings
<1>3. RequestOK(S, r)' /\ CheckOutOK(S, r)'
  BY <1>1, <1>2 DEF RequestOK, CheckOutOK, Begun
<1>4. RowsStay /\ clock' \in 0..MaxClock /\ aborts' \in 0..MaxAborts
  BY DEF CheckOut, RowsStay, DeskInv, TypeOK
<1> QED BY <1>1, <1>3, <1>4, RowsStayKeeps

LEMMA FindBadgeKeeps ==
  ASSUME NEW S, DeskInv(S), NEW r \in Requests, FindBadge(r)
  PROVE  DeskInv(S)'
<1>1. "closeRecords" \in Steps
  BY DEF Steps, CheckOutSteps
<1>2. /\ req' \in [Requests -> Request]
      /\ \A q \in Requests : q # r => req'[q] = req[q]
      /\ req'[r].step = "closeRecords" /\ req'[r].visit = req[r].visit
  <2>1. CASE Goto(r, "closeRecords")
    BY <1>1, <2>1, GotoMoves DEF DeskInv
  <2>2. CASE \E a \in Admissions :
               req' = [req EXCEPT ![r].step = "closeRecords",
                                  ![r].held = {a}]
    <3>1. PICK a \in Admissions :
               req' = [req EXCEPT ![r].step = "closeRecords",
                                  ![r].held = {a}]
      BY <2>2
    <3>2. {a} \in SUBSET Admissions
      OBVIOUS
    <3> QED BY <1>1, <3>1, <3>2, HoldMoves DEF DeskInv
  <2> QED BY <2>1, <2>2 DEF FindBadge
<1>3. /\ req[r].visit \in Visits
      /\ req[r].visit \in S => Begun(req[r].visit)
  BY DEF DeskInv, RequestsOK, FindBadge, At, CheckOutSteps, HoldsVisit
<1>4. RowsStay /\ clock' \in 0..MaxClock /\ aborts' \in 0..MaxAborts
  BY DEF FindBadge, RowsStay, DeskInv, TypeOK
<1>5. RequestOK(S, r)' /\ CheckOutOK(S, r)'
  BY <1>2, <1>3, <1>4 DEF RequestOK, CheckOutOK, Begun, RowsStay, bookings
<1> QED BY <1>2, <1>4, <1>5, RowsStayKeeps

(* A step that closes records and takes grants away, and gives none, keeps  *)
(* the invariant when the request it moves keeps its share of it.           *)
Shrinks ==
  \A a \in Admissions :
    /\ record'[a] = "none" <=> record[a] = "none"
    /\ record'[a] = "open" => record[a] = "open"
    /\ badge'[a] # badge[a] => badge[a] = "active" /\ badge'[a] # "active"
    /\ access'[a] # access[a] => access[a] = "active" /\ access'[a] # "active"

LEMMA ShrinkKeeps ==
  ASSUME NEW S, DeskInv(S), TypeOK', Shrinks,
         UNCHANGED <<bookings, invites, admVisit>>,
         NEW r \in Requests, RequestOK(S, r)', CheckOutOK(S, r)',
         \A q \in Requests : q # r => req'[q] = req[q]
  PROVE  DeskInv(S)'
<1> USE DEF Shrinks, bookings, invites
<1>1. RowsOK(S)' BY DEF DeskInv, RowsOK, Begun
<1>2. RequestsOK(S)' BY DEF DeskInv, RequestsOK, RequestOK, Begun
<1>3. CheckOutsOK(S)'
  <2> SUFFICES ASSUME NEW q \in Requests PROVE CheckOutOK(S, q)'
    BY DEF CheckOutsOK, CheckOutOK
  <2>1. CASE q = r
    BY <2>1
  <2>2. CASE q # r
    BY <2>2 DEF DeskInv, CheckOutsOK, CheckOutOK
  <2> QED BY <2>1, <2>2
<1>4. OnMuster(S)' BY DEF DeskInv, OnMuster
<1>5. EnteredOnce(S)' BY DEF DeskInv, EnteredOnce
<1>6. LiveOnSite(S)' BY DEF DeskInv, LiveOnSite
<1> QED BY <1>1, <1>2, <1>3, <1>4, <1>5, <1>6 DEF DeskInv

LEMMA CloseRecordsKeeps ==
  ASSUME NEW S, DeskInv(S), NEW r \in Requests, CloseRecords(r)
  PROVE  DeskInv(S)'
<1> USE DEF bookings, invites
<1>1. /\ req' \in [Requests -> Request]
      /\ \A q \in Requests : q # r => req'[q] = req[q]
      /\ req'[r].step = "disableBadge" /\ req'[r].visit = req[r].visit
  BY GotoMoves DEF CloseRecords, DeskInv, Steps, CheckOutSteps
<1>2. TypeOK'
  BY <1>1 DEF DeskInv, TypeOK, CloseRecords, RecordStatus
<1>3. RequestOK(S, r)'
  BY <1>1 DEF DeskInv, RequestsOK, RequestOK, Begun, CloseRecords, At,
              HoldsVisit,
              CheckOutSteps
<1>4. CheckOutOK(S, r)'
  BY <1>1 DEF DeskInv, CheckOutsOK, CheckOutOK, CloseRecords, At, CheckOutSteps,
              OpenRecord
<1>5. Shrinks
  BY DEF Shrinks, CloseRecords, OpenRecord
<1>6. UNCHANGED <<bookings, invites, admVisit>>
  BY DEF CloseRecords
<1> QED BY <1>1, <1>2, <1>3, <1>4, <1>5, <1>6, ShrinkKeeps

LEMMA DisableBadgeKeeps ==
  ASSUME NEW S, DeskInv(S), NEW r \in Requests, DisableBadge(r)
  PROVE  DeskInv(S)'
<1> USE DEF bookings, invites
<1>1. /\ req' \in [Requests -> Request]
      /\ \A q \in Requests : q # r => req'[q] = req[q]
      /\ req'[r].step = "disableAccess" /\ req'[r].visit = req[r].visit
  BY GotoMoves DEF DisableBadge, DeskInv, Steps, CheckOutSteps
<1>2. TypeOK'
  BY <1>1 DEF DeskInv, TypeOK, DisableBadge, GrantStatus
<1>3. RequestOK(S, r)'
  BY <1>1 DEF DeskInv, RequestsOK, RequestOK, Begun, DisableBadge, At,
              HoldsVisit,
              CheckOutSteps
<1>4. CheckOutOK(S, r)'
  BY <1>1 DEF DeskInv, CheckOutsOK, CheckOutOK, DisableBadge, At, CheckOutSteps,
              ActiveGrant
<1>5. Shrinks
  BY DEF Shrinks, DisableBadge, ActiveGrant
<1>6. UNCHANGED <<bookings, invites, admVisit>>
  BY DEF DisableBadge
<1> QED BY <1>1, <1>2, <1>3, <1>4, <1>5, <1>6, ShrinkKeeps

LEMMA DisableAccessKeeps ==
  ASSUME NEW S, DeskInv(S), NEW r \in Requests, DisableAccess(r)
  PROVE  DeskInv(S)'
<1> USE DEF bookings, invites
<1>1. /\ req' \in [Requests -> Request]
      /\ \A q \in Requests : q # r => req'[q] = req[q]
      /\ req'[r].step = "leave" /\ req'[r].visit = req[r].visit
  BY GotoMoves DEF DisableAccess, DeskInv, Steps, CheckOutSteps
<1>2. TypeOK'
  BY <1>1 DEF DeskInv, TypeOK, DisableAccess, GrantStatus
<1>3. RequestOK(S, r)'
  BY <1>1 DEF DeskInv, RequestsOK, RequestOK, Begun, DisableAccess, At,
              HoldsVisit,
              CheckOutSteps
<1>4. CheckOutOK(S, r)'
  BY <1>1 DEF DeskInv, CheckOutsOK, CheckOutOK, DisableAccess, At,
              CheckOutSteps,
              ActiveGrant
<1>5. Shrinks
  BY DEF Shrinks, DisableAccess, ActiveGrant
<1>6. UNCHANGED <<bookings, invites, admVisit>>
  BY DEF DisableAccess
<1> QED BY <1>1, <1>2, <1>3, <1>4, <1>5, <1>6, ShrinkKeeps

LEMMA SweepBadgesKeeps ==
  ASSUME NEW S, DeskInv(S), NEW r \in Requests, SweepBadges(r)
  PROVE  DeskInv(S)'
<1> USE DEF bookings, invites
<1>1. /\ req' \in [Requests -> Request]
      /\ \A q \in Requests : q # r => req'[q] = req[q]
      /\ req'[r].step = "sweepAccess" /\ req'[r].visit = req[r].visit
  BY GotoMoves DEF SweepBadges, DeskInv, Steps, SweepSteps
<1>2. TypeOK'
  BY <1>1 DEF DeskInv, TypeOK, SweepBadges, GrantStatus
<1>3. RequestOK(S, r)' /\ CheckOutOK(S, r)'
  BY <1>1 DEF RequestOK, CheckOutOK, HoldsVisit, CheckOutSteps
<1>4. Shrinks
  BY DEF Shrinks, SweepBadges
<1>5. UNCHANGED <<bookings, invites, admVisit>>
  BY DEF SweepBadges
<1> QED BY <1>1, <1>2, <1>3, <1>4, <1>5, ShrinkKeeps

LEMMA SweepAccessKeeps ==
  ASSUME NEW S, DeskInv(S), NEW r \in Requests, SweepAccess(r)
  PROVE  DeskInv(S)'
<1> USE DEF bookings, invites
<1>1. /\ req' \in [Requests -> Request]
      /\ \A q \in Requests : q # r => req'[q] = req[q]
      /\ req'[r].step = "scan" /\ req'[r].visit = req[r].visit
  BY GotoMoves DEF SweepAccess, DeskInv, Steps, SweepSteps
<1>2. TypeOK'
  BY <1>1 DEF DeskInv, TypeOK, SweepAccess, GrantStatus
<1>3. RequestOK(S, r)' /\ CheckOutOK(S, r)'
  BY <1>1 DEF RequestOK, CheckOutOK, HoldsVisit, CheckOutSteps
<1>4. Shrinks
  BY DEF Shrinks, SweepAccess
<1>5. UNCHANGED <<bookings, invites, admVisit>>
  BY DEF SweepAccess
<1> QED BY <1>1, <1>2, <1>3, <1>4, <1>5, ShrinkKeeps

(* The visit is closed when nothing of it is open or live any more.         *)
LEMMA LeaveKeeps ==
  ASSUME NEW S, DeskInv(S), NEW r \in Requests, Leave(r)
  PROVE  DeskInv(S)'
<1> DEFINE v == req[r].visit
<1> USE DEF invites, admitted
<1>1. /\ req' \in [Requests -> Request]
      /\ \A q \in Requests : q # r => req'[q] = req[q]
      /\ req'[r].step = "deactivate" /\ req'[r].visit = v
  BY GotoMoves DEF Leave, DeskInv, Steps, CheckOutSteps
<1>2. v \in Visits
  BY DEF DeskInv, RequestsOK, Leave, At, CheckOutSteps, HoldsVisit
<1>3. \A a \in Admissions : admVisit[a] = v /\ v \in S =>
        record[a] # "open" /\ badge[a] # "active" /\ access[a] # "active"
  BY DEF DeskInv, CheckOutsOK, Leave, At, CheckOutSteps
<1>4. TypeOK'
  BY <1>1, <1>2 DEF DeskInv, TypeOK, Leave, VisitStatus
<1>5. /\ visit'[v] = "checked_out"
      /\ \A u \in Visits : u # v => visit'[u] = visit[u]
      /\ \A u \in Visits : Begun(u) => Begun(u)'
  BY <1>2 DEF Leave, DeskInv, TypeOK, Begun
<1>6. RowsOK(S)'
  BY <1>5 DEF DeskInv, RowsOK, Leave
<1>7. RequestsOK(S)'
  <2> SUFFICES ASSUME NEW q \in Requests PROVE RequestOK(S, q)'
    BY DEF RequestsOK, RequestOK
  <2>1. CASE q = r
    BY <1>1, <1>2, <1>5, <2>1 DEF RequestOK, Begun, CheckOutSteps
  <2>2. CASE q # r
    BY <1>1, <1>5, <2>2 DEF DeskInv, RequestsOK, RequestOK, Leave, HoldsVisit
  <2> QED BY <2>1, <2>2
<1>8. CheckOutsOK(S)'
  BY <1>1, <1>3 DEF DeskInv, CheckOutsOK, Leave
<1>9. OnMuster(S)' /\ LiveOnSite(S)'
  BY <1>3, <1>5 DEF DeskInv, OnMuster, LiveOnSite, Leave, RowsOK
<1>10. EnteredOnce(S)'
  BY DEF DeskInv, EnteredOnce, Leave
<1> QED BY <1>4, <1>6, <1>7, <1>8, <1>9, <1>10 DEF DeskInv

(* The rest of the sweep: it holds no visit until it raises an incident.    *)
LEMMA SweepKeeps ==
  ASSUME NEW S, DeskInv(S), NEW r \in Requests, Sweep(r)
  PROVE  DeskInv(S)'
<1>1. /\ req' \in [Requests -> Request]
      /\ \A q \in Requests : q # r => req'[q] = req[q]
      /\ req'[r].step = "sweepBadges"
  <2> DEFINE begin == [Idle EXCEPT !.step = "sweepBadges", !.now = clock]
  <2>1. clock \in Nat
    BY DEF DeskInv, TypeOK
  <2>2. begin \in Request /\ begin.step = "sweepBadges"
    BY <2>1 DEF Idle, Request, Steps, SweepSteps
  <2>3. req' = [req EXCEPT ![r] = begin]
    BY DEF Sweep
  <2> HIDE DEF begin
  <2> QED BY <2>2, <2>3 DEF DeskInv, TypeOK
<1>2. RequestOK(S, r)' /\ CheckOutOK(S, r)'
  BY <1>1 DEF RequestOK, CheckOutOK, HoldsVisit, CheckOutSteps
<1>3. RowsStay /\ clock' \in 0..MaxClock /\ aborts' \in 0..MaxAborts
  BY DEF Sweep, RowsStay, DeskInv, TypeOK
<1> QED BY <1>1, <1>2, <1>3, RowsStayKeeps

LEMMA ScanKeeps ==
  ASSUME NEW S, StoreAssumption, DeskInv(S), NEW r \in Requests, Scan(r)
  PROVE  DeskInv(S)'
<1>1. Overstaying(req[r].now) \in SUBSET (Visits \cup Invitations)
  BY DEF Overstaying, StoreAssumption
<1>2. /\ req' \in [Requests -> Request]
      /\ \A q \in Requests : q # r => req'[q] = req[q]
      /\ req'[r].step = "overstays"
  <2>1. "overstays" \in Steps
    BY DEF Steps, SweepSteps
  <2>2. req' = [req EXCEPT ![r].step = "overstays",
                           ![r].todo = Overstaying(req[r].now)]
    BY DEF Scan
  <2> QED BY <1>1, <2>1, <2>2, TodoMoves DEF DeskInv
<1>3. RequestOK(S, r)' /\ CheckOutOK(S, r)'
  BY <1>2 DEF RequestOK, CheckOutOK, HoldsVisit, CheckOutSteps
<1>4. RowsStay /\ clock' \in 0..MaxClock /\ aborts' \in 0..MaxAborts
  BY DEF Scan, RowsStay, DeskInv, TypeOK
<1> QED BY <1>2, <1>3, <1>4, RowsStayKeeps

LEMMA CheckOverstayMoves ==
  ASSUME TypeOK, NEW r \in Requests, NEW v \in Visits, CheckOverstay(r, v)
  PROVE  /\ req' \in [Requests -> Request]
         /\ \A q \in Requests : q # r => req'[q] = req[q]
         /\ \/ /\ overstay[v] > 0 /\ req'[r].step = "overstays"
               /\ req'[r].visit = req[r].visit
            \/ /\ ~(overstay[v] > 0) /\ req'[r].step = "raise"
               /\ req'[r].visit = v
<1>1. req[r].todo \ {v} \in SUBSET (Visits \cup Invitations)
  BY DEF TypeOK, Request
<1>2. CASE HasOpenOverstay(v)
  <2>1. req' = [req EXCEPT ![r].todo = req[r].todo \ {v}]
    BY <1>2 DEF CheckOverstay
  <2>2. req[r].step = "overstays"
    BY DEF CheckOverstay, At
  <2> QED BY <1>1, <1>2, <2>1, <2>2 DEF TypeOK, Request, HasOpenOverstay
<1>3. CASE ~HasOpenOverstay(v)
  <2> DEFINE raise == [req[r] EXCEPT !.step = "raise", !.visit = v,
                                     !.todo = req[r].todo \ {v}]
  <2>1. "raise" \in Steps
    BY DEF Steps, SweepSteps
  <2>2. raise \in Request /\ raise.step = "raise" /\ raise.visit = v
    BY <1>1, <2>1 DEF TypeOK, Request
  <2>3. req' = [req EXCEPT ![r] = raise]
    BY <1>3 DEF CheckOverstay, DeskInv, TypeOK, Request
  <2> HIDE DEF raise
  <2> QED BY <1>3, <2>2, <2>3 DEF TypeOK, HasOpenOverstay
<1> QED BY <1>2, <1>3

LEMMA CheckOverstayKeeps ==
  ASSUME NEW S, DeskInv(S), NEW r \in Requests, NEW v \in Visits,
         CheckOverstay(r, v)
  PROVE  DeskInv(S)'
<1>2. /\ req' \in [Requests -> Request]
      /\ \A q \in Requests : q # r => req'[q] = req[q]
      /\ \/ req'[r].step = "overstays"
         \/ req'[r].step = "raise" /\ req'[r].visit = v
  BY CheckOverstayMoves DEF DeskInv
<1>3. RequestOK(S, r)' /\ CheckOutOK(S, r)'
  BY <1>2 DEF RequestOK, CheckOutOK, HoldsVisit, CheckOutSteps
<1>4. RowsStay /\ clock' \in 0..MaxClock /\ aborts' \in 0..MaxAborts
  BY DEF CheckOverstay, RowsStay, DeskInv, TypeOK
<1> QED BY <1>2, <1>3, <1>4, RowsStayKeeps

LEMMA RaiseOverstayKeeps ==
  ASSUME NEW S, DeskInv(S), NEW r \in Requests, RaiseOverstay(r)
  PROVE  DeskInv(S)'
<1> USE DEF bookings, invites, admitted
<1>1. /\ req' \in [Requests -> Request]
      /\ \A q \in Requests : q # r => req'[q] = req[q]
      /\ req'[r].step = "overstays"
  BY GotoMoves DEF RaiseOverstay, DeskInv, Steps, SweepSteps
<1>2. RequestOK(S, r)' /\ CheckOutOK(S, r)'
  BY <1>1 DEF RequestOK, CheckOutOK, HoldsVisit, CheckOutSteps
<1>3. req[r].visit \in Visits
  BY DEF DeskInv, RequestsOK, RaiseOverstay, At, HoldsVisit
<1>4. TypeOK' BY <1>1, <1>3 DEF DeskInv, TypeOK, RaiseOverstay
<1>5. CodesOK' BY DEF DeskInv, RowsOK, CodesOK, RaiseOverstay
<1>6. Quiet BY DEF Quiet, RaiseOverstay
<1> QED BY <1>1, <1>2, <1>4, <1>5, <1>6, QuietKeeps

LEMMA SweepDoneKeeps ==
  ASSUME NEW S, DeskInv(S), NEW r \in Requests, SweepDone(r)
  PROVE  DeskInv(S)'
BY EndKeeps DEF SweepDone, RowsStay, DeskInv, TypeOK

LEMMA AbortKeeps ==
  ASSUME NEW S, DeskInv(S), StoreAssumption, NEW r \in Requests, Abort(r)
  PROVE  DeskInv(S)'
<1>1. RowsStay /\ clock' \in 0..MaxClock /\ aborts' \in 0..MaxAborts
  BY DEF Abort, RowsStay, DeskInv, TypeOK, StoreAssumption
<1> QED BY <1>1, EndKeeps DEF Abort

-----------------------------------------------------------------------------
(* Steps outside every request.                                             *)
LEMMA OutsideKeeps ==
  ASSUME NEW S, DeskInv(S), StoreAssumption,
         \/ Tick
         \/ \E v \in Visits : \/ WatchlistAdd(v)
                              \/ WatchlistRemove(v)
                              \/ ResolveOverstay(v)
         \/ \E i \in Invitations : RevokeInvitation(i)
  PROVE  DeskInv(S)'
<1> USE DEF bookings, invites, admitted
<1>1. CASE Tick
  <2>1. TypeOK' BY <1>1 DEF Tick, DeskInv, TypeOK, StoreAssumption
  <2>2. CodesOK' /\ Quiet
    BY <1>1 DEF Tick, DeskInv, RowsOK, CodesOK, Quiet
  <2> QED BY <1>1, <2>1, <2>2, QuietKeeps DEF Tick
<1>2. ASSUME NEW v \in Visits,
             WatchlistAdd(v) \/ WatchlistRemove(v) \/ ResolveOverstay(v)
      PROVE  DeskInv(S)'
  <2>1. TypeOK'
    BY <1>2 DEF WatchlistAdd, WatchlistRemove, ResolveOverstay, DeskInv,
                TypeOK
  <2>2. CodesOK' /\ Quiet /\ UNCHANGED req
    BY <1>2 DEF WatchlistAdd, WatchlistRemove, ResolveOverstay, DeskInv,
                RowsOK, CodesOK, Quiet
  <2> QED BY <2>1, <2>2, QuietKeeps
<1>3. ASSUME NEW i \in Invitations, RevokeInvitation(i)
      PROVE  DeskInv(S)'
  <2>1. TypeOK'
    BY <1>3 DEF RevokeInvitation, DeskInv, TypeOK, InvitationStatus
  <2>2. CodesOK' /\ Quiet /\ UNCHANGED req
    BY <1>3 DEF RevokeInvitation, DeskInv, TypeOK, RowsOK, CodesOK, Quiet
  <2> QED BY <2>1, <2>2, QuietKeeps
<1> QED BY <1>1, <1>2, <1>3

LEMMA NextKeeps ==
  ASSUME NEW S, StoreAssumption, DeskInv(S), [DeskNext]_vars
  PROVE  DeskInv(S)'
<1>1. ASSUME NEW r \in Requests, Arrive(r)
      PROVE  DeskInv(S)'
  BY <1>1, FindInvitationKeeps, WalkInKeeps, CheckOutKeeps DEF Arrive
<1>2. ASSUME NEW r \in Requests, CheckInStep(r)
      PROVE  DeskInv(S)'
  BY <1>2, ValidateKeeps, ExpireKeeps, ScreenKeeps, AdmitKeeps,
     DuplicateKeeps, ActivateKeeps DEF CheckInStep
<1>3. ASSUME NEW r \in Requests, WalkInStep(r)
      PROVE  DeskInv(S)'
  BY <1>3, RegisterKeeps DEF WalkInStep
<1>4. ASSUME NEW r \in Requests, CheckOutStep(r)
      PROVE  DeskInv(S)'
  BY <1>4, FindBadgeKeeps, CloseRecordsKeeps, DisableBadgeKeeps,
     DisableAccessKeeps, LeaveKeeps, DeactivateKeeps DEF CheckOutStep
<1>5. ASSUME NEW r \in Requests, SweepStep(r)
      PROVE  DeskInv(S)'
  BY <1>5, SweepBadgesKeeps, SweepAccessKeeps, ScanKeeps, CheckOverstayKeeps,
     RaiseOverstayKeeps, SweepDoneKeeps DEF SweepStep
<1>6. CASE UNCHANGED vars
  <2>1. TypeOK' /\ CodesOK' /\ Quiet /\ req' = req
    BY <1>6 DEF vars, DeskInv, TypeOK, RowsOK, CodesOK, Quiet
  <2> QED BY <2>1, QuietKeeps
<1> QED
  BY <1>1, <1>2, <1>3, <1>4, <1>5, <1>6, SweepKeeps, AbortKeeps, OutsideKeeps
     DEF DeskNext, Clients, StoreAssumption

-----------------------------------------------------------------------------
(* The tables, the requests in flight and the three promises of the desk    *)
(* hold together in every state the desk reaches.                           *)
THEOREM DeskInvariant == DeskSpec => []DeskInv(Visits)
<1>1. DeskInit => DeskInv(Visits)
  BY InitInv, StoreAssumption
<1>2. DeskInv(Visits) /\ [DeskNext]_vars => DeskInv(Visits)'
  BY NextKeeps, StoreAssumption
<1> QED BY <1>1, <1>2, PTL DEF DeskSpec

(* Every table keeps its types and every request its program counter.       *)
THEOREM DeskTypeOK == DeskSpec => []TypeOK
<1>1. DeskInv(Visits) => TypeOK BY DEF DeskInv
<1> QED BY <1>1, DeskInvariant, PTL

(* musterList() never misses a person on site, whatever requests run at the *)
(* same time and wherever a check-out dies.                                 *)
THEOREM DeskMusterComplete == DeskSpec => []MusterComplete
<1>1. DeskInv(Visits) => MusterComplete BY DEF DeskInv, MusterComplete
<1> QED BY <1>1, DeskInvariant, PTL

(* completeCheckIn admits a visit once, however many codes, kiosks and      *)
(* retries present it.                                                      *)
THEOREM DeskAdmittedOnce == DeskSpec => []AdmittedOnce
<1>1. DeskInv(Visits) => AdmittedOnce BY DEF DeskInv, AdmittedOnce
<1> QED BY <1>1, DeskInvariant, PTL

(* checkOut closes a visit only when none of its badges and permissions is  *)
(* live, and none comes alive again.                                        *)
THEOREM DeskGrantsOnSiteOnly == DeskSpec => []GrantsOnSiteOnly
<1>1. DeskInv(Visits) => GrantsOnSiteOnly BY DEF DeskInv, GrantsOnSiteOnly
<1> QED BY <1>1, DeskInvariant, PTL

-----------------------------------------------------------------------------
(* One open overstay incident of a visit, with one maintenance worker: the  *)
(* sweep that found none raises one before it looks again, and nobody else  *)
(* raises any.                                                              *)
OneSweeper == \A r, q \in Sweepers : r = q

OverstayInv ==
  /\ DeskInv(Visits) /\ OneOverstayOpen
  /\ \A r \in Requests :
       /\ req[r].step \in SweepSteps => r \in Sweepers
       /\ req[r].step = "raise" => overstay[req[r].visit] = 0

(* Every request that is not a sweep leaves the incidents alone.            *)
NoSweep(r) ==
  /\ overstay' = overstay
  /\ \A q \in Requests : q # r => req'[q] = req[q]
  /\ req'[r].step \notin SweepSteps

LEMMA NoSweepKeeps ==
  ASSUME OverstayInv, DeskInv(Visits)', NEW r \in Requests, NoSweep(r)
  PROVE  OverstayInv'
BY DEF OverstayInv, OneOverstayOpen, NoSweep, SweepSteps

LEMMA EndIsNoSweep ==
  ASSUME TypeOK, NEW r \in Requests, End(r), overstay' = overstay
  PROVE  NoSweep(r)
BY EndMoves DEF NoSweep, SweepSteps

LEMMA GotoIsNoSweep ==
  ASSUME TypeOK, NEW r \in Requests, NEW s \in Steps, Goto(r, s),
         s \notin SweepSteps, overstay' = overstay
  PROVE  NoSweep(r)
BY GotoMoves DEF NoSweep

LEMMA ClientsDoNotSweep ==
  ASSUME TypeOK, NEW r \in Requests,
         Arrive(r) \/ CheckInStep(r) \/ WalkInStep(r) \/ CheckOutStep(r)
           \/ Abort(r)
  PROVE  NoSweep(r)
<1>1. ASSUME Arrive(r) PROVE NoSweep(r)
  <2>1. ASSUME NEW i \in Invitations, FindInvitation(r, i) PROVE NoSweep(r)
    BY <2>1 DEF FindInvitation, TypeOK, Idle, NoSweep, SweepSteps
  <2>2. ASSUME NEW v \in Visits, WalkIn(r, v) \/ CheckOut(r, v)
        PROVE  NoSweep(r)
    BY <2>2 DEF WalkIn, CheckOut, Begin, TypeOK, Idle, NoSweep, SweepSteps
  <2> QED BY <1>1, <2>1, <2>2 DEF Arrive
<1>2. ASSUME CheckInStep(r) PROVE NoSweep(r)
  <2>1. \A s \in {"expire", "screen", "admit"} :
          s \in Steps /\ s \notin SweepSteps
    BY DEF Steps, CheckInSteps, SweepSteps
  <2>2. ASSUME NEW a \in Admissions, Admit(r, a) PROVE NoSweep(r)
    BY <2>2 DEF Admit, TypeOK, Request, NoSweep, SweepSteps
  <2>3. CASE Validate(r)
    BY <2>1, <2>3, EndIsNoSweep, GotoIsNoSweep DEF Validate
  <2>4. CASE Screen(r)
    BY <2>1, <2>4, EndIsNoSweep, GotoIsNoSweep DEF Screen
  <2> QED
    BY <1>2, <2>2, <2>3, <2>4, EndIsNoSweep
       DEF CheckInStep, Expire, Duplicate, Activate
<1>3. ASSUME NEW a \in Admissions, NEW p \in BOOLEAN, Register(r, a, p)
      PROVE  NoSweep(r)
  <2>1. CASE p
    BY <1>3, <2>1 DEF Register, TypeOK, Request, NoSweep, SweepSteps
  <2>2. CASE ~p
    BY <1>3, <2>2, EndIsNoSweep DEF Register
  <2> QED BY <2>1, <2>2
<1>4. ASSUME CheckOutStep(r) PROVE NoSweep(r)
  <2>1. \A s \in CheckOutSteps : s \in Steps /\ s \notin SweepSteps
    BY DEF Steps, CheckOutSteps, SweepSteps
  <2>2. CASE FindBadge(r)
    BY <2>2 DEF FindBadge, Goto, TypeOK, Request, NoSweep, SweepSteps
  <2>3. CASE CloseRecords(r) \/ DisableBadge(r) \/ DisableAccess(r) \/ Leave(r)
    BY <2>1, <2>3, GotoIsNoSweep
       DEF CloseRecords, DisableBadge, DisableAccess, Leave, CheckOutSteps
  <2> QED BY <1>4, <2>2, <2>3, EndIsNoSweep DEF CheckOutStep, Deactivate
<1>5. ASSUME Abort(r) PROVE NoSweep(r)
  BY <1>5, EndIsNoSweep DEF Abort
<1> QED BY <1>1, <1>2, <1>3, <1>4, <1>5 DEF WalkInStep

LEMMA SweepsOverstay ==
  ASSUME StoreAssumption, OneSweeper, OverstayInv, DeskInv(Visits)',
         NEW r \in Requests,
         \/ r \in Sweepers /\ Sweep(r)
         \/ SweepStep(r)
  PROVE  OverstayInv'
<1>0. /\ TypeOK /\ r \in Sweepers
      /\ \A q \in Requests : req[q].step \in SweepSteps => q = r
  <2>1. Sweep(r) \/ req[r].step \in SweepSteps
    BY DEF SweepStep, SweepBadges, SweepAccess, Scan, CheckOverstay,
           RaiseOverstay, SweepDone, At, SweepSteps
  <2>2. r \in Sweepers
    BY <2>1 DEF OverstayInv, SweepStep, SweepBadges, SweepAccess, Scan,
                CheckOverstay, RaiseOverstay, SweepDone, At, SweepSteps
  <2> QED BY <2>2 DEF OverstayInv, DeskInv, OneSweeper
(* No incident moves and the request raises none.                           *)
<1>1. ASSUME overstay' = overstay,
             \A q \in Requests : q # r => req'[q] = req[q],
             req'[r].step = "raise" => overstay[req'[r].visit] = 0
      PROVE  OverstayInv'
  <2>1. \A q \in Requests :
          /\ req'[q].step \in SweepSteps => q \in Sweepers
          /\ req'[q].step = "raise" => overstay'[req'[q].visit] = 0
    BY <1>0, <1>1 DEF OverstayInv
  <2> QED BY <1>1, <2>1 DEF OverstayInv, OneOverstayOpen
<1>2. CASE Sweep(r)
  BY <1>0, <1>1, <1>2 DEF Sweep, TypeOK, Idle
<1>3. CASE SweepBadges(r) \/ SweepAccess(r) \/ SweepDone(r)
  <2>1. /\ \A q \in Requests : q # r => req'[q] = req[q]
        /\ req'[r].step \in {"sweepAccess", "scan", "idle"}
    BY <1>0, <1>3, GotoMoves, EndMoves
       DEF SweepBadges, SweepAccess, SweepDone, Steps, SweepSteps
  <2> QED BY <1>1, <1>3, <2>1 DEF SweepBadges, SweepAccess, SweepDone
<1>4. CASE Scan(r)
  BY <1>0, <1>1, <1>4 DEF Scan, TypeOK, Request
<1>5. ASSUME NEW v \in Visits, CheckOverstay(r, v)
      PROVE  OverstayInv'
  <2>1. overstay[v] \in Nat
    BY <1>0 DEF TypeOK
  <2>2. /\ \A q \in Requests : q # r => req'[q] = req[q]
        /\ req'[r].step = "raise" => overstay[req'[r].visit] = 0
    BY <1>0, <1>5, <2>1, CheckOverstayMoves
  <2> QED BY <1>1, <1>5, <2>2 DEF CheckOverstay
<1>6. CASE RaiseOverstay(r)
  <2>1. /\ req[r].visit \in Visits /\ overstay[req[r].visit] = 0
        /\ req[r].step = "raise"
    BY <1>6 DEF OverstayInv, DeskInv, RequestsOK, RaiseOverstay, At,
                HoldsVisit
  <2>2. overstay' = [overstay EXCEPT ![req[r].visit] = 1]
    BY <1>6, <2>1 DEF RaiseOverstay
  <2>3. OneOverstayOpen'
    BY <1>0, <2>1, <2>2 DEF OverstayInv, OneOverstayOpen, TypeOK
  <2>4. /\ \A q \in Requests : q # r => req'[q] = req[q]
        /\ req'[r].step = "overstays"
    BY <1>0, <1>6, GotoMoves DEF RaiseOverstay, Steps, SweepSteps
  <2>5. \A q \in Requests :
          /\ req'[q].step \in SweepSteps => q \in Sweepers
          /\ req'[q].step # "raise"
    BY <1>0, <2>4 DEF OverstayInv, SweepSteps
  <2> QED BY <2>3, <2>5 DEF OverstayInv
<1> QED BY <1>2, <1>3, <1>4, <1>5, <1>6 DEF SweepStep

LEMMA OverstayStep ==
  ASSUME StoreAssumption, OneSweeper, OverstayInv, [DeskNext]_vars
  PROVE  OverstayInv'
<1>1. DeskInv(Visits)'
  BY NextKeeps DEF OverstayInv
<1>2. TypeOK
  BY DEF OverstayInv, DeskInv
<1>3. ASSUME NEW v \in Visits, ResolveOverstay(v)
      PROVE  OverstayInv'
  <2>1. \A w \in Visits : /\ overstay'[w] <= overstay[w]
                          /\ overstay[w] = 0 => overstay'[w] = 0
                          /\ overstay'[w] \in Nat
    BY <1>2, <1>3 DEF ResolveOverstay, TypeOK
  <2>2. OneOverstayOpen'
    BY <1>2, <2>1 DEF OverstayInv, OneOverstayOpen, TypeOK
  <2>3. \A q \in Requests : req[q].step = "raise" => req[q].visit \in Visits
    BY DEF OverstayInv, DeskInv, RequestsOK, HoldsVisit
  <2> QED BY <1>1, <1>3, <2>1, <2>2, <2>3 DEF OverstayInv, ResolveOverstay
<1>4. CASE \/ Tick \/ UNCHANGED vars
           \/ \E v \in Visits : WatchlistAdd(v) \/ WatchlistRemove(v)
           \/ \E i \in Invitations : RevokeInvitation(i)
  <2>1. UNCHANGED <<overstay, req>>
    BY <1>4 DEF Tick, vars, WatchlistAdd, WatchlistRemove, RevokeInvitation
  <2> QED BY <1>1, <2>1 DEF OverstayInv, OneOverstayOpen
<1> QED
  BY <1>1, <1>2, <1>3, <1>4, ClientsDoNotSweep, NoSweepKeeps, SweepsOverstay
     DEF DeskNext, Clients, StoreAssumption

(* runOverstayAlerts: with one worker a visit never has two open overstay   *)
(* incidents, however often the sweep dies and starts again.                *)
THEOREM SweeperOneOverstayOpen ==
  ASSUME OneSweeper
  PROVE  DeskSpec => []OneOverstayOpen
<1>1. DeskInit => OverstayInv
  <2>1. DeskInit => DeskInv(Visits)
    BY InitInv, StoreAssumption
  <2> QED BY <2>1 DEF DeskInit, OverstayInv, OneOverstayOpen, Idle, SweepSteps
<1>2. OverstayInv /\ [DeskNext]_vars => OverstayInv'
  BY OverstayStep, StoreAssumption
<1>3. OverstayInv => OneOverstayOpen
  BY DEF OverstayInv
<1> QED BY <1>1, <1>2, <1>3, PTL DEF DeskSpec

-----------------------------------------------------------------------------
(* The desk implements SitePresence.  What a step does to the abstract site *)
(* follows from what it does to visits and admissions.                      *)
Live   == {a \in Admissions : badge[a] = "active" \/ access[a] = "active"}
Inside == {a \in Admissions : record[a] = "open"}
Stages == [v \in Visits |-> Stage(v)]

LEMMA QuietStutters ==
  ASSUME UNCHANGED <<visit, admVisit, record, badge, access>>
  PROVE  UNCHANGED Presence!pvars
BY DEF Presence!pvars, Stage

LEMMA EntryEnters ==
  ASSUME DeskInv(Visits), NEW a \in Admissions, NEW v \in Visits,
         NEW b \in BOOLEAN, NEW z \in BOOLEAN, NEW t \in Nat,
         Insert(a, v, b, z, t), ~Begun(v)
  PROVE  \E g \in BOOLEAN : Presence!Enter(v, a, g)
<1>1. Stage(v) = "outside" /\ admVisit[a] = NoVisit
  BY DEF Stage, Begun, Insert, DeskInv, RowsOK
<1>2. Stages' = [Stages EXCEPT ![v] = "on site"]
  BY DEF Stages, Stage, Insert, DeskInv, TypeOK
<1>3. admVisit' = [admVisit EXCEPT ![a] = v]
  BY DEF Insert
<1>4. Inside' = Inside \cup {a}
  BY DEF Inside, Insert, DeskInv, TypeOK
<1>5. badge[a] = "none" /\ access[a] = "none"
  BY DEF Insert, DeskInv, RowsOK
<1>6. Live' = (IF b \/ z THEN Live \cup {a} ELSE Live)
  BY <1>5 DEF Live, Insert, Granted, DeskInv, TypeOK
<1>7. Presence!Enter(v, a, b \/ z)
  BY <1>1, <1>2, <1>3, <1>4, <1>6 DEF Presence!Enter, Live, Inside, Stages
<1> QED BY <1>7

LEMMA LeaveExits ==
  ASSUME DeskInv(Visits), NEW r \in Requests, Leave(r)
  PROVE  [Presence!PresenceNext]_Presence!pvars
<1> DEFINE v == req[r].visit
<1> USE DEF admitted
<1>1. v \in Visits /\ Begun(v)
  BY DEF DeskInv, RequestsOK, Leave, At, CheckOutSteps, HoldsVisit
<1>2. \A a \in Admissions : admVisit[a] = v =>
        record[a] # "open" /\ badge[a] # "active" /\ access[a] # "active"
  BY <1>1 DEF DeskInv, CheckOutsOK, Leave, At, CheckOutSteps
<1>3. CASE visit[v] = "checked_out"
  <2>1. visit' = visit
    BY <1>3 DEF Leave, DeskInv, TypeOK
  <2> QED BY <2>1, QuietStutters DEF Leave
<1>4. CASE visit[v] = "checked_in"
  <2>1. Stage(v) = "on site"
    BY <1>4 DEF Stage
  <2>2. Stages' = [Stages EXCEPT ![v] = "left"]
    BY <1>1 DEF Stages, Stage, Leave, DeskInv, TypeOK
  <2>3. UNCHANGED <<admVisit, Live, Inside>>
    BY DEF Leave, Live, Inside
  <2>4. Presence!Exit(v)
    BY <1>1, <1>2, <2>1, <2>2, <2>3
       DEF Presence!Exit, Live, Inside, Stages
  <2> QED BY <1>1, <2>4 DEF Presence!PresenceNext
<1> QED BY <1>1, <1>3, <1>4 DEF Begun

LEMMA AdmitEnters ==
  ASSUME DeskInv(Visits), NEW r \in Requests, NEW a \in Admissions, Admit(r, a)
  PROVE  Presence!PresenceNext
<1> DEFINE v == req[r].visit
           t == window[req[r].inv].until
<1>1. v \in Visits /\ t \in Nat /\ ~Begun(v)
  BY DEF DeskInv, RequestsOK, Admit, At, HoldsVisit, LockedRecheck, Begun,
         TypeOK
<1>2. PICK z \in BOOLEAN : Insert(a, v, TRUE, z, t)
  <2>1. CASE v \in Zoned
    BY <2>1 DEF Admit, Insert, Granted
  <2>2. CASE v \notin Zoned
    BY <2>2 DEF Admit, Insert, Granted
  <2> QED BY <2>1, <2>2
<1> HIDE DEF v, t
<1>3. \E g \in BOOLEAN : Presence!Enter(v, a, g)
  BY <1>1, <1>2, EntryEnters
<1> QED BY <1>1, <1>3 DEF Presence!PresenceNext

LEMMA RegisterEnters ==
  ASSUME DeskInv(Visits), NEW r \in Requests, NEW a \in Admissions,
         NEW p \in BOOLEAN,
         Register(r, a, p)
  PROVE  Presence!PresenceNext
<1> DEFINE v == req[r].visit
<1>1. v \in Visits /\ ~Begun(v)
  BY DEF DeskInv, RequestsOK, Register, At, HoldsVisit, Begun
<1>2. Insert(a, v, p, FALSE, 0)
  BY DEF Register
<1> HIDE DEF v
<1>3. \E g \in BOOLEAN : Presence!Enter(v, a, g)
  BY <1>1, <1>2, EntryEnters
<1> QED BY <1>1, <1>3 DEF Presence!PresenceNext

LEMMA ShrinkImplements ==
  ASSUME DeskInv(Visits), NEW r \in Requests,
         \/ CloseRecords(r) \/ DisableBadge(r) \/ DisableAccess(r)
         \/ SweepBadges(r) \/ SweepAccess(r)
  PROVE  Presence!PresenceNext
<1> USE DEF bookings
<1>1. UNCHANGED Stages
  BY DEF Stages, Stage, CloseRecords, DisableBadge, DisableAccess,
         SweepBadges, SweepAccess
<1>2. CASE CloseRecords(r)
  <2>1. Inside' \subseteq Inside
    BY <1>2 DEF Inside, CloseRecords, OpenRecord
  <2>2. UNCHANGED <<Live, admVisit>>
    BY <1>2 DEF Live, CloseRecords
  <2> QED BY <1>1, <2>1, <2>2
          DEF Presence!PresenceNext, Presence!SignOut, Live, Inside, Stages
<1>3. CASE \/ DisableBadge(r) \/ DisableAccess(r)
           \/ SweepBadges(r) \/ SweepAccess(r)
  <2>1. Live' \subseteq Live
    BY <1>3 DEF Live, DisableBadge, DisableAccess, SweepBadges, SweepAccess
  <2>2. UNCHANGED <<Inside, admVisit>>
    BY <1>3 DEF Inside, DisableBadge, DisableAccess, SweepBadges, SweepAccess
  <2> QED BY <1>1, <2>1, <2>2
          DEF Presence!PresenceNext, Presence!Lapse, Live, Inside, Stages
<1> QED BY <1>2, <1>3

LEMMA NextImplements ==
  ASSUME DeskInv(Visits), StoreAssumption, [DeskNext]_vars
  PROVE  [Presence!PresenceNext]_Presence!pvars
<1> USE DEF bookings, admitted
<1>1. ASSUME NEW r \in Requests, Arrive(r)
      PROVE  UNCHANGED Presence!pvars
  BY <1>1, QuietStutters DEF Arrive, FindInvitation, WalkIn, CheckOut
<1>2. ASSUME NEW r \in Requests, CheckInStep(r)
      PROVE  [Presence!PresenceNext]_Presence!pvars
  BY <1>2, QuietStutters, AdmitEnters
     DEF CheckInStep, Validate, Expire, Screen, Duplicate, Activate
<1>3. ASSUME NEW r \in Requests, WalkInStep(r)
      PROVE  [Presence!PresenceNext]_Presence!pvars
  BY <1>3, RegisterEnters DEF WalkInStep
<1>4. ASSUME NEW r \in Requests, CheckOutStep(r)
      PROVE  [Presence!PresenceNext]_Presence!pvars
  BY <1>4, QuietStutters, ShrinkImplements, LeaveExits
     DEF CheckOutStep, FindBadge, Deactivate
<1>5. ASSUME NEW r \in Requests, SweepStep(r)
      PROVE  [Presence!PresenceNext]_Presence!pvars
  BY <1>5, QuietStutters, ShrinkImplements
     DEF SweepStep, Scan, CheckOverstay, RaiseOverstay, SweepDone
<1>6. ASSUME NEW r \in Requests, Sweep(r) \/ Abort(r)
      PROVE  UNCHANGED Presence!pvars
  BY <1>6, QuietStutters DEF Sweep, Abort
<1>7. CASE \/ Tick \/ UNCHANGED vars
           \/ \E v \in Visits : \/ WatchlistAdd(v) \/ WatchlistRemove(v)
                                \/ ResolveOverstay(v)
           \/ \E i \in Invitations : RevokeInvitation(i)
  BY <1>7, QuietStutters DEF Tick, vars, WatchlistAdd, WatchlistRemove,
                             ResolveOverstay, RevokeInvitation
<1> QED BY <1>1, <1>2, <1>3, <1>4, <1>5, <1>6, <1>7
        DEF DeskNext, Clients, StoreAssumption

(* For whatever depends on it, the desk is SitePresence: a visit begins     *)
(* once and ends once, and ends with nothing of it live or open.            *)
THEOREM DeskKeepsPresence == DeskSpec => KeepsPresence
<1>1. DeskInit => Presence!PresenceInit
  BY DEF DeskInit, Presence!PresenceInit, Stage
<1>2. DeskInv(Visits) /\ [DeskNext]_vars => [Presence!PresenceNext]_Presence!pvars
  BY NextImplements, StoreAssumption
<1> QED BY <1>1, <1>2, DeskInvariant, PTL
        DEF DeskSpec, KeepsPresence, Presence!PresenceSpec

-----------------------------------------------------------------------------
(* The desk with the office at work.                                        *)

(* A step moves one request, the others go on where they are.               *)
OneMoves(r) ==
  /\ req' \in [Requests -> Request]
  /\ \A q \in Requests : q # r => req'[q] = req[q]

RequestOKNow(q) == RequestFounded(q) /\ HeldFounded(q)

(* What no step takes back: approvals, completed forms, the visit of a code *)
(* or of an admission, the end of a record or of a grant.                   *)
NothingTakenBack ==
  /\ approved \subseteq approved' /\ prereg \subseteq prereg'
  /\ \A i \in Invitations : invStatus[i] # "none" =>
       invStatus'[i] # "none" /\ invVisit'[i] = invVisit[i]
  /\ \A a \in Admissions : record[a] # "none" =>
       /\ record'[a] # "none" /\ admVisit'[a] = admVisit[a]
       /\ record[a] = "closed" => record'[a] = "closed"
       /\ badge[a] # "active" => badge'[a] # "active"
       /\ access[a] # "active" => access'[a] # "active"

(* What was asked off the page stays in the history.                        *)
OffPageGrows ==
  offPage \subseteq offPage' /\ offPage' \subseteq Overrides \X Visits

LEMMA FoundedFrame ==
  ASSUME FoundedInv, OffPageGrows, TypeOK', RowsFounded', NothingTakenBack,
         \A q \in Requests : req'[q] = req[q] \/ RequestOKNow(req[q])'
  PROVE  FoundedInv'
<1> SUFFICES ASSUME NEW q \in Requests
             PROVE  RequestFounded(req[q])' /\ HeldFounded(req[q])'
  BY DEF FoundedInv, OffPageGrows
<1>1. CASE RequestOKNow(req[q])'
  BY <1>1 DEF RequestOKNow
<1>2. CASE req'[q] = req[q]
  <2>1. req[q] \in Request /\ RequestFounded(req[q]) /\ HeldFounded(req[q])
    BY DEF FoundedInv, TypeOK
  <2>2. RequestFounded(req[q])'
    BY <1>2, <2>1 DEF RequestFounded, NothingTakenBack, Founded, OffPageGrows
  <2>3. HeldFounded(req[q])'
    BY <1>2, <2>1 DEF HeldFounded, NothingTakenBack, Request
  <2> QED BY <2>2, <2>3
<1> QED BY <1>1, <1>2

(* No row moves that the invariant speaks of.                               *)
RowsRest ==
  UNCHANGED <<visit, approved, prereg, invStatus, invVisit,
              admVisit, record, badge, access>>

LEMMA RestFounded ==
  ASSUME FoundedInv, OffPageGrows, TypeOK', RowsRest,
         \A q \in Requests : req'[q] = req[q] \/ RequestOKNow(req[q])'
  PROVE  FoundedInv'
<1>1. RowsFounded'
  BY DEF FoundedInv, RowsFounded, RowsRest, Founded, OffPageGrows
<1>2. NothingTakenBack
  BY DEF NothingTakenBack, RowsRest
<1> QED BY <1>1, <1>2, FoundedFrame

(* Only the request moves.                                                  *)
LEMMA MoveFounded ==
  ASSUME FoundedInv, OffPageGrows, NEW r \in Requests, OneMoves(r),
         RequestOKNow(req[r])',
         UNCHANGED <<bookings, invites, admitted, overstay, door, clock>>,
         aborts' \in 0..MaxAborts
  PROVE  FoundedInv'
<1> USE DEF bookings, invites, admitted
<1>1. TypeOK'
  BY DEF FoundedInv, TypeOK, OneMoves
<1>2. RowsRest
  BY DEF RowsRest
<1> QED BY <1>1, <1>2, RestFounded DEF OneMoves

LEMMA EndFounded ==
  ASSUME FoundedInv, OffPageGrows, NEW r \in Requests, End(r),
         UNCHANGED <<bookings, invites, admitted, overstay, door, clock>>,
         aborts' \in 0..MaxAborts
  PROVE  FoundedInv'
<1>1. OneMoves(r) /\ req'[r].step = "idle"
  BY EndMoves DEF FoundedInv, OneMoves
<1>2. RequestOKNow(req[r])'
  BY <1>1 DEF RequestOKNow, RequestFounded, HeldFounded, HoldsVisit,
              OfficeSteps, Redeeming, Issuing, CheckOutSteps
<1> QED BY <1>1, <1>2, MoveFounded
(* Codes change their status and keep their visit.                          *)
LEMMA CodesFounded ==
  ASSUME FoundedInv, OffPageGrows, TypeOK',
         \A i \in Invitations :
           \/ invStatus'[i] = invStatus[i]
           \/ invStatus[i] # "none" /\ invStatus'[i] # "none",
         UNCHANGED <<bookings, invVisit, admitted>>,
         \A q \in Requests : req'[q] = req[q] \/ RequestOKNow(req[q])'
  PROVE  FoundedInv'
<1> USE DEF bookings, admitted
<1>1. RowsFounded'
  BY DEF FoundedInv, RowsFounded, Founded, OffPageGrows
<1>2. NothingTakenBack
  BY DEF FoundedInv, NothingTakenBack
<1> QED BY <1>1, <1>2, FoundedFrame

(* Records close and grants end.                                            *)
LEMMA ShrinksFounded ==
  ASSUME FoundedInv, OffPageGrows, TypeOK', Shrinks,
         UNCHANGED <<bookings, invites, admVisit>>,
         \A q \in Requests : req'[q] = req[q] \/ RequestOKNow(req[q])'
  PROVE  FoundedInv'
<1> USE DEF bookings, invites
<1>1. RowsFounded'
  BY DEF FoundedInv, RowsFounded, Founded, OffPageGrows, Shrinks
<1>2. \A a \in Admissions : record[a] = "closed" => record'[a] = "closed"
  BY DEF FoundedInv, TypeOK, RecordStatus, Shrinks
<1>3. NothingTakenBack
  BY <1>2 DEF NothingTakenBack, Shrinks
<1> QED BY <1>1, <1>3, FoundedFrame

(* A visit gets a status it may have.                                       *)
LEMMA StatusFounded ==
  ASSUME FoundedInv, OffPageGrows, TypeOK', NEW v \in Visits, NEW s,
         visit' = [visit EXCEPT ![v] = s],
         s \in Awaited => Founded(v)',
         approved \subseteq approved', UNCHANGED <<prereg, invites, admitted>>,
         \A q \in Requests : req'[q] = req[q] \/ RequestOKNow(req[q])'
  PROVE  FoundedInv'
<1> USE DEF invites, admitted
<1>1. \A w \in Visits : Founded(w) => Founded(w)'
  BY DEF Founded, OffPageGrows
<1>2. \A w \in Visits : visit'[w] \in Awaited => Founded(w)'
  BY <1>1 DEF FoundedInv, RowsFounded, TypeOK, Founded, OffPageGrows
<1>3. \A i \in Invitations : invStatus'[i] # "none" =>
        invVisit'[i] \in Visits /\ Founded(invVisit[i])'
  BY DEF FoundedInv, RowsFounded, Founded, OffPageGrows
<1>4. \A a \in Admissions :
        IF record'[a] = "none"
        THEN admVisit'[a] = NoVisit /\ badge'[a] = "none" /\ access'[a] = "none"
        ELSE /\ admVisit'[a] \in Visits /\ Founded(admVisit[a])'
             /\ admVisit'[a] \in Guarded => admVisit'[a] \in prereg'
  BY DEF FoundedInv, RowsFounded, Founded, OffPageGrows
<1>5. RowsFounded'
  BY <1>2, <1>3, <1>4 DEF RowsFounded
<1>6. NothingTakenBack
  BY DEF NothingTakenBack
<1> QED BY <1>5, <1>6, FoundedFrame

(* An entry for a visit that was approved and pre-registered where its      *)
(* category demands it.                                                     *)
LEMMA InsertFounded ==
  ASSUME FoundedInv, OffPageGrows, NEW a \in Admissions, NEW v \in Visits,
         NEW b \in BOOLEAN, NEW z \in BOOLEAN, NEW t \in Nat,
         Insert(a, v, b, z, t), Founded(v), v \in Guarded => v \in prereg,
         UNCHANGED <<approved, prereg, watched, invVisit, window, overstay,
                     door, clock, aborts>>,
         invStatus' \in [Invitations -> InvitationStatus],
         \A i \in Invitations :
           \/ invStatus'[i] = invStatus[i]
           \/ invStatus[i] # "none" /\ invStatus'[i] # "none",
         NEW r \in Requests, OneMoves(r), RequestOKNow(req[r])'
  PROVE  FoundedInv'
<1> USE DEF Insert, FoundedInv, TypeOK
<1>1. Granted(b) \in {"none", "active"} /\ Granted(z) \in {"none", "active"}
  BY DEF Granted
<1>2. /\ visit' \in [Visits -> VisitStatus]
      /\ admVisit' \in [Admissions -> Visits \cup {NoVisit}]
      /\ record' \in [Admissions -> RecordStatus]
      /\ badge' \in [Admissions -> GrantStatus]
      /\ access' \in [Admissions -> GrantStatus]
      /\ validUntil' \in [Admissions -> Nat]
  BY <1>1 DEF VisitStatus, RecordStatus, GrantStatus
<1>3. TypeOK'
  BY <1>2 DEF OneMoves
<1>4. /\ \A x \in Admissions : x # a =>
           /\ admVisit'[x] = admVisit[x] /\ record'[x] = record[x]
           /\ badge'[x] = badge[x] /\ access'[x] = access[x]
      /\ admVisit'[a] = v /\ record'[a] = "open" /\ record[a] = "none"
  OBVIOUS
<1>5. \A w \in Visits : visit'[w] \in Awaited => Founded(w)'
  BY DEF RowsFounded, Founded, OffPageGrows, Awaited
<1>6. \A i \in Invitations : invStatus'[i] # "none" =>
        invVisit'[i] \in Visits /\ Founded(invVisit[i])'
  BY DEF RowsFounded, Founded, OffPageGrows
<1>7. \A x \in Admissions :
        IF record'[x] = "none"
        THEN admVisit'[x] = NoVisit /\ badge'[x] = "none" /\ access'[x] = "none"
        ELSE /\ admVisit'[x] \in Visits /\ Founded(admVisit[x])'
             /\ admVisit'[x] \in Guarded => admVisit'[x] \in prereg'
  BY <1>4 DEF RowsFounded, Founded, OffPageGrows
<1>8. RowsFounded'
  BY <1>5, <1>6, <1>7 DEF RowsFounded
<1>9. NothingTakenBack
  BY <1>4 DEF NothingTakenBack
<1> QED BY <1>3, <1>8, <1>9, FoundedFrame DEF OneMoves

-----------------------------------------------------------------------------
(* The desk, with any number of requests.                                   *)
LEMMA FindInvitationFounded ==
  ASSUME FoundedInv, OffPageGrows, NEW r \in Requests, NEW i \in Invitations,
         FindInvitation(r, i)
  PROVE  FoundedInv'
<1>1. invVisit[i] \in Visits /\ Founded(invVisit[i]) /\ invStatus[i] # "none"
  BY DEF FoundedInv, RowsFounded, FindInvitation
<1>2. /\ OneMoves(r)
      /\ req'[r].step = "validate" /\ req'[r].visit = invVisit[i]
      /\ req'[r].inv = i
  BY <1>1 DEF FindInvitation, FoundedInv, TypeOK, Idle, Request, Steps,
              CheckInSteps, OneMoves
<1>3. RequestOKNow(req[r])'
  BY <1>1, <1>2 DEF RequestOKNow, RequestFounded, HeldFounded, CheckOutSteps,
                    Issuing, Founded, OffPageGrows, FindInvitation, bookings,
                    invites
<1> QED BY <1>2, <1>3, MoveFounded DEF FindInvitation, FoundedInv, TypeOK

(* From one step of a check-in to a later one.                              *)
LEMMA CheckInGotoFounded ==
  ASSUME FoundedInv, OffPageGrows, NEW r \in Requests,
         NEW s \in {"expire", "screen", "admit"},
         req[r].step \in Redeeming, Goto(r, s),
         s = "admit" => Cleared(req[r].visit),
         UNCHANGED <<bookings, invites, admitted, overstay, door, clock, aborts>>
  PROVE  FoundedInv'
<1>1. /\ OneMoves(r) /\ req'[r].step = s
      /\ req'[r].visit = req[r].visit /\ req'[r].inv = req[r].inv
  BY GotoMoves DEF FoundedInv, OneMoves, Steps, CheckInSteps
<1>2. RequestFounded(req[r])
  BY DEF FoundedInv
<1>3. req[r].visit \in Visits
  BY <1>2 DEF RequestFounded, Redeeming, HoldsVisit
<1>4. RequestOKNow(req[r])'
  BY <1>1, <1>2, <1>3
     DEF RequestOKNow, RequestFounded, HeldFounded, CheckOutSteps, Redeeming,
         Issuing, Founded, OffPageGrows, Cleared, bookings, invites
<1> QED BY <1>1, <1>4, MoveFounded DEF FoundedInv, TypeOK

LEMMA ValidateFounded ==
  ASSUME FoundedInv, OffPageGrows, NEW r \in Requests, Validate(r)
  PROVE  FoundedInv'
<1>1. CASE End(r)
  BY <1>1, EndFounded DEF Validate, FoundedInv, TypeOK
<1>2. CASE Goto(r, "expire") \/ Goto(r, "screen")
  BY <1>2, CheckInGotoFounded DEF Validate, At, Redeeming
<1> QED BY <1>1, <1>2 DEF Validate

LEMMA ScreenFounded ==
  ASSUME FoundedInv, OffPageGrows, NEW r \in Requests, Screen(r)
  PROVE  FoundedInv'
<1>1. CASE End(r)
  BY <1>1, EndFounded DEF Screen, FoundedInv, TypeOK
<1>2. CASE Goto(r, "admit") /\ Cleared(req[r].visit)
  BY <1>2, CheckInGotoFounded DEF Screen, At, Redeeming
<1> QED BY <1>1, <1>2 DEF Screen

LEMMA ExpireFounded ==
  ASSUME FoundedInv, OffPageGrows, NEW r \in Requests, Expire(r)
  PROVE  FoundedInv'
<1>1. OneMoves(r) /\ req'[r].step = "idle"
  BY EndMoves DEF FoundedInv, OneMoves, Expire
<1>2. RequestOKNow(req[r])'
  BY <1>1 DEF RequestOKNow, RequestFounded, HeldFounded, HoldsVisit,
              OfficeSteps, Redeeming, Issuing, CheckOutSteps
<1>3. req[r].inv \in Invitations /\ invStatus[req[r].inv] # "none"
  BY DEF FoundedInv, RequestFounded, Expire, At, Redeeming
<1>4. TypeOK'
  BY <1>1, <1>3 DEF FoundedInv, TypeOK, Expire, bookings, admitted,
                    InvitationStatus, OneMoves
<1>5. \A i \in Invitations :
        \/ invStatus'[i] = invStatus[i]
        \/ invStatus[i] # "none" /\ invStatus'[i] # "none"
  BY <1>3 DEF Expire, FoundedInv, TypeOK
<1> QED BY <1>1, <1>2, <1>4, <1>5, CodesFounded DEF Expire, OneMoves

LEMMA AdmitFounded ==
  ASSUME FoundedInv, OffPageGrows, NEW r \in Requests, NEW a \in Admissions,
         Admit(r, a)
  PROVE  FoundedInv'
<1> DEFINE v == req[r].visit
           i == req[r].inv
<1>1. /\ v \in Visits /\ i \in Invitations /\ invStatus[i] # "none"
      /\ Founded(v) /\ (v \in Guarded => v \in prereg)
  BY DEF FoundedInv, RequestFounded, Admit, At, HoldsVisit, Redeeming
<1>2. window[i].until \in Nat
  BY <1>1 DEF FoundedInv, TypeOK
<1>3. PICK z \in BOOLEAN : Insert(a, v, TRUE, z, window[i].until)
  <2>1. CASE v \in Zoned
    BY <2>1 DEF Admit, Insert, Granted
  <2>2. CASE v \notin Zoned
    BY <2>2 DEF Admit, Insert, Granted
  <2> QED BY <2>1, <2>2
<1>4. /\ invStatus' \in [Invitations -> InvitationStatus]
      /\ \A j \in Invitations :
           \/ invStatus'[j] = invStatus[j]
           \/ invStatus[j] # "none" /\ invStatus'[j] # "none"
  BY <1>1 DEF Admit, FoundedInv, TypeOK, InvitationStatus
<1>5. OneMoves(r) /\ req'[r].step = "activate"
  <2>1. "activate" \in Steps /\ {a} \in SUBSET Admissions
    BY DEF Steps, CheckInSteps
  <2>2. req' = [req EXCEPT ![r].step = "activate", ![r].held = {a}]
    BY DEF Admit
  <2> QED BY <2>1, <2>2, HoldMoves DEF FoundedInv, OneMoves
<1>6. RequestOKNow(req[r])'
  BY <1>5 DEF RequestOKNow, RequestFounded, HeldFounded, HoldsVisit,
              OfficeSteps, Redeeming, Issuing, CheckOutSteps
<1>7. UNCHANGED <<approved, prereg, watched, invVisit, window, overstay,
                  door, clock, aborts>>
  BY DEF Admit
<1> HIDE DEF v, i
<1> QED BY <1>1, <1>2, <1>3, <1>4, <1>5, <1>6, <1>7, InsertFounded

LEMMA RegisterFounded ==
  ASSUME StoreAssumption, FoundedInv, OffPageGrows, NEW r \in Requests,
         NEW a \in Admissions, NEW p \in BOOLEAN, Register(r, a, p)
  PROVE  FoundedInv'
<1> DEFINE v == req[r].visit
<1>1. v \in Visits /\ Founded(v) /\ v \notin Guarded
  BY DEF FoundedInv, RequestFounded, Register, At, HoldsVisit, Founded,
         OffPageGrows,
         StoreAssumption
<1>2. Insert(a, v, p, FALSE, 0)
  BY DEF Register
<1>3. OneMoves(r) /\ req'[r].step \in {"activate", "idle"}
  <2>1. CASE p
    <3>1. "activate" \in Steps /\ {a} \in SUBSET Admissions
      BY DEF Steps, CheckInSteps
    <3>2. req' = [req EXCEPT ![r].step = "activate", ![r].held = {a}]
      BY <2>1 DEF Register
    <3> QED BY <3>1, <3>2, HoldMoves DEF FoundedInv, OneMoves
  <2>2. CASE ~p
    BY <2>2, EndMoves DEF Register, FoundedInv, OneMoves
  <2> QED BY <2>1, <2>2
<1>4. RequestOKNow(req[r])'
  BY <1>3 DEF RequestOKNow, RequestFounded, HeldFounded, HoldsVisit,
              OfficeSteps, Redeeming, Issuing, CheckOutSteps
<1>5. UNCHANGED <<approved, prereg, watched, invStatus, invVisit, window,
                  overstay, door, clock, aborts>>
  BY DEF Register, invites
<1>6. invStatus' \in [Invitations -> InvitationStatus]
  BY <1>5 DEF FoundedInv, TypeOK
<1> HIDE DEF v
<1> QED BY <1>1, <1>2, <1>3, <1>4, <1>5, <1>6, InsertFounded

LEMMA DoorFounded ==
  ASSUME FoundedInv, OffPageGrows, NEW r \in Requests,
         Activate(r) \/ Deactivate(r)
  PROVE  FoundedInv'
<1> USE DEF bookings, invites, admitted
<1>1. req[r].held \in SUBSET Admissions /\ door \in SUBSET Admissions
  BY DEF FoundedInv, TypeOK, Request
<1>2. OneMoves(r) /\ req'[r].step = "idle"
  BY EndMoves DEF FoundedInv, OneMoves, Activate, Deactivate
<1>3. RequestOKNow(req[r])'
  BY <1>2 DEF RequestOKNow, RequestFounded, HeldFounded, HoldsVisit,
              OfficeSteps, Redeeming, Issuing, CheckOutSteps
<1>4. TypeOK'
  BY <1>1, <1>2 DEF FoundedInv, TypeOK, OneMoves, Activate, Deactivate
<1>5. RowsRest
  BY DEF RowsRest, Activate, Deactivate
<1> QED BY <1>2, <1>3, <1>4, <1>5, RestFounded DEF OneMoves

LEMMA WalkInFounded ==
  ASSUME FoundedInv, OffPageGrows, NEW r \in Requests, NEW v \in Visits,
         WalkIn(r, v)
  PROVE  FoundedInv'
<1>1. OneMoves(r) /\ req'[r].step = "register" /\ req'[r].visit = v
  BY BeginMoves DEF WalkIn, FoundedInv, Steps, WalkInSteps, OneMoves
<1>2. RequestOKNow(req[r])'
  BY <1>1 DEF RequestOKNow, RequestFounded, HeldFounded, Redeeming, Issuing,
              CheckOutSteps, WalkIn
<1> QED BY <1>1, <1>2, MoveFounded DEF WalkIn, FoundedInv, TypeOK

LEMMA CheckOutFounded ==
  ASSUME FoundedInv, OffPageGrows, NEW r \in Requests, NEW v \in Visits,
         CheckOut(r, v)
  PROVE  FoundedInv'
<1>1. /\ OneMoves(r) /\ req'[r].step = "findBadge" /\ req'[r].visit = v
      /\ req'[r].held = {}
  BY BeginMoves DEF CheckOut, FoundedInv, Steps, CheckOutSteps, OneMoves
<1>2. RequestOKNow(req[r])'
  BY <1>1 DEF RequestOKNow, RequestFounded, HeldFounded, Redeeming, Issuing
<1> QED BY <1>1, <1>2, MoveFounded DEF CheckOut, FoundedInv, TypeOK
(* The badge a check-out reads is one of its visit, and active then.        *)
LEMMA FindBadgeFounded ==
  ASSUME StoreAssumption, FoundedInv, OffPageGrows, NEW r \in Requests,
         FindBadge(r)
  PROVE  FoundedInv'
<1>1. "closeRecords" \in Steps
  BY DEF Steps, CheckOutSteps
<1>2. req[r].visit \in Visits /\ req[r].held = {}
  BY DEF FoundedInv, RequestFounded, HeldFounded, FindBadge, At,
         CheckOutSteps, HoldsVisit
<1>3. /\ OneMoves(r) /\ req'[r].step = "closeRecords"
      /\ req'[r].visit = req[r].visit
      /\ \A a \in req'[r].held : a \in Admissions
                                   /\ ActiveGrant(a, req[r].visit, badge)
  <2>1. CASE Goto(r, "closeRecords")
    BY <1>1, <1>2, <2>1, GotoMoves DEF FoundedInv, OneMoves
  <2>2. CASE \E a \in {x \in Admissions : ActiveGrant(x, req[r].visit, badge)} :
               req' = [req EXCEPT ![r].step = "closeRecords",
                                  ![r].held = {a}]
    <3>1. PICK a \in Admissions :
            /\ ActiveGrant(a, req[r].visit, badge)
            /\ req' = [req EXCEPT ![r].step = "closeRecords",
                                  ![r].held = {a}]
      BY <2>2
    <3>2. OneMoves(r)
      <4>1. {a} \in SUBSET Admissions /\ "closeRecords" \in Steps
        BY <1>1
      <4>2. req' = [req EXCEPT ![r].step = "closeRecords", ![r].held = {a}]
        BY <3>1
      <4> QED BY <4>1, <4>2, HoldMoves DEF FoundedInv, OneMoves
    <3>3. req'[r].step = "closeRecords"
            /\ req'[r].visit = req[r].visit /\ req'[r].held = {a}
      BY <3>1 DEF FoundedInv, TypeOK, Request
    <3> QED BY <3>1, <3>2, <3>3
  <2> QED BY <2>1, <2>2 DEF FindBadge
<1>4. \A a \in req'[r].held : record[a] # "none" /\ admVisit[a] = req[r].visit
  BY <1>2, <1>3 DEF FoundedInv, RowsFounded, ActiveGrant
<1>5. RequestOKNow(req[r])'
  BY <1>2, <1>3, <1>4
     DEF RequestOKNow, RequestFounded, HeldFounded, Redeeming, Issuing,
         FindBadge, admitted
<1> QED BY <1>3, <1>5, MoveFounded DEF FindBadge, FoundedInv, TypeOK

(* The statements of a check-out end what it holds, one table after another.*)
LEMMA CloseRecordsFounded ==
  ASSUME FoundedInv, OffPageGrows, NEW r \in Requests, CloseRecords(r)
  PROVE  FoundedInv'
<1> USE DEF bookings, invites
<1>1. /\ OneMoves(r) /\ req'[r].step = "disableBadge"
      /\ req'[r].visit = req[r].visit /\ req'[r].held = req[r].held
  BY GotoMoves DEF CloseRecords, FoundedInv, Steps, CheckOutSteps, OneMoves
<1>2. TypeOK'
  BY <1>1 DEF FoundedInv, TypeOK, CloseRecords, RecordStatus, OneMoves
<1>3. Shrinks
  BY DEF Shrinks, CloseRecords, OpenRecord
<1>4. /\ req[r].visit \in Visits /\ req[r].held \in SUBSET Admissions
      /\ \A a \in req[r].held : record[a] # "none" /\ admVisit[a] = req[r].visit
  BY DEF FoundedInv, RequestFounded, HeldFounded, CloseRecords, At,
         CheckOutSteps, HoldsVisit, TypeOK, Request
<1>5. \A a \in req[r].held : record'[a] = "closed"
  BY <1>4 DEF CloseRecords, OpenRecord, FoundedInv, TypeOK, RecordStatus
<1>6. RequestOKNow(req[r])'
  BY <1>1, <1>4, <1>5
     DEF RequestOKNow, RequestFounded, HeldFounded, Redeeming, Issuing,
         CloseRecords
<1> QED BY <1>1, <1>2, <1>3, <1>6, ShrinksFounded DEF CloseRecords, OneMoves

LEMMA DisableBadgeFounded ==
  ASSUME FoundedInv, OffPageGrows, NEW r \in Requests, DisableBadge(r)
  PROVE  FoundedInv'
<1> USE DEF bookings, invites
<1>1. /\ OneMoves(r) /\ req'[r].step = "disableAccess"
      /\ req'[r].visit = req[r].visit /\ req'[r].held = req[r].held
  BY GotoMoves DEF DisableBadge, FoundedInv, Steps, CheckOutSteps, OneMoves
<1>2. TypeOK'
  BY <1>1 DEF FoundedInv, TypeOK, DisableBadge, GrantStatus, OneMoves
<1>3. Shrinks
  BY DEF Shrinks, DisableBadge, ActiveGrant
<1>4. /\ req[r].visit \in Visits /\ req[r].held \in SUBSET Admissions
      /\ \A a \in req[r].held : record[a] = "closed"
                                  /\ admVisit[a] = req[r].visit
  BY DEF FoundedInv, RequestFounded, HeldFounded, DisableBadge, At,
         CheckOutSteps, HoldsVisit, TypeOK, Request
<1>5. \A a \in req[r].held : badge'[a] # "active"
  BY <1>4 DEF DisableBadge, ActiveGrant
<1>6. RequestOKNow(req[r])'
  BY <1>1, <1>4, <1>5
     DEF RequestOKNow, RequestFounded, HeldFounded, Redeeming, Issuing,
         DisableBadge
<1> QED BY <1>1, <1>2, <1>3, <1>6, ShrinksFounded DEF DisableBadge, OneMoves

LEMMA DisableAccessFounded ==
  ASSUME FoundedInv, OffPageGrows, NEW r \in Requests, DisableAccess(r)
  PROVE  FoundedInv'
<1> USE DEF bookings, invites
<1>1. /\ OneMoves(r) /\ req'[r].step = "leave"
      /\ req'[r].visit = req[r].visit /\ req'[r].held = req[r].held
  BY GotoMoves DEF DisableAccess, FoundedInv, Steps, CheckOutSteps, OneMoves
<1>2. TypeOK'
  BY <1>1 DEF FoundedInv, TypeOK, DisableAccess, GrantStatus, OneMoves
<1>3. Shrinks
  BY DEF Shrinks, DisableAccess, ActiveGrant
<1>4. /\ req[r].visit \in Visits /\ req[r].held \in SUBSET Admissions
      /\ \A a \in req[r].held : /\ record[a] = "closed" /\ badge[a] # "active"
                                /\ admVisit[a] = req[r].visit
  BY DEF FoundedInv, RequestFounded, HeldFounded, DisableAccess, At,
         CheckOutSteps, HoldsVisit, TypeOK, Request
<1>5. \A a \in req[r].held : access'[a] # "active"
  BY <1>4 DEF DisableAccess, ActiveGrant
<1>6. RequestOKNow(req[r])'
  BY <1>1, <1>4, <1>5
     DEF RequestOKNow, RequestFounded, HeldFounded, Redeeming, Issuing,
         DisableAccess
<1> QED BY <1>1, <1>2, <1>3, <1>6, ShrinksFounded DEF DisableAccess, OneMoves

LEMMA LeaveFounded ==
  ASSUME FoundedInv, OffPageGrows, NEW r \in Requests, Leave(r)
  PROVE  FoundedInv'
<1> USE DEF invites, admitted
<1>1. /\ OneMoves(r) /\ req'[r].step = "deactivate"
      /\ req'[r].visit = req[r].visit /\ req'[r].held = req[r].held
  BY GotoMoves DEF Leave, FoundedInv, Steps, CheckOutSteps, OneMoves
<1>2. RequestFounded(req[r]) /\ HeldFounded(req[r]) /\ req[r].step = "leave"
  BY DEF FoundedInv, Leave, At
<1>3. req[r].visit \in Visits
  BY <1>2 DEF RequestFounded, HoldsVisit, CheckOutSteps
<1>4. TypeOK'
  BY <1>1, <1>3 DEF FoundedInv, TypeOK, Leave, VisitStatus, OneMoves
<1>5. RequestOKNow(req[r])'
  BY <1>1, <1>2, <1>3
     DEF RequestOKNow, RequestFounded, HeldFounded, Redeeming, Issuing,
         CheckOutSteps, Leave
<1>6. "checked_out" \notin Awaited
  BY DEF Awaited
<1> QED BY <1>1, <1>3, <1>4, <1>5, <1>6, StatusFounded DEF Leave, OneMoves

(* The sweep.                                                               *)
LEMMA SweepFounded ==
  ASSUME FoundedInv, OffPageGrows, NEW r \in Requests, Sweep(r)
  PROVE  FoundedInv'
<1>1. OneMoves(r) /\ req'[r].step = "sweepBadges"
  <2> DEFINE begin == [Idle EXCEPT !.step = "sweepBadges", !.now = clock]
  <2>1. clock \in Nat
    BY DEF FoundedInv, TypeOK
  <2>2. begin \in Request /\ begin.step = "sweepBadges"
    BY <2>1 DEF Idle, Request, Steps, SweepSteps
  <2>3. req' = [req EXCEPT ![r] = begin]
    BY DEF Sweep
  <2> HIDE DEF begin
  <2> QED BY <2>2, <2>3 DEF FoundedInv, TypeOK, OneMoves
<1>2. RequestOKNow(req[r])'
  BY <1>1 DEF RequestOKNow, RequestFounded, HeldFounded, HoldsVisit,
              OfficeSteps, Redeeming, Issuing, CheckOutSteps
<1> QED BY <1>1, <1>2, MoveFounded DEF Sweep, FoundedInv, TypeOK

LEMMA SweepGrantsFounded ==
  ASSUME FoundedInv, OffPageGrows, NEW r \in Requests,
         SweepBadges(r) \/ SweepAccess(r)
  PROVE  FoundedInv'
<1> USE DEF bookings, invites
<1>1. OneMoves(r) /\ req'[r].step \in {"sweepAccess", "scan"}
  BY GotoMoves DEF SweepBadges, SweepAccess, FoundedInv, Steps, SweepSteps,
                   OneMoves
<1>2. TypeOK'
  BY <1>1 DEF FoundedInv, TypeOK, SweepBadges, SweepAccess, GrantStatus,
              OneMoves
<1>3. RequestOKNow(req[r])'
  BY <1>1 DEF RequestOKNow, RequestFounded, HeldFounded, HoldsVisit,
              OfficeSteps, Redeeming, Issuing, CheckOutSteps
<1>4. Shrinks /\ UNCHANGED <<bookings, invites, admVisit>>
  BY DEF Shrinks, SweepBadges, SweepAccess
<1> QED BY <1>1, <1>2, <1>3, <1>4, ShrinksFounded DEF OneMoves

LEMMA ScanFounded ==
  ASSUME StoreAssumption, FoundedInv, OffPageGrows, NEW r \in Requests, Scan(r)
  PROVE  FoundedInv'
<1>1. Overstaying(req[r].now) \in SUBSET (Visits \cup Invitations)
  BY DEF Overstaying, StoreAssumption
<1>2. OneMoves(r) /\ req'[r].step = "overstays"
  <2>1. "overstays" \in Steps
    BY DEF Steps, SweepSteps
  <2>2. req' = [req EXCEPT ![r].step = "overstays",
                           ![r].todo = Overstaying(req[r].now)]
    BY DEF Scan
  <2> QED BY <1>1, <2>1, <2>2, TodoMoves DEF FoundedInv, OneMoves
<1>3. RequestOKNow(req[r])'
  BY <1>2 DEF RequestOKNow, RequestFounded, HeldFounded, HoldsVisit,
              OfficeSteps, Redeeming, Issuing, CheckOutSteps
<1> QED BY <1>2, <1>3, MoveFounded DEF Scan, FoundedInv, TypeOK

LEMMA CheckOverstayFounded ==
  ASSUME FoundedInv, OffPageGrows, NEW r \in Requests, NEW v \in Visits,
         CheckOverstay(r, v)
  PROVE  FoundedInv'
<1>1. /\ OneMoves(r)
      /\ \/ req'[r].step = "overstays"
         \/ req'[r].step = "raise" /\ req'[r].visit = v
  BY CheckOverstayMoves DEF FoundedInv, OneMoves
<1>2. RequestOKNow(req[r])'
  BY <1>1 DEF RequestOKNow, RequestFounded, HeldFounded, HoldsVisit,
              OfficeSteps, Redeeming, Issuing, CheckOutSteps
<1> QED BY <1>1, <1>2, MoveFounded DEF CheckOverstay, FoundedInv, TypeOK

LEMMA RaiseOverstayFounded ==
  ASSUME FoundedInv, OffPageGrows, NEW r \in Requests, RaiseOverstay(r)
  PROVE  FoundedInv'
<1> USE DEF bookings, invites, admitted
<1>1. OneMoves(r) /\ req'[r].step = "overstays"
  BY GotoMoves DEF RaiseOverstay, FoundedInv, Steps, SweepSteps, OneMoves
<1>2. RequestOKNow(req[r])'
  BY <1>1 DEF RequestOKNow, RequestFounded, HeldFounded, HoldsVisit,
              OfficeSteps, Redeeming, Issuing, CheckOutSteps
<1>3. req[r].visit \in Visits
  BY DEF FoundedInv, RequestFounded, RaiseOverstay, At, HoldsVisit
<1>4. TypeOK' BY <1>1, <1>3 DEF FoundedInv, TypeOK, RaiseOverstay, OneMoves
<1>5. RowsRest BY DEF RowsRest, RaiseOverstay
<1> QED BY <1>1, <1>2, <1>4, <1>5, RestFounded DEF OneMoves

(* Steps outside every request.                                             *)
LEMMA OutsideFounded ==
  ASSUME StoreAssumption, FoundedInv, OffPageGrows,
         \/ Tick \/ UNCHANGED vars
         \/ \E v \in Visits : \/ WatchlistAdd(v)
                              \/ WatchlistRemove(v)
                              \/ ResolveOverstay(v)
         \/ \E i \in Invitations : RevokeInvitation(i)
  PROVE  FoundedInv'
<1> USE DEF bookings, invites, admitted
<1>1. CASE Tick \/ UNCHANGED vars
  <2>1. TypeOK'
    BY <1>1 DEF Tick, vars, FoundedInv, TypeOK, StoreAssumption
  <2>2. RowsRest /\ req' = req
    BY <1>1 DEF Tick, vars, RowsRest
  <2> QED BY <2>1, <2>2, RestFounded
<1>2. ASSUME NEW v \in Visits,
             WatchlistAdd(v) \/ WatchlistRemove(v) \/ ResolveOverstay(v)
      PROVE  FoundedInv'
  <2>1. TypeOK'
    BY <1>2 DEF WatchlistAdd, WatchlistRemove, ResolveOverstay, FoundedInv,
                TypeOK
  <2>2. RowsRest /\ req' = req
    BY <1>2 DEF WatchlistAdd, WatchlistRemove, ResolveOverstay, RowsRest
  <2> QED BY <2>1, <2>2, RestFounded
<1>3. ASSUME NEW i \in Invitations, RevokeInvitation(i)
      PROVE  FoundedInv'
  <2>1. TypeOK'
    BY <1>3 DEF RevokeInvitation, FoundedInv, TypeOK, InvitationStatus
  <2>2. \A j \in Invitations :
          \/ invStatus'[j] = invStatus[j]
          \/ invStatus[j] # "none" /\ invStatus'[j] # "none"
    BY <1>3 DEF RevokeInvitation, FoundedInv, TypeOK
  <2> QED BY <1>3, <2>1, <2>2, CodesFounded DEF RevokeInvitation
<1> QED BY <1>1, <1>2, <1>3

LEMMA DeskFounded ==
  ASSUME StoreAssumption, FoundedInv, OffPageGrows, [DeskNext]_vars
  PROVE  FoundedInv'
<1>1. ASSUME NEW r \in Requests, Arrive(r)
      PROVE  FoundedInv'
  BY <1>1, FindInvitationFounded, WalkInFounded, CheckOutFounded DEF Arrive
<1>2. ASSUME NEW r \in Requests, CheckInStep(r)
      PROVE  FoundedInv'
  <2>1. CASE Duplicate(r)
    BY <2>1, EndFounded DEF Duplicate, FoundedInv, TypeOK
  <2> QED BY <1>2, <2>1, ValidateFounded, ExpireFounded, ScreenFounded,
             AdmitFounded, DoorFounded DEF CheckInStep
<1>3. ASSUME NEW r \in Requests, WalkInStep(r)
      PROVE  FoundedInv'
  BY <1>3, RegisterFounded DEF WalkInStep
<1>4. ASSUME NEW r \in Requests, CheckOutStep(r)
      PROVE  FoundedInv'
  BY <1>4, FindBadgeFounded, CloseRecordsFounded, DisableBadgeFounded,
     DisableAccessFounded, LeaveFounded, DoorFounded DEF CheckOutStep
<1>5. ASSUME NEW r \in Requests, SweepStep(r)
      PROVE  FoundedInv'
  <2>1. CASE SweepDone(r)
    BY <2>1, EndFounded DEF SweepDone, FoundedInv, TypeOK
  <2> QED BY <1>5, <2>1, SweepGrantsFounded, ScanFounded,
             CheckOverstayFounded, RaiseOverstayFounded DEF SweepStep
<1>6. ASSUME NEW r \in Requests, Abort(r)
      PROVE  FoundedInv'
  BY <1>6, EndFounded DEF Abort, FoundedInv, TypeOK, StoreAssumption
<1> QED
  BY <1>1, <1>2, <1>3, <1>4, <1>5, <1>6, SweepFounded, OutsideFounded
     DEF DeskNext, Clients, StoreAssumption
-----------------------------------------------------------------------------
(* The office, with any number of requests.  Bookings and decisions:        *)
LEMMA CreateFounded ==
  ASSUME StoreAssumption, FoundedInv, OffPageGrows, NEW r \in Requests,
         NEW v \in Visits,
         Create(r, v)
  PROVE  FoundedInv'
<1> USE DEF invites, admitted
<1>1. CASE WantsApproval(v)
  <2>1. TypeOK'
    BY <1>1 DEF Create, FoundedInv, TypeOK, VisitStatus
  <2>2. "pending_approval" \notin Awaited
    BY DEF Awaited
  <2> QED BY <1>1, <2>1, <2>2, StatusFounded DEF Create
<1>2. CASE ~WantsApproval(v)
  <2>1. OneMoves(r) /\ req'[r].step = "supersede" /\ req'[r].visit = v
    BY <1>2, BeginMoves DEF Create, FoundedInv, Steps, OfficeSteps, OneMoves
  <2>2. TypeOK'
    BY <1>2, <2>1 DEF Create, FoundedInv, TypeOK, VisitStatus, OneMoves
  <2>3. Founded(v)'
    BY <1>2 DEF Founded, OffPageGrows, WantsApproval
  <2>4. RequestOKNow(req[r])'
    BY <2>1, <2>3 DEF RequestOKNow, RequestFounded, HeldFounded, Redeeming,
                      CheckOutSteps, Founded, OffPageGrows
  <2> QED BY <1>2, <2>1, <2>2, <2>3, <2>4, StatusFounded
          DEF Create, OneMoves, Founded, OffPageGrows
<1> QED BY <1>1, <1>2

(* Requests that begin with a visit they have read.                         *)
LEMMA BeginFounded ==
  ASSUME FoundedInv, OffPageGrows, NEW r \in Requests, NEW v \in Visits,
         NEW s \in {"approve", "cancel", "supersede"},
         Begin(r, s, v, NoInvitation), s = "supersede" => Founded(v)',
         UNCHANGED <<bookings, invites, admitted, overstay, door, clock, aborts>>
  PROVE  FoundedInv'
<1>1. OneMoves(r) /\ req'[r].step = s /\ req'[r].visit = v
  BY BeginMoves DEF FoundedInv, Steps, OfficeSteps, OneMoves
<1>2. RequestOKNow(req[r])'
  BY <1>1 DEF RequestOKNow, RequestFounded, HeldFounded, Redeeming, Issuing,
              CheckOutSteps, Founded, OffPageGrows, bookings
<1> QED BY <1>1, <1>2, MoveFounded DEF FoundedInv, TypeOK

LEMMA WriteApprovalFounded ==
  ASSUME FoundedInv, OffPageGrows, NEW r \in Requests, WriteApproval(r)
  PROVE  FoundedInv'
<1> USE DEF invites, admitted
<1>1. req[r].visit \in Visits
  BY DEF FoundedInv, RequestFounded, WriteApproval, At, OfficeSteps
<1>2. /\ OneMoves(r) /\ req'[r].step = "supersede"
      /\ req'[r].visit = req[r].visit
  BY GotoMoves DEF WriteApproval, FoundedInv, Steps, OfficeSteps, OneMoves
<1>3. TypeOK'
  BY <1>1, <1>2 DEF WriteApproval, FoundedInv, TypeOK, VisitStatus, OneMoves
<1>4. req[r].visit \in approved'
  BY DEF WriteApproval
<1>5. RequestOKNow(req[r])'
  BY <1>1, <1>2, <1>4 DEF RequestOKNow, RequestFounded, HeldFounded,
                          Redeeming, CheckOutSteps, Founded, OffPageGrows
<1>6. PICK v \in Visits : v = req[r].visit
  BY <1>1
<1>7. /\ visit' = [visit EXCEPT ![v] = "approved"]
      /\ approved \subseteq approved' /\ v \in approved'
      /\ UNCHANGED <<prereg, invites, admitted>>
  BY <1>6 DEF WriteApproval
<1>8. Founded(v)'
  BY <1>7 DEF Founded
<1> QED BY <1>2, <1>3, <1>5, <1>7, <1>8, StatusFounded DEF OneMoves

LEMMA DenyFounded ==
  ASSUME FoundedInv, OffPageGrows, NEW r \in Requests, NEW v \in Visits,
         Deny(r, v)
  PROVE  FoundedInv'
<1> USE DEF invites, admitted
<1>1. OneMoves(r) /\ req'[r].step = "findActive" /\ req'[r].visit = v
  BY BeginMoves DEF Deny, FoundedInv, Steps, OfficeSteps, OneMoves
<1>2. TypeOK'
  BY <1>1 DEF Deny, FoundedInv, TypeOK, VisitStatus, OneMoves
<1>3. RequestOKNow(req[r])'
  BY <1>1 DEF RequestOKNow, RequestFounded, HeldFounded, Redeeming, Issuing,
              CheckOutSteps
<1>4. "denied" \notin Awaited
  BY DEF Awaited
<1> QED BY <1>1, <1>2, <1>3, <1>4, StatusFounded DEF Deny, OneMoves

LEMMA WriteCancelFounded ==
  ASSUME FoundedInv, OffPageGrows, NEW r \in Requests, WriteCancel(r)
  PROVE  FoundedInv'
<1> USE DEF invites, admitted
<1>1. req[r].visit \in Visits
  BY DEF FoundedInv, RequestFounded, WriteCancel, At, OfficeSteps
<1>2. /\ OneMoves(r) /\ req'[r].step = "findActive"
      /\ req'[r].visit = req[r].visit
  BY GotoMoves DEF WriteCancel, FoundedInv, Steps, OfficeSteps, OneMoves
<1>3. TypeOK'
  BY <1>1, <1>2 DEF WriteCancel, FoundedInv, TypeOK, VisitStatus, OneMoves
<1>4. RequestOKNow(req[r])'
  BY <1>1, <1>2 DEF RequestOKNow, RequestFounded, HeldFounded, Redeeming,
                    Issuing, CheckOutSteps
<1>5. "cancelled" \notin Awaited
  BY DEF Awaited
<1> QED BY <1>1, <1>2, <1>3, <1>4, <1>5, StatusFounded
        DEF WriteCancel, OneMoves

(* Revocation of the codes listed as active.                                *)
LEMMA FindActiveMoves ==
  ASSUME TypeOK, NEW r \in Requests, FindActive(r)
  PROVE  /\ OneMoves(r) /\ req'[r].step = "revoke"
         /\ req'[r].visit = req[r].visit
         /\ req'[r].todo = ActiveCodes(req[r].visit)
<1> DEFINE codes == ActiveCodes(req[r].visit)
<1>1. "revoke" \in Steps
  BY DEF Steps, OfficeSteps
<1>2. req' = [req EXCEPT ![r].step = "revoke", ![r].todo = codes]
  BY DEF FindActive
<1>3. codes \in SUBSET (Visits \cup Invitations)
  BY DEF ActiveCodes
<1> HIDE DEF codes
<1>4. OneMoves(r)
  BY <1>1, <1>2, <1>3, TodoMoves DEF OneMoves
<1>5. /\ req'[r].step = "revoke" /\ req'[r].visit = req[r].visit
      /\ req'[r].todo = codes
  BY <1>2 DEF TypeOK, Request
<1> QED BY <1>4, <1>5 DEF codes

LEMMA FindActiveFounded ==
  ASSUME FoundedInv, OffPageGrows, NEW r \in Requests, FindActive(r)
  PROVE  FoundedInv'
<1>2. /\ OneMoves(r) /\ req'[r].step = "revoke"
      /\ req'[r].visit = req[r].visit
      /\ req'[r].todo = ActiveCodes(req[r].visit)
  BY FindActiveMoves DEF FoundedInv
<1>3. req[r].visit \in Visits
  BY DEF FoundedInv, RequestFounded, FindActive, At, OfficeSteps
<1>4. RequestOKNow(req[r])'
  BY <1>2, <1>3 DEF RequestOKNow, RequestFounded, HeldFounded, Redeeming,
                    Issuing, CheckOutSteps, ActiveCodes, FindActive, invites
<1> QED BY <1>2, <1>4, MoveFounded DEF FindActive, FoundedInv, TypeOK

LEMMA RevokeNextMoves ==
  ASSUME TypeOK, NEW r \in Requests, NEW i \in Invitations, RevokeNext(r, i)
  PROVE  /\ OneMoves(r) /\ req'[r].step = "revoke"
         /\ req'[r].visit = req[r].visit /\ req'[r].todo = req[r].todo \ {i}
<1> DEFINE rest == req[r].todo \ {i}
<1>1. req' = [req EXCEPT ![r].todo = rest] /\ req[r].step = "revoke"
  BY DEF RevokeNext, At
<1>2. rest \in SUBSET (Visits \cup Invitations)
  BY DEF TypeOK, Request
<1> HIDE DEF rest
<1>3. OneMoves(r)
  BY <1>1, <1>2 DEF TypeOK, Request, OneMoves
<1>4. /\ req'[r].step = "revoke" /\ req'[r].visit = req[r].visit
      /\ req'[r].todo = rest
  BY <1>1 DEF TypeOK, Request
<1> QED BY <1>3, <1>4 DEF rest

LEMMA RevokeNextFounded ==
  ASSUME FoundedInv, OffPageGrows, NEW r \in Requests, NEW i \in Invitations,
         RevokeNext(r, i)
  PROVE  FoundedInv'
<1> USE DEF bookings, admitted
<1>1. /\ OneMoves(r) /\ req'[r].step = "revoke"
      /\ req'[r].visit = req[r].visit /\ req'[r].todo = req[r].todo \ {i}
  BY RevokeNextMoves DEF FoundedInv
<1>2. RequestFounded(req[r]) /\ req[r].step = "revoke" /\ i \in req[r].todo
  BY DEF FoundedInv, RevokeNext, At
<1>3. req[r].visit \in Visits /\ invStatus[i] # "none"
  BY <1>2 DEF RequestFounded, OfficeSteps
<1>4. TypeOK'
  BY <1>1 DEF RevokeNext, FoundedInv, TypeOK, InvitationStatus, OneMoves
<1>5. \A j \in Invitations :
        \/ invStatus'[j] = invStatus[j]
        \/ invStatus[j] # "none" /\ invStatus'[j] # "none"
  BY <1>3 DEF RevokeNext, FoundedInv, TypeOK
<1>6. RequestOKNow(req[r])'
  BY <1>1, <1>2, <1>3, <1>5
     DEF RequestOKNow, RequestFounded, HeldFounded, Redeeming, Issuing,
         CheckOutSteps
<1> QED BY <1>1, <1>4, <1>5, <1>6, CodesFounded DEF RevokeNext, OneMoves

(* Issuing: the old codes go, the new one is of the same visit.             *)
LEMMA SupersedeFounded ==
  ASSUME FoundedInv, OffPageGrows, NEW r \in Requests, Supersede(r)
  PROVE  FoundedInv'
<1> USE DEF bookings, admitted
<1>1. OneMoves(r) /\ req'[r].step = "issue" /\ req'[r].visit = req[r].visit
  BY GotoMoves DEF Supersede, FoundedInv, Steps, OfficeSteps, OneMoves
<1>2. req[r].visit \in Visits /\ Founded(req[r].visit)
  BY DEF FoundedInv, RequestFounded, Supersede, At, OfficeSteps, Issuing
<1>3. TypeOK'
  BY <1>1 DEF Supersede, FoundedInv, TypeOK, InvitationStatus, OneMoves
<1>4. \A j \in Invitations :
        \/ invStatus'[j] = invStatus[j]
        \/ invStatus[j] # "none" /\ invStatus'[j] # "none"
  BY DEF Supersede, ActiveCodes
<1>5. RequestOKNow(req[r])'
  BY <1>1, <1>2 DEF RequestOKNow, RequestFounded, HeldFounded, Redeeming,
                    CheckOutSteps, Founded, OffPageGrows, Supersede
<1> QED BY <1>1, <1>3, <1>4, <1>5, CodesFounded DEF Supersede, OneMoves

LEMMA IssueFounded ==
  ASSUME StoreAssumption, FoundedInv, OffPageGrows, NEW r \in Requests,
         NEW i \in Invitations, Issue(r, i)
  PROVE  FoundedInv'
<1> USE DEF bookings, admitted
<1>1. OneMoves(r) /\ req'[r].step = "sent" /\ req'[r].visit = req[r].visit
  BY GotoMoves DEF Issue, FoundedInv, Steps, OfficeSteps, OneMoves
<1>2. req[r].visit \in Visits /\ Founded(req[r].visit)
  BY DEF FoundedInv, RequestFounded, Issue, At, OfficeSteps, Issuing
<1>3. TypeOK'
  <2>1. Window(req[r].visit, clock)
          \in [from : Int, until : Nat, expires : Nat]
    BY <1>2 DEF Window, StoreAssumption, FoundedInv, TypeOK
  <2> QED BY <1>1, <1>2, <2>1
          DEF Issue, FoundedInv, TypeOK, InvitationStatus, OneMoves
<1>4. RowsFounded'
  BY <1>2 DEF Issue, FoundedInv, RowsFounded, Founded, OffPageGrows, TypeOK
<1>5. NothingTakenBack
  BY DEF Issue, FoundedInv, TypeOK, NothingTakenBack
<1>6. RequestOKNow(req[r])'
  BY <1>1, <1>2 DEF RequestOKNow, RequestFounded, HeldFounded, Redeeming,
                    CheckOutSteps, Founded, OffPageGrows, Issue
<1> QED BY <1>1, <1>3, <1>4, <1>5, <1>6, FoundedFrame DEF OneMoves

LEMMA SentFounded ==
  ASSUME FoundedInv, OffPageGrows, NEW r \in Requests, Sent(r) \/ MarkPreReg(r)
  PROVE  FoundedInv'
<1> USE DEF invites, admitted
<1>1. PICK v \in Visits : v = req[r].visit /\ Founded(v)
  BY DEF FoundedInv, RequestFounded, Sent, MarkPreReg, At, OfficeSteps,
         Issuing
<1>2. OneMoves(r) /\ req'[r].step = "idle"
  BY EndMoves DEF Sent, MarkPreReg, FoundedInv, OneMoves
<1>3. TypeOK'
  BY <1>1, <1>2 DEF Sent, MarkPreReg, FoundedInv, TypeOK, VisitStatus,
                    OneMoves
<1>4. RequestOKNow(req[r])'
  BY <1>2 DEF RequestOKNow, RequestFounded, HeldFounded, HoldsVisit,
              OfficeSteps, Redeeming, Issuing, CheckOutSteps
<1>5. /\ \/ visit' = [visit EXCEPT ![v] = "invitation_sent"]
         \/ visit' = [visit EXCEPT ![v] = "pre_registered"]
      /\ UNCHANGED <<approved, prereg, invites, admitted>>
  BY <1>1 DEF Sent, MarkPreReg
<1>6. Founded(v)'
  BY <1>1, <1>5 DEF Founded, OffPageGrows
<1> QED BY <1>2, <1>3, <1>4, <1>5, <1>6, StatusFounded DEF OneMoves

(* The visitor's form.                                                      *)
LEMMA PreRegisterMoves ==
  ASSUME FoundedInv, NEW r \in Requests, NEW i \in Invitations,
         PreRegister(r, i)
  PROVE  /\ OneMoves(r) /\ req'[r].step = "complete"
         /\ req'[r].visit = invVisit[i]
         /\ req'[r].saw = (visit[invVisit[i]] \in {"approved", "invitation_sent"})
<1> DEFINE saw == visit[invVisit[i]] \in {"approved", "invitation_sent"}
           form == [Idle EXCEPT !.step = "complete", !.visit = invVisit[i],
                                !.inv = i, !.saw = saw]
<1>1. invVisit[i] \in Visits /\ saw \in BOOLEAN /\ "complete" \in Steps
  BY DEF FoundedInv, RowsFounded, PreRegister, Steps, OfficeSteps
<1>2. req' = [req EXCEPT ![r] = form]
  BY DEF PreRegister
<1> HIDE DEF saw
<1>3. /\ form \in Request /\ form.step = "complete"
      /\ form.visit = invVisit[i] /\ form.saw = saw
  BY <1>1 DEF Idle, Request
<1> HIDE DEF form
<1>4. /\ OneMoves(r) /\ req'[r].step = "complete"
      /\ req'[r].visit = invVisit[i] /\ req'[r].saw = saw
  BY <1>2, <1>3 DEF FoundedInv, TypeOK, OneMoves
<1> QED BY <1>4 DEF saw

LEMMA PreRegisterFounded ==
  ASSUME FoundedInv, OffPageGrows, NEW r \in Requests, NEW i \in Invitations,
         PreRegister(r, i)
  PROVE  FoundedInv'
<1>1. invVisit[i] \in Visits /\ Founded(invVisit[i])
  BY DEF FoundedInv, RowsFounded, PreRegister
<1>2. OneMoves(r) /\ req'[r].step = "complete" /\ req'[r].visit = invVisit[i]
  BY PreRegisterMoves
<1>3. RequestOKNow(req[r])'
  BY <1>1, <1>2 DEF RequestOKNow, RequestFounded, HeldFounded, Redeeming,
                    CheckOutSteps, Founded, OffPageGrows, PreRegister, bookings
<1> QED BY <1>2, <1>3, MoveFounded DEF PreRegister, FoundedInv, TypeOK

LEMMA CompleteFounded ==
  ASSUME FoundedInv, OffPageGrows, NEW r \in Requests, Complete(r)
  PROVE  FoundedInv'
<1> USE DEF invites, admitted
<1>1. req[r].visit \in Visits /\ Founded(req[r].visit)
  BY DEF FoundedInv, RequestFounded, Complete, At, OfficeSteps, Issuing
<1>2. /\ OneMoves(r)
      /\ \/ req'[r].step = "idle"
         \/ req'[r].step = "markPreReg" /\ req'[r].visit = req[r].visit
  BY GotoMoves, EndMoves DEF Complete, FoundedInv, Steps, OfficeSteps,
                             OneMoves
<1>3. TypeOK'
  BY <1>1, <1>2 DEF Complete, FoundedInv, TypeOK, OneMoves
<1>4. RowsFounded'
  BY DEF Complete, FoundedInv, RowsFounded, Founded, OffPageGrows
<1>5. NothingTakenBack
  BY DEF Complete, NothingTakenBack
<1>6. RequestOKNow(req[r])'
  BY <1>1, <1>2 DEF RequestOKNow, RequestFounded, HeldFounded, Redeeming,
                    CheckOutSteps, Founded, OffPageGrows, Complete,
                    HoldsVisit, OfficeSteps,
                    Issuing
<1> QED BY <1>2, <1>3, <1>4, <1>5, <1>6, FoundedFrame DEF OneMoves

LEMMA OfficeFounded ==
  ASSUME StoreAssumption, FoundedInv, OffPageGrows, NEW r \in Requests,
         OfficeStart(r) \/ OfficeStep(r)
  PROVE  FoundedInv'
<1>1. ASSUME NEW v \in Visits, Approve(r, v)
      PROVE  FoundedInv'
  BY <1>1, BeginFounded DEF Approve
<1>2. CASE OfficeStart(r)
  BY <1>1, <1>2, CreateFounded, PreRegisterFounded DEF OfficeStart
<1>3. CASE RevokeDone(r)
  BY <1>3, EndFounded DEF RevokeDone, FoundedInv, TypeOK
<1>4. CASE OfficeStep(r)
  BY <1>3, <1>4, WriteApprovalFounded, WriteCancelFounded, FindActiveFounded,
     RevokeNextFounded, IssueFounded, SupersedeFounded, SentFounded,
     CompleteFounded DEF OfficeStep
<1> QED BY <1>2, <1>4

(* A code re-sent to a visit that is not awaited is in the history.         *)
LEMMA AskedGrows ==
  ASSUME FoundedInv, NEW op \in Overrides, NEW v \in Visits, Asked(op, v)
  PROVE  /\ OffPageGrows
         /\ visit[v] \in OfferedIn[op] \/ <<op, v>> \in offPage'
BY DEF FoundedInv, Asked, OffPageGrows

LEMMA OverrideGrows ==
  ASSUME FoundedInv, NEW r \in Requests, NEW v \in Visits, Override(r, v)
  PROVE  OffPageGrows
<1>1. {"deny", "cancel", "resend"} \subseteq Overrides
  BY DEF Overrides, OfferedIn
<1> QED BY <1>1, AskedGrows DEF Override

LEMMA OverrideFounded ==
  ASSUME FoundedInv, NEW r \in Requests, NEW v \in Visits, Override(r, v)
  PROVE  FoundedInv'
<1>1. OffPageGrows
  BY OverrideGrows
<1>2. CASE Deny(r, v)
  BY <1>1, <1>2, DenyFounded
<1>3. CASE Cancel(r, v)
  BY <1>1, <1>3, BeginFounded DEF Cancel
<1>4. CASE Resend(r, v) /\ Asked("resend", v)
  <2>1. "resend" \in Overrides /\ OfferedIn["resend"] = Awaited
    BY DEF Overrides, OfferedIn
  <2>2. visit[v] \in Awaited \/ <<"resend", v>> \in offPage'
    BY <1>4, <2>1, AskedGrows
  <2>3. Founded(v)'
    BY <1>1, <1>4, <2>2
       DEF FoundedInv, RowsFounded, Resend, Founded, OffPageGrows, bookings
  <2> QED BY <1>1, <1>4, <2>3, BeginFounded DEF Resend
<1> QED BY <1>2, <1>3, <1>4 DEF Override

LEMMA FoundedInit == ASSUME StoreAssumption, Init PROVE FoundedInv
<1>1. TypeOK
  BY IdleIsRequest DEF Init, TypeOK, NoWindow, VisitStatus, InvitationStatus,
                       RecordStatus, GrantStatus, StoreAssumption
<1>2. RowsFounded
  BY DEF Init, RowsFounded, Awaited
<1>3. \A r \in Requests : RequestFounded(req[r]) /\ HeldFounded(req[r])
  BY DEF Init, Idle, RequestFounded, HeldFounded, HoldsVisit, OfficeSteps,
         Redeeming, Issuing, CheckOutSteps
<1> QED BY <1>1, <1>2, <1>3 DEF FoundedInv, Init

(* The tables and every request in flight are founded in every state, with  *)
(* any number of handlers interleaved.                                      *)
THEOREM FoundedInvariant == Spec => []FoundedInv
<1>1. Init => FoundedInv
  BY FoundedInit, StoreAssumption
<1>2. FoundedInv /\ [Next]_lifeVars => FoundedInv'
  <2> SUFFICES ASSUME FoundedInv, [Next]_lifeVars PROVE FoundedInv'
    OBVIOUS
  <2>1. UNCHANGED offPage => OffPageGrows
    BY DEF FoundedInv, OffPageGrows
  <2>2. CASE UNCHANGED lifeVars
    BY <2>1, <2>2, OutsideFounded, StoreAssumption DEF lifeVars
  <2>3. CASE DeskNext /\ UNCHANGED offPage
    BY <2>1, <2>3, DeskFounded, StoreAssumption
  <2>4. ASSUME NEW r \in Requests,
               OfficeStart(r) \/ OfficeStep(r), UNCHANGED offPage
        PROVE  FoundedInv'
    BY <2>1, <2>4, OfficeFounded, StoreAssumption
  <2> QED BY <2>2, <2>3, <2>4, OverrideFounded DEF Next, Clients
<1> QED BY <1>1, <1>2, PTL DEF Spec

(* Nobody is admitted for a visit of a category that demands an approval    *)
(* unless approveVisit approved it, whatever re-issues, cancellations and   *)
(* forms run at the same time.                                              *)
THEOREM LifeAdmittedWasApproved == Spec => []AdmittedWasApproved
<1>1. FoundedInv => AdmittedWasApproved
  BY DEF FoundedInv, RowsFounded, Founded, OffPageGrows, AdmittedWasApproved
<1> QED BY <1>1, FoundedInvariant, PTL

(* Nobody of a guarded category is admitted without a completed form: the   *)
(* gate of completeCheckIn holds although it is read before the admission.  *)
THEOREM LifeAdmittedWasPreRegistered == Spec => []AdmittedWasPreRegistered
<1>1. FoundedInv => AdmittedWasPreRegistered
  BY DEF FoundedInv, RowsFounded, AdmittedWasPreRegistered
<1> QED BY <1>1, FoundedInvariant, PTL

(* What checkOut tells the door controller to forget is closed and dead in  *)
(* the database, even when the office overwrites the status of the visit    *)
(* between two of its statements.                                           *)
THEOREM LifeRevokedIsDead == Spec => []RevokedIsDead
<1>1. FoundedInv => RevokedIsDead
  BY DEF FoundedInv, HeldFounded, RevokedIsDead, At, CheckOutSteps
<1> QED BY <1>1, FoundedInvariant, PTL
-----------------------------------------------------------------------------
(* One request at a time: no handler starts before the last has ended.      *)
Serial == \A r, q \in Requests : r = q

(* The visits nobody has overruled get fewer, and where the desk's invariant*)
(* holds for some visits, it holds for some of them.                        *)
LEMMA UndisputedShrinks ==
  ASSUME OffPageGrows
  PROVE  Undisputed' \subseteq Undisputed
BY DEF OffPageGrows, Undisputed, Overruled

LEMMA UndisputedStays ==
  ASSUME UNCHANGED offPage
  PROVE  Undisputed' = Undisputed
BY DEF Undisputed, Overruled

LEMMA DeskInvFewer ==
  ASSUME NEW S, NEW T, T \subseteq S, DeskInv(S)
  PROVE  DeskInv(T)
BY DEF DeskInv, RowsOK, RequestsOK, CheckOutsOK, OnMuster, EnteredOnce,
       LiveOnSite

LEMMA DeskInvUndisputed ==
  ASSUME NEW S, DeskInv(S)', Undisputed' = S
  PROVE  DeskInv(Undisputed)'
BY DEF DeskInv, RowsOK, RequestsOK, CheckOutsOK, OnMuster, EnteredOnce,
       LiveOnSite

(* What a step of the desk does to the codes: none becomes active.          *)
CodesShrink ==
  /\ invVisit' = invVisit
  /\ \A i \in Invitations : invStatus'[i] = "active" => invStatus[i] = "active"

(* The steps whose request relies on no status it has read.                 *)
Careless == {"idle", "validate", "expire", "activate"} \cup CheckOutSteps
              \cup SweepSteps

LEMMA CarelessStatus ==
  ASSUME NEW r \in Requests, req'[r].step \in Careless
  PROVE  StatusAsRead(req[r])'
BY DEF Careless, CheckOutSteps, SweepSteps, StatusAsRead

LEMMA CarelessGoto ==
  ASSUME TypeOK, NEW r \in Requests, NEW s \in Careless, Goto(r, s) \/ End(r)
  PROVE  StatusAsRead(req[r])'
<1>1. req'[r].step \in Careless
  <2>1. CASE Goto(r, s)
    BY <2>1 DEF Goto, TypeOK, Request
  <2>2. CASE End(r)
    BY <2>2 DEF End, TypeOK, Idle, Careless
  <2> QED BY <2>1, <2>2
<1> QED BY <1>1, CarelessStatus

LEMMA ArriveStatus ==
  ASSUME SerialInv, NEW r \in Requests, Arrive(r)
  PROVE  CodesShrink /\ StatusAsRead(req[r])'
<1> USE DEF bookings, invites
<1>0. TypeOK BY DEF SerialInv, FoundedInv
<1>1. ASSUME NEW i \in Invitations, FindInvitation(r, i)
      PROVE  StatusAsRead(req[r])'
  <2>1. req'[r].step = "validate"
    BY <1>0, <1>1 DEF FindInvitation, TypeOK, Idle
  <2> QED BY <2>1, CarelessStatus DEF Careless
<1>2. ASSUME NEW v \in Visits, WalkIn(r, v)
      PROVE  StatusAsRead(req[r])'
  <2>1. req'[r].step = "register" /\ req'[r].visit = v
    BY <1>0, <1>2 DEF WalkIn, Begin, TypeOK, Idle
  <2> QED BY <1>2, <2>1 DEF WalkIn, StatusAsRead
<1>3. ASSUME NEW v \in Visits, CheckOut(r, v)
      PROVE  StatusAsRead(req[r])'
  <2>1. req'[r].step = "findBadge"
    BY <1>0, <1>3 DEF CheckOut, Begin, TypeOK, Idle
  <2> QED BY <2>1, CarelessStatus DEF Careless, CheckOutSteps
<1>4. CodesShrink
  BY DEF CodesShrink, Arrive, FindInvitation, WalkIn, CheckOut
<1> QED BY <1>1, <1>2, <1>3, <1>4 DEF Arrive

LEMMA CheckInStatus ==
  ASSUME SerialInv, NEW r \in Requests, CheckInStep(r)
  PROVE  CodesShrink /\ StatusAsRead(req[r])'
<1> USE DEF bookings, invites
<1>0. /\ TypeOK /\ StatusAsRead(req[r]) /\ RequestFounded(req[r])
      /\ "idle" \in Careless
  BY DEF SerialInv, FoundedInv, Careless
<1>1. ASSUME Validate(r) PROVE StatusAsRead(req[r])'
  <2>1. CASE Goto(r, "screen") /\ Admissible(req[r].visit)
    BY <1>0, <1>1, <2>1, GotoMoves
       DEF Validate, Admissible, StatusAsRead, Steps, CheckInSteps
  <2>2. CASE Goto(r, "expire") \/ End(r)
    BY <1>0, <2>2, CarelessGoto DEF Careless
  <2> QED BY <1>1, <2>1, <2>2 DEF Validate
<1>2. ASSUME Screen(r) PROVE StatusAsRead(req[r])'
  <2>1. CASE Goto(r, "admit")
    BY <1>0, <1>2, <2>1, GotoMoves
       DEF Screen, At, StatusAsRead, Steps, CheckInSteps
  <2> QED BY <1>0, <1>2, <2>1, CarelessGoto DEF Screen
<1>3. ASSUME NEW a \in Admissions, Admit(r, a)
      PROVE  StatusAsRead(req[r])'
  <2>1. req'[r].step = "activate"
    BY <1>0, <1>3 DEF Admit, TypeOK, Request
  <2> QED BY <2>1, CarelessStatus DEF Careless
<1>4. ASSUME Expire(r) \/ Duplicate(r) \/ Activate(r) PROVE StatusAsRead(req[r])'
  BY <1>0, <1>4, CarelessGoto DEF Expire, Duplicate, Activate
<1>5. CodesShrink
  <2>1. req[r].step \in Redeeming => req[r].inv \in Invitations
    BY <1>0 DEF RequestFounded
  <2> QED BY <1>0, <2>1
          DEF CodesShrink, CheckInStep, Validate, Screen, Admit, Expire,
              Duplicate, Activate, At, Redeeming, TypeOK
<1> QED BY <1>1, <1>2, <1>3, <1>4, <1>5 DEF CheckInStep

LEMMA WalkInStatus ==
  ASSUME SerialInv, NEW r \in Requests, WalkInStep(r)
  PROVE  CodesShrink /\ StatusAsRead(req[r])'
<1> USE DEF invites
<1>0. TypeOK BY DEF SerialInv, FoundedInv
<1>1. PICK a \in Admissions, p \in BOOLEAN : Register(r, a, p)
  BY DEF WalkInStep
<1>2. CodesShrink
  BY <1>1 DEF CodesShrink, Register
<1>3. req'[r].step \in {"activate", "idle"}
  BY <1>0, <1>1 DEF Register, TypeOK, Request, End, Idle
<1> QED BY <1>2, <1>3, CarelessStatus DEF Careless

LEMMA CheckOutStatus ==
  ASSUME SerialInv, NEW r \in Requests, CheckOutStep(r)
  PROVE  CodesShrink /\ StatusAsRead(req[r])'
<1> USE DEF invites
<1>0. TypeOK /\ "idle" \in Careless BY DEF SerialInv, FoundedInv, Careless
<1>1. ASSUME FindBadge(r) PROVE StatusAsRead(req[r])'
  <2>1. req'[r].step = "closeRecords"
    BY <1>0, <1>1 DEF FindBadge, Goto, TypeOK, Request
  <2> QED BY <2>1, CarelessStatus DEF Careless, CheckOutSteps
<1>2. ASSUME CheckOutStep(r), ~FindBadge(r)
      PROVE  StatusAsRead(req[r])'
  BY <1>0, <1>2, CarelessGoto
     DEF CheckOutStep, CloseRecords, DisableBadge, DisableAccess, Leave,
         Deactivate, Careless, CheckOutSteps
<1>3. CodesShrink
  BY DEF CodesShrink, CheckOutStep, FindBadge, CloseRecords, DisableBadge,
         DisableAccess, Leave, Deactivate
<1> QED BY <1>1, <1>2, <1>3

LEMMA SweepStatus ==
  ASSUME SerialInv, NEW r \in Requests, Sweep(r) \/ SweepStep(r) \/ Abort(r)
  PROVE  CodesShrink /\ StatusAsRead(req[r])'
<1> USE DEF invites
<1>0. TypeOK /\ "idle" \in Careless BY DEF SerialInv, FoundedInv, Careless
<1>1. ASSUME Sweep(r) PROVE StatusAsRead(req[r])'
  <2>1. req'[r].step = "sweepBadges"
    BY <1>0, <1>1 DEF Sweep, TypeOK, Idle
  <2> QED BY <2>1, CarelessStatus DEF Careless, SweepSteps
<1>2. ASSUME Scan(r) PROVE StatusAsRead(req[r])'
  <2>1. req'[r].step = "overstays"
    BY <1>0, <1>2 DEF Scan, TypeOK, Request
  <2> QED BY <2>1, CarelessStatus DEF Careless, SweepSteps
<1>3. ASSUME NEW v \in Visits, CheckOverstay(r, v)
      PROVE  StatusAsRead(req[r])'
  <2>1. req'[r].step \in {"overstays", "raise"}
    BY <1>0, <1>3, CheckOverstayMoves
  <2> QED BY <2>1, CarelessStatus DEF Careless, SweepSteps
<1>4. ASSUME \/ SweepBadges(r) \/ SweepAccess(r) \/ RaiseOverstay(r)
             \/ SweepDone(r) \/ Abort(r)
      PROVE  StatusAsRead(req[r])'
  BY <1>0, <1>4, CarelessGoto
     DEF SweepBadges, SweepAccess, RaiseOverstay, SweepDone, Abort, Careless,
         SweepSteps
<1>5. CodesShrink
  BY DEF CodesShrink, Sweep, SweepStep, Scan, CheckOverstay, SweepBadges,
         SweepAccess, RaiseOverstay, SweepDone, Abort
<1> QED BY <1>1, <1>2, <1>3, <1>4, <1>5 DEF SweepStep

LEMMA DeskSerial ==
  ASSUME StoreAssumption, Serial, SerialInv, [DeskNext]_vars,
         UNCHANGED offPage
  PROVE  SerialInv'
<1> USE DEF bookings, invites
<1>0. OffPageGrows /\ Undisputed' = Undisputed
  BY UndisputedStays DEF SerialInv, FoundedInv, OffPageGrows
<1>1. DeskInv(Undisputed)' /\ FoundedInv'
  <2>1. PICK S : S = Undisputed
    OBVIOUS
  <2>2. DeskInv(S)
    BY <2>1 DEF SerialInv
  <2>3. DeskInv(S)'
    BY <2>2, NextKeeps
  <2>4. FoundedInv'
    BY <1>0, DeskFounded DEF SerialInv
  <2> QED BY <1>0, <2>1, <2>3, <2>4, DeskInvUndisputed
<1>2. ASSUME CodesShrink PROVE OneActiveCode'
  BY <1>2 DEF CodesShrink, SerialInv, OneActiveCode
<1>3. ASSUME NEW r \in Requests, CodesShrink, StatusAsRead(req[r])'
      PROVE  SerialInv'
  <2>1. \A q \in Requests : StatusAsRead(req[q])'
    BY <1>3 DEF Serial
  <2> QED BY <1>1, <1>2, <1>3, <2>1 DEF SerialInv
<1>4. ASSUME UNCHANGED <<visit, req>>, CodesShrink
      PROVE  SerialInv'
  <2>1. \A q \in Requests : StatusAsRead(req[q])'
    BY <1>0, <1>4 DEF SerialInv, StatusAsRead, CodesShrink, ActiveCodes
  <2> QED BY <1>1, <1>2, <1>4, <2>1 DEF SerialInv
<1>5. CASE \/ Tick \/ UNCHANGED vars
           \/ \E v \in Visits : \/ WatchlistAdd(v) \/ WatchlistRemove(v)
                                \/ ResolveOverstay(v)
           \/ \E i \in Invitations : RevokeInvitation(i)
  <2>1. UNCHANGED <<visit, req>> /\ CodesShrink
    BY <1>5 DEF Tick, vars, WatchlistAdd, WatchlistRemove, ResolveOverstay,
                RevokeInvitation, CodesShrink, SerialInv, FoundedInv, TypeOK
  <2> QED BY <2>1, <1>4
<1>6. CASE \E r \in Requests :
             \/ Arrive(r) \/ CheckInStep(r) \/ WalkInStep(r) \/ CheckOutStep(r)
             \/ Sweep(r) \/ SweepStep(r) \/ Abort(r)
  BY <1>6, <1>3, ArriveStatus, CheckInStatus, WalkInStatus, CheckOutStatus,
     SweepStatus
<1> QED BY <1>5, <1>6 DEF DeskNext, Clients, StoreAssumption
(* What a step of the office does, one request at a time: it moves its own  *)
(* request, leaves the admissions alone, and gives a new status to no visit *)
(* that has begun or ended and that nobody has overruled.                   *)
OfficeMove(r) ==
  \/ (OfficeStart(r) \/ OfficeStep(r)) /\ UNCHANGED offPage
  \/ \E v \in Visits : Override(r, v)

OfficeEffect(r) ==
  /\ OneMoves(r) /\ req'[r].step \in OfficeSteps \cup {"idle"}
  /\ UNCHANGED <<admVisit, record, badge, access>>
  /\ \A v \in Undisputed' : visit'[v] # visit[v] =>
       visit[v] \notin Terminal \cup {"checked_in"}

(* A visit nobody has overruled was offered what is asked for it.           *)
LEMMA OverrideOffered ==
  ASSUME FoundedInv, NEW r \in Requests, NEW v \in Visits, v \in Undisputed'
  PROVE  /\ Deny(r, v) /\ Asked("deny", v) => visit[v] = "pending_approval"
         /\ Cancel(r, v) /\ Asked("cancel", v)
              => visit[v] \in Awaited \cup {"pending_approval"}
         /\ Resend(r, v) /\ Asked("resend", v) => visit[v] \in Awaited
<1>1. /\ {"deny", "cancel", "resend"} \subseteq Overrides
      /\ OfferedIn["deny"] = {"pending_approval"}
      /\ OfferedIn["cancel"] = Awaited \cup {"pending_approval"}
      /\ OfferedIn["resend"] = Awaited
  BY DEF Overrides, OfferedIn
<1>2. \A op \in Overrides : <<op, v>> \notin offPage'
  BY DEF Undisputed, Overruled
<1>3. \A op \in Overrides : Asked(op, v) => visit[v] \in OfferedIn[op]
  BY <1>2, AskedGrows
<1> QED BY <1>1, <1>3

LEMMA OverrideEffects ==
  ASSUME SerialInv, NEW r \in Requests, NEW v \in Visits, Override(r, v)
  PROVE  OfficeEffect(r)
<1> USE DEF bookings, admitted, OfficeEffect
<1>0. TypeOK /\ FoundedInv
  BY DEF SerialInv, FoundedInv
<1>1. CASE Cancel(r, v) \/ Resend(r, v)
  <2>1. OneMoves(r) /\ req'[r].step \in {"cancel", "supersede"}
    BY <1>0, <1>1, BeginMoves
       DEF Cancel, Resend, Steps, OfficeSteps, OneMoves
  <2> QED BY <1>1, <2>1 DEF Cancel, Resend, OfficeSteps
<1>2. CASE Deny(r, v) /\ Asked("deny", v)
  <2>1. OneMoves(r) /\ req'[r].step = "findActive"
    BY <1>0, <1>2, BeginMoves DEF Deny, Steps, OfficeSteps, OneMoves
  <2>2. \A w \in Undisputed' :
          w \in Visits /\ (visit'[w] # visit[w] => w = v)
    BY <1>0, <1>2 DEF Deny, TypeOK, Undisputed
  <2>3. v \in Undisputed' => visit[v] = "pending_approval"
    BY <1>0, <1>2, OverrideOffered
  <2>4. \A w \in Undisputed' :
          visit'[w] # visit[w] => visit[w] = "pending_approval"
    BY <2>2, <2>3
  <2> QED BY <1>2, <2>1, <2>4 DEF Deny, OfficeSteps, Terminal
<1> QED BY <1>1, <1>2 DEF Override

LEMMA OfficeEffects ==
  ASSUME SerialInv, NEW r \in Requests, OfficeStart(r) \/ OfficeStep(r),
         UNCHANGED offPage
  PROVE  OfficeEffect(r)
<1> USE DEF bookings, admitted, OfficeEffect
<1>0. /\ TypeOK /\ StatusAsRead(req[r]) /\ RequestFounded(req[r])
      /\ "idle" \in OfficeSteps \cup {"idle"}
      /\ Undisputed' \subseteq Visits /\ Undisputed' = Undisputed
  BY UndisputedStays DEF SerialInv, FoundedInv, Undisputed
<1>1. ASSUME NEW v \in Visits, Create(r, v) PROVE OfficeEffect(r)
  <2>1. OneMoves(r) /\ req'[r].step \in {"supersede", "idle"}
    <3>1. CASE WantsApproval(v)
      BY <1>0, <1>1, <3>1 DEF Create, TypeOK, OneMoves, At
    <3>2. CASE ~WantsApproval(v)
      BY <1>0, <1>1, <3>2, BeginMoves
         DEF Create, Steps, OfficeSteps, OneMoves
    <3> QED BY <3>1, <3>2
  <2>2. \A w \in Visits : visit'[w] # visit[w] => visit[w] = "none"
    BY <1>0, <1>1 DEF Create, TypeOK
  <2> QED BY <1>0, <1>1, <2>1, <2>2 DEF Create, OfficeSteps, Terminal
<1>2. ASSUME NEW v \in Visits, Approve(r, v)
      PROVE OfficeEffect(r)
  <2>1. OneMoves(r) /\ req'[r].step = "approve"
    BY <1>0, <1>2, BeginMoves DEF Approve, Steps, OfficeSteps, OneMoves
  <2> QED BY <1>2, <2>1 DEF Approve, OfficeSteps
<1>4. ASSUME NEW i \in Invitations, PreRegister(r, i) PROVE OfficeEffect(r)
  <2>1. OneMoves(r) /\ req'[r].step = "complete"
    BY <1>4, PreRegisterMoves DEF SerialInv
  <2> QED BY <1>4, <2>1 DEF PreRegister, OfficeSteps
<1>5. CASE WriteApproval(r) \/ WriteCancel(r)
  <2>1. OneMoves(r) /\ req'[r].step \in {"supersede", "findActive"}
    BY <1>0, <1>5, GotoMoves
       DEF WriteApproval, WriteCancel, Steps, OfficeSteps, OneMoves
  <2>2. \A w \in Undisputed' : visit'[w] # visit[w] =>
          visit[w] \in Awaited \cup {"pending_approval"}
    BY <1>0, <1>5
       DEF WriteApproval, WriteCancel, StatusAsRead, At, TypeOK
  <2> QED BY <1>5, <2>1, <2>2
          DEF WriteApproval, WriteCancel, OfficeSteps, Terminal, Awaited
<1>6. CASE Sent(r) \/ MarkPreReg(r)
  <2>1. OneMoves(r) /\ req'[r].step = "idle"
    BY <1>0, <1>6, EndMoves DEF Sent, MarkPreReg, OneMoves
  <2>2. \A w \in Undisputed' : visit'[w] # visit[w] => visit[w] \in Awaited
    BY <1>0, <1>6 DEF Sent, MarkPreReg, StatusAsRead, At, TypeOK, Awaited
  <2> QED BY <1>6, <2>1, <2>2 DEF Sent, MarkPreReg, Terminal, Awaited
<1>7. CASE FindActive(r)
  <2>1. OneMoves(r) /\ req'[r].step = "revoke"
    BY <1>0, <1>7, FindActiveMoves
  <2> QED BY <1>7, <2>1 DEF FindActive, OfficeSteps
<1>8. CASE RevokeDone(r)
  <2>1. OneMoves(r) /\ req'[r].step = "idle"
    BY <1>0, <1>8, EndMoves DEF RevokeDone, OneMoves
  <2> QED BY <1>8, <2>1 DEF RevokeDone
<1>9. ASSUME NEW i \in Invitations, RevokeNext(r, i) PROVE OfficeEffect(r)
  <2>1. OneMoves(r) /\ req'[r].step = "revoke"
    BY <1>0, <1>9, RevokeNextMoves
  <2> QED BY <1>9, <2>1 DEF RevokeNext, OfficeSteps
<1>10. ASSUME \/ Supersede(r) \/ \E i \in Invitations : Issue(r, i)
       PROVE OfficeEffect(r)
  <2>1. OneMoves(r) /\ req'[r].step \in {"issue", "sent"}
    BY <1>0, <1>10, GotoMoves
       DEF Supersede, Issue, Steps, OfficeSteps, OneMoves
  <2> QED BY <1>10, <2>1 DEF Supersede, Issue, OfficeSteps
<1>11. CASE Complete(r)
  <2>1. OneMoves(r) /\ req'[r].step \in {"markPreReg", "idle"}
    BY <1>0, <1>11, GotoMoves, EndMoves
       DEF Complete, Steps, OfficeSteps, OneMoves
  <2> QED BY <1>11, <2>1 DEF Complete, OfficeSteps
<1> QED
  BY <1>1, <1>2, <1>4, <1>5, <1>6, <1>7, <1>8, <1>9, <1>10, <1>11
     DEF OfficeStart, OfficeStep

(* ... so that the desk's invariant stays: it speaks of begun visits only.  *)
LEMMA OfficeKeepsDesk ==
  ASSUME NEW S, DeskInv(S), FoundedInv', NEW r \in Requests, OfficeEffect(r),
         S = Undisputed'
  PROVE  DeskInv(S)'
<1>1. /\ S \subseteq Visits
      /\ \A v \in S : Begun(v) => visit'[v] = visit[v]
  BY DEF OfficeEffect, Begun, Terminal, Undisputed
<1>2. TypeOK' /\ TypeOK
  BY DEF FoundedInv, DeskInv
<1>3. RowsOK(S)'
  <2>1. \A i \in Invitations : invStatus'[i] # "none" => invVisit'[i] \in Visits
    BY DEF FoundedInv, RowsFounded
  <2> QED BY <1>1, <2>1 DEF DeskInv, RowsOK, OfficeEffect, Begun
<1>4. \A q \in Requests :
        req'[q].step \in CheckOutSteps => req'[q] = req[q]
  BY DEF OfficeEffect, OneMoves, OfficeSteps, CheckOutSteps
<1>5. RequestsOK(S)'
  <2> SUFFICES ASSUME NEW q \in Requests PROVE RequestOK(S, q)'
    BY DEF RequestsOK, RequestOK
  <2>1. RequestFounded(req[q])'
    BY DEF FoundedInv
  <2>2. req'[q].step \in CheckOutSteps /\ req'[q].visit \in S
          => Begun(req[q].visit)'
    BY <1>1, <1>4 DEF DeskInv, RequestsOK, Begun, HoldsVisit
  <2> QED BY <2>1, <2>2 DEF RequestFounded, RequestOK, Redeeming
<1>6. CheckOutsOK(S)'
  BY <1>4 DEF DeskInv, CheckOutsOK, OfficeEffect, CheckOutSteps
<1>7. OnMuster(S)' /\ EnteredOnce(S)' /\ LiveOnSite(S)'
  <2>1. \A a \in Admissions : record[a] # "none" /\ admVisit[a] \in S =>
          visit'[admVisit[a]] = visit[admVisit[a]]
    BY <1>1 DEF DeskInv, RowsOK
  <2>2. \A a \in Admissions :
          badge[a] = "active" \/ access[a] = "active" => record[a] # "none"
    BY DEF DeskInv, RowsOK
  <2> QED BY <2>1, <2>2
          DEF DeskInv, OnMuster, EnteredOnce, LiveOnSite, OfficeEffect
<1> QED BY <1>2, <1>3, <1>5, <1>6, <1>7 DEF DeskInv

(* The status that a step of the office leaves is the one its next step     *)
(* relies on.                                                               *)
LEMMA OfficeStartStatus ==
  ASSUME SerialInv, NEW r \in Requests, OfficeStart(r)
  PROVE  CodesShrink /\ StatusAsRead(req[r])'
<1> USE DEF bookings, invites
<1>0. TypeOK /\ NoInvitation \in Invitations \cup {NoInvitation}
  BY DEF SerialInv, FoundedInv
<1>1. ASSUME NEW v \in Visits, Create(r, v) PROVE StatusAsRead(req[r])'
  <2>1. CASE WantsApproval(v)
    BY <1>0, <1>1, <2>1, CarelessStatus DEF Create, At, Careless
  <2>2. CASE ~WantsApproval(v)
    <3>1. req'[r].step = "supersede" /\ req'[r].visit = v
      <4>1. Begin(r, "supersede", v, NoInvitation)
        BY <1>1, <2>2 DEF Create
      <4> QED BY <1>0, <4>1 DEF Begin, TypeOK, Idle
    <3>2. visit'[v] \in Awaited
      BY <1>0, <1>1, <2>2 DEF Create, TypeOK, Awaited
    <3> QED BY <3>1, <3>2 DEF StatusAsRead
  <2> QED BY <2>1, <2>2
<1>2. ASSUME NEW v \in Visits, Approve(r, v) PROVE StatusAsRead(req[r])'
  <2>1. req'[r].step = "approve" /\ req'[r].visit = v
    BY <1>0, <1>2 DEF Approve, Begin, TypeOK, Idle
  <2> QED BY <1>2, <2>1 DEF Approve, Approvable, StatusAsRead
<1>6. ASSUME NEW i \in Invitations, PreRegister(r, i)
      PROVE  StatusAsRead(req[r])'
  <2>1. /\ req'[r].step = "complete" /\ req'[r].visit = invVisit[i]
        /\ req'[r].saw = (visit[invVisit[i]] \in {"approved", "invitation_sent"})
    BY <1>6, PreRegisterMoves DEF SerialInv
  <2> QED BY <1>6, <2>1 DEF PreRegister, StatusAsRead
<1>7. CodesShrink
  BY DEF CodesShrink, OfficeStart, Create, Approve, PreRegister
<1> QED BY <1>1, <1>2, <1>6, <1>7 DEF OfficeStart

LEMMA OverrideStatus ==
  ASSUME SerialInv, NEW r \in Requests, NEW v \in Visits, Override(r, v)
  PROVE  CodesShrink /\ StatusAsRead(req[r])'
<1> USE DEF bookings, invites
<1>0. /\ TypeOK /\ FoundedInv
      /\ NoInvitation \in Invitations \cup {NoInvitation}
  BY DEF SerialInv, FoundedInv
<1>1. ASSUME Cancel(r, v), Asked("cancel", v) PROVE StatusAsRead(req[r])'
  <2>1. req'[r].step = "cancel" /\ req'[r].visit = v
    BY <1>0, <1>1 DEF Cancel, Begin, TypeOK, Idle
  <2>2. v \in Undisputed' => visit'[v] \in Awaited \cup {"pending_approval"}
    BY <1>0, <1>1, OverrideOffered DEF Cancel
  <2> QED BY <2>1, <2>2 DEF StatusAsRead
<1>2. ASSUME Resend(r, v), Asked("resend", v) PROVE StatusAsRead(req[r])'
  <2>1. req'[r].step = "supersede" /\ req'[r].visit = v
    BY <1>0, <1>2 DEF Resend, Begin, TypeOK, Idle
  <2>2. v \in Undisputed' => visit'[v] \in Awaited
    BY <1>0, <1>2, OverrideOffered DEF Resend
  <2> QED BY <2>1, <2>2 DEF StatusAsRead
<1>3. ASSUME Deny(r, v) PROVE StatusAsRead(req[r])'
  <2>1. req'[r].step = "findActive" /\ req'[r].visit = v
    BY <1>0, <1>3 DEF Deny, Begin, TypeOK, Idle
  <2>2. visit'[v] = "denied"
    BY <1>0, <1>3 DEF Deny, TypeOK
  <2> QED BY <2>1, <2>2 DEF StatusAsRead
<1>4. CodesShrink
  BY DEF CodesShrink, Override, Cancel, Resend, Deny
<1> QED BY <1>1, <1>2, <1>3, <1>4 DEF Override

LEMMA OfficeStepStatus ==
  ASSUME SerialInv, NEW r \in Requests, OfficeStep(r), UNCHANGED offPage
  PROVE  StatusAsRead(req[r])'
<1> USE DEF bookings, invites
<1>0. /\ TypeOK /\ StatusAsRead(req[r]) /\ RequestFounded(req[r])
      /\ "idle" \in Careless /\ Undisputed' = Undisputed
  BY UndisputedStays DEF SerialInv, FoundedInv, Careless
<1>1. CASE WriteApproval(r)
  <2>1. req'[r].step = "supersede" /\ req'[r].visit = req[r].visit
    BY <1>0, <1>1 DEF WriteApproval, Goto, TypeOK, Request
  <2>2. req[r].visit \in Visits
    BY <1>0, <1>1 DEF WriteApproval, At, RequestFounded, OfficeSteps
  <2>3. visit'[req[r].visit] \in Awaited
    BY <1>0, <1>1, <2>2 DEF WriteApproval, TypeOK, Awaited
  <2> QED BY <2>1, <2>3 DEF StatusAsRead
<1>2. CASE WriteCancel(r)
  <2>1. req'[r].step = "findActive" /\ req'[r].visit = req[r].visit
    BY <1>0, <1>2 DEF WriteCancel, Goto, TypeOK, Request
  <2>2. req[r].visit \in Visits
    BY <1>0, <1>2 DEF WriteCancel, At, RequestFounded, OfficeSteps
  <2>3. visit'[req[r].visit] = "cancelled"
    BY <1>0, <1>2, <2>2 DEF WriteCancel, TypeOK
  <2> QED BY <2>1, <2>3 DEF StatusAsRead
<1>3. CASE FindActive(r)
  <2>1. req'[r].step = "revoke" /\ req'[r].visit = req[r].visit
    BY <1>0, <1>3, FindActiveMoves
  <2> QED BY <1>0, <1>3, <2>1 DEF FindActive, At, StatusAsRead
<1>4. ASSUME NEW i \in Invitations, RevokeNext(r, i)
      PROVE  StatusAsRead(req[r])'
  <2>1. req'[r].step = "revoke" /\ req'[r].visit = req[r].visit
    BY <1>0, <1>4, RevokeNextMoves
  <2> QED BY <1>0, <1>4, <2>1 DEF RevokeNext, At, StatusAsRead
<1>5. CASE Supersede(r)
  <2>1. req'[r].step = "issue" /\ req'[r].visit = req[r].visit
    BY <1>0, <1>5 DEF Supersede, Goto, TypeOK, Request
  <2>2. ActiveCodes(req[r].visit)' = {}
    BY <1>5, <2>1 DEF Supersede, ActiveCodes
  <2> QED BY <1>0, <1>5, <2>1, <2>2 DEF Supersede, At, StatusAsRead
<1>6. ASSUME NEW i \in Invitations, Issue(r, i)
      PROVE  StatusAsRead(req[r])'
  <2>1. req'[r].step = "sent" /\ req'[r].visit = req[r].visit
    BY <1>0, <1>6 DEF Issue, Goto, TypeOK, Request
  <2> QED BY <1>0, <1>6, <2>1 DEF Issue, At, StatusAsRead
<1>7. CASE Complete(r)
  <2>1. CASE req[r].saw
    <3>1. req'[r].step = "markPreReg" /\ req'[r].visit = req[r].visit
      BY <1>0, <1>7, <2>1 DEF Complete, Goto, TypeOK, Request
    <3> QED BY <1>0, <1>7, <2>1, <3>1 DEF Complete, At, StatusAsRead
  <2>2. CASE ~req[r].saw
    BY <1>0, <1>7, <2>2, CarelessGoto DEF Complete
  <2> QED BY <2>1, <2>2
<1>8. CASE RevokeDone(r) \/ Sent(r) \/ MarkPreReg(r)
  BY <1>0, <1>8, CarelessGoto DEF RevokeDone, Sent, MarkPreReg
<1> QED BY <1>1, <1>2, <1>3, <1>4, <1>5, <1>6, <1>7, <1>8 DEF OfficeStep

(* A code is issued when no other code of its visit is active.              *)
LEMMA OfficeStepCodes ==
  ASSUME SerialInv, NEW r \in Requests, OfficeStep(r)
  PROVE  OneActiveCode'
<1> USE DEF bookings, invites
<1>0. TypeOK /\ StatusAsRead(req[r]) /\ OneActiveCode
  BY DEF SerialInv, FoundedInv
<1>1. ASSUME NEW i \in Invitations, Issue(r, i) PROVE OneActiveCode'
  <2>1. \A j \in Invitations :
          invStatus[j] = "active" => invVisit[j] # req[r].visit
    BY <1>0, <1>1 DEF Issue, At, StatusAsRead, ActiveCodes
  <2>2. /\ \A j \in Invitations : j # i =>
             invStatus'[j] = invStatus[j] /\ invVisit'[j] = invVisit[j]
        /\ invVisit'[i] = req[r].visit
    BY <1>0, <1>1 DEF Issue, TypeOK
  <2> QED BY <1>0, <2>1, <2>2 DEF OneActiveCode
<1>2. ASSUME \A i \in Invitations : ~Issue(r, i) PROVE CodesShrink
  BY <1>0, <1>2
     DEF CodesShrink, OfficeStep, WriteApproval, WriteCancel, FindActive,
         RevokeDone, RevokeNext, Supersede, Sent, Complete, MarkPreReg, TypeOK
<1>3. CodesShrink => OneActiveCode'
  BY <1>0 DEF CodesShrink, OneActiveCode
<1> QED BY <1>1, <1>2, <1>3

LEMMA OfficeSerial ==
  ASSUME StoreAssumption, Serial, SerialInv, NEW r \in Requests, OfficeMove(r)
  PROVE  SerialInv'
<1>0. OffPageGrows
  BY OverrideGrows DEF OfficeMove, OffPageGrows, SerialInv, FoundedInv
<1>1. FoundedInv'
  BY <1>0, OfficeFounded, OverrideFounded DEF OfficeMove, SerialInv
<1>2. DeskInv(Undisputed)'
  <2>1. PICK S : S = Undisputed'
    OBVIOUS
  <2>2. S \subseteq Undisputed
    BY <1>0, <2>1, UndisputedShrinks
  <2>3. DeskInv(S)
    BY <2>2, DeskInvFewer DEF SerialInv
  <2>4. OfficeEffect(r)
    BY OfficeEffects, OverrideEffects DEF OfficeMove
  <2>5. DeskInv(S)'
    BY <1>1, <2>1, <2>3, <2>4, OfficeKeepsDesk
  <2> QED BY <2>1, <2>5, DeskInvUndisputed
<1>3. OneActiveCode'
  <2>1. CodesShrink => OneActiveCode'
    BY DEF CodesShrink, SerialInv, OneActiveCode
  <2> QED BY <2>1, OfficeStartStatus, OfficeStepCodes, OverrideStatus
          DEF OfficeMove
<1>4. \A q \in Requests : StatusAsRead(req[q])'
  <2>1. StatusAsRead(req[r])'
    BY OfficeStartStatus, OfficeStepStatus, OverrideStatus DEF OfficeMove
  <2> QED BY <2>1 DEF Serial
<1> QED BY <1>1, <1>2, <1>3, <1>4 DEF SerialInv

LEMMA SerialInit == ASSUME StoreAssumption, Init PROVE SerialInv
<1>1. FoundedInv
  BY FoundedInit
<1>2. DeskInv(Undisputed)
  <2>1. TypeOK
    BY <1>1 DEF FoundedInv
  <2>2. RowsOK(Undisputed) BY DEF RowsOK, Init
  <2>3. RequestsOK(Undisputed) /\ CheckOutsOK(Undisputed)
    BY DEF Init, RequestsOK, CheckOutsOK, Idle, HoldsVisit, CheckOutSteps
  <2>4. /\ OnMuster(Undisputed) /\ EnteredOnce(Undisputed)
        /\ LiveOnSite(Undisputed)
    BY DEF Init, OnMuster, EnteredOnce, LiveOnSite
  <2> QED BY <2>1, <2>2, <2>3, <2>4 DEF DeskInv
<1>3. OneActiveCode
  BY DEF Init, OneActiveCode
<1>4. \A r \in Requests : StatusAsRead(req[r])
  BY DEF Init, Idle, StatusAsRead
<1> QED BY <1>1, <1>2, <1>3, <1>4 DEF SerialInv

(* With one request at a time the desk, the office and what they have read  *)
(* of each other stay consistent.                                           *)
THEOREM SerialInvariant ==
  ASSUME Serial
  PROVE  Spec => []SerialInv
<1>1. Init => SerialInv
  BY SerialInit, StoreAssumption
<1>2. SerialInv /\ [Next]_lifeVars => SerialInv'
  BY DeskSerial, OfficeSerial, StoreAssumption
     DEF Next, lifeVars, Clients, OfficeMove
<1> QED BY <1>1, <1>2, PTL DEF Spec

(* From an empty database and with an office at work, one request at a      *)
(* time: of the visits nobody has overruled from a page that did not offer  *)
(* it the muster list is complete, each is entered once and nothing of one  *)
(* that left is live; and nobody came in unapproved but by a code that was  *)
(* re-sent this way.                                                        *)
THEOREM SerialDeskPromises ==
  ASSUME Serial
  PROVE  Spec => []DeskPromises
<1>1. SerialInv => DeskPromises
  BY DEF SerialInv, DeskInv, FoundedInv, RowsFounded, Founded, DeskPromises,
         AdmittedWasApproved
<1> QED BY <1>1, SerialInvariant, PTL

(* resendInvitation and approveVisit leave one active code of a visit, one  *)
(* request at a time.                                                       *)
THEOREM SerialOneActiveCode ==
  ASSUME Serial
  PROVE  Spec => []OneActiveCode
<1>1. SerialInv => OneActiveCode
  BY DEF SerialInv
<1> QED BY <1>1, SerialInvariant, PTL

LEMMA DeskStatuses ==
  ASSUME SerialInv, UNCHANGED offPage, NEW r \in Requests,
         \/ Arrive(r) \/ CheckInStep(r) \/ WalkInStep(r) \/ CheckOutStep(r)
         \/ Sweep(r) \/ SweepStep(r) \/ Abort(r)
  PROVE  /\ \A v \in Visits : visit[v] \in Terminal
              => visit'[v] = visit[v] \/ Overruled(v)'
         /\ \A a \in Admissions : record[a] = "none" /\ record'[a] = "open"
              => visit[admVisit'[a]] \notin {"cancelled", "denied"}
<1> USE DEF bookings, admitted
<1>0. TypeOK /\ StatusAsRead(req[r]) /\ RequestFounded(req[r])
  BY DEF SerialInv, FoundedInv
<1>1. ASSUME NEW a \in Admissions, NEW v \in Visits, NEW b, NEW z, NEW t,
             Insert(a, v, b, z, t), visit[v] \in Awaited \cup {"none"}
      PROVE  /\ \A w \in Visits : visit[w] \in Terminal => visit'[w] = visit[w]
             /\ \A x \in Admissions : record[x] = "none" /\ record'[x] = "open"
                  => visit[admVisit'[x]] \notin {"cancelled", "denied"}
  BY <1>0, <1>1 DEF Insert, TypeOK, Terminal, Awaited
<1>2. ASSUME NEW a \in Admissions, Admit(r, a)
      PROVE  /\ req[r].visit \in Visits
             /\ visit[req[r].visit] \in Awaited \cup {"none"}
  BY <1>0, <1>2 DEF Admit, At, StatusAsRead, RequestFounded, HoldsVisit
<1>3. ASSUME NEW a \in Admissions, NEW p \in BOOLEAN, Register(r, a, p)
      PROVE  /\ req[r].visit \in Visits
             /\ visit[req[r].visit] \in Awaited \cup {"none"}
  BY <1>0, <1>3 DEF Register, At, RequestFounded, HoldsVisit
<1>4. CASE Leave(r)
  <2> DEFINE v == req[r].visit
  <2>1. v \in Visits /\ (v \in Undisputed => Begun(v))
    BY <1>4 DEF SerialInv, DeskInv, RequestsOK, Leave, At, CheckOutSteps,
                HoldsVisit
  <2>2. \A w \in Visits : w \in Undisputed \/ Overruled(w)'
    BY DEF Undisputed, Overruled
  <2>3. \A w \in Visits : visit'[w] # visit[w]
          => w = v /\ visit'[w] = "checked_out"
    BY <1>0, <1>4, <2>1 DEF Leave, TypeOK
  <2>4. \A w \in Visits : visit[w] \in Terminal
          => visit'[w] = visit[w] \/ Overruled(w)'
    BY <2>1, <2>2, <2>3 DEF Begun, Terminal
  <2> QED BY <1>4, <2>4 DEF Leave
<1>5. CASE (\E a \in Admissions : Admit(r, a)) \/ WalkInStep(r)
  BY <1>1, <1>2, <1>3, <1>5 DEF WalkInStep, Admit, Register
<1>6. CASE \/ Arrive(r) \/ Sweep(r) \/ SweepStep(r) \/ Abort(r)
           \/ Validate(r) \/ Expire(r) \/ Screen(r) \/ Duplicate(r)
           \/ Activate(r) \/ FindBadge(r) \/ CloseRecords(r)
           \/ DisableBadge(r) \/ DisableAccess(r) \/ Deactivate(r)
  <2>1. visit' = visit
    BY <1>6 DEF Arrive, FindInvitation, WalkIn, CheckOut, Sweep, SweepStep,
         SweepBadges, SweepAccess, Scan, CheckOverstay, RaiseOverstay,
         SweepDone, Abort, Validate, Expire, Screen, Duplicate, Activate,
         FindBadge, CloseRecords, DisableBadge, DisableAccess, Deactivate
  <2>2. \A a \in Admissions : record[a] = "none" => record'[a] # "open"
    BY <1>6 DEF Arrive, FindInvitation, WalkIn, CheckOut, Sweep, SweepStep,
         SweepBadges, SweepAccess, Scan, CheckOverstay, RaiseOverstay,
         SweepDone, Abort, Validate, Expire, Screen, Duplicate, Activate,
         FindBadge, CloseRecords, DisableBadge, DisableAccess, Deactivate,
         OpenRecord
  <2> QED BY <2>1, <2>2
<1> QED BY <1>4, <1>5, <1>6 DEF CheckInStep, CheckOutStep

LEMMA NextStatuses ==
  ASSUME StoreAssumption, SerialInv, [Next]_lifeVars
  PROVE  /\ \A v \in Visits : visit[v] \in Terminal
              => visit'[v] = visit[v] \/ Overruled(v)'
         /\ \A a \in Admissions : record[a] = "none" /\ record'[a] = "open"
              => visit[admVisit'[a]] \notin {"cancelled", "denied"}
<1> USE DEF bookings, admitted
<1>1. ASSUME NEW r \in Requests, OfficeMove(r)
      PROVE  /\ \A v \in Visits : visit[v] \in Terminal
              => visit'[v] = visit[v] \/ Overruled(v)'
             /\ record' = record
  BY <1>1, OfficeEffects, OverrideEffects
     DEF OfficeEffect, OfficeMove, Undisputed
<1>2. CASE \/ Tick \/ UNCHANGED vars
           \/ \E v \in Visits : \/ WatchlistAdd(v) \/ WatchlistRemove(v)
                                \/ ResolveOverstay(v)
           \/ \E i \in Invitations : RevokeInvitation(i)
  BY <1>2 DEF Tick, vars, WatchlistAdd, WatchlistRemove, ResolveOverstay,
              RevokeInvitation
<1> QED
  BY <1>1, <1>2, DeskStatuses
     DEF Next, DeskNext, Clients, StoreAssumption, OfficeMove, lifeVars

(* Cancelled, denied and checked-out visits stay what they are, one request *)
(* at a time: what the user guide calls terminal states, until a page that  *)
(* does not offer it overrules one.                                         *)
THEOREM SerialTerminalStays ==
  ASSUME Serial
  PROVE  Spec => TerminalStays
<1>1. SerialInv /\ [Next]_lifeVars =>
        [\A v \in Visits : visit[v] \in Terminal
              => visit'[v] = visit[v] \/ Overruled(v)']_lifeVars
  BY NextStatuses, StoreAssumption
<1> QED BY <1>1, SerialInvariant, PTL DEF Spec, TerminalStays

(* completeCheckIn admits nobody for a visit that is cancelled or denied at *)
(* that moment, one request at a time.                                      *)
THEOREM SerialNoEntryWhenClosed ==
  ASSUME Serial
  PROVE  Spec => NoEntryWhenClosed
<1>1. SerialInv /\ [Next]_lifeVars =>
        [\A a \in Admissions : record[a] = "none" /\ record'[a] = "open"
           => visit[admVisit'[a]] \notin {"cancelled", "denied"}]_lifeVars
  BY NextStatuses, StoreAssumption
<1> QED BY <1>1, SerialInvariant, PTL DEF Spec, NoEntryWhenClosed
=============================================================================
