-------------------------- MODULE ExclusionProofs --------------------------
(***************************************************************************)
(* What is held by one at a time: a host, a room or a visitor for a time   *)
(* (Scheduling), a device and a pairing code (Posts).                      *)
(***************************************************************************)
EXTENDS Scheduling, Posts, FiniteSetTheorems, TLAPS

(***************************************************************************)
(* Scheduling: with one request at a time no two bookings clash, whatever  *)
(* the hosts, rooms, visitors and times.                                   *)
(***************************************************************************)

(* Only a booking that exists is approved or moved.                         *)
Existing ==
  \A r \in Requests :
    req[r].step \in {"approve", "move"} => status[req[r].booking] # "none"

TypeInv == TypeOK /\ Existing

(* What a request in flight will write is still free.                       *)
InsertFree ==
  \A r \in Requests : req[r].step = "insert" =>
    status[req[r].booking] = "none" /\ Free(req[r].booking, req[r].details)
ApproveFree ==
  \A r \in Requests : req[r].step = "approve" =>
    Free(req[r].booking, about[req[r].booking])
MoveFree ==
  \A r \in Requests : req[r].step = "move" =>
    Free(req[r].booking,
         [about[req[r].booking] EXCEPT !.window = req[r].window])

(* No two rows findConflicts would report to each other.                    *)
NoClash ==
  \A b, c \in Bookings :
    b # c /\ status[b] \in Occupying /\ status[c] \in Occupying
      => ~Clash(about[b], about[c])

SerialInv ==
  TypeInv /\ NoClash /\ InsertFree /\ ApproveFree /\ MoveFree

(* One request slot: no handler starts before the last has ended.           *)
Serial == \A r, s \in Requests : r = s

-----------------------------------------------------------------------------
LEMMA ClashSymmetric ==
  ASSUME NEW d \in Details, NEW e \in Details, Clash(d, e)
  PROVE  Clash(e, d)
BY DEF Clash, SharesDimension, Overlap, Details, Windows, Times

(* The three shapes a request has.                                          *)
LEMMA RequestShapes ==
  ASSUME NEW x \in Request
  PROVE  /\ x.step \in {"idle", "insert", "approve", "move"}
         /\ x.step = "insert" =>
              /\ x.booking \in Bookings
              /\ x.details \in Details
              /\ x.first \in {"pending", "editable"}
         /\ x.step = "approve" => x.booking \in Bookings
         /\ x.step = "move" => x.booking \in Bookings /\ x.window \in Windows
BY DEF Request, Idle

LEMMA RoomsAreRooms ==
  ASSUME NEW h \in Hosts, NEW p \in People, NEW w \in Windows
  PROVE  [host |-> h, room |-> RoomOf[h], person |-> p, window |-> w]
           \in Details
BY SchedulingAssumption DEF Details

LEMMA MovedDetails ==
  ASSUME NEW d \in Details, NEW w \in Windows
  PROVE  [d EXCEPT !.window = w] \in Details
BY DEF Details

-----------------------------------------------------------------------------
LEMMA TypeInit == Init => TypeInv
<1> SUFFICES ASSUME Init PROVE TypeInv
  OBVIOUS
<1>1. TypeOK
  BY DEF Init, TypeOK, Status, Request
<1>2. Existing
  BY DEF Init, Existing, Idle
<1> QED BY <1>1, <1>2 DEF TypeInv

LEMMA TypeStep == TypeInv /\ [Next]_vars => TypeInv'
<1> SUFFICES ASSUME TypeInv, [Next]_vars PROVE TypeInv'
  OBVIOUS
<1> USE DEF TypeInv
<1>1. ASSUME NEW r \in Requests, NEW b \in Bookings, NEW h \in Hosts,
             NEW p \in People, NEW w \in Spans,
             NEW first \in {"pending", "editable"},
             Create(r, b, h, p, w, first)
      PROVE TypeInv'
  <2> DEFINE d == [host |-> h, room |-> RoomOf[h], person |-> p, window |-> w]
  <2>1. d \in Details
    BY <1>1, RoomsAreRooms DEF Create
  <2> HIDE DEF d
  <2>2. req' = [req EXCEPT ![r] = [step |-> "insert", booking |-> b,
                                   details |-> d, first |-> first]]
    BY <1>1 DEF Create, d
  <2>3. UNCHANGED <<status, about>>
    BY <1>1 DEF Create
  <2>4. TypeOK'
    BY <2>1, <2>2, <2>3 DEF TypeOK, Request
  <2>5. Existing'
    BY <2>2, <2>3 DEF Existing, TypeOK
  <2> QED BY <2>4, <2>5
<1>2. ASSUME NEW r \in Requests, NEW b \in Bookings, Approve(r, b)
      PROVE TypeInv'
  <2>1. TypeOK'
    BY <1>2 DEF Approve, TypeOK, Request
  <2>2. Existing'
    BY <1>2 DEF Approve, Existing, TypeOK
  <2> QED BY <2>1, <2>2
<1>3. ASSUME NEW r \in Requests, NEW b \in Bookings, NEW w \in Spans,
             Update(r, b, w)
      PROVE TypeInv'
  <2>1. TypeOK'
    BY <1>3 DEF Update, Move, TypeOK, Request
  <2>2. Existing'
    BY <1>3 DEF Update, Move, Existing, TypeOK, Editable
  <2> QED BY <2>1, <2>2
<1>4. ASSUME NEW r \in Requests, Insert(r)
      PROVE TypeInv'
  <2>1. req[r] \in Request /\ req[r].step = "insert"
    BY <1>4 DEF Insert, TypeOK
  <2>2. /\ req[r].booking \in Bookings
        /\ req[r].details \in Details
        /\ req[r].first \in {"pending", "editable"}
    BY <2>1, RequestShapes
  <2>3. TypeOK'
    BY <1>4, <2>2 DEF Insert, TypeOK, Request, Status
  <2>4. Existing'
    BY <1>4, <2>2 DEF Insert, Existing, TypeOK, Idle
  <2> QED BY <2>3, <2>4
<1>5. ASSUME NEW r \in Requests, WriteApproval(r)
      PROVE TypeInv'
  <2>1. req[r] \in Request /\ req[r].step = "approve"
    BY <1>5 DEF WriteApproval, TypeOK
  <2>2. req[r].booking \in Bookings /\ status[req[r].booking] # "none"
    BY <2>1, RequestShapes DEF Existing
  <2>3. TypeOK'
    BY <1>5, <2>2 DEF WriteApproval, TypeOK, Request, Status
  <2>4. Existing'
    BY <1>5, <2>2 DEF WriteApproval, Existing, TypeOK, Idle
  <2> QED BY <2>3, <2>4
<1>6. ASSUME NEW r \in Requests, WriteMove(r)
      PROVE TypeInv'
  <2>1. req[r] \in Request /\ req[r].step = "move"
    BY <1>6 DEF WriteMove, TypeOK
  <2>2. /\ req[r].booking \in Bookings
        /\ req[r].window \in Windows
        /\ about[req[r].booking] \in Details
    BY <2>1, RequestShapes DEF Existing, TypeOK
  <2>3. [about[req[r].booking] EXCEPT !.window = req[r].window] \in Details
    BY <2>2, MovedDetails
  <2>4. TypeOK'
    BY <1>6, <2>2, <2>3 DEF WriteMove, TypeOK, Request
  <2>5. req' = [req EXCEPT ![r] = Idle] /\ UNCHANGED status
    BY <1>6 DEF WriteMove
  <2>6. Existing'
    BY <2>2, <2>5 DEF Existing, TypeOK, Idle
  <2> QED BY <2>4, <2>6
<1>7. ASSUME NEW b \in Bookings, Arrive(b) \/ Close(b)
      PROVE TypeInv'
  <2>1. TypeOK'
    BY <1>7 DEF Arrive, Close, TypeOK, Status, Occupying
  <2>2. \A s \in Requests : req[s].step \in {"approve", "move"} =>
          req[s].booking \in Bookings
    BY RequestShapes DEF TypeOK
  <2>3. /\ req' = req
        /\ \A c \in Bookings : status[c] # "none" => status'[c] # "none"
    BY <1>7 DEF Arrive, Close, TypeOK
  <2>4. Existing'
    BY <2>2, <2>3 DEF Existing
  <2> QED BY <2>1, <2>4
<1>8. CASE UNCHANGED vars
  BY <1>8 DEF vars, TypeOK, Existing
<1> QED BY <1>1, <1>2, <1>3, <1>4, <1>5, <1>6, <1>7, <1>8 DEF Next

(* The rows of the calendar keep their shape, and a booking that occupies   *)
(* it has its host, visitor and times, with requests in any order.          *)
THEOREM SchedulingTypeOK == Spec => []TypeOK
<1>1. TypeInv => TypeOK
  BY DEF TypeInv
<1> QED BY TypeInit, TypeStep, <1>1, PTL DEF Spec
-----------------------------------------------------------------------------
(* A booking that joins the calendar, or moves in it, where it is free.     *)
LEMMA JoinsFree ==
  ASSUME TypeOK, TypeOK', NoClash, NEW b \in Bookings,
         Free(b, about'[b]),
         \A c \in Bookings \ {b} :
           status'[c] = status[c] /\ about'[c] = about[c]
  PROVE  NoClash'
<1> SUFFICES ASSUME NEW x \in Bookings, NEW y \in Bookings, x # y,
                    status'[x] \in Occupying, status'[y] \in Occupying,
                    Clash(about'[x], about'[y])
             PROVE  FALSE
  BY DEF NoClash
<1>1. about'[x] \in Details /\ about'[y] \in Details
  BY DEF TypeOK, Occupying
<1>2. Clash(about'[y], about'[x])
  BY <1>1, ClashSymmetric
<1>3. CASE x = b
  BY <1>3 DEF Free
<1>4. CASE y = b
  BY <1>2, <1>4 DEF Free
<1>5. CASE x # b /\ y # b
  BY <1>5 DEF NoClash
<1> QED BY <1>3, <1>4, <1>5

LEMMA SerialInit == Init => SerialInv
<1> SUFFICES ASSUME Init PROVE SerialInv
  OBVIOUS
<1>1. NoClash
  BY DEF Init, NoClash, Occupying
<1>2. InsertFree /\ ApproveFree /\ MoveFree
  BY DEF Init, Idle, InsertFree, ApproveFree, MoveFree
<1> QED BY <1>1, <1>2, TypeInit DEF SerialInv

LEMMA SerialStep ==
  ASSUME Serial, SerialInv, [Next]_vars
  PROVE  SerialInv'
<1>0. TypeInv' /\ TypeOK /\ TypeOK'
  BY TypeStep DEF SerialInv, TypeInv
<1> USE DEF SerialInv
<1>1. ASSUME NEW r \in Requests, NEW b \in Bookings, NEW h \in Hosts,
             NEW p \in People, NEW w \in Spans,
             NEW first \in {"pending", "editable"},
             Create(r, b, h, p, w, first)
      PROVE SerialInv'
  <2> DEFINE d == [host |-> h, room |-> RoomOf[h], person |-> p, window |-> w]
  <2>1. /\ status[b] = "none"
        /\ Free(b, d)
        /\ req' = [req EXCEPT ![r] = [step |-> "insert", booking |-> b,
                                      details |-> d, first |-> first]]
        /\ UNCHANGED <<status, about>>
    BY <1>1 DEF Create
  <2> HIDE DEF d
  <2>2. req'[r] = [step |-> "insert", booking |-> b,
                   details |-> d, first |-> first]
    BY <2>1, <1>0 DEF TypeOK
  <2>3. \A s \in Requests : s = r
    BY DEF Serial
  <2>4. InsertFree'
    BY <2>1, <2>2, <2>3 DEF InsertFree, Free
  <2>5. ApproveFree' /\ MoveFree'
    BY <2>2, <2>3 DEF ApproveFree, MoveFree
  <2>6. NoClash'
    BY <2>1 DEF NoClash
  <2> QED BY <1>0, <2>4, <2>5, <2>6
<1>2. ASSUME NEW r \in Requests, NEW b \in Bookings, Approve(r, b)
      PROVE SerialInv'
  <2>1. /\ Free(b, about[b])
        /\ req' = [req EXCEPT ![r] = [step |-> "approve", booking |-> b]]
        /\ UNCHANGED <<status, about>>
    BY <1>2 DEF Approve
  <2>2. req'[r] = [step |-> "approve", booking |-> b]
    BY <2>1, <1>0 DEF TypeOK
  <2>3. \A s \in Requests : s = r
    BY DEF Serial
  <2>4. ApproveFree'
    BY <2>1, <2>2, <2>3 DEF ApproveFree, Free
  <2>5. InsertFree' /\ MoveFree'
    BY <2>2, <2>3 DEF InsertFree, MoveFree
  <2>6. NoClash'
    BY <2>1 DEF NoClash
  <2> QED BY <1>0, <2>4, <2>5, <2>6
<1>3. ASSUME NEW r \in Requests, NEW b \in Bookings, NEW w \in Spans,
             Update(r, b, w)
      PROVE SerialInv'
  <2>1. /\ Free(b, [about[b] EXCEPT !.window = w])
        /\ req' = [req EXCEPT ![r] = [step |-> "move", booking |-> b,
                                      window |-> w]]
        /\ UNCHANGED <<status, about>>
    BY <1>3 DEF Update, Move
  <2>2. req'[r] = [step |-> "move", booking |-> b, window |-> w]
    BY <2>1, <1>0 DEF TypeOK
  <2>3. \A s \in Requests : s = r
    BY DEF Serial
  <2>4. MoveFree'
    BY <2>1, <2>2, <2>3 DEF MoveFree, Free
  <2>5. InsertFree' /\ ApproveFree'
    BY <2>2, <2>3 DEF InsertFree, ApproveFree
  <2>6. NoClash'
    BY <2>1 DEF NoClash
  <2> QED BY <1>0, <2>4, <2>5, <2>6
<1>4. ASSUME NEW r \in Requests, Insert(r)
      PROVE SerialInv'
  <2> DEFINE b == req[r].booking
  <2>1. req[r] \in Request /\ req[r].step = "insert"
    BY <1>4, <1>0 DEF Insert, TypeOK
  <2>2. b \in Bookings /\ Free(b, req[r].details)
    BY <2>1, RequestShapes DEF InsertFree
  <2>3. /\ about'[b] = req[r].details
        /\ \A c \in Bookings \ {b} :
             status'[c] = status[c] /\ about'[c] = about[c]
        /\ req'[r].step = "idle"
    BY <1>4, <1>0, <2>2 DEF Insert, TypeOK, Idle
  <2> HIDE DEF b
  <2>4. NoClash'
    BY <1>0, <2>2, <2>3, JoinsFree
  <2>5. InsertFree' /\ ApproveFree' /\ MoveFree'
    BY <2>3 DEF Serial, InsertFree, ApproveFree, MoveFree
  <2> QED BY <1>0, <2>4, <2>5
<1>5. ASSUME NEW r \in Requests, WriteApproval(r)
      PROVE SerialInv'
  <2> DEFINE b == req[r].booking
  <2>1. req[r] \in Request /\ req[r].step = "approve"
    BY <1>5, <1>0 DEF WriteApproval, TypeOK
  <2>2. b \in Bookings /\ Free(b, about[b])
    BY <2>1, RequestShapes DEF ApproveFree
  <2>3. /\ about'[b] = about[b]
        /\ \A c \in Bookings \ {b} :
             status'[c] = status[c] /\ about'[c] = about[c]
        /\ req'[r].step = "idle"
    BY <1>5, <1>0, <2>2 DEF WriteApproval, TypeOK, Idle
  <2> HIDE DEF b
  <2>4. NoClash'
    BY <1>0, <2>2, <2>3, JoinsFree
  <2>5. InsertFree' /\ ApproveFree' /\ MoveFree'
    BY <2>3 DEF Serial, InsertFree, ApproveFree, MoveFree
  <2> QED BY <1>0, <2>4, <2>5
<1>6. ASSUME NEW r \in Requests, WriteMove(r)
      PROVE SerialInv'
  <2> DEFINE b == req[r].booking
             d == [about[b] EXCEPT !.window = req[r].window]
  <2>1. req[r] \in Request /\ req[r].step = "move"
    BY <1>6, <1>0 DEF WriteMove, TypeOK
  <2>2. b \in Bookings /\ Free(b, d)
    BY <2>1, RequestShapes DEF MoveFree
  <2>3. about'[b] = d
    BY <1>6, <1>0, <2>2 DEF WriteMove, TypeOK
  <2>4. /\ \A c \in Bookings \ {b} :
             status'[c] = status[c] /\ about'[c] = about[c]
        /\ req'[r].step = "idle"
    BY <1>6, <1>0, <2>2 DEF WriteMove, TypeOK, Idle
  <2> HIDE DEF b, d
  <2>5. NoClash'
    BY <1>0, <2>2, <2>3, <2>4, JoinsFree
  <2>6. InsertFree' /\ ApproveFree' /\ MoveFree'
    BY <2>4 DEF Serial, InsertFree, ApproveFree, MoveFree
  <2> QED BY <1>0, <2>5, <2>6
<1>7. ASSUME NEW b \in Bookings, Arrive(b) \/ Close(b)
      PROVE SerialInv'
  <2>1. /\ UNCHANGED <<about, req>>
        /\ status[b] \in Occupying
        /\ status' = [status EXCEPT ![b] = status'[b]]
    BY <1>7, <1>0 DEF Arrive, Close, TypeOK, Occupying
  <2>2. /\ \A c \in Bookings : status'[c] \in Occupying =>
             status[c] \in Occupying
        /\ \A c \in Bookings : status[c] = "none" => status'[c] = "none"
    BY <2>1, <1>0 DEF TypeOK, Occupying
  <2>3. NoClash'
    BY <2>1, <2>2 DEF NoClash
  <2>4. InsertFree'
    <3> SUFFICES ASSUME NEW s \in Requests, req[s].step = "insert"
                 PROVE  /\ status'[req[s].booking] = "none"
                        /\ Free(req[s].booking, req[s].details)'
      BY <2>1 DEF InsertFree
    <3>1. req[s].booking \in Bookings
      BY <1>0, RequestShapes DEF TypeOK
    <3>2. /\ status[req[s].booking] = "none"
          /\ Free(req[s].booking, req[s].details)
      BY DEF InsertFree
    <3>3. status'[req[s].booking] = "none"
      BY <3>1, <3>2, <2>2
    <3>4. Free(req[s].booking, req[s].details)'
      BY <3>1, <3>2, <2>1, <2>2 DEF Free
    <3> QED BY <3>3, <3>4
  <2>5. ApproveFree'
    <3> SUFFICES ASSUME NEW s \in Requests, req[s].step = "approve"
                 PROVE  Free(req[s].booking, about[req[s].booking])'
      BY <2>1 DEF ApproveFree
    <3>1. req[s].booking \in Bookings
      BY <1>0, RequestShapes DEF TypeOK
    <3> QED BY <3>1, <2>1, <2>2 DEF ApproveFree, Free
  <2>6. MoveFree'
    <3> SUFFICES ASSUME NEW s \in Requests, req[s].step = "move"
                 PROVE  Free(req[s].booking,
                             [about[req[s].booking] EXCEPT
                                !.window = req[s].window])'
      BY <2>1 DEF MoveFree
    <3>1. req[s].booking \in Bookings
      BY <1>0, RequestShapes DEF TypeOK
    <3> QED BY <3>1, <2>1, <2>2 DEF MoveFree, Free
  <2> QED BY <1>0, <2>3, <2>4, <2>5, <2>6
<1>8. CASE UNCHANGED vars
  BY <1>0, <1>8 DEF vars, NoClash, InsertFree, ApproveFree, MoveFree,
                    Free
<1> QED BY <1>1, <1>2, <1>3, <1>4, <1>5, <1>6, <1>7, <1>8 DEF Next

(* Windows that hold one moment overlap, so the query finds them.           *)
LEMMA ClashFreeIsSingle ==
  ASSUME TypeOK, NoClash
  PROVE  NoDoubleBooking
<1> SUFFICES ASSUME NEW b \in Bookings, NEW c \in Bookings, NEW t \in Times,
                    b # c, HeldAt(b, t), HeldAt(c, t)
             PROVE  ~SharesDimension(about[b], about[c])
  BY DEF NoDoubleBooking, SharesDimension
<1>1. about[b] \in Details /\ about[c] \in Details
  BY DEF TypeOK, HeldAt, Occupying
<1>2. Overlap(about[b].window, about[c].window)
  BY <1>1, SchedulingAssumption
  DEF Overlap, HeldAt, Details, Windows, Spans, Times
<1> QED BY <1>2 DEF NoClash, HeldAt, Clash

(* Checking for clashes before the write keeps the calendar free of double  *)
(* bookings as long as requests follow each other; CalendarRace shows that  *)
(* two at once are enough to lose it.                                       *)
THEOREM SerialNoDoubleBooking ==
  ASSUME Serial
  PROVE  Spec => []NoDoubleBooking
<1>1. Init => SerialInv
  BY SerialInit
<1>2. SerialInv /\ [Next]_vars => SerialInv'
  BY SerialStep
<1>3. SerialInv => NoDoubleBooking
  BY ClashFreeIsSingle DEF SerialInv, TypeInv
<1> QED BY <1>1, <1>2, <1>3, PTL DEF Spec

-----------------------------------------------------------------------------
(***************************************************************************)
(* Posts.  A request of a gate, as opposed to a redemption, and one whose  *)
(* answer the gate still waits for.                                        *)
(***************************************************************************)
Asked(c) == c.step # "redeem"
Awaited(c) == Asked(c) /\ c.heard

(* A gate that asks, or has asked, did so for a person.                     *)
SomeoneAsks ==
  /\ \A t \in Tablets : tablet[t].post = "due" => tablet[t].user # NoOne
  /\ \A c \in calls : Asked(c) => c.user # NoOne

(* The gate that waits is still for the person, the device and the screen   *)
(* it asked for, and it waits for one answer only.                          *)
GateWaits ==
  \A c \in calls : Awaited(c) =>
    /\ tablet[c.tablet].post = "pending"
    /\ tablet[c.tablet].user = c.user /\ c.user # NoOne
    /\ tablet[c.tablet].device = c.device
    /\ tablet[c.tablet].screen \in Screens
    /\ Permits(c.user, tablet[c.tablet].screen)
WaitsOnce ==
  \A c, e \in calls :
    Awaited(c) /\ Awaited(e) /\ c.tablet = e.tablet => c = e

GatesInv == PostsTypeOK /\ SomeoneAsks /\ GateWaits /\ WaitsOnce

(* The rest holds unless two sign-ins at one device overlap, each closing   *)
(* its rows before the other inserts, or two redemptions of one code, each  *)
(* finding it before the other clears it.  Nothing in the code keeps them   *)
(* apart; all else may overlap as it will.                                  *)
Unraced ==
  \A c, e \in calls :
    \/ Asked(c) /\ Asked(e) /\ c.device = e.device
    \/ ~Asked(c) /\ ~Asked(e) /\ c.code = e.code
    => c = e

(* A code that is on a device was minted, and is on no other device.        *)
CodesHeld ==
  /\ minted \subseteq Codes
  /\ \A d \in Devices : code[d] # NoCode => code[d] \in minted
  /\ \A d, e \in Devices : code[d] = code[e] /\ code[d] # NoCode => d = e

(* A code that was redeemed is on no device any more; one being redeemed is *)
(* on the device it was found on, or nowhere.                               *)
CodesSpent ==
  \A p \in paired :
    /\ p[1] \in minted /\ \A d \in Devices : code[d] # p[1]
    /\ \A c \in calls : c.step = "redeem" => c.code # p[1]
CodesFound ==
  \A c \in calls : c.step = "redeem" =>
    /\ c.code \in minted
    /\ \A d \in Devices : code[d] = c.code => d = c.device

(* Two tablets on one device are known to share it.                         *)
SharedKnown ==
  \A t, s \in Tablets :
    /\ t # s /\ tablet[t].device = tablet[s].device
    /\ tablet[t].device # NoDevice
    => tablet[t].device \in shared

(* While a sign-in at a device is in flight, no post of it is open, unless  *)
(* it is shared.                                                            *)
PostShut ==
  \A c \in calls, t \in Tablets :
    Asked(c) /\ tablet[t].post = "ok" /\ tablet[t].device = c.device
      => c.device \in shared

(* The rows of the device between the two statements, and after them.       *)
RowsClosed == \A c \in calls : c.step = "insert" => Rows(c.device) = {}
RowOpened ==
  \A c \in calls :
    c.step = "granted" /\ c.heard /\ c.device \notin shared =>
      \E i \in Rows(c.device) : sessions[i].user = c.user

CodesInv == CodesHeld /\ CodesSpent /\ CodesFound /\ CodeOnce
RowsInv ==
  /\ SharedKnown /\ PostShut /\ RowsClosed /\ RowOpened
  /\ OneOpenSession /\ PostIsStaffed
UnracedInv == GatesInv /\ CodesInv /\ RowsInv

(* One request slot, as the run has: no request starts before the last has  *)
(* been answered.                                                           *)
LoneCall == calls = {} \/ \E c \in Calls : calls = {c}

-----------------------------------------------------------------------------
(* The screen of a point that has one is a screen.                          *)
LEMMA RouteScreens ==
  ASSUME NEW u \in Users, NEW d, NEW p \in Landing(u, d)
  PROVE  Route(p) \in Screens /\ p \in Points
BY DEF Landing, LandingAnywhere

LEMMA AsksTypes ==
  ASSUME NEW u
  PROVE  /\ Asks(u) \in {"pending", "due"}
         /\ Asks(u) = "due" => u # NoOne
BY DEF Asks

(* What Unheard leaves of a request: all of it, but whether it is heard;    *)
(* and what is still awaited was left alone.                                *)
LEMMA UnheardCalls ==
  ASSUME NEW t, NEW rest \in SUBSET Calls, NEW e \in Unheard(t, rest)
  PROVE  /\ e \in Calls
         /\ Awaited(e) => e \in rest /\ e.tablet # t
         /\ \E c \in rest : /\ e.step = c.step /\ e.tablet = c.tablet
                            /\ e.code = c.code /\ e.device = c.device
                            /\ e.user = c.user /\ (e.heard => c.heard)
<1>1. PICK c \in rest :
        e = IF c.tablet = t /\ c.step # "redeem"
            THEN [c EXCEPT !.heard = FALSE] ELSE c
  BY DEF Unheard
<1>2. c \in Calls
  OBVIOUS
<1>3. /\ e.step = c.step /\ e.tablet = c.tablet /\ e.code = c.code
      /\ e.device = c.device /\ e.user = c.user /\ (e.heard => c.heard)
      /\ e \in Calls
  BY <1>1, <1>2 DEF Calls
<1>4. Awaited(e) => e = c /\ e.tablet # t
  BY <1>1, <1>2 DEF Calls, Awaited, Asked
<1>. QED
  BY <1>3, <1>4

(* A request moved on.                                                      *)
LEMMA ToCalls ==
  ASSUME PostsTypeOK, NEW c \in calls,
         NEW step \in {"close", "insert", "granted", "refused"}, To(c, step)
  PROVE  /\ calls' \subseteq Calls
         /\ \A e \in calls' : \/ e \in calls /\ e # c
                              \/ /\ e.step = step /\ e.tablet = c.tablet
                                 /\ e.code = c.code /\ e.device = c.device
                                 /\ e.user = c.user /\ e.heard = c.heard
                                 /\ e = [c EXCEPT !.step = step]
BY DEF To, PostsTypeOK, Calls

LEMMA SessionsWithout ==
  ASSUME PostsTypeOK, NEW rows
  PROVE  /\ Without(rows) \in
              [SessionIds -> [device : Devices, user : Users] \cup {NoSession}]
         /\ \A i \in SessionIds :
              Without(rows)[i] = IF i \in rows THEN NoSession ELSE sessions[i]
BY DEF PostsTypeOK, Without

-----------------------------------------------------------------------------
(* What gates promise of their tablets needs a new proof only where a step  *)
(* changes tablets or requests.                                             *)
LEMMA GatesKeep ==
  ASSUME GatesInv, UNCHANGED <<tablet, calls>>
  PROVE  SomeoneAsks' /\ GateWaits' /\ WaitsOnce'
BY DEF GatesInv, SomeoneAsks, GateWaits, WaitsOnce

(* A request that moves on is awaited as it was.                            *)
LEMMA GatesMoveOn ==
  ASSUME GatesInv, UNCHANGED tablet, NEW c \in calls, Asked(c),
         NEW step \in {"close", "insert", "granted", "refused"}, To(c, step)
  PROVE  SomeoneAsks' /\ GateWaits' /\ WaitsOnce' /\ calls' \subseteq Calls
<1>1. /\ calls' \subseteq Calls
      /\ \A e \in calls' : \/ e \in calls /\ e # c
                           \/ /\ e.step = step /\ e.tablet = c.tablet
                              /\ e.code = c.code /\ e.device = c.device
                              /\ e.user = c.user /\ e.heard = c.heard
                              /\ e = [c EXCEPT !.step = step]
  BY ToCalls DEF GatesInv
<1>2. GateWaits'
  <2>. SUFFICES ASSUME NEW e \in calls', Awaited(e)
                PROVE  /\ tablet[e.tablet].post = "pending"
                       /\ tablet[e.tablet].user = e.user /\ e.user # NoOne
                       /\ tablet[e.tablet].device = e.device
                       /\ tablet[e.tablet].screen \in Screens
                       /\ Permits(e.user, tablet[e.tablet].screen)
    BY DEF GateWaits
  <2>1. CASE e \in calls
    BY <2>1 DEF GatesInv, GateWaits
  <2>2. CASE e \notin calls
    <3>1. e.tablet = c.tablet /\ e.user = c.user /\ e.device = c.device
      BY <1>1, <2>2
    <3>2. Awaited(c)
      BY <1>1, <2>2 DEF Awaited
    <3>. QED
      BY <3>1, <3>2 DEF GatesInv, GateWaits
  <2>. QED
    BY <2>1, <2>2
<1>3. WaitsOnce'
  <2>. SUFFICES ASSUME NEW e \in calls', NEW f \in calls', Awaited(e), Awaited(f),
                       e.tablet = f.tablet
                PROVE  e = f
    BY DEF WaitsOnce
  <2>1. CASE e \in calls /\ e # c /\ f \in calls /\ f # c
    BY <2>1 DEF GatesInv, WaitsOnce
  <2>2. CASE e = [c EXCEPT !.step = step] /\ f = [c EXCEPT !.step = step]
    BY <2>2
  <2>3. CASE e \in calls /\ e # c /\ f.heard = c.heard /\ f.tablet = c.tablet
    BY <2>3 DEF GatesInv, WaitsOnce, Awaited
  <2>4. CASE f \in calls /\ f # c /\ e.heard = c.heard /\ e.tablet = c.tablet
    BY <2>4 DEF GatesInv, WaitsOnce, Awaited
  <2>. QED
    BY <1>1, <2>1, <2>2, <2>3, <2>4
<1>4. SomeoneAsks'
  BY <1>1 DEF GatesInv, SomeoneAsks, Asked
<1>. QED
  BY <1>1, <1>2, <1>3, <1>4

(* One tablet changes, and what it asked before is no longer awaited.       *)
LEMMA GatesRenew ==
  ASSUME GatesInv, NEW t \in Tablets, NEW rest \in SUBSET calls,
         calls' = Unheard(t, rest),
         \A s \in Tablets : s # t => tablet'[s] = tablet[s],
         tablet'[t].post = "due" => tablet'[t].user # NoOne
  PROVE  SomeoneAsks' /\ GateWaits' /\ WaitsOnce' /\ calls' \subseteq Calls
<1>1. calls \subseteq Calls
  BY DEF GatesInv, PostsTypeOK
<1>2. \A e \in calls' :
        e \in Calls /\ (Awaited(e) => e \in calls /\ e.tablet # t)
  BY <1>1, UnheardCalls
<1>3. \A e \in calls' : e.tablet \in Tablets
  BY <1>2 DEF Calls
<1>4. GateWaits'
  <2>. SUFFICES ASSUME NEW e \in calls', Awaited(e)
                PROVE  /\ tablet'[e.tablet].post = "pending"
                       /\ tablet'[e.tablet].user = e.user /\ e.user # NoOne
                       /\ tablet'[e.tablet].device = e.device
                       /\ tablet'[e.tablet].screen \in Screens
                       /\ Permits(e.user, tablet'[e.tablet].screen)
    BY DEF GateWaits
  <2>1. tablet'[e.tablet] = tablet[e.tablet] /\ e \in calls
    BY <1>2, <1>3
  <2>. QED
    BY <2>1 DEF GatesInv, GateWaits
<1>5. WaitsOnce'
  BY <1>2 DEF GatesInv, WaitsOnce
<1>6. SomeoneAsks'
  <2>1. \A s \in Tablets : tablet'[s].post = "due" => tablet'[s].user # NoOne
    BY DEF GatesInv, SomeoneAsks
  <2>2. \A e \in calls' : \E c \in calls : e.step = c.step /\ e.user = c.user
    BY <1>1, UnheardCalls
  <2>3. \A e \in calls' : Asked(e) => e.user # NoOne
    BY <2>2 DEF GatesInv, SomeoneAsks, Asked
  <2>. QED
    BY <2>1, <2>3 DEF SomeoneAsks
<1>. QED
  BY <1>2, <1>4, <1>5, <1>6

(* An answer is heard by the one gate that waits for it.                    *)
LEMMA GatesAnswer ==
  ASSUME GatesInv, NEW c \in calls, Asked(c), calls' = calls \ {c},
         \E post \in {"denied", "ok"} :
           tablet' = IF c.heard THEN [tablet EXCEPT ![c.tablet].post = post]
                     ELSE tablet
  PROVE  SomeoneAsks' /\ GateWaits' /\ WaitsOnce'
<1>1. PICK post \in {"denied", "ok"} :
        tablet' = IF c.heard THEN [tablet EXCEPT ![c.tablet].post = post]
                  ELSE tablet
  OBVIOUS
<1>2. /\ calls \subseteq Calls /\ c \in Calls /\ c.tablet \in Tablets
      /\ tablet \in [Tablets -> [device : Devices \cup {NoDevice},
           user : Users \cup {NoOne}, screen : Screens \cup {"home"},
           post : {"pending", "due", "ok", "denied"}]]
  BY DEF GatesInv, PostsTypeOK, Calls
<1>3. SomeoneAsks'
  BY <1>1, <1>2 DEF GatesInv, SomeoneAsks
<1>4. WaitsOnce'
  BY DEF GatesInv, WaitsOnce
<1>5. GateWaits'
  <2>. SUFFICES ASSUME NEW e \in calls', Awaited(e)
                PROVE  tablet'[e.tablet] = tablet[e.tablet]
    BY DEF GatesInv, GateWaits
  <2>1. e \in calls /\ e # c /\ e.tablet \in Tablets
    BY <1>2 DEF Calls
  <2>2. c.heard => e.tablet # c.tablet
    BY <2>1 DEF GatesInv, WaitsOnce, Awaited
  <2>. QED
    BY <1>1, <1>2, <2>1, <2>2
<1>. QED
  BY <1>3, <1>4, <1>5

-----------------------------------------------------------------------------
(* The steps of administration, which no gate hears of.                     *)
Administers ==
  \/ \E p \in Points : \/ SetPointActive(p)
                       \/ \E us \in SUBSET Users : SetPointAssignments(p, us)
  \/ \E d \in Devices :
       \/ SetDeviceActive(d) \/ CodeLapses(d)
       \/ \E p \in Points \cup {NoPoint} : Station(d, p)
       \/ \E c \in Codes : CreateDevicePairing(d, c)

LEMMA PostsInitGates ==
  ASSUME PostsAssumption, PostsInit
  PROVE  GatesInv
<1>1. PostsTypeOK
  BY DEF PostsAssumption, PostsInit, PostsTypeOK, Fresh
<1>2. SomeoneAsks /\ GateWaits /\ WaitsOnce
  BY DEF PostsInit, SomeoneAsks, GateWaits, WaitsOnce, Fresh
<1>. QED
  BY <1>1, <1>2 DEF GatesInv

LEMMA AdministersGates ==
  ASSUME GatesInv, Administers
  PROVE  GatesInv' /\ UNCHANGED <<tablet, calls, sessions, paired, shared>>
<1>1. UNCHANGED <<tablet, calls, sessions, paired, shared>>
  BY DEF Administers, SetPointActive, SetPointAssignments, SetDeviceActive,
         CodeLapses, Station, CreateDevicePairing, history
<1>2. /\ open' \in [Points -> BOOLEAN] /\ staff' \in [Points -> SUBSET Users]
      /\ live' \in [Devices -> BOOLEAN]
      /\ place' \in [Devices -> Points \cup {NoPoint}]
      /\ code' \in [Devices -> Codes \cup {NoCode}]
  <2>1. ASSUME NEW p \in Points, SetPointActive(p)
        PROVE  <1>2
    BY <2>1 DEF SetPointActive, GatesInv, PostsTypeOK
  <2>2. ASSUME NEW p \in Points, NEW us \in SUBSET Users, SetPointAssignments(p, us)
        PROVE  <1>2
    BY <2>2 DEF SetPointAssignments, GatesInv, PostsTypeOK
  <2>3. ASSUME NEW d \in Devices, SetDeviceActive(d)
        PROVE  <1>2
    BY <2>3 DEF SetDeviceActive, GatesInv, PostsTypeOK
  <2>4. ASSUME NEW d \in Devices, CodeLapses(d)
        PROVE  <1>2
    BY <2>4 DEF CodeLapses, GatesInv, PostsTypeOK, config
  <2>5. ASSUME NEW d \in Devices, NEW p \in Points \cup {NoPoint}, Station(d, p)
        PROVE  <1>2
    BY <2>5 DEF Station, GatesInv, PostsTypeOK
  <2>6. ASSUME NEW d \in Devices, NEW c \in Codes, CreateDevicePairing(d, c)
        PROVE  <1>2
    BY <2>6 DEF CreateDevicePairing, GatesInv, PostsTypeOK, config
  <2>. QED
    BY <2>1, <2>2, <2>3, <2>4, <2>5, <2>6 DEF Administers
<1>3. PostsTypeOK'
  BY <1>1, <1>2 DEF GatesInv, PostsTypeOK
<1>. QED
  BY <1>1, <1>3, GatesKeep DEF GatesInv

LEMMA RedeemGates ==
  ASSUME GatesInv, NEW t \in Tablets, NEW x \in Codes, Redeem(t, x)
  PROVE  GatesInv'
<1>1. PICK d \in Devices :
        calls' = calls \cup {[step |-> "redeem", tablet |-> t, code |-> x,
                              device |-> d, user |-> NoOne, heard |-> TRUE]}
  BY DEF Redeem
<1>2. UNCHANGED <<config, code, sessions, tablet>>
  BY DEF Redeem
<1>3. PostsTypeOK'
  <2>1. [step |-> "redeem", tablet |-> t, code |-> x, device |-> d,
         user |-> NoOne, heard |-> TRUE] \in Calls
    BY DEF Calls
  <2>2. calls' \subseteq Calls
    BY <1>1, <2>1 DEF GatesInv, PostsTypeOK
  <2>. QED
    BY <1>2, <2>2 DEF GatesInv, PostsTypeOK, config
<1>4. \A e \in calls' : Asked(e) => e \in calls
  BY <1>1 DEF Asked
<1>5. SomeoneAsks'
  BY <1>2, <1>4 DEF GatesInv, SomeoneAsks
<1>6. GateWaits' /\ WaitsOnce'
  BY <1>2, <1>4 DEF GatesInv, GateWaits, WaitsOnce, Awaited
<1>. QED
  BY <1>3, <1>5, <1>6 DEF GatesInv

LEMMA FinishRedeemGates ==
  ASSUME PostsAssumption, GatesInv, NEW c \in calls, FinishRedeem(c)
  PROVE  GatesInv'
<1>1. /\ calls \subseteq Calls /\ c \in Calls /\ c.tablet \in Tablets
      /\ c.device \in Devices
  BY DEF GatesInv, PostsTypeOK, Calls
<1>2. /\ tablet[c.tablet] \in [device : Devices \cup {NoDevice},
           user : Users \cup {NoOne}, screen : Screens \cup {"home"},
           post : {"pending", "due", "ok", "denied"}]
      /\ tablet' = [tablet EXCEPT ![c.tablet] = [@ EXCEPT
           !.device = c.device, !.post = Asks(tablet[c.tablet].user)]]
      /\ calls' = Unheard(c.tablet, calls \ {c})
      /\ UNCHANGED <<config, sessions>>
      /\ code' \in [Devices -> Codes \cup {NoCode}]
  BY <1>1 DEF FinishRedeem, GatesInv, PostsTypeOK, Cleared
<1>3. /\ tablet'[c.tablet] = [device |-> c.device, user |-> tablet[c.tablet].user,
           screen |-> tablet[c.tablet].screen,
           post |-> Asks(tablet[c.tablet].user)]
      /\ DOMAIN tablet' = Tablets
      /\ \A s \in Tablets : s # c.tablet => tablet'[s] = tablet[s]
  BY <1>1, <1>2 DEF GatesInv, PostsTypeOK
<1>4. tablet'[c.tablet].post = "due" => tablet'[c.tablet].user # NoOne
  BY <1>3, AsksTypes
<1>5. SomeoneAsks' /\ GateWaits' /\ WaitsOnce' /\ calls' \subseteq Calls
  <2>1. /\ calls' = Unheard(c.tablet, calls \ {c})
        /\ calls \ {c} \in SUBSET calls
    BY <1>2
  <2>. QED
    BY <1>1, <1>3, <1>4, <2>1, GatesRenew
<1>6. tablet' \in [Tablets -> [device : Devices \cup {NoDevice},
        user : Users \cup {NoOne}, screen : Screens \cup {"home"},
        post : {"pending", "due", "ok", "denied"}]]
  BY <1>1, <1>2, AsksTypes DEF GatesInv, PostsTypeOK
<1>7. \A t \in Tablets : tablet'[t].post = "ok" => tablet'[t].user # NoOne
  BY <1>3, AsksTypes DEF GatesInv, PostsTypeOK
<1>8. PostsTypeOK'
  BY <1>2, <1>5, <1>6, <1>7 DEF GatesInv, PostsTypeOK, config
<1>. QED
  BY <1>5, <1>8 DEF GatesInv

(* Signing in, opening a post and the end of a session change the user, the *)
(* screen and what the post shows, which is that nobody was let in yet.     *)
Renews(t) ==
  /\ calls' = Unheard(t, calls)
  /\ \E u \in Users \cup {NoOne}, s \in Screens \cup {"home"},
        post \in {"pending", "due"} :
       /\ post = "due" => u # NoOne
       /\ tablet' = [tablet EXCEPT ![t] = [@ EXCEPT !.user = u, !.screen = s,
                                                    !.post = post]]
  /\ UNCHANGED <<config, code, sessions, history, changes>>

LEMMA SignInRenews ==
  ASSUME PostsAssumption, GatesInv, NEW t \in Tablets, NEW u \in Users, SignIn(t, u)
  PROVE  Renews(t)
<1>1. PICK s \in IF tablet[t].screen # "home" THEN {tablet[t].screen}
                 ELSE IF Landing(u, tablet[t].device) = {} THEN {"home"}
                 ELSE {Route(p) : p \in Landing(u, tablet[t].device)} :
        tablet' = [tablet EXCEPT ![t] = [@ EXCEPT !.user = u, !.screen = s,
                                                  !.post = "due"]]
  BY DEF SignIn
<1>2. s \in Screens \cup {"home"}
  BY <1>1, RouteScreens DEF GatesInv, PostsTypeOK
<1>3. u # NoOne
  BY DEF PostsAssumption
<1>. QED
  BY <1>1, <1>2, <1>3 DEF SignIn, Renews

LEMMA OpenPostRenews ==
  ASSUME GatesInv, NEW t \in Tablets, NEW s \in Screens, OpenPost(t, s)
  PROVE  Renews(t)
<1>1. /\ tablet[t].user \in Users \cup {NoOne}
      /\ tablet' = [tablet EXCEPT ![t] = [@ EXCEPT
           !.user = tablet[t].user, !.screen = s, !.post = Asks(tablet[t].user)]]
  BY DEF OpenPost, GatesInv, PostsTypeOK
<1>. QED
  BY <1>1, AsksTypes DEF OpenPost, Renews

LEMMA SessionEndsRenews ==
  ASSUME GatesInv, NEW t \in Tablets, SessionEnds(t)
  PROVE  Renews(t)
<1>1. /\ tablet[t].screen \in Screens \cup {"home"}
      /\ tablet' = [tablet EXCEPT ![t] = [@ EXCEPT
           !.user = NoOne, !.screen = tablet[t].screen, !.post = "pending"]]
  BY DEF SessionEnds, GatesInv, PostsTypeOK
<1>. QED
  BY <1>1 DEF SessionEnds, Renews

LEMMA RenewsGates ==
  ASSUME GatesInv, NEW t \in Tablets, Renews(t)
  PROVE  /\ GatesInv'
         /\ tablet'[t].post \in {"pending", "due"}
         /\ tablet'[t].device = tablet[t].device
         /\ \A s \in Tablets : s # t => tablet'[s] = tablet[s]
<1>1. PICK u \in Users \cup {NoOne}, s \in Screens \cup {"home"},
           post \in {"pending", "due"} :
        /\ post = "due" => u # NoOne
        /\ tablet' = [tablet EXCEPT ![t] = [@ EXCEPT !.user = u, !.screen = s,
                                                     !.post = post]]
  BY DEF Renews
<1>2. tablet \in [Tablets -> [device : Devices \cup {NoDevice},
        user : Users \cup {NoOne}, screen : Screens \cup {"home"},
        post : {"pending", "due", "ok", "denied"}]]
  BY DEF GatesInv, PostsTypeOK
<1>3. /\ tablet'[t] = [device |-> tablet[t].device, user |-> u, screen |-> s,
                       post |-> post]
      /\ \A r \in Tablets : r # t => tablet'[r] = tablet[r]
  BY <1>1, <1>2
<1>4. tablet' \in [Tablets -> [device : Devices \cup {NoDevice},
        user : Users \cup {NoOne}, screen : Screens \cup {"home"},
        post : {"pending", "due", "ok", "denied"}]]
  BY <1>1, <1>2
<1>5. tablet'[t].post = "due" => tablet'[t].user # NoOne
  BY <1>1, <1>3
<1>6. calls' = Unheard(t, calls) /\ UNCHANGED <<config, code, sessions>>
  BY DEF Renews
<1>7. SomeoneAsks' /\ GateWaits' /\ WaitsOnce' /\ calls' \subseteq Calls
  BY <1>3, <1>5, <1>6, GatesRenew
<1>8. \A r \in Tablets : tablet'[r].post = "ok" => tablet'[r].user # NoOne
  BY <1>3 DEF GatesInv, PostsTypeOK
<1>9. PostsTypeOK'
  BY <1>4, <1>6, <1>7, <1>8 DEF GatesInv, PostsTypeOK, config
<1>. QED
  BY <1>3, <1>7, <1>9 DEF GatesInv

LEMMA AttemptGates ==
  ASSUME GatesInv, NEW t \in Tablets, Attempt(t)
  PROVE  GatesInv'
<1>1. /\ tablet[t] \in [device : Devices \cup {NoDevice},
           user : Users \cup {NoOne}, screen : Screens \cup {"home"},
           post : {"pending", "due", "ok", "denied"}]
      /\ tablet[t].post = "due" /\ tablet[t].user # NoOne
      /\ tablet[t].screen \in Screens /\ Permits(tablet[t].user, tablet[t].screen)
      /\ UNCHANGED <<config, code, sessions>>
  BY DEF Attempt, GatesInv, PostsTypeOK, SomeoneAsks
<1>2. \A e \in calls : Awaited(e) => e.tablet # t
  BY <1>1 DEF GatesInv, GateWaits
<1>3. \A e \in calls : e.tablet \in Tablets
  BY DEF GatesInv, PostsTypeOK, Calls
<1>4. CASE tablet[t].device = NoDevice
  <2>1. tablet' = [tablet EXCEPT ![t].post = "denied"] /\ UNCHANGED calls
    BY <1>4 DEF Attempt
  <2>2. PostsTypeOK'
    BY <1>1, <2>1 DEF GatesInv, PostsTypeOK, config
  <2>3. SomeoneAsks'
    BY <1>1, <2>1 DEF GatesInv, PostsTypeOK, SomeoneAsks
  <2>4. \A e \in calls : Awaited(e) => tablet'[e.tablet] = tablet[e.tablet]
    BY <1>2, <1>3, <2>1 DEF GatesInv, PostsTypeOK
  <2>5. GateWaits' /\ WaitsOnce'
    BY <2>1, <2>4 DEF GatesInv, GateWaits, WaitsOnce
  <2>. QED
    BY <2>2, <2>3, <2>5 DEF GatesInv
<1>5. CASE tablet[t].device # NoDevice
  <2>. DEFINE new == [step |-> "gate", tablet |-> t, code |-> NoCode,
         device |-> tablet[t].device, user |-> tablet[t].user, heard |-> TRUE]
  <2>1. tablet' = [tablet EXCEPT ![t].post = "pending"] /\ calls' = calls \cup {new}
    BY <1>5 DEF Attempt
  <2>2. new \in Calls
    BY <1>1, <1>5 DEF Calls
  <2>3. /\ new.tablet = t /\ new.user = tablet[t].user
        /\ new.device = tablet[t].device
    OBVIOUS
  <2>4. /\ tablet'[t].post = "pending" /\ tablet'[t].user = tablet[t].user
        /\ tablet'[t].device = tablet[t].device
        /\ tablet'[t].screen = tablet[t].screen
        /\ \A s \in Tablets : s # t => tablet'[s] = tablet[s]
    BY <1>1, <2>1 DEF GatesInv, PostsTypeOK
  <2>. HIDE DEF new
  <2>5. PostsTypeOK'
    <3>1. calls' \subseteq Calls
      BY <2>1, <2>2 DEF GatesInv, PostsTypeOK
    <3>2. tablet' \in [Tablets -> [device : Devices \cup {NoDevice},
            user : Users \cup {NoOne}, screen : Screens \cup {"home"},
            post : {"pending", "due", "ok", "denied"}]]
      BY <1>1, <2>1 DEF GatesInv, PostsTypeOK
    <3>3. \A s \in Tablets : tablet'[s].post = "ok" => tablet'[s].user # NoOne
      BY <2>4 DEF GatesInv, PostsTypeOK
    <3>. QED
      BY <1>1, <3>1, <3>2, <3>3 DEF GatesInv, PostsTypeOK, config
  <2>6. SomeoneAsks'
    BY <1>1, <2>1, <2>3, <2>4 DEF GatesInv, SomeoneAsks
  <2>7. \A e \in calls : Awaited(e) => tablet'[e.tablet] = tablet[e.tablet]
    BY <1>2, <1>3, <2>4
  <2>8. GateWaits'
    BY <1>1, <2>1, <2>3, <2>4, <2>7 DEF GatesInv, GateWaits
  <2>9. WaitsOnce'
    BY <1>2, <2>1, <2>3 DEF GatesInv, WaitsOnce
  <2>. QED
    BY <2>5, <2>6, <2>8, <2>9 DEF GatesInv
<1>. QED
  BY <1>4, <1>5

LEMMA GateGates ==
  ASSUME GatesInv, NEW c \in calls, Gate(c)
  PROVE  GatesInv'
<1>1. /\ Asked(c) /\ UNCHANGED <<config, code, sessions, tablet>>
      /\ \E step \in {"close", "insert", "granted", "refused"} : To(c, step)
  BY DEF Gate, Asked
<1>2. SomeoneAsks' /\ GateWaits' /\ WaitsOnce' /\ calls' \subseteq Calls
  BY <1>1, GatesMoveOn
<1>. QED
  BY <1>1, <1>2 DEF GatesInv, PostsTypeOK, config

LEMMA CloseOpenGates ==
  ASSUME GatesInv, NEW c \in calls, CloseOpen(c)
  PROVE  GatesInv'
<1>1. Asked(c) /\ UNCHANGED <<config, code, tablet>> /\ To(c, "insert")
  BY DEF CloseOpen, Asked
<1>2. SomeoneAsks' /\ GateWaits' /\ WaitsOnce' /\ calls' \subseteq Calls
  BY <1>1, GatesMoveOn
<1>3. sessions' \in [SessionIds -> [device : Devices, user : Users] \cup {NoSession}]
  BY SessionsWithout DEF CloseOpen, GatesInv
<1>. QED
  BY <1>1, <1>2, <1>3 DEF GatesInv, PostsTypeOK, config

LEMMA OpenDeviceSessionGates ==
  ASSUME GatesInv, NEW c \in calls, OpenDeviceSession(c)
  PROVE  GatesInv'
<1>1. Asked(c) /\ UNCHANGED <<config, code, tablet>> /\ To(c, "granted")
  BY DEF OpenDeviceSession, Asked
<1>2. SomeoneAsks' /\ GateWaits' /\ WaitsOnce' /\ calls' \subseteq Calls
  BY <1>1, GatesMoveOn
<1>3. c.device \in Devices /\ c.user \in Users
  BY <1>1 DEF GatesInv, PostsTypeOK, Calls, SomeoneAsks
<1>4. [device |-> c.device, user |-> c.user] \in [device : Devices, user : Users]
  BY <1>3
<1>5. sessions' \in [SessionIds -> [device : Devices, user : Users] \cup {NoSession}]
  BY <1>4 DEF OpenDeviceSession, Open, GatesInv, PostsTypeOK
<1>. QED
  BY <1>1, <1>2, <1>5 DEF GatesInv, PostsTypeOK, config

LEMMA AnswerGates ==
  ASSUME GatesInv, NEW c \in calls, Answer(c)
  PROVE  GatesInv'
<1>1. /\ Asked(c) /\ calls' = calls \ {c} /\ UNCHANGED <<config, code, sessions>>
  BY DEF Answer, Asked
<1>2. PICK post \in {"denied", "ok"} :
        tablet' = IF c.heard THEN [tablet EXCEPT ![c.tablet].post = post]
                  ELSE tablet
  BY DEF Answer
<1>3. SomeoneAsks' /\ GateWaits' /\ WaitsOnce'
  BY <1>1, <1>2, GatesAnswer
<1>4. c.heard => tablet[c.tablet].user # NoOne
  BY <1>1 DEF GatesInv, GateWaits, Awaited
<1>5. c.tablet \in Tablets
  BY DEF GatesInv, PostsTypeOK, Calls
<1>6. tablet' \in [Tablets -> [device : Devices \cup {NoDevice},
        user : Users \cup {NoOne}, screen : Screens \cup {"home"},
        post : {"pending", "due", "ok", "denied"}]]
  BY <1>2, <1>5 DEF GatesInv, PostsTypeOK
<1>7. \A t \in Tablets : tablet'[t].post = "ok" => tablet'[t].user # NoOne
  BY <1>2, <1>4, <1>5 DEF GatesInv, PostsTypeOK
<1>8. PostsTypeOK'
  BY <1>1, <1>6, <1>7 DEF GatesInv, PostsTypeOK, config
<1>. QED
  BY <1>3, <1>8 DEF GatesInv

(* Who can sign out is not waited for: the gate is not asking.              *)
LEMMA LogOutGates ==
  ASSUME GatesInv, NEW t \in Tablets, LogOut(t)
  PROVE  /\ GatesInv'
         /\ tablet'[t].post = "pending" /\ tablet'[t].device = tablet[t].device
         /\ \A s \in Tablets : s # t => tablet'[s] = tablet[s]
         /\ \A e \in calls : Awaited(e) => e.tablet # t
<1>1. PICK u \in {NoOne, tablet[t].user} :
        tablet' = [tablet EXCEPT ![t] = [@ EXCEPT !.user = u, !.post = "pending"]]
  BY DEF LogOut
<1>2. /\ tablet[t].screen \in Screens
      /\ tablet[t].post \in {"ok", "denied"}
           \/ ~Permits(tablet[t].user, tablet[t].screen)
      /\ UNCHANGED <<config, code, calls>>
  BY DEF LogOut
<1>3. \A e \in calls : Awaited(e) => e.tablet # t
  BY <1>2 DEF GatesInv, GateWaits
<1>4. tablet[t] \in [device : Devices \cup {NoDevice},
        user : Users \cup {NoOne}, screen : Screens \cup {"home"},
        post : {"pending", "due", "ok", "denied"}]
  BY DEF GatesInv, PostsTypeOK
<1>5. /\ tablet'[t].post = "pending" /\ tablet'[t].device = tablet[t].device
      /\ \A s \in Tablets : s # t => tablet'[s] = tablet[s]
      /\ tablet' \in [Tablets -> [device : Devices \cup {NoDevice},
           user : Users \cup {NoOne}, screen : Screens \cup {"home"},
           post : {"pending", "due", "ok", "denied"}]]
  BY <1>1, <1>4 DEF GatesInv, PostsTypeOK
<1>6. sessions' \in [SessionIds -> [device : Devices, user : Users] \cup {NoSession}]
  <2>1. sessions' = sessions
          \/ sessions' = Without(OwnRows(tablet[t].device, tablet[t].user))
    BY DEF LogOut
  <2>. QED
    BY <2>1, SessionsWithout DEF GatesInv, PostsTypeOK
<1>7. PostsTypeOK'
  BY <1>2, <1>5, <1>6 DEF GatesInv, PostsTypeOK, config
<1>8. SomeoneAsks' /\ WaitsOnce'
  BY <1>2, <1>5 DEF GatesInv, SomeoneAsks, WaitsOnce
<1>9. \A e \in calls : e.tablet \in Tablets
  BY DEF GatesInv, PostsTypeOK, Calls
<1>10. GateWaits'
  BY <1>2, <1>3, <1>5, <1>9 DEF GatesInv, GateWaits
<1>. QED
  BY <1>3, <1>5, <1>7, <1>8, <1>10 DEF GatesInv

-----------------------------------------------------------------------------
LEMMA GatesStep ==
  ASSUME PostsAssumption, GatesInv, [PostsNext]_posts
  PROVE  GatesInv'
<1>1. CASE Administers
  BY <1>1, AdministersGates
<1>2. ASSUME NEW t \in Tablets, NEW x \in Codes, Redeem(t, x)
      PROVE  GatesInv'
  BY <1>2, RedeemGates
<1>3. ASSUME NEW t \in Tablets, NEW u \in Users, SignIn(t, u)
      PROVE  GatesInv'
  BY <1>3, SignInRenews, RenewsGates
<1>4. ASSUME NEW t \in Tablets, NEW s \in Screens, OpenPost(t, s)
      PROVE  GatesInv'
  BY <1>4, OpenPostRenews, RenewsGates
<1>5. ASSUME NEW t \in Tablets, Attempt(t)
      PROVE  GatesInv'
  BY <1>5, AttemptGates
<1>6. ASSUME NEW t \in Tablets, LogOut(t)
      PROVE  GatesInv'
  BY <1>6, LogOutGates
<1>7. ASSUME NEW t \in Tablets, SessionEnds(t)
      PROVE  GatesInv'
  BY <1>7, SessionEndsRenews, RenewsGates
<1>8. ASSUME NEW c \in calls, FinishRedeem(c)
      PROVE  GatesInv'
  BY <1>8, FinishRedeemGates
<1>9. ASSUME NEW c \in calls, Gate(c)
      PROVE  GatesInv'
  BY <1>9, GateGates
<1>10. ASSUME NEW c \in calls, CloseOpen(c)
       PROVE  GatesInv'
  BY <1>10, CloseOpenGates
<1>11. ASSUME NEW c \in calls, OpenDeviceSession(c)
       PROVE  GatesInv'
  BY <1>11, OpenDeviceSessionGates
<1>12. ASSUME NEW c \in calls, Answer(c)
       PROVE  GatesInv'
  BY <1>12, AnswerGates
<1>13. CASE UNCHANGED posts
  BY <1>13, GatesKeep DEF posts, config, GatesInv, PostsTypeOK
<1>. QED
  BY <1>1, <1>2, <1>3, <1>4, <1>5, <1>6, <1>7, <1>8, <1>9, <1>10, <1>11,
     <1>12, <1>13 DEF PostsNext, Administers

(* The points a sign-in may land on at a device are those assertDeviceLogin *)
(* lets the person in at: the two read the same rows by the same rules.     *)
LEMMA LandingLetsIn == LandingAdmits
<1>. SUFFICES ASSUME NEW u \in Users, NEW d \in Devices,
                     live[d], place[d] # NoPoint, Landing(u, d) # {}
              PROVE  MayOperate(u, d) /\ Permits(u, Route(place[d]))
  BY DEF LandingAdmits
<1>1. d # NoDevice
  BY PostsAssumption
<1>2. place[d] \in LandingAnywhere(u, d)
  BY <1>1 DEF Landing
<1>. QED
  BY <1>2 DEF LandingAnywhere, MayOperate

(* However many sign-ins and redemptions are in flight, an answer that      *)
(* opens a post is for the person who is signed in there and for the device *)
(* and screen that person still has; and whoever is landed on a post is let *)
(* in.                                                                      *)
THEOREM GatesAlways == PostsSpec => [](GatesInv /\ LandingAdmits)
<1>1. PostsInit => GatesInv
  BY PostsAssumption, PostsInitGates
<1>2. GatesInv /\ [PostsNext]_posts => GatesInv'
  BY PostsAssumption, GatesStep
<1>3. LandingAdmits
  BY LandingLetsIn
<1>. QED
  BY <1>1, <1>2, <1>3, PTL DEF PostsSpec

-----------------------------------------------------------------------------
(* From here on the two races are left out.                                 *)
LEMMA CodesKeep ==
  ASSUME CodesInv, UNCHANGED <<code, minted, paired>>,
         \A e \in calls' : e.step = "redeem" =>
           \E c \in calls : c.step = "redeem" /\ c.code = e.code /\ c.device = e.device
  PROVE  CodesInv'
<1>1. CodesHeld' /\ CodeOnce'
  BY DEF CodesInv, CodesHeld, CodeOnce
<1>2. CodesSpent'
  BY DEF CodesInv, CodesSpent
<1>3. CodesFound'
  BY DEF CodesInv, CodesFound
<1>. QED
  BY <1>1, <1>2, <1>3 DEF CodesInv

LEMMA AdministersCodes ==
  ASSUME PostsAssumption, GatesInv, CodesInv, Administers
  PROVE  CodesInv'
<1>0. UNCHANGED <<calls, paired>>
  BY AdministersGates
<1>1. CASE UNCHANGED <<code, minted>>
  BY <1>0, <1>1, CodesKeep
<1>2. ASSUME NEW d \in Devices, CodeLapses(d)
      PROVE  CodesInv'
  <2>1. /\ minted' = minted /\ code'[d] = NoCode
        /\ \A e \in Devices : e # d => code'[e] = code[e]
    BY <1>2 DEF CodeLapses, history, GatesInv, PostsTypeOK
  <2>2. NoCode \notin minted
    BY DEF PostsAssumption, CodesInv, CodesHeld
  <2>3. CodesHeld' /\ CodeOnce'
    BY <1>0, <2>1 DEF CodesInv, CodesHeld, CodeOnce
  <2>4. CodesSpent' /\ CodesFound'
    BY <1>0, <2>1, <2>2 DEF CodesInv, CodesSpent, CodesFound
  <2>. QED
    BY <2>3, <2>4 DEF CodesInv
<1>3. ASSUME NEW d \in Devices, NEW c \in Codes, CreateDevicePairing(d, c)
      PROVE  CodesInv'
  <2>1. /\ c \notin minted /\ minted' = minted \cup {c} /\ code'[d] = c
        /\ \A e \in Devices : e # d => code'[e] = code[e]
    BY <1>3 DEF CreateDevicePairing, GatesInv, PostsTypeOK
  <2>2. CodesHeld' /\ CodeOnce'
    BY <1>0, <2>1 DEF CodesInv, CodesHeld, CodeOnce, PostsAssumption
  <2>3. CodesSpent' /\ CodesFound'
    BY <1>0, <2>1 DEF CodesInv, CodesSpent, CodesFound
  <2>. QED
    BY <2>2, <2>3 DEF CodesInv
<1>. QED
  BY <1>1, <1>2, <1>3 DEF Administers, SetPointActive, SetPointAssignments,
       SetDeviceActive, Station, history

(* A code is looked up: it is on this device alone, and was never redeemed. *)
LEMMA RedeemCodes ==
  ASSUME PostsAssumption, GatesInv, CodesInv,
         NEW t \in Tablets, NEW x \in Codes, Redeem(t, x)
  PROVE  /\ CodesInv' /\ UNCHANGED <<tablet, sessions, shared>>
         /\ \A e \in calls' : Asked(e) => e \in calls
<1>1. PICK d \in Devices :
        /\ code[d] = x
        /\ calls' = calls \cup {[step |-> "redeem", tablet |-> t, code |-> x,
                                 device |-> d, user |-> NoOne, heard |-> TRUE]}
  BY DEF Redeem
<1>2. UNCHANGED <<tablet, sessions, code, minted, paired, shared>>
  BY DEF Redeem, history
<1>3. PICK r : /\ calls' = calls \cup {r}
               /\ r.step = "redeem" /\ r.code = x /\ r.device = d
  <2>. DEFINE new == [step |-> "redeem", tablet |-> t, code |-> x,
                      device |-> d, user |-> NoOne, heard |-> TRUE]
  <2>1. new.step = "redeem" /\ new.code = x /\ new.device = d
    OBVIOUS
  <2>2. calls' = calls \cup {new}
    BY <1>1
  <2>. HIDE DEF new
  <2>. QED
    BY <2>1, <2>2
<1>4. x # NoCode
  BY DEF PostsAssumption
<1>5. CodesHeld' /\ CodeOnce'
  BY <1>2 DEF CodesInv, CodesHeld, CodeOnce
<1>6. CodesFound'
  BY <1>1, <1>2, <1>3, <1>4 DEF CodesInv, CodesHeld, CodesFound
<1>7. CodesSpent'
  BY <1>1, <1>2, <1>3 DEF CodesInv, CodesSpent
<1>. QED
  BY <1>2, <1>3, <1>5, <1>6, <1>7 DEF CodesInv, Asked

(* A code is cleared and spent: no other request was redeeming it.          *)
LEMMA FinishRedeemCodes ==
  ASSUME PostsAssumption, GatesInv, CodesInv, Unraced,
         NEW c \in calls, FinishRedeem(c)
  PROVE  CodesInv'
<1>1. /\ c.step = "redeem" /\ c.device \in Devices /\ minted' = minted
      /\ paired' = paired \cup {<<c.code, c.tablet>>}
      /\ code'[c.device] = NoCode
      /\ \A d \in Devices : d # c.device => code'[d] = code[d]
      /\ calls' = Unheard(c.tablet, calls \ {c})
  BY DEF FinishRedeem, Cleared, GatesInv, PostsTypeOK, Calls
<1>2. c.code \in minted /\ c.code # NoCode /\ NoCode \notin minted
  BY <1>1 DEF PostsAssumption, CodesInv, CodesHeld, CodesFound
<1>3. \A e \in calls' : e.step = "redeem" =>
        \E f \in calls : /\ f.step = "redeem" /\ f.code = e.code
                         /\ f.device = e.device /\ e.code # c.code
  <2>. SUFFICES ASSUME NEW e \in calls', e.step = "redeem"
                PROVE  \E f \in calls : /\ f.step = "redeem" /\ f.code = e.code
                                        /\ f.device = e.device /\ e.code # c.code
    OBVIOUS
  <2>1. calls \ {c} \in SUBSET Calls
    BY DEF GatesInv, PostsTypeOK
  <2>2. PICK f \in calls \ {c} : /\ e.step = f.step /\ e.code = f.code
                                 /\ e.device = f.device
    BY <1>1, <2>1, UnheardCalls
  <2>3. f.code # c.code
    BY <1>1, <2>2 DEF Unraced, Asked
  <2>. QED
    BY <2>2, <2>3
<1>4. CodesHeld'
  BY <1>1 DEF CodesInv, CodesHeld
<1>5. \A p \in paired : p[1] # c.code
  BY <1>1 DEF CodesInv, CodesSpent
<1>6. CodeOnce'
  BY <1>1, <1>5 DEF CodesInv, CodeOnce
<1>7. \A d \in Devices : code'[d] # c.code
  BY <1>1, <1>2 DEF CodesInv, CodesFound
<1>8. CodesSpent'
  <2>. SUFFICES ASSUME NEW p \in paired'
                PROVE  /\ p[1] \in minted' /\ \A d \in Devices : code'[d] # p[1]
                       /\ \A e \in calls' : e.step = "redeem" => e.code # p[1]
    BY DEF CodesSpent
  <2>1. CASE p \in paired
    <3>1. p[1] \in minted' /\ \A d \in Devices : code'[d] # p[1]
      BY <1>1, <1>2, <2>1 DEF CodesInv, CodesSpent
    <3>2. \A e \in calls' : e.step = "redeem" => e.code # p[1]
      BY <1>3, <2>1 DEF CodesInv, CodesSpent
    <3>. QED
      BY <3>1, <3>2
  <2>2. CASE p = <<c.code, c.tablet>>
    BY <1>1, <1>2, <1>3, <1>7, <2>2
  <2>. QED
    BY <1>1, <2>1, <2>2
<1>9. CodesFound'
  <2>. SUFFICES ASSUME NEW e \in calls', e.step = "redeem"
                PROVE  /\ e.code \in minted'
                       /\ \A d \in Devices : code'[d] = e.code => d = e.device
    BY DEF CodesFound
  <2>1. PICK f \in calls : /\ f.step = "redeem" /\ f.code = e.code
                           /\ f.device = e.device
    BY <1>3
  <2>. QED
    BY <1>1, <1>2, <2>1 DEF CodesInv, CodesFound
<1>. QED
  BY <1>4, <1>6, <1>8, <1>9 DEF CodesInv

-----------------------------------------------------------------------------
LEMMA RowsAreOfDevices ==
  ASSUME PostsTypeOK
  PROVE  \A d : Rows(d) # {} => d \in Devices
BY DEF PostsTypeOK, Open, Rows

(* Nothing about rows and posts is disturbed by a step that leaves the rows *)
(* alone, opens no post, and starts or forgets requests for posts that are  *)
(* shut.                                                                    *)
LEMMA RowsKeep ==
  ASSUME RowsInv, SharedKnown', sessions' = sessions, shared \subseteq shared',
         \A t \in Tablets : tablet'[t].post = "ok" => tablet'[t] = tablet[t],
         \A e \in calls' : Asked(e) =>
           \/ \E c \in calls : /\ c.step = e.step /\ c.device = e.device
                               /\ c.user = e.user /\ (e.heard => c.heard)
           \/ /\ e.step \notin {"insert", "granted"}
              /\ \A t \in Tablets :
                   tablet[t].post = "ok" /\ tablet[t].device = e.device
                     => e.device \in shared
  PROVE  RowsInv'
<1>1. \A d : Rows(d)' = Rows(d)
  BY DEF Rows, Open
<1>2. PostShut'
  <2>. SUFFICES ASSUME NEW e \in calls', NEW t \in Tablets, Asked(e),
                       tablet'[t].post = "ok", tablet'[t].device = e.device
                PROVE  e.device \in shared'
    BY DEF PostShut
  <2>1. tablet[t].post = "ok" /\ tablet[t].device = e.device
    OBVIOUS
  <2>2. ASSUME NEW c \in calls, c.step = e.step, c.device = e.device
        PROVE  e.device \in shared'
    BY <2>1, <2>2 DEF RowsInv, PostShut, Asked
  <2>. QED
    BY <2>1, <2>2
<1>3. OneOpenSession'
  BY <1>1 DEF RowsInv, OneOpenSession
<1>4. PostIsStaffed'
  BY <1>1 DEF RowsInv, PostIsStaffed
<1>5. RowsClosed'
  <2>. SUFFICES ASSUME NEW e \in calls', e.step = "insert"
                PROVE  Rows(e.device) = {}
    BY <1>1 DEF RowsClosed
  <2>. QED
    BY DEF RowsInv, RowsClosed, Asked
<1>6. RowOpened'
  <2>. SUFFICES ASSUME NEW e \in calls', e.step = "granted", e.heard,
                       e.device \notin shared
                PROVE  \E i \in Rows(e.device) : sessions[i].user = e.user
    BY <1>1 DEF RowOpened
  <2>1. PICK c \in calls : /\ c.step = "granted" /\ c.device = e.device
                           /\ c.user = e.user /\ c.heard
    BY DEF Asked
  <2>. QED
    BY <2>1 DEF RowsInv, RowOpened
<1>. QED
  BY <1>1, <1>2, <1>3, <1>4, <1>5, <1>6 DEF RowsInv

LEMMA SharedKeep ==
  ASSUME RowsInv, shared' = shared,
         \A t \in Tablets : tablet'[t].device = tablet[t].device
  PROVE  SharedKnown'
BY DEF RowsInv, SharedKnown

LEMMA RenewsRows ==
  ASSUME GatesInv, RowsInv, NEW t \in Tablets, Renews(t)
  PROVE  /\ RowsInv' /\ UNCHANGED <<code, minted, paired>>
         /\ \A e \in calls' : e.step = "redeem" =>
              \E c \in calls : /\ c.step = "redeem" /\ c.code = e.code
                               /\ c.device = e.device
<1>1. /\ calls' = Unheard(t, calls) /\ UNCHANGED <<code, sessions, history>>
      /\ tablet'[t].post \in {"pending", "due"}
      /\ \A s \in Tablets : /\ tablet'[s].device = tablet[s].device
                            /\ s # t => tablet'[s] = tablet[s]
  BY RenewsGates DEF Renews
<1>2. \A e \in calls' :
        \E c \in calls : /\ e.step = c.step /\ e.code = c.code
                         /\ e.device = c.device
                         /\ e.user = c.user /\ (e.heard => c.heard)
  BY <1>1, UnheardCalls DEF GatesInv, PostsTypeOK
<1>3. SharedKnown'
  BY <1>1, SharedKeep DEF history
<1>4. RowsInv'
  BY <1>1, <1>2, <1>3, RowsKeep DEF history
<1>. QED
  BY <1>1, <1>2, <1>4 DEF history

LEMMA AttemptRows ==
  ASSUME PostsAssumption, GatesInv, RowsInv, NEW t \in Tablets, Attempt(t)
  PROVE  /\ RowsInv' /\ UNCHANGED <<code, minted, paired>>
         /\ \A e \in calls' : e.step = "redeem" => e \in calls
<1>1. /\ UNCHANGED <<code, sessions, history>> /\ tablet[t].post = "due"
      /\ tablet[t] \in [device : Devices \cup {NoDevice},
           user : Users \cup {NoOne}, screen : Screens \cup {"home"},
           post : {"pending", "due", "ok", "denied"}]
  BY DEF Attempt, GatesInv, PostsTypeOK
<1>2. \E post \in {"denied", "pending"} : tablet' = [tablet EXCEPT ![t].post = post]
  BY DEF Attempt
<1>3. \A s \in Tablets :
        /\ tablet'[s].device = tablet[s].device
        /\ tablet'[s].post = "ok" => tablet'[s] = tablet[s]
  BY <1>1, <1>2 DEF GatesInv, PostsTypeOK
<1>4. \A e \in calls' : \/ e \in calls
                        \/ /\ e.step = "gate" /\ e.device = tablet[t].device
                           /\ tablet[t].device # NoDevice
  BY DEF Attempt
<1>5. SharedKnown'
  BY <1>1, <1>3, SharedKeep DEF history
<1>6. ASSUME NEW s \in Tablets, tablet[s].post = "ok",
             tablet[s].device = tablet[t].device, tablet[t].device # NoDevice
      PROVE  tablet[t].device \in shared
  BY <1>1, <1>6 DEF RowsInv, SharedKnown
<1>7. RowsInv'
  BY <1>1, <1>3, <1>4, <1>5, <1>6, RowsKeep DEF history
<1>. QED
  BY <1>1, <1>4, <1>7 DEF history

LEMMA GateRows ==
  ASSUME GatesInv, RowsInv, NEW c \in calls, Gate(c)
  PROVE  /\ RowsInv' /\ UNCHANGED <<code, minted, paired>>
         /\ \A e \in calls' : e.step = "redeem" => e \in calls
<1>1. /\ c.step = "gate" /\ UNCHANGED <<code, sessions, tablet, history>>
      /\ \E step \in {"close", "refused"} : To(c, step)
  BY DEF Gate
<1>2. \A e \in calls' : \/ e \in calls
                        \/ e.step \in {"close", "refused"} /\ e.device = c.device
  BY <1>1, ToCalls DEF GatesInv
<1>3. SharedKnown'
  BY <1>1, SharedKeep DEF history
<1>4. \A s \in Tablets : tablet[s].post = "ok" /\ tablet[s].device = c.device
                           => c.device \in shared
  BY <1>1 DEF RowsInv, PostShut, Asked
<1>5. RowsInv'
  BY <1>1, <1>2, <1>3, <1>4, RowsKeep DEF history
<1>. QED
  BY <1>1, <1>2, <1>5 DEF history

(* The rows of a device are closed for one who comes: no post of it is open *)
(* unless it is shared, and no one else's row was just opened.              *)
LEMMA CloseOpenRows ==
  ASSUME PostsAssumption, GatesInv, RowsInv, Unraced, NEW c \in calls, CloseOpen(c)
  PROVE  /\ RowsInv' /\ UNCHANGED <<code, minted, paired>>
         /\ \A e \in calls' : e.step = "redeem" => e \in calls
<1>1. /\ c.step = "close" /\ UNCHANGED <<code, tablet, history>> /\ To(c, "insert")
      /\ sessions' = Without(Rows(c.device))
  BY DEF CloseOpen, Superseded
<1>2. \A e \in calls' : \/ e \in calls /\ e # c
                        \/ e.step = "insert" /\ e.device = c.device
  BY <1>1, ToCalls DEF GatesInv
<1>3. \A i \in SessionIds :
        sessions'[i] = IF i \in Rows(c.device) THEN NoSession ELSE sessions[i]
  BY <1>1, SessionsWithout DEF GatesInv
<1>4. Rows(c.device)' = {}
  BY <1>3 DEF Rows, Open
<1>5. \A d : d # c.device => Rows(d)' = Rows(d)
             /\ \A i \in Rows(d) : sessions'[i] = sessions[i]
  BY <1>3 DEF Rows, Open
<1>6. SharedKnown'
  BY <1>1, SharedKeep DEF history
<1>7. PostShut'
  BY <1>1, <1>2 DEF RowsInv, PostShut, Asked, history
<1>8. RowsClosed'
  <2>. SUFFICES ASSUME NEW e \in calls', e.step = "insert"
                PROVE  Rows(e.device)' = {}
    BY DEF RowsClosed
  <2>1. CASE e.device = c.device
    BY <1>4, <2>1
  <2>2. CASE e.device # c.device
    BY <1>2, <1>5, <2>2 DEF RowsInv, RowsClosed
  <2>. QED
    BY <2>1, <2>2
<1>9. RowOpened'
  <2>. SUFFICES ASSUME NEW e \in calls', e.step = "granted", e.heard,
                       e.device \notin shared
                PROVE  \E i \in Rows(e.device)' : sessions'[i].user = e.user
    BY <1>1 DEF RowOpened, history
  <2>1. e \in calls /\ e # c
    BY <1>2
  <2>2. e.device # c.device
    BY <1>1, <2>1 DEF Unraced, Asked
  <2>3. PICK i \in Rows(e.device) : sessions[i].user = e.user
    BY <2>1 DEF RowsInv, RowOpened
  <2>. QED
    BY <1>5, <2>2, <2>3
<1>10. OneOpenSession'
  <2>. SUFFICES ASSUME NEW d \in Devices, NEW i \in Rows(d)', NEW j \in Rows(d)'
                PROVE  i = j
    BY DEF OneOpenSession
  <2>1. CASE d = c.device
    BY <1>4, <2>1
  <2>2. CASE d # c.device
    BY <1>5, <2>2 DEF RowsInv, OneOpenSession
  <2>. QED
    BY <2>1, <2>2
<1>11. PostIsStaffed'
  <2>. SUFFICES ASSUME NEW t \in Tablets, tablet[t].post = "ok",
                       tablet[t].device \notin shared
                PROVE  \E i \in Rows(tablet[t].device)' :
                         sessions'[i].user = tablet[t].user
    BY <1>1 DEF PostIsStaffed, history
  <2>1. PICK i \in Rows(tablet[t].device) : sessions[i].user = tablet[t].user
    BY DEF RowsInv, PostIsStaffed
  <2>2. tablet[t].device # c.device
    BY <1>1 DEF RowsInv, PostShut, Asked
  <2>. QED
    BY <1>1, <1>5, <2>1, <2>2
<1>. QED
  BY <1>1, <1>2, <1>6, <1>7, <1>8, <1>9, <1>10, <1>11 DEF RowsInv, history

(* The row goes where the device's rows were closed and no one else came.   *)
LEMMA OpenDeviceSessionRows ==
  ASSUME PostsAssumption, GatesInv, RowsInv, Unraced,
         NEW c \in calls, OpenDeviceSession(c)
  PROVE  /\ RowsInv' /\ UNCHANGED <<code, minted, paired>>
         /\ \A e \in calls' : e.step = "redeem" => e \in calls
<1>1. /\ c.step = "insert" /\ UNCHANGED <<code, tablet, history>> /\ To(c, "granted")
  BY DEF OpenDeviceSession
<1>2. \A e \in calls' : \/ e \in calls /\ e # c
                        \/ /\ e.step = "granted" /\ e.device = c.device
                           /\ e.user = c.user
  BY <1>1, ToCalls DEF GatesInv
<1>3. c.device \in Devices /\ c.user \in Users
  BY <1>1 DEF GatesInv, PostsTypeOK, SomeoneAsks, Asked, Calls
<1>4. PICK k \in SessionIds \ Open :
        sessions' = [sessions EXCEPT ![k] = [device |-> c.device, user |-> c.user]]
  BY DEF OpenDeviceSession
<1>5. /\ sessions'[k] = [device |-> c.device, user |-> c.user]
      /\ sessions[k] = NoSession /\ sessions'[k] # NoSession
      /\ \A i \in SessionIds : i # k => sessions'[i] = sessions[i]
  BY <1>3, <1>4 DEF PostsAssumption, GatesInv, PostsTypeOK, Open
<1>6. Rows(c.device) = {}
  BY <1>1 DEF RowsInv, RowsClosed
<1>7. Rows(c.device)' = {k} /\ sessions'[k].user = c.user
  <2>1. k \in Rows(c.device)'
    BY <1>5 DEF Rows, Open
  <2>2. \A i \in Rows(c.device)' : i # k => i \in Rows(c.device)
    BY <1>5 DEF Rows, Open
  <2>. QED
    BY <1>5, <1>6, <2>1, <2>2
<1>8. \A d : d # c.device => Rows(d)' = Rows(d)
             /\ \A i \in Rows(d) : sessions'[i] = sessions[i]
  BY <1>5 DEF Rows, Open
<1>9. SharedKnown'
  BY <1>1, SharedKeep DEF history
<1>10. PostShut'
  BY <1>1, <1>2 DEF RowsInv, PostShut, Asked, history
<1>11. RowsClosed'
  <2>. SUFFICES ASSUME NEW e \in calls', e.step = "insert"
                PROVE  Rows(e.device)' = {}
    BY DEF RowsClosed
  <2>1. e \in calls /\ e # c
    BY <1>2
  <2>2. e.device # c.device
    BY <1>1, <2>1 DEF Unraced, Asked
  <2>. QED
    BY <1>8, <2>1, <2>2 DEF RowsInv, RowsClosed
<1>12. RowOpened'
  <2>. SUFFICES ASSUME NEW e \in calls', e.step = "granted", e.heard,
                       e.device \notin shared
                PROVE  \E i \in Rows(e.device)' : sessions'[i].user = e.user
    BY <1>1 DEF RowOpened, history
  <2>1. CASE e \in calls /\ e # c
    <3>1. e.device # c.device
      BY <1>1, <2>1 DEF Unraced, Asked
    <3>2. PICK i \in Rows(e.device) : sessions[i].user = e.user
      BY <2>1 DEF RowsInv, RowOpened
    <3>. QED
      BY <1>8, <3>1, <3>2
  <2>2. CASE e.device = c.device /\ e.user = c.user
    BY <1>7, <2>2
  <2>. QED
    BY <1>2, <2>1, <2>2
<1>13. OneOpenSession'
  <2>. SUFFICES ASSUME NEW d \in Devices, NEW i \in Rows(d)', NEW j \in Rows(d)'
                PROVE  i = j
    BY DEF OneOpenSession
  <2>1. CASE d = c.device
    BY <1>7, <2>1
  <2>2. CASE d # c.device
    BY <1>8, <2>2 DEF RowsInv, OneOpenSession
  <2>. QED
    BY <2>1, <2>2
<1>14. PostIsStaffed'
  <2>. SUFFICES ASSUME NEW t \in Tablets, tablet[t].post = "ok",
                       tablet[t].device \notin shared
                PROVE  \E i \in Rows(tablet[t].device)' :
                         sessions'[i].user = tablet[t].user
    BY <1>1 DEF PostIsStaffed, history
  <2>1. PICK i \in Rows(tablet[t].device) : sessions[i].user = tablet[t].user
    BY DEF RowsInv, PostIsStaffed
  <2>2. tablet[t].device # c.device
    BY <1>6, <2>1
  <2>. QED
    BY <1>1, <1>8, <2>1, <2>2
<1>. QED
  BY <1>1, <1>2, <1>9, <1>10, <1>11, <1>12, <1>13, <1>14 DEF RowsInv, history

(* The answer that opens a post finds the row it was granted for.           *)
LEMMA AnswerRows ==
  ASSUME PostsAssumption, GatesInv, RowsInv, Unraced, NEW c \in calls, Answer(c)
  PROVE  /\ RowsInv' /\ UNCHANGED <<code, minted, paired>>
         /\ \A e \in calls' : e \in calls
<1>1. /\ Asked(c) /\ calls' = calls \ {c} /\ UNCHANGED <<code, sessions, history>>
  BY DEF Answer, Asked
<1>2. PICK post \in {"denied"} \cup (IF c.step = "granted" THEN {"ok"} ELSE {}) :
        tablet' = IF c.heard THEN [tablet EXCEPT ![c.tablet].post = post]
                  ELSE tablet
  BY DEF Answer
<1>3. /\ c.tablet \in Tablets
      /\ c.heard => /\ tablet[c.tablet].user = c.user
                    /\ tablet[c.tablet].device = c.device
      /\ tablet[c.tablet] \in [device : Devices \cup {NoDevice},
           user : Users \cup {NoOne}, screen : Screens \cup {"home"},
           post : {"pending", "due", "ok", "denied"}]
  BY <1>1 DEF GatesInv, PostsTypeOK, Calls, GateWaits, Awaited
<1>4. \A s \in Tablets : /\ tablet'[s].device = tablet[s].device
                         /\ tablet'[s].user = tablet[s].user
                         /\ s # c.tablet \/ ~c.heard => tablet'[s] = tablet[s]
  BY <1>2, <1>3 DEF GatesInv, PostsTypeOK
<1>5. \A d : Rows(d)' = Rows(d)
  BY <1>1 DEF Rows, Open
<1>6. SharedKnown'
  BY <1>1, <1>4, SharedKeep DEF history
<1>7. PostShut'
  <2>. SUFFICES ASSUME NEW e \in calls, e # c, NEW t \in Tablets, Asked(e),
                       tablet'[t].post = "ok", tablet'[t].device = e.device
                PROVE  e.device \in shared
    BY <1>1 DEF PostShut, history
  <2>1. e.device # c.device
    BY <1>1 DEF Unraced
  <2>2. t # c.tablet \/ ~c.heard
    BY <1>3, <1>4, <2>1
  <2>. QED
    BY <1>4, <2>2 DEF RowsInv, PostShut
<1>8. RowsClosed' /\ RowOpened'
  BY <1>1, <1>5 DEF RowsInv, RowsClosed, RowOpened, history
<1>9. OneOpenSession'
  BY <1>5 DEF RowsInv, OneOpenSession
<1>10. PostIsStaffed'
  <2>. SUFFICES ASSUME NEW t \in Tablets, tablet'[t].post = "ok",
                       tablet'[t].device \notin shared
                PROVE  \E i \in Rows(tablet[t].device) :
                         sessions[i].user = tablet[t].user
    BY <1>1, <1>4, <1>5 DEF PostIsStaffed, history
  <2>1. CASE tablet'[t] = tablet[t]
    BY <2>1 DEF RowsInv, PostIsStaffed
  <2>2. CASE tablet'[t] # tablet[t]
    <3>1. t = c.tablet /\ c.heard
      BY <1>4, <2>2
    <3>2. post = "ok"
      BY <1>2, <1>3, <3>1 DEF GatesInv, PostsTypeOK
    <3>3. c.step = "granted"
      BY <3>2
    <3>4. \E i \in Rows(c.device) : sessions[i].user = c.user
      BY <1>3, <1>4, <3>1, <3>3 DEF RowsInv, RowOpened
    <3>. QED
      BY <1>3, <3>1, <3>4
  <2>. QED
    BY <2>1, <2>2
<1>. QED
  BY <1>1, <1>6, <1>7, <1>8, <1>9, <1>10 DEF RowsInv, history

(* Who signs out closes the rows of a device whose post is shut from then   *)
(* on, or which is shared.                                                  *)
LEMMA LogOutRows ==
  ASSUME PostsAssumption, GatesInv, RowsInv, NEW t \in Tablets, LogOut(t)
  PROVE  RowsInv' /\ UNCHANGED <<calls, code, minted, paired>>
<1>1. /\ UNCHANGED <<code, calls, history>> /\ tablet'[t].post = "pending"
      /\ \A s \in Tablets : /\ tablet'[s].device = tablet[s].device
                            /\ s # t => tablet'[s] = tablet[s]
      /\ \A c \in calls : Awaited(c) => c.tablet # t
  BY LogOutGates DEF LogOut
<1>2. PICK own \in SUBSET Rows(tablet[t].device) : sessions' = Without(own)
  <2>1. sessions' = sessions
          \/ sessions' = Without(OwnRows(tablet[t].device, tablet[t].user))
    BY DEF LogOut
  <2>2. sessions = Without({})
    BY DEF Without, GatesInv, PostsTypeOK
  <2>3. OwnRows(tablet[t].device, tablet[t].user) \in SUBSET Rows(tablet[t].device)
    BY DEF OwnRows, RowsOfUser
  <2>. QED
    BY <2>1, <2>2, <2>3
<1>3. \A i \in SessionIds :
        sessions'[i] = IF i \in own THEN NoSession ELSE sessions[i]
  BY <1>2, SessionsWithout DEF GatesInv
<1>4. \A d : /\ Rows(d)' \subseteq Rows(d)
             /\ \A i \in Rows(d)' : sessions'[i] = sessions[i]
  BY <1>3 DEF Rows, Open
<1>5. \A d : d # tablet[t].device =>
        Rows(d)' = Rows(d) /\ \A i \in Rows(d) : sessions'[i] = sessions[i]
  BY <1>3 DEF Rows, Open
<1>6. SharedKnown'
  BY <1>1, SharedKeep DEF history
<1>7. PostShut'
  <2>. SUFFICES ASSUME NEW c \in calls, NEW s \in Tablets, Asked(c),
                       tablet'[s].post = "ok", tablet'[s].device = c.device
                PROVE  c.device \in shared
    BY <1>1 DEF PostShut, history
  <2>1. tablet'[s] = tablet[s]
    BY <1>1
  <2>. QED
    BY <2>1 DEF RowsInv, PostShut
<1>8. RowsClosed'
  <2>. SUFFICES ASSUME NEW c \in calls, c.step = "insert"
                PROVE  Rows(c.device)' = {}
    BY <1>1 DEF RowsClosed
  <2>. QED
    BY <1>4 DEF RowsInv, RowsClosed
<1>9. RowOpened'
  <2>. SUFFICES ASSUME NEW c \in calls, c.step = "granted", c.heard,
                       c.device \notin shared
                PROVE  \E i \in Rows(c.device)' : sessions'[i].user = c.user
    BY <1>1 DEF RowOpened, history
  <2>1. PICK i \in Rows(c.device) : sessions[i].user = c.user
    BY DEF RowsInv, RowOpened
  <2>2. Awaited(c) /\ c.tablet # t
    BY <1>1 DEF Asked, Awaited
  <2>3. /\ tablet[c.tablet].device = c.device /\ c.device \in Devices
        /\ c.tablet \in Tablets
    BY <2>2 DEF GatesInv, GateWaits, PostsTypeOK, Calls
  <2>4. tablet[t].device # c.device
    BY <2>2, <2>3 DEF RowsInv, SharedKnown, PostsAssumption
  <2>. QED
    BY <1>5, <2>1, <2>4
<1>10. OneOpenSession'
  BY <1>4 DEF RowsInv, OneOpenSession
<1>11. PostIsStaffed'
  <2>. SUFFICES ASSUME NEW s \in Tablets, tablet'[s].post = "ok",
                       tablet'[s].device \notin shared
                PROVE  \E i \in Rows(tablet[s].device)' :
                         sessions'[i].user = tablet'[s].user
    BY <1>1 DEF PostIsStaffed, history
  <2>1. s # t /\ tablet'[s] = tablet[s]
    BY <1>1
  <2>2. PICK i \in Rows(tablet[s].device) : sessions[i].user = tablet[s].user
    BY <2>1 DEF RowsInv, PostIsStaffed
  <2>3. tablet[s].device # NoDevice
    BY <2>2, RowsAreOfDevices DEF PostsAssumption, GatesInv
  <2>4. tablet[s].device # tablet[t].device
    BY <2>1, <2>3 DEF RowsInv, SharedKnown
  <2>. QED
    BY <1>5, <2>1, <2>2, <2>4
<1>. QED
  BY <1>1, <1>6, <1>7, <1>8, <1>9, <1>10, <1>11 DEF RowsInv, history

(* A tablet that is bound to a device shows a gate that starts afresh; what *)
(* was on its former device is nobody's open post any more.                 *)
LEMMA FinishRedeemRows ==
  ASSUME PostsAssumption, GatesInv, RowsInv, NEW c \in calls, FinishRedeem(c)
  PROVE  RowsInv'
<1>1. calls' = Unheard(c.tablet, calls \ {c}) /\ sessions' = sessions
  BY DEF FinishRedeem
<1>2. c.tablet \in Tablets /\ c.device \in Devices
  BY DEF GatesInv, PostsTypeOK, Calls
<1>3. /\ tablet'[c.tablet].device = c.device
      /\ tablet'[c.tablet].post = Asks(tablet[c.tablet].user)
      /\ \A s \in Tablets : s # c.tablet => tablet'[s] = tablet[s]
  BY <1>2 DEF FinishRedeem, GatesInv, PostsTypeOK
<1>4. /\ shared \subseteq shared'
      /\ \A s \in Tablets :
           s # c.tablet /\ tablet[s].device = c.device => c.device \in shared'
  BY DEF FinishRedeem
<1>5. SharedKnown'
  <2>. SUFFICES ASSUME NEW t \in Tablets, NEW s \in Tablets, t # s,
                       tablet'[t].device = tablet'[s].device,
                       tablet'[t].device # NoDevice
                PROVE  tablet'[t].device \in shared'
    BY DEF SharedKnown
  <2>1. CASE t = c.tablet
    BY <1>3, <1>4, <2>1
  <2>2. CASE s = c.tablet
    BY <1>3, <1>4, <2>2
  <2>3. CASE t # c.tablet /\ s # c.tablet
    BY <1>3, <1>4, <2>3 DEF RowsInv, SharedKnown
  <2>. QED
    BY <2>1, <2>2, <2>3
<1>6. \A t \in Tablets : tablet'[t].post = "ok" => tablet'[t] = tablet[t]
  BY <1>3, AsksTypes
<1>7. \A e \in calls' :
        \E f \in calls : /\ f.step = e.step /\ f.device = e.device
                         /\ f.user = e.user /\ (e.heard => f.heard)
  <2>1. calls \ {c} \in SUBSET Calls
    BY DEF GatesInv, PostsTypeOK
  <2>. QED
    BY <1>1, <2>1, UnheardCalls
<1>. QED
  BY <1>1, <1>4, <1>5, <1>6, <1>7, RowsKeep

-----------------------------------------------------------------------------
LEMMA PostsInitUnraced ==
  ASSUME PostsAssumption, PostsInit
  PROVE  UnracedInv
<1>1. GatesInv
  BY PostsInitGates
<1>2. CodesHeld /\ CodesSpent /\ CodesFound /\ CodeOnce
  BY DEF PostsInit, CodesHeld, CodesSpent, CodesFound, CodeOnce
<1>3. SharedKnown /\ PostShut /\ RowsClosed /\ RowOpened /\ PostIsStaffed
  BY DEF PostsInit, Fresh, SharedKnown, PostShut, RowsClosed, RowOpened, PostIsStaffed
<1>4. OneOpenSession
  BY DEF PostsInit, OneOpenSession, Rows, Open
<1>. QED
  BY <1>1, <1>2, <1>3, <1>4 DEF UnracedInv, CodesInv, RowsInv

LEMMA UnracedStep ==
  ASSUME PostsAssumption, UnracedInv, Unraced, [PostsNext]_posts
  PROVE  UnracedInv'
<1>0. GatesInv /\ CodesInv /\ RowsInv
  BY DEF UnracedInv
<1>. SUFFICES CodesInv' /\ RowsInv'
  BY <1>0, GatesStep DEF UnracedInv
<1>1. CASE Administers
  <2>1. UNCHANGED <<tablet, calls, sessions, paired, shared>>
    BY <1>0, <1>1, AdministersGates
  <2>2. RowsInv'
    BY <1>0, <2>1, RowsKeep, SharedKeep
  <2>. QED
    BY <1>0, <1>1, <2>2, AdministersCodes
<1>2. ASSUME NEW t \in Tablets, NEW x \in Codes, Redeem(t, x)
      PROVE  CodesInv' /\ RowsInv'
  <2>1. /\ CodesInv' /\ UNCHANGED <<tablet, sessions, shared>>
        /\ \A e \in calls' : Asked(e) => e \in calls
    BY <1>0, <1>2, RedeemCodes
  <2>. QED
    BY <1>0, <2>1, RowsKeep, SharedKeep
<1>3. ASSUME NEW t \in Tablets, Renews(t)
      PROVE  CodesInv' /\ RowsInv'
  BY <1>0, <1>3, RenewsRows, CodesKeep
<1>4. ASSUME NEW t \in Tablets, NEW u \in Users, SignIn(t, u)
      PROVE  CodesInv' /\ RowsInv'
  BY <1>0, <1>3, <1>4, SignInRenews
<1>5. ASSUME NEW t \in Tablets, NEW s \in Screens, OpenPost(t, s)
      PROVE  CodesInv' /\ RowsInv'
  BY <1>0, <1>3, <1>5, OpenPostRenews
<1>6. ASSUME NEW t \in Tablets, SessionEnds(t)
      PROVE  CodesInv' /\ RowsInv'
  BY <1>0, <1>3, <1>6, SessionEndsRenews
<1>7. ASSUME NEW t \in Tablets, Attempt(t)
      PROVE  CodesInv' /\ RowsInv'
  BY <1>0, <1>7, AttemptRows, CodesKeep
<1>8. ASSUME NEW t \in Tablets, LogOut(t)
      PROVE  CodesInv' /\ RowsInv'
  BY <1>0, <1>8, LogOutRows, CodesKeep
<1>9. ASSUME NEW c \in calls, FinishRedeem(c)
      PROVE  CodesInv' /\ RowsInv'
  BY <1>0, <1>9, FinishRedeemCodes, FinishRedeemRows
<1>10. ASSUME NEW c \in calls, Gate(c)
       PROVE  CodesInv' /\ RowsInv'
  BY <1>0, <1>10, GateRows, CodesKeep
<1>11. ASSUME NEW c \in calls, CloseOpen(c)
       PROVE  CodesInv' /\ RowsInv'
  BY <1>0, <1>11, CloseOpenRows, CodesKeep
<1>12. ASSUME NEW c \in calls, OpenDeviceSession(c)
       PROVE  CodesInv' /\ RowsInv'
  BY <1>0, <1>12, OpenDeviceSessionRows, CodesKeep
<1>13. ASSUME NEW c \in calls, Answer(c)
       PROVE  CodesInv' /\ RowsInv'
  BY <1>0, <1>13, AnswerRows, CodesKeep
<1>14. CASE UNCHANGED posts
  <2>1. UNCHANGED <<code, sessions, tablet, calls, minted, paired, shared>>
    BY <1>14 DEF posts, history
  <2>2. RowsInv'
    BY <1>0, <2>1, RowsKeep, SharedKeep
  <2>. QED
    BY <1>0, <2>1, <2>2, CodesKeep
<1>. QED
  BY <1>1, <1>2, <1>4, <1>5, <1>6, <1>7, <1>8, <1>9, <1>10, <1>11, <1>12,
     <1>13, <1>14 DEF PostsNext, Administers

-----------------------------------------------------------------------------
(* One request slot keeps everything apart, these two pairs too.            *)
LEMMA NoneInFlight ==
  ASSUME LoneCall, MaxCalls = 1, Cardinality(calls) < MaxCalls
  PROVE  calls = {}
BY FS_Singleton DEF LoneCall

LEMMA LoneMoves ==
  ASSUME PostsTypeOK, LoneCall, NEW c \in calls,
         NEW step \in {"close", "insert", "granted", "refused"}, To(c, step)
  PROVE  LoneCall'
<1>1. calls = {c} /\ c \in Calls
  BY DEF LoneCall, PostsTypeOK
<1>2. calls' = {[c EXCEPT !.step = step]}
  BY <1>1 DEF To
<1>3. [c EXCEPT !.step = step] \in Calls
  BY <1>1 DEF Calls
<1>. QED
  BY <1>2, <1>3 DEF LoneCall

LEMMA LoneUnheard ==
  ASSUME PostsTypeOK, LoneCall, NEW t, calls' = Unheard(t, calls)
  PROVE  LoneCall'
<1>1. CASE calls = {}
  BY <1>1 DEF Unheard, LoneCall
<1>2. ASSUME NEW c \in Calls, calls = {c}
      PROVE  LoneCall'
  <2>1. [c EXCEPT !.heard = FALSE] \in Calls
    BY DEF Calls
  <2>2. calls' = {IF c.tablet = t /\ c.step # "redeem"
                  THEN [c EXCEPT !.heard = FALSE] ELSE c}
    BY <1>2 DEF Unheard
  <2>. QED
    BY <2>1, <2>2 DEF LoneCall
<1>. QED
  BY <1>1, <1>2 DEF LoneCall

LEMMA LoneStep ==
  ASSUME PostsAssumption, MaxCalls = 1, GatesInv, LoneCall, [PostsNext]_posts
  PROVE  LoneCall'
<1>0. PostsTypeOK
  BY DEF GatesInv
<1>1. CASE Administers
  BY <1>1, AdministersGates DEF LoneCall
<1>2. CASE calls' \subseteq calls
  BY <1>2 DEF LoneCall
<1>3. ASSUME NEW c \in calls,
             NEW step \in {"close", "insert", "granted", "refused"}, To(c, step)
      PROVE  LoneCall'
  BY <1>0, <1>3, LoneMoves
<1>4. ASSUME NEW t, calls' = Unheard(t, calls)
      PROVE  LoneCall'
  BY <1>0, <1>4, LoneUnheard
<1>5. ASSUME calls = {}, NEW e, calls' = calls \cup {e}
      PROVE  LoneCall'
  <2>1. calls' \subseteq Calls /\ calls' = {e}
    BY <1>5, GatesStep DEF GatesInv, PostsTypeOK
  <2>. QED
    BY <2>1 DEF LoneCall
<1>6. ASSUME NEW t \in Tablets, NEW x \in Codes, Redeem(t, x)
      PROVE  LoneCall'
  <2>1. calls = {} /\ \E e : calls' = calls \cup {e}
    BY <1>6, NoneInFlight DEF Redeem
  <2>. QED
    BY <1>5, <2>1
<1>7. ASSUME NEW t \in Tablets, Attempt(t)
      PROVE  LoneCall'
  <2>1. \/ calls' = calls
        \/ calls = {} /\ \E e : calls' = calls \cup {e}
    BY <1>7, NoneInFlight DEF Attempt
  <2>. QED
    BY <1>2, <1>5, <2>1
<1>8. ASSUME NEW c \in calls, FinishRedeem(c)
      PROVE  LoneCall'
  BY <1>8 DEF FinishRedeem, Unheard, LoneCall
<1>9. ASSUME NEW c \in calls, Answer(c)
      PROVE  LoneCall'
  BY <1>2, <1>9 DEF Answer
<1>10. ASSUME NEW c \in calls, Gate(c) \/ CloseOpen(c) \/ OpenDeviceSession(c)
       PROVE  LoneCall'
  BY <1>3, <1>10 DEF Gate, CloseOpen, OpenDeviceSession
<1>11. ASSUME NEW t \in Tablets,
              \/ \E u \in Users : SignIn(t, u)
              \/ \E s \in Screens : OpenPost(t, s)
              \/ SessionEnds(t)
       PROVE  LoneCall'
  BY <1>4, <1>11 DEF SignIn, OpenPost, SessionEnds
<1>12. ASSUME NEW t \in Tablets, LogOut(t)
       PROVE  LoneCall'
  BY <1>2, <1>12 DEF LogOut
<1>13. CASE UNCHANGED posts
  BY <1>2, <1>13 DEF posts
<1>. QED
  BY <1>1, <1>6, <1>7, <1>8, <1>9, <1>10, <1>11, <1>12, <1>13
     DEF PostsNext, Administers

-----------------------------------------------------------------------------
(* However many requests are in flight, while no two sign-ins race for one  *)
(* device and no two redemptions for one code, one person at most is live   *)
(* at a device, a pairing code binds one tablet, and an open post whose     *)
(* device is on one tablet shows the person signed in there.                *)
THEOREM OnlyTwoRaces ==
  PostsSpec /\ []Unraced => [](PostsInv /\ PostIsStaffed)
<1>1. PostsInit => UnracedInv
  BY PostsAssumption, PostsInitUnraced
<1>2. UnracedInv /\ Unraced /\ [PostsNext]_posts => UnracedInv'
  BY PostsAssumption, UnracedStep
<1>3. UnracedInv => PostsInv /\ PostIsStaffed
  BY LandingLetsIn DEF UnracedInv, CodesInv, RowsInv, PostsInv, GatesInv
<1>. QED
  BY <1>1, <1>2, <1>3, PTL DEF PostsSpec

(* With one request slot nothing races.                                     *)
LEMMA OneSlotUnraced ==
  ASSUME MaxCalls = 1
  PROVE  PostsSpec => []Unraced
<1>1. PostsInit => GatesInv /\ LoneCall
  BY PostsAssumption, PostsInitGates DEF PostsInit, LoneCall
<1>2. GatesInv /\ LoneCall /\ [PostsNext]_posts => GatesInv' /\ LoneCall'
  BY PostsAssumption, GatesStep, LoneStep
<1>3. LoneCall => Unraced
  BY DEF LoneCall, Unraced
<1>. QED
  BY <1>1, <1>2, <1>3, PTL DEF PostsSpec

(* With one request at a time, nothing is held twice: a device has one row, *)
(* a code one tablet, and every landing lets in.                            *)
THEOREM OneAtADevice ==
  ASSUME MaxCalls = 1
  PROVE  PostsSpec => []PostsInv
BY OnlyTwoRaces, OneSlotUnraced, PTL

(* With one request at a time, the oversight list never misses who is at an *)
(* open post whose device is on one tablet.                                 *)
THEOREM OpenPostsAreStaffed ==
  ASSUME MaxCalls = 1
  PROVE  PostsSpec => []PostIsStaffed
BY OnlyTwoRaces, OneSlotUnraced, PTL
=============================================================================
