------------------------------ MODULE Scheduling ------------------------------
(***************************************************************************)
(* Bookings against the calendar: each of createVisit, approveVisit and    *)
(* updateVisit looks for clashes in one statement and writes in a later    *)
(* one.                                                                    *)
(***************************************************************************)
EXTENDS Integers

CONSTANTS
  Bookings,              \* ids of visit rows
  Hosts, Rooms, People,  \* officers, offices, visitors
  NoRoom,
  RoomOf,                \* the office of each officer, or NoRoom
  MaxTime,               \* bound: times are 0..MaxTime
  Requests               \* slots for requests served at the same time

ASSUME SchedulingAssumption ==
  RoomOf \in [Hosts -> Rooms \cup {NoRoom}] /\ MaxTime \in Nat

VARIABLES
  status,  \* of each booking
  about,   \* host, room, person and times of each booking
  req      \* what each request slot is doing

vars == <<status, about, req>>

Times   == 0..MaxTime
Spans   == [from : Times, to : Times]
Windows == {w \in Spans : w.from < w.to}

(* "editable" stands for approved and invitation_sent, "arriving" for       *)
(* pre_registered and checked_in, "closed" for denied, cancelled and        *)
(* checked_out.                                                             *)
Status    == {"none", "pending", "editable", "arriving", "closed"}
SettledOnly == {"editable", "arriving"}
Occupying == {"pending", "editable", "arriving"}
Editable  == {"pending", "editable"}

Details == [host : Hosts, room : Rooms \cup {NoRoom}, person : People,
            window : Windows]
Unwritten == [person |-> "nobody"]

(* A request that has found no clash and will write.                        *)
Idle    == [step |-> "idle"]
Request == {Idle} \cup
  [step : {"insert"}, booking : Bookings, details : Details,
   first : {"pending", "editable"}] \cup
  [step : {"approve"}, booking : Bookings] \cup
  [step : {"move"}, booking : Bookings, window : Windows]

Init ==
  /\ status = [b \in Bookings |-> "none"]
  /\ about = [b \in Bookings |-> Unwritten]
  /\ req = [r \in Requests |-> Idle]

-----------------------------------------------------------------------------
(* findConflicts: half-open overlap, on the host, the room or the visitor.  *)
Overlap(v, w)   == v.from < w.to /\ v.to > w.from
SameHostOrPerson(d, e) == d.host = e.host \/ d.person = e.person
SharesDimension(d, e) ==
  \/ d.host = e.host
  \/ d.room = e.room /\ d.room # NoRoom
  \/ d.person = e.person
Clash(d, e) == SharesDimension(d, e) /\ Overlap(d.window, e.window)

Free(b, d) ==
  \A c \in Bookings \ {b} : status[c] \in Occupying => ~Clash(d, about[c])

(* createVisit: the room is the officer's, the category decides whether the *)
(* booking starts out pending.                                              *)
Create(r, b, h, p, w, first) ==
  LET d == [host |-> h, room |-> RoomOf[h], person |-> p, window |-> w]
  IN  /\ req[r] = Idle
      /\ w \in Windows
      /\ status[b] = "none"
      /\ \A q \in Requests :
           req[q].step = "insert" => req[q].booking # b   \* a new row's id
      /\ Free(b, d)
      /\ req' = [req EXCEPT ![r] = [step |-> "insert", booking |-> b,
                                    details |-> d, first |-> first]]
      /\ UNCHANGED <<status, about>>

Insert(r) ==
  /\ req[r].step = "insert"
  /\ status' = [status EXCEPT ![req[r].booking] = req[r].first]
  /\ about' = [about EXCEPT ![req[r].booking] = req[r].details]
  /\ req' = [req EXCEPT ![r] = Idle]

(* approveVisit.                                                            *)
Approve(r, b) ==
  /\ req[r] = Idle
  /\ status[b] = "pending"
  /\ Free(b, about[b])
  /\ req' = [req EXCEPT ![r] = [step |-> "approve", booking |-> b]]
  /\ UNCHANGED <<status, about>>

WriteApproval(r) ==
  /\ req[r].step = "approve"
  /\ status' = [status EXCEPT ![req[r].booking] = "editable"]
  /\ req' = [req EXCEPT ![r] = Idle]
  /\ UNCHANGED about

(* updateVisit: an end that is not given stays what it was read to be.      *)
Move(r, b, w) ==
  /\ req[r] = Idle
  /\ status[b] \in Editable
  /\ Free(b, [about[b] EXCEPT !.window = w])
  /\ req' = [req EXCEPT ![r] = [step |-> "move", booking |-> b, window |-> w]]
  /\ UNCHANGED <<status, about>>
Update(r, b, w) == w \in Windows /\ Move(r, b, w)

WriteMove(r) ==
  /\ req[r].step = "move"
  /\ about' = [about EXCEPT ![req[r].booking].window = req[r].window]
  /\ req' = [req EXCEPT ![r] = Idle]
  /\ UNCHANGED status

-----------------------------------------------------------------------------
(* What the other services do to the status, as far as the calendar sees it *)
Arrive(b) ==
  /\ status[b] = "editable"
  /\ status' = [status EXCEPT ![b] = "arriving"]
  /\ UNCHANGED <<about, req>>

Close(b) ==
  /\ status[b] \in Occupying
  /\ status' = [status EXCEPT ![b] = "closed"]
  /\ UNCHANGED <<about, req>>

Next ==
  \/ \E r \in Requests, b \in Bookings, h \in Hosts, p \in People,
        w \in Spans, first \in {"pending", "editable"} :
       Create(r, b, h, p, w, first)
  \/ \E r \in Requests, b \in Bookings : Approve(r, b)
  \/ \E r \in Requests, b \in Bookings, w \in Spans : Update(r, b, w)
  \/ \E r \in Requests : Insert(r) \/ WriteApproval(r) \/ WriteMove(r)
  \/ \E b \in Bookings : Arrive(b) \/ Close(b)

Spec == Init /\ [][Next]_vars

-----------------------------------------------------------------------------
TypeOK ==
  /\ status \in [Bookings -> Status]
  /\ about \in [Bookings -> Details \cup {Unwritten}]
  /\ \A b \in Bookings : status[b] # "none" => about[b] \in Details
  /\ req \in [Requests -> Request]

(* createVisit's "Block double-booking the officer, the room, or the        *)
(* visitor": at no time are two visits that occupy the calendar held by one *)
(* officer, in one room or by one visitor. Back to back is not at one time. *)
HeldAt(b, t) ==
  status[b] \in Occupying /\ about[b].window.from <= t /\ t < about[b].window.to
NoDoubleBooking ==
  \A b, c \in Bookings : \A t \in Times :
    b # c /\ HeldAt(b, t) /\ HeldAt(c, t) =>
      /\ about[b].host # about[c].host
      /\ about[b].person # about[c].person
      /\ about[b].room = about[c].room => about[b].room = NoRoom
=============================================================================
