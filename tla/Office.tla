------------------------------- MODULE Office -------------------------------
(***************************************************************************)
(* The host portal: booking, approval, refusal and cancellation of visits, *)
(* the invitation codes, and the visitor's own pre-registration.           *)
(***************************************************************************)
EXTENDS VisitStore

Bookable == Visits \ WalkIns

(* The category decides whether a booking waits for an approval.            *)
WantsApprovalUndated(v) == v \in NeedsOK /\ v \notin Dated
WantsApproval(v) == v \in NeedsOK

-----------------------------------------------------------------------------
(* createVisit, after its clash check: the row, then the invitation at once *)
(* unless the category wants an approval.                                   *)
Create(r, v) ==
  /\ At(r, "idle")
  /\ v \in Bookable /\ visit[v] = "none"
  /\ IF WantsApproval(v)
     THEN visit' = [visit EXCEPT ![v] = "pending_approval"] /\ UNCHANGED req
     ELSE /\ visit' = [visit EXCEPT ![v] = "approved"]
          /\ Begin(r, "supersede", v, NoInvitation)
  /\ UNCHANGED <<approved, prereg, watched, invites, admitted, overstay, door,
                 clock, aborts>>

(* approveVisit reads and checks the visit ...                              *)
ApprovableInTime(v) ==
  /\ visit[v] # "none"
  /\ v \in Dated => Departure[v] >= clock
ApprovableAgain(v) ==
  /\ visit[v] \in {"pending_approval", "denied"}
  /\ v \in Dated => Departure[v] >= clock
Approvable(v) ==
  /\ visit[v] = "pending_approval"
  /\ v \in Dated => Departure[v] >= clock

Approve(r, v) ==
  /\ At(r, "idle")
  /\ Approvable(v)
  /\ Begin(r, "approve", v, NoInvitation)
  /\ UNCHANGED <<bookings, invites, admitted, overstay, door, clock, aborts>>

(* ... and writes its decision later, then issues the invitation.           *)
WriteApproval(r) ==
  LET v == req[r].visit
  IN  /\ At(r, "approve")
      /\ visit' = [visit EXCEPT ![v] = "approved"]
      /\ approved' = approved \cup {v}
      /\ Goto(r, "supersede")
      /\ UNCHANGED <<prereg, watched, invites, admitted, overstay, door,
                     clock, aborts>>

(* denyVisit looks at no status before it writes: whichever visit exists.   *)
Deny(r, v) ==
  /\ At(r, "idle")
  /\ visit[v] # "none"
  /\ visit' = [visit EXCEPT ![v] = "denied"]
  /\ Begin(r, "findActive", v, NoInvitation)
  /\ UNCHANGED <<approved, prereg, watched, invites, admitted, overstay, door,
                 clock, aborts>>

(* cancelVisit refuses a visit that has begun, and writes later.            *)
Cancellable(v) == visit[v] \notin {"checked_in", "checked_out"}

Cancel(r, v) ==
  /\ At(r, "idle")
  /\ visit[v] # "none" /\ Cancellable(v)
  /\ Begin(r, "cancel", v, NoInvitation)
  /\ UNCHANGED <<bookings, invites, admitted, overstay, door, clock, aborts>>

WriteCancel(r) ==
  /\ At(r, "cancel")
  /\ visit' = [visit EXCEPT ![req[r].visit] = "cancelled"]
  /\ Goto(r, "findActive")
  /\ UNCHANGED <<approved, prereg, watched, invites, admitted, overstay, door,
                 clock, aborts>>

(* revokeActiveInvitations: list the active codes, then revoke each.        *)
UsedCodes(v) ==
  {i \in Invitations : invVisit[i] = v /\ invStatus[i] = "used"}
ActiveCodes(v) ==
  {i \in Invitations : invVisit[i] = v /\ invStatus[i] = "active"}

FindActive(r) ==
  /\ At(r, "findActive")
  /\ req' = [req EXCEPT ![r].step = "revoke",
                        ![r].todo = ActiveCodes(req[r].visit)]
  /\ UNCHANGED <<bookings, invites, admitted, overstay, door, clock, aborts>>

RevokeNext(r, i) ==
  /\ At(r, "revoke")
  /\ i \in req[r].todo
  /\ invStatus' = [invStatus EXCEPT ![i] = "revoked"]
  /\ req' = [req EXCEPT ![r].todo = @ \ {i}]
  /\ UNCHANGED <<bookings, invVisit, window, admitted, overstay, door, clock,
                 aborts>>

RevokeDone(r) ==
  /\ At(r, "revoke")
  /\ req[r].todo = {}
  /\ End(r)
  /\ UNCHANGED <<bookings, invites, admitted, overstay, door, clock, aborts>>

-----------------------------------------------------------------------------
(* issueInvitation, reached from creation, approval and resend: supersede   *)
(* the active codes, insert the new one, write to the visitor, and only     *)
(* then set the status of the visit, whatever it was and has become.        *)
Resend(r, v) ==
  /\ At(r, "idle")
  /\ visit[v] # "none"
  /\ Begin(r, "supersede", v, NoInvitation)
  /\ UNCHANGED <<bookings, invites, admitted, overstay, door, clock, aborts>>

Supersede(r) ==
  /\ At(r, "supersede")
  /\ invStatus' = [i \in Invitations |->
       IF i \in ActiveCodes(req[r].visit) THEN "superseded" ELSE invStatus[i]]
  /\ Goto(r, "issue")
  /\ UNCHANGED <<bookings, invVisit, window, admitted, overstay, door, clock,
                 aborts>>

Issue(r, i) ==
  LET v == req[r].visit
  IN  /\ At(r, "issue")
      /\ invStatus[i] = "none"
      /\ invStatus' = [invStatus EXCEPT ![i] = "active"]
      /\ invVisit' = [invVisit EXCEPT ![i] = v]
      /\ window' = [window EXCEPT ![i] = Window(v, clock)]
      /\ Goto(r, "sent")
      /\ UNCHANGED <<bookings, admitted, overstay, door, clock, aborts>>

Sent(r) ==
  /\ At(r, "sent")
  /\ visit' = [visit EXCEPT ![req[r].visit] = "invitation_sent"]
  /\ End(r)
  /\ UNCHANGED <<approved, prereg, watched, invites, admitted, overstay, door,
                 clock, aborts>>

-----------------------------------------------------------------------------
(* submitPreReg: any code of the visit opens the form while the visit is    *)
(* not closed; the status it read decides whether it writes one.            *)
Closed == {"cancelled", "denied", "checked_in", "checked_out"}

PreRegister(r, i) ==
  LET v == invVisit[i]
  IN  /\ At(r, "idle")
      /\ invStatus[i] # "none"
      /\ visit[v] \notin Closed
      /\ req' = [req EXCEPT ![r] =
                   [Idle EXCEPT !.step = "complete", !.visit = v, !.inv = i,
                     !.saw = (visit[v] \in {"approved", "invitation_sent"})]]
      /\ UNCHANGED <<bookings, invites, admitted, overstay, door, clock,
                     aborts>>

Complete(r) ==
  /\ At(r, "complete")
  /\ prereg' = prereg \cup {req[r].visit}
  /\ IF req[r].saw THEN Goto(r, "markPreReg") ELSE End(r)
  /\ UNCHANGED <<visit, approved, watched, invites, admitted, overstay, door,
                 clock, aborts>>

MarkPreReg(r) ==
  /\ At(r, "markPreReg")
  /\ visit' = [visit EXCEPT ![req[r].visit] = "pre_registered"]
  /\ End(r)
  /\ UNCHANGED <<approved, prereg, watched, invites, admitted, overstay, door,
                 clock, aborts>>

-----------------------------------------------------------------------------
(* Deny, Cancel and Resend begin in the module that composes the office.    *)
OfficeStart(r) ==
  \/ \E v \in Visits : Create(r, v) \/ Approve(r, v)
  \/ \E i \in Invitations : PreRegister(r, i)

OfficeStep(r) ==
  \/ WriteApproval(r) \/ WriteCancel(r)
  \/ FindActive(r) \/ RevokeDone(r)
  \/ \E i \in Invitations : RevokeNext(r, i) \/ Issue(r, i)
  \/ Supersede(r) \/ Sent(r)
  \/ Complete(r) \/ MarkPreReg(r)
=============================================================================
