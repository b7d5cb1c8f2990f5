--------------------------- MODULE VisitLifecycle ---------------------------
(***************************************************************************)
(* The whole life of a visit: the office and the desk over the same tables,*)
(* from an empty database.                                                 *)
(***************************************************************************)
EXTENDS Desk, Office

CONSTANT MaxOverrides  \* bound: kinds of requests no page offers
ASSUME LifeAssumption == MaxOverrides \in Nat

(* History, which no action reads: what was asked of the server for a visit *)
(* that no page showing its present status offers.  Such a request comes    *)
(* from a page older than the data, or from no page.                        *)
VARIABLE offPage

(* The statuses in which AppointmentDetail offers what the server then does *)
(* in any (deny, resend) or in every one that has not begun (cancel).       *)
OfferedIn == [deny   |-> {"pending_approval"},
              cancel |-> Awaited \cup {"pending_approval"},
              resend |-> Awaited]
Overrides == DOMAIN OfferedIn

Overruled(v) == \E op \in Overrides : <<op, v>> \in offPage
Undisputed == {v \in Visits : ~Overruled(v)}

Init ==
  /\ visit = [v \in Visits |-> "none"]
  /\ approved = {} /\ prereg = {} /\ watched = {}
  /\ invVisit = [i \in Invitations |-> NoVisit]
  /\ invStatus = [i \in Invitations |-> "none"]
  /\ window = [i \in Invitations |-> NoWindow]
  /\ admVisit = [a \in Admissions |-> NoVisit]
  /\ record = [a \in Admissions |-> "none"]
  /\ badge = [a \in Admissions |-> "none"]
  /\ access = [a \in Admissions |-> "none"]
  /\ validUntil = [a \in Admissions |-> 0]
  /\ overstay = [v \in Visits |-> 0]
  /\ door = {}
  /\ clock = 0 /\ aborts = 0
  /\ req = [r \in Requests |-> Idle]
  /\ offPage = {}

Asked(op, v) ==
  /\ offPage' = IF visit[v] \in OfferedIn[op] THEN offPage
                ELSE offPage \cup {<<op, v>>}
  /\ Cardinality(offPage') <= MaxOverrides

(* The three requests the server answers whatever the page offered.         *)
Override(r, v) ==
  \/ Deny(r, v) /\ Asked("deny", v)
  \/ Cancel(r, v) /\ Asked("cancel", v)
  \/ Resend(r, v) /\ Asked("resend", v)

Next ==
  \/ DeskNext /\ UNCHANGED offPage
  \/ \E r \in Clients : OfficeStart(r) /\ UNCHANGED offPage
  \/ \E r \in Clients : OfficeStep(r) /\ UNCHANGED offPage
  \/ \E r \in Clients, v \in Visits : Override(r, v)

lifeVars == <<vars, offPage>>

Spec == Init /\ [][Next]_lifeVars

-----------------------------------------------------------------------------
(* Re-issuing a code supersedes the one before: of the codes of a visit at  *)
(* most one admits (supersedeActive, resendInvitation).                     *)
OneActiveCode ==
  \A i, j \in Invitations :
    invStatus[i] = "active" /\ invStatus[j] = "active"
      /\ invVisit[i] = invVisit[j] => i = j

(* Nobody is admitted for a visit of a category that demands an approval    *)
(* unless approveVisit approved it, whatever codes were issued and by whom, *)
(* with one way round: resendInvitation, asked for a visit that no page     *)
(* offers it for, issues a code to a visit nobody has approved.             *)
AdmittedWasApproved ==
  \A a \in Admissions :
    record[a] # "none" /\ admVisit[a] \in NeedsOK
      => admVisit[a] \in approved \/ <<"resend", admVisit[a]>> \in offPage

(* Cancelled, denied and checked-out visits stay what they are, the user    *)
(* guide's "Terminal states", until somebody overrules one from a page that *)
(* shows another status: denyVisit, issueInvitation and cancelVisit would   *)
(* write over it.                                                           *)
Terminal == {"cancelled", "denied", "checked_out"}
TerminalStays ==
  [][\A v \in Visits :
       visit[v] \in Terminal => visit'[v] = visit[v] \/ Overruled(v)']_lifeVars

(* No admission of a visit that is cancelled or denied at that moment.      *)
NoEntryWhenClosed ==
  [][\A a \in Admissions :
       record[a] = "none" /\ record'[a] = "open"
         => visit[admVisit'[a]] \notin {"cancelled", "denied"}]_lifeVars

(* ... nor an admission of a guarded category without a completed           *)
(* pre-registration (the check-in's missing_prereg gate).                   *)
AdmittedWasPreRegistered ==
  \A a \in Admissions :
    record[a] # "none" /\ admVisit[a] \in Guarded => admVisit[a] \in prereg

(* The badge a check-out found and is about to take from the doors is dead  *)
(* in the database, its record closed, whatever the office does meanwhile.  *)
RevokedIsDead ==
  \A r \in Requests :
    At(r, "deactivate") => \A a \in req[r].held :
      record[a] = "closed" /\ badge[a] # "active" /\ access[a] # "active"

(* What the desk promises holds with an office that creates, decides,       *)
(* re-issues and pre-registers over the same rows, for every visit nobody   *)
(* has overruled: the muster list is complete, a visit is entered once and  *)
(* nothing of one that left is live; and nobody came in without the         *)
(* approval he needed.                                                      *)
DeskPromises ==
  /\ OnMuster(Undisputed) /\ EnteredOnce(Undisputed) /\ LiveOnSite(Undisputed)
  /\ AdmittedWasApproved

-----------------------------------------------------------------------------
(* Why these hold.  With any number of requests: nothing exists for a visit *)
(* that demands an approval, no code, no admission, no request that issues  *)
(* or redeems one, before it is approved or its code re-sent off the page,  *)
(* and approvals and completed forms are never taken back; what a check-out *)
(* holds is of its visit and has gone through the statements it has run.    *)
Founded(v) == v \in NeedsOK => v \in approved \/ <<"resend", v>> \in offPage

RowsFounded ==
  /\ \A v \in Visits : visit[v] \in Awaited => Founded(v)
  /\ \A i \in Invitations :
       invStatus[i] # "none" => invVisit[i] \in Visits /\ Founded(invVisit[i])
  /\ \A a \in Admissions :
       IF record[a] = "none"
       THEN admVisit[a] = NoVisit /\ badge[a] = "none" /\ access[a] = "none"
       ELSE /\ admVisit[a] \in Visits /\ Founded(admVisit[a])
            /\ admVisit[a] \in Guarded => admVisit[a] \in prereg

Redeeming == {"validate", "expire", "screen", "admit"}
Issuing   == {"supersede", "issue", "sent", "complete", "markPreReg"}

RequestFounded(q) ==
  /\ q.step \in HoldsVisit \cup OfficeSteps => q.visit \in Visits
  /\ q.step \in Redeeming \cup Issuing => Founded(q.visit)
  /\ q.step \in Redeeming
       => /\ q.inv \in Invitations /\ invStatus[q.inv] # "none"
          /\ invVisit[q.inv] = q.visit
  /\ q.step = "admit" /\ q.visit \in Guarded => q.visit \in prereg
  /\ q.step = "register" => q.visit \in WalkIns
  /\ q.step = "revoke"
       => \A i \in q.todo \cap Invitations : invStatus[i] # "none"

HeldFounded(q) ==
  /\ q.step = "findBadge" => q.held = {}
  /\ q.step \in CheckOutSteps => \A a \in q.held :
       /\ record[a] # "none" /\ admVisit[a] = q.visit
       /\ q.step # "closeRecords" => record[a] = "closed"
       /\ q.step \in {"disableAccess", "leave", "deactivate"}
            => badge[a] # "active"
       /\ q.step \in {"leave", "deactivate"} => access[a] # "active"

FoundedInv ==
  /\ TypeOK /\ offPage \subseteq Overrides \X Visits /\ RowsFounded
  /\ \A r \in Requests : RequestFounded(req[r]) /\ HeldFounded(req[r])

(* With one request at a time: besides, the status of a visit nobody has    *)
(* overruled is still what the request that works on it has read.           *)
StatusAsRead(q) ==
  LET s == visit[q.visit]
  IN  /\ q.step \in {"screen", "admit"} => s \in Awaited
      /\ q.step \in {"supersede", "issue", "sent"} /\ q.visit \in Undisputed
           => s \in Awaited
      /\ q.step = "approve" => s = "pending_approval"
      /\ q.step = "cancel" /\ q.visit \in Undisputed
           => s \in Awaited \cup {"pending_approval"}
      /\ q.step \in {"findActive", "revoke"} => s \in {"cancelled", "denied"}
      /\ q.step = "complete" /\ q.saw => s \in {"approved", "invitation_sent"}
      /\ q.step = "markPreReg" => s \in {"approved", "invitation_sent"}
      /\ q.step = "register" => s = "none"
      /\ q.step = "issue" => ActiveCodes(q.visit) = {}

SerialInv ==
  /\ DeskInv(Undisputed) /\ FoundedInv /\ OneActiveCode
  /\ \A r \in Requests : StatusAsRead(req[r])

=============================================================================
