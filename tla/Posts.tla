------------------------------- MODULE Posts -------------------------------
(***************************************************************************)
(* Points, the devices stationed at them, the tablets paired to a device,  *)
(* and the staffing sessions that say who is at which post.                *)
(***************************************************************************)
EXTENDS Integers, FiniteSets, Roles

CONSTANTS
  Users, Points, Devices, Tablets, Codes,
  RolesOf,   \* the roles of a user
  Kind,      \* kind of a point
  SessionIds, \* ids of device_session rows
  NoOne, NoPoint, NoDevice, NoCode, NoSession,
  MaxCalls,   \* bound: sign-in and pairing requests in flight
  MaxChanges, \* bound: administrative changes
  FirstStaff, FirstPlace \* assignments and places to begin with

ASSUME PostsAssumption ==
  /\ NoOne \notin Users /\ NoPoint \notin Points
  /\ NoDevice \notin Devices /\ NoCode \notin Codes
  /\ RolesOf \in [Users -> SUBSET RoleNames]
  /\ Kind \in [Points -> {"reception", "security", "checkpoint", "exit", "other"}]
  /\ NoSession \notin [device : Devices, user : Users]
  /\ MaxCalls \in Nat /\ MaxChanges \in Nat
  /\ FirstStaff \in [Points -> SUBSET Users]
  /\ FirstPlace \in [Devices -> Points \cup {NoPoint}]

VARIABLES
  open, staff,         \* points: active, who is assigned
  live, place, code,   \* devices: active, point, pairing code
  sessions,            \* the device_session rows that are open
  tablet,              \* what each tablet is bound to and shows
  calls,               \* requests in flight
  minted, paired,      \* history: codes issued, who redeemed them
  shared,              \* history: devices that were on two tablets
  changes

config  == <<open, staff, live, place>>
history == <<minted, paired, shared>>
posts == <<config, code, sessions, tablet, calls, history, changes>>

(* Post screens, and the permission each one's PostGate asks for.           *)
Route(p) ==
  CASE Kind[p] = "reception" -> "front-desk"
    [] Kind[p] \in {"security", "checkpoint"} -> "checkpoint"
    [] Kind[p] = "exit" -> "check-out"
    [] OTHER -> "none"
Screens == {Route(p) : p \in Points} \ {"none"}
Needs == [s \in Screens |-> CASE s = "front-desk" -> <<"checkin", "process">>
                              [] s = "checkpoint" -> <<"checkin", "override">>
                              [] OTHER -> <<"checkin", "checkout">>]
Permits(u, s) == AnyRoleHasPermission(RolesOf[u], {Needs[s]})

(* resolveLandingPost: the points whose screen a sign-in may lead to.       *)
LandingAnywhere(u, d) ==
  {p \in Points : open[p] /\ u \in staff[p] /\ Route(p) \in Screens
                  /\ Permits(u, Route(p))}
Landing(u, d) ==
  IF d # NoDevice /\ live[d] /\ place[d] # NoPoint
  THEN LandingAnywhere(u, d) \cap {place[d]} ELSE LandingAnywhere(u, d)

(* assertDeviceLogin; administrators need no assignment.                    *)
MayOperate(u, d) ==
  /\ live[d] /\ place[d] # NoPoint /\ open[place[d]]
  /\ \/ AnyRoleHasPermission(RolesOf[u], {<<"config", "manage">>})
     \/ u \in staff[place[d]]

Open == {i \in SessionIds : sessions[i] # NoSession}
Rows(d) == {i \in Open : sessions[i].device = d}
Without(rows) ==
  [i \in SessionIds |-> IF i \in rows THEN NoSession ELSE sessions[i]]

Fresh == [device |-> NoDevice, user |-> NoOne, screen |-> "home",
          post |-> "pending"]
PostsInit ==
  /\ open = [p \in Points |-> TRUE] /\ staff = FirstStaff
  /\ live = [d \in Devices |-> TRUE]
  /\ place = FirstPlace
  /\ code = [d \in Devices |-> NoCode]
  /\ sessions = [i \in SessionIds |-> NoSession]
  /\ tablet = [t \in Tablets |-> Fresh] /\ calls = {}
  /\ minted = {} /\ paired = {} /\ shared = {} /\ changes = 0

-----------------------------------------------------------------------------
(* Administration: points, assignments, devices.                            *)
Change == changes < MaxChanges /\ changes' = changes + 1

SetPointActive(p) ==
  /\ Change /\ open' = [open EXCEPT ![p] = ~@]
  /\ UNCHANGED <<staff, live, place, code, sessions, tablet, calls, history>>

SetPointAssignments(p, us) ==
  /\ Change /\ us # staff[p] /\ staff' = [staff EXCEPT ![p] = us]
  /\ UNCHANGED <<open, live, place, code, sessions, tablet, calls, history>>

SetDeviceActive(d) ==
  /\ Change /\ live' = [live EXCEPT ![d] = ~@]
  /\ UNCHANGED <<open, staff, place, code, sessions, tablet, calls, history>>

Station(d, p) ==
  /\ Change /\ p # place[d] /\ place' = [place EXCEPT ![d] = p]
  /\ UNCHANGED <<open, staff, live, code, sessions, tablet, calls, history>>

-----------------------------------------------------------------------------
(* Pairing: an administrator mints a code, a tablet on its setup screen     *)
(* redeems it in two statements, whatever the row has become in between.    *)
CreateDevicePairing(d, c) ==
  /\ live[d] /\ c \notin minted
  /\ code' = [code EXCEPT ![d] = c] /\ minted' = minted \cup {c}
  /\ UNCHANGED <<config, sessions, tablet, calls, paired, shared, changes>>

CodeLapses(d) ==
  /\ code[d] # NoCode /\ code' = [code EXCEPT ![d] = NoCode]
  /\ UNCHANGED <<config, sessions, tablet, calls, history, changes>>

Redeem(t, c) ==
  /\ Cardinality(calls) < MaxCalls
  /\ \E d \in Devices :
       /\ code[d] = c /\ live[d]
       /\ calls' = calls \cup {[step |-> "redeem", tablet |-> t, code |-> c,
            device |-> d, user |-> NoOne, heard |-> TRUE]}
  /\ UNCHANGED <<config, code, sessions, tablet, history, changes>>

Cleared(d) == NoCode

(* The gate of a tablet is mounted anew: it will ask again, and answers to  *)
(* what it asked before are dropped.                                        *)
Unheard(t, rest) ==
  {IF c.tablet = t /\ c.step # "redeem" THEN [c EXCEPT !.heard = FALSE] ELSE c :
     c \in rest}
Asks(u) == IF u = NoOne THEN "pending" ELSE "due"

(* The answer binds the tablet; its gate starts afresh after setup.         *)
FinishRedeem(c) ==
  /\ c \in calls /\ c.step = "redeem"
  /\ code' = [code EXCEPT ![c.device] = Cleared(c.device)]
  /\ paired' = paired \cup {<<c.code, c.tablet>>}
  /\ tablet' = [tablet EXCEPT ![c.tablet] = [@ EXCEPT
       !.device = c.device, !.post = Asks(tablet[c.tablet].user)]]
  /\ shared' = IF \E t \in Tablets \ {c.tablet} : tablet[t].device = c.device
               THEN shared \cup {c.device} ELSE shared
  /\ calls' = Unheard(c.tablet, calls \ {c})
  /\ UNCHANGED <<config, sessions, minted, changes>>

-----------------------------------------------------------------------------
(* The one sign-in screen; it returns to the post that sent the user there, *)
(* or else to where the user is stationed.                                  *)
SignIn(t, u) ==
  /\ tablet[t].user = NoOne
  /\ \E s \in IF tablet[t].screen # "home" THEN {tablet[t].screen}
              ELSE IF Landing(u, tablet[t].device) = {} THEN {"home"}
              ELSE {Route(p) : p \in Landing(u, tablet[t].device)} :
       tablet' = [tablet EXCEPT ![t] = [@ EXCEPT !.user = u, !.screen = s,
                                                 !.post = "due"]]
  /\ calls' = Unheard(t, calls)
  /\ UNCHANGED <<config, code, sessions, history, changes>>

OpenPost(t, s) ==
  /\ tablet[t].screen # s
  /\ tablet' = [tablet EXCEPT ![t] = [@ EXCEPT !.screen = s,
                                               !.post = Asks(tablet[t].user)]]
  /\ calls' = Unheard(t, calls)
  /\ UNCHANGED <<config, code, sessions, history, changes>>

(* PostGate's effect: one request per user and device.                      *)
Attempt(t) ==
  LET w == tablet[t] IN
  /\ w.post = "due" /\ w.screen \in Screens /\ Permits(w.user, w.screen)
  /\ IF w.device = NoDevice
     THEN tablet' = [tablet EXCEPT ![t].post = "denied"] /\ UNCHANGED calls
     ELSE /\ Cardinality(calls) < MaxCalls
          /\ tablet' = [tablet EXCEPT ![t].post = "pending"]
          /\ calls' = calls \cup {[step |-> "gate", tablet |-> t, code |-> NoCode,
               device |-> w.device, user |-> w.user, heard |-> TRUE]}
  /\ UNCHANGED <<config, code, sessions, history, changes>>

To(c, step) == calls' = (calls \ {c}) \cup {[c EXCEPT !.step = step]}

Gate(c) ==
  /\ c \in calls /\ c.step = "gate"
  /\ To(c, IF MayOperate(c.user, c.device) THEN "close" ELSE "refused")
  /\ UNCHANGED <<config, code, sessions, tablet, history, changes>>

RowsOfUser(d, u) == {i \in Rows(d) : sessions[i].user = u}
Superseded(d, u) == Rows(d)

CloseOpen(c) ==
  /\ c \in calls /\ c.step = "close"
  /\ sessions' = Without(Superseded(c.device, c.user)) /\ To(c, "insert")
  /\ UNCHANGED <<config, code, tablet, history, changes>>

OpenDeviceSession(c) ==
  /\ c \in calls /\ c.step = "insert"
  /\ \E i \in SessionIds \ Open :
       sessions' = [sessions EXCEPT ![i] = [device |-> c.device, user |-> c.user]]
  /\ To(c, "granted")
  /\ UNCHANGED <<config, code, tablet, history, changes>>

(* An answer for a gate that is gone is dropped; a lost one denies.         *)
Answer(c) ==
  /\ c \in calls /\ c.step # "redeem" /\ calls' = calls \ {c}
  /\ \E post \in {"denied"} \cup (IF c.step = "granted" THEN {"ok"} ELSE {}) :
       tablet' = IF c.heard THEN [tablet EXCEPT ![c.tablet].post = post]
                 ELSE tablet
  /\ UNCHANGED <<config, code, sessions, history, changes>>

(* Sign-out closes the own session, if the call gets through, and forgets   *)
(* the user; the button is there unless the gate is still asking.           *)
RowsAnywhere(d, u) == {i \in Open : sessions[i].user = u}
OwnRows(d, u) == RowsOfUser(d, u)
LogOut(t) ==
  LET w == tablet[t] IN
  /\ w.user # NoOne /\ w.screen \in Screens
  /\ w.post \in {"ok", "denied"} \/ ~Permits(w.user, w.screen)
  /\ sessions' \in {sessions, Without(OwnRows(w.device, w.user))}
  /\ \E u \in {NoOne, w.user} :   \* signOut itself may fail
       tablet' = [tablet EXCEPT ![t] = [@ EXCEPT !.user = u, !.post = "pending"]]
  /\ UNCHANGED <<config, code, calls, history, changes>>

(* Eight hours are over, or the Electron shell cleared the cookies between  *)
(* two visitors: nobody tells the server.                                   *)
SessionEnds(t) ==
  /\ tablet[t].user # NoOne
  /\ tablet' = [tablet EXCEPT ![t] = [@ EXCEPT !.user = NoOne, !.post = "pending"]]
  /\ calls' = Unheard(t, calls)
  /\ UNCHANGED <<config, code, sessions, history, changes>>

PostsNext ==
  \/ \E p \in Points : SetPointActive(p)
                       \/ \E us \in SUBSET Users : SetPointAssignments(p, us)
  \/ \E d \in Devices :
       \/ SetDeviceActive(d) \/ CodeLapses(d)
       \/ \E p \in Points \cup {NoPoint} : Station(d, p)
       \/ \E c \in Codes : CreateDevicePairing(d, c)
  \/ \E t \in Tablets :
       \/ \E c \in Codes : Redeem(t, c)
       \/ \E u \in Users : SignIn(t, u)
       \/ \E s \in Screens : OpenPost(t, s)
       \/ Attempt(t) \/ LogOut(t) \/ SessionEnds(t)
  \/ \E c \in calls : FinishRedeem(c) \/ Gate(c) \/ CloseOpen(c)
                      \/ OpenDeviceSession(c) \/ Answer(c)

PostsSpec == PostsInit /\ [][PostsNext]_posts

-----------------------------------------------------------------------------
Calls == [step : {"redeem", "gate", "close", "insert", "granted", "refused"},
          tablet : Tablets, code : Codes \cup {NoCode}, device : Devices,
          user : Users \cup {NoOne}, heard : BOOLEAN]

(* Types; an answer that opens a post is for the person signed in there.    *)
PostsTypeOK ==
  /\ open \in [Points -> BOOLEAN] /\ staff \in [Points -> SUBSET Users]
  /\ live \in [Devices -> BOOLEAN]
  /\ place \in [Devices -> Points \cup {NoPoint}]
  /\ code \in [Devices -> Codes \cup {NoCode}]
  /\ sessions \in [SessionIds -> [device : Devices, user : Users] \cup {NoSession}]
  /\ tablet \in [Tablets -> [device : Devices \cup {NoDevice},
       user : Users \cup {NoOne}, screen : Screens \cup {"home"},
       post : {"pending", "due", "ok", "denied"}]]
  /\ calls \subseteq Calls
  /\ \A t \in Tablets : tablet[t].post = "ok" => tablet[t].user # NoOne

(* One person at most is shown as live at a device: a sign-in supersedes    *)
(* whatever row an earlier user, an expired login or a swapped tablet left. *)
OneOpenSession ==
  \A d \in Devices : \A i, j \in Rows(d) : i = j

(* An open post is staffed: the oversight list shows, for its device, the   *)
(* person signed in on the tablet, whatever other tablets, sign-outs and    *)
(* re-pairings did, unless two tablets were bound to the one device.        *)
PostIsStaffed ==
  \A t \in Tablets :
    tablet[t].post = "ok" /\ tablet[t].device \notin shared =>
      \E i \in Rows(tablet[t].device) :
        sessions[i].user = tablet[t].user

(* A pairing code binds one tablet, though it is found by one statement and *)
(* cleared by another.                                                      *)
CodeOnce ==
  \A p, q \in paired : p[1] = q[1] => p = q

(* Whoever is landed on a post at a working device is let in there.         *)
LandingAdmits ==
  \A u \in Users, d \in Devices :
    live[d] /\ place[d] # NoPoint /\ Landing(u, d) # {} =>
      MayOperate(u, d) /\ Permits(u, Route(place[d]))

(* Nothing is held twice, a device or a code, and no landing leads nowhere. *)
PostsInv == PostsTypeOK /\ OneOpenSession /\ CodeOnce /\ LandingAdmits
=============================================================================
