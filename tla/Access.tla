------------------------------- MODULE Access -------------------------------
(***************************************************************************)
(* Who is signed in where, what the server serves to whom, and what the    *)
(* staff web application offers.  A request is judged by the session its   *)
(* cookie names: by a signed copy in the cookie while that is young, and   *)
(* otherwise by the session row and the account as it is now.  A browser   *)
(* builds its menu and its buttons from the role it was last told.         *)
(***************************************************************************)
EXTENDS Roles, Naturals, FiniteSets, TLC

CONSTANTS
  Users, Browsers,
  CacheAge,        \* ticks a signed copy is good for
  None,
  Scenes           \* [part, does, users, roles]: (a bound) what happens

(* A scene starts with an account for each user and with browsers signed in *)
(* as some of them.                                                         *)
ASSUME AccessAssumption ==
  /\ CacheAge \in Nat /\ None \notin Users
  /\ \A s \in Scenes : /\ s.users \subseteq Users
                       /\ s.accounts \subseteq [Users -> RoleNames]
                       /\ s.session \in [Browsers -> Users \cup {None}]

VARIABLES
  scene,           \* one of Scenes; never changes
  account,         \* of a user: [role, banned]
  live,            \* of a browser: the user of its session row, or None
  cookie,          \* of a browser: the signed copy [user, role, age], or None
  shown,           \* of a browser: whom its pages take to be signed in
  held,            \* history: ticks since a user last had a role, unbanned
  ended            \* history: ticks since a password change ended a session

access == <<account, live, cookie, shown, held, ended>>
Does(what) == what \in scene.does

-----------------------------------------------------------------------------
(* The procedures of the server, each with the alternative rights that      *)
(* open it: one of them, granted by one role, is enough.                    *)
OneOf(requests, ops) == ops \X {requests}
Need(resource, verb, ops) == OneOf({{<<resource, verb>>}}, ops)

AdminRouter ==
  Need("config", "read",
       {"facilityList", "categoryList", "departmentList", "officeList", "settingsGet",
        "pointList", "pointAssignmentsGet", "devicesList", "devicesStatus", "checkpointLog"})
  \cup Need("config", "manage",
       {"facilityCreate", "facilityUpdate", "facilitySetActive", "categoryCreate",
        "categoryUpdate", "categorySetActive", "departmentCreate", "departmentUpdate",
        "departmentSetActive", "officeCreate", "officeUpdate", "officeSetActive",
        "settingsUpdate", "logoSet", "logoClear", "pointCreate", "pointUpdate",
        "pointSetActive", "pointAssignmentsSet", "deviceUpsert", "devicePair",
        "checkpointSetActive", "importHosts"})

UserRouter ==
  Need("user", "list", {"userList"}) \cup Need("user", "create", {"userCreate", "userResend"})
  \cup Need("user", "update", {"userUpdate", "userSetActive"})
  \cup Need("user", "set-role", {"userSetRole"}) \cup Need("user", "ban", {"userBan"})

AiRouter ==
  OneOf({{<<"analyst", "read">>}, {<<"analyst", "operations">>}}, {"aiStatus", "speak"})
  \cup Need("analyst", "read", {"summarizeIncident", "askAudit", "similarIncidents"})
  \cup Need("analyst", "suggest", {"suggestClassification", "backfillEmbeddings"})
  \cup Need("analyst", "operations", {"copilot", "transcribe"})
  \cup Need("checkin", "process", {"extractId"})

AppointmentsRouter ==
  Need("appointment", "create", {"create"}) \cup Need("appointment", "update", {"update"})
  \cup Need("appointment", "read", {"list", "get", "trail", "documents", "document"})
  \cup Need("appointment", "cancel", {"cancel"}) \cup Need("appointment", "approve", {"approve"})
  \cup Need("appointment", "deny", {"deny"})

PostProcedure ==
  OneOf({{<<"checkin", verb>>} : verb \in {"process", "checkout", "override"}},
        {"postSignIn", "postSignOut"})

CheckinRouter ==
  Need("checkin", "process", {"assistedLookup", "assistedComplete", "issueTag"})
  \cup OneOf({{<<"checkin", "process">>, <<"visitor", "create">>}}, {"registerWalkIn"})
  \cup Need("checkin", "checkout", {"checkout", "assistedCheckout", "returnTag", "tagsOut"})
  \cup Need("checkin", "override", {"guardScan"})

DashboardRouter ==
  OneOf({{<<"dashboard", "reception">>}, {<<"dashboard", "security">>}}, {"summary", "onSite"})
  \cup Need("dashboard", "security", {"security", "muster"})

IncidentsRouter ==
  Need("incident", "read", {"incidents"}) \cup Need("incident", "create", {"raise"})
  \cup Need("incident", "resolve", {"resolve"})

InvitationsRouter ==
  Need("invitation", "create", {"send"}) \cup Need("invitation", "resend", {"resend"})
  \cup Need("invitation", "regenerate", {"regenerate"}) \cup Need("invitation", "revoke", {"revoke"})

(* Anyone signed in may ask for these.                                      *)
LookupsRouter ==
  OneOf({{}}, {"facilities", "categories", "myHost", "myContext", "myLandingPost", "hosts",
               "departments", "officesByDepartment", "hostsByOffice"})

ReportsRouter ==
  Need("report", "insights", {"insights", "insightsLog", "insightsFacilities"})
  \cup Need("report", "read", {"visitorLog", "statusBreakdown", "dailyVolume",
                               "visitorSearch", "visitorAnalytics"})

VisitorsRouter ==
  Need("visitor", "read", {"lookup", "byId"}) \cup Need("visitor", "create", {"saveVisitor"})

WatchlistRouter ==
  Need("watchlist", "read", {"watchlist"}) \cup Need("watchlist", "manage", {"add", "remove"})

AuditRouter == Need("audit", "read", {"auditList"})
BadgesRouter == Need("badge", "reprint", {"reprint"})

(* The spreadsheet downloads are not procedures but have the same gate.     *)
RequireInsights == Need("report", "insights", {"exportCsv", "exportXlsx"})

Requires ==
  AdminRouter \cup UserRouter \cup AiRouter \cup AppointmentsRouter \cup PostProcedure
  \cup CheckinRouter \cup DashboardRouter \cup IncidentsRouter \cup InvitationsRouter
  \cup LookupsRouter \cup ReportsRouter \cup VisitorsRouter \cup WatchlistRouter \cup AuditRouter
  \cup BadgesRouter \cup RequireInsights

AuthorizedAny(role, requests) == \E r \in requests : AnyRoleHasPermission({role}, r)
OpenTo == [role \in RoleNames |-> {gate[1] : gate \in {g \in Requires : AuthorizedAny(role, g[2])}}]

-----------------------------------------------------------------------------
(* Sessions.                                                                *)
Ageless(b) == cookie[b] # None
Cached(b) == cookie[b] # None /\ cookie[b].age <= CacheAge

(* The session a request from this browser is served under.                 *)
SessionOf(b) ==
  IF Cached(b) THEN [user |-> cookie[b].user, role |-> cookie[b].role]
  ELSE IF live[b] # None THEN [user |-> live[b], role |-> account[live[b]].role]
  ELSE None

Served(b) == IF SessionOf(b) = None THEN {} ELSE OpenTo[SessionOf(b).role]
Serves(b, op) == op \in Served(b)

Fresh(u) == [user |-> u, role |-> account[u].role, age |-> 0]
Older(age) == IF age > CacheAge THEN age ELSE age + 1

SignIn(b, u) ==
  /\ Does("signIn") /\ u \in scene.users /\ shown[b] = None /\ ~account[u].banned
  /\ live' = [live EXCEPT ![b] = u]
  /\ cookie' = [cookie EXCEPT ![b] = Fresh(u)]
  /\ ended' = [ended EXCEPT ![b] = None]
  /\ UNCHANGED <<scene, account, shown, held>>

(* A page asks who is signed in, when it opens, when its window is looked   *)
(* at again and after a sign-in.  Only an answer from the database renews   *)
(* the signed copy.                                                         *)
GetSession(b) ==
  LET s == SessionOf(b) IN
  /\ shown' = [shown EXCEPT ![b] = s]
  /\ cookie' = IF s = None THEN [cookie EXCEPT ![b] = None]
               ELSE IF Cached(b) THEN cookie
               ELSE [cookie EXCEPT ![b] = Fresh(s.user)]
  /\ UNCHANGED <<scene, account, live, held, ended>>

SignOut(b) ==
  /\ Does("signOut") /\ shown[b] # None
  /\ live' = [live EXCEPT ![b] = None]
  /\ cookie' = [cookie EXCEPT ![b] = None]
  /\ ended' = [ended EXCEPT ![b] = None]
  /\ UNCHANGED <<scene, account, shown, held>>

(* Changing one's password needs the session row itself, and asks that the  *)
(* account's other sessions be revoked.                                     *)
RevokeOtherSessions(b) == {x \in Browsers \ {b} : live[x] = live[b]}

ChangePassword(b) ==
  /\ Does("changePassword") /\ shown[b] # None /\ live[b] # None
  /\ live' = [x \in Browsers |-> IF x \in RevokeOtherSessions(b) THEN None ELSE live[x]]
  /\ cookie' = [cookie EXCEPT ![b] = Fresh(live[b])]
  /\ ended' = [x \in Browsers |-> IF x # b /\ live[x] = live[b] THEN 0 ELSE ended[x]]
  /\ UNCHANGED <<scene, account, shown, held>>

Had(u) == [held EXCEPT ![u][account'[u].role] = IF account'[u].banned THEN @ ELSE 0]

UserSetRole(b, u, role) ==
  /\ Does("userSetRole") /\ Serves(b, "userSetRole")
  /\ u \in scene.users /\ role \in scene.roles
  /\ account' = [account EXCEPT ![u].role = role]
  /\ held' = Had(u)
  /\ UNCHANGED <<scene, live, cookie, shown, ended>>

(* A ban ends the account's sessions; nobody bans himself.                  *)
Spared(u) == live
Evicted(u) == [x \in Browsers |-> IF live[x] = u THEN None ELSE live[x]]

UserBan(b, u, banned) ==
  /\ Does("userBan") /\ Serves(b, "userBan")
  /\ u \in scene.users /\ (banned => u # SessionOf(b).user)
  /\ account' = [account EXCEPT ![u].banned = banned]
  /\ live' = IF banned THEN Evicted(u) ELSE live
  /\ held' = Had(u)
  /\ UNCHANGED <<scene, cookie, shown, ended>>

(* A session lasts a working day, and so does the cookie that names it.     *)
Expire(b) ==
  /\ Does("expire") /\ live[b] # None
  /\ live' = [live EXCEPT ![b] = None]
  /\ cookie' = [cookie EXCEPT ![b] = None]
  /\ UNCHANGED <<scene, account, shown, held, ended>>

Tick ==
  /\ Does("tick")
  /\ cookie' = [b \in Browsers |-> IF cookie[b] = None THEN None
                                   ELSE [cookie[b] EXCEPT !.age = Older(@)]]
  /\ held' = [u \in Users |-> [r \in RoleNames |->
                IF account[u].role = r /\ ~account[u].banned THEN 0 ELSE Older(held[u][r])]]
  /\ ended' = [b \in Browsers |-> IF ended[b] = None THEN None ELSE Older(ended[b])]
  /\ UNCHANGED <<scene, account, live, shown>>

AccessStep ==
  \/ \E b \in Browsers :
       \/ GetSession(b) \/ SignOut(b) \/ ChangePassword(b) \/ Expire(b)
       \/ \E u \in Users : \/ SignIn(b, u)
                           \/ \E role \in RoleNames : UserSetRole(b, u, role)
                           \/ \E banned \in BOOLEAN : UserBan(b, u, banned)
  \/ Tick

-----------------------------------------------------------------------------
(* The application.  Each page asks for some things whenever it is open and *)
(* for others by buttons it shows to the roles they are for.                *)
Can(role, resource, verb) == AnyRoleHasPermission({role}, {<<resource, verb>>})
Only(allowed, ops) == IF allowed THEN ops ELSE {}

(* The sidebar's pages for a role.                                          *)
CanCreate(role) == Can(role, "appointment", "create")
AdminPages(role) ==
  Only(Can(role, "config", "manage"),
       {"settings", "points", "devices", "facilities", "departments", "offices",
        "categories", "policies"} \cup Only(Can(role, "user", "read"), {"users"}))
Menu(role) ==
  Only(Can(role, "appointment", "read"), {"appointments", "detail"})
  \cup Only(CanCreate(role), {"new"})
  \cup Only(Can(role, "dashboard", "reception"), {"reception"})
  \cup Only(Can(role, "dashboard", "security"), {"security", "muster"})
  \cup Only(Can(role, "report", "insights"), {"insights", "visitorLog"})
  \cup Only(Can(role, "audit", "read"), {"audit"})
  \cup AdminPages(role)

Shell == {"myContext", "myLandingPost"}
Appointments == {"list", "facilities", "hosts"}
NewAppointment(role) ==
  {"categories", "departments", "officesByDepartment", "hostsByOffice", "myHost", "byId",
   "lookup", "create"}
  \cup Only(Can(role, "checkin", "process"), {"extractId"})
AppointmentDetail(role) ==
  {"get", "trail", "documents", "document"}
  \cup Only(Can(role, "appointment", "approve"), {"approve"})
  \cup Only(Can(role, "appointment", "deny"), {"deny"})
  \cup Only(Can(role, "appointment", "update"), {"update"})
  \cup Only(Can(role, "appointment", "cancel"), {"cancel"})
  \cup Only(Can(role, "invitation", "resend"), {"resend"})
  \cup Only(Can(role, "invitation", "revoke"), {"revoke"})
Reception(role) ==
  {"summary", "onSite"}
  \cup Only(Can(role, "checkin", "process"),
            {"assistedLookup", "assistedComplete", "facilities", "departments",
             "officesByDepartment", "hostsByOffice", "registerWalkIn", "lookup", "saveVisitor"})
  \cup Only(Can(role, "checkin", "checkout"), {"checkout", "tagsOut"})
AiAnalystCard == {"aiStatus", "summarizeIncident", "askAudit", "similarIncidents", "speak"}
AnalystForAll(role) == {"security"} \cup AiAnalystCard
SecurityPage(role) ==
  {"security"}
  \cup Only(Can(role, "incident", "read"), {"incidents"})
  \cup Only(Can(role, "incident", "read") /\ Can(role, "incident", "resolve"), {"resolve"})
  \cup Only(Can(role, "watchlist", "read"), {"watchlist"})
  \cup Only(Can(role, "watchlist", "read") /\ Can(role, "watchlist", "manage"), {"add", "remove"})
  \cup Only(Can(role, "analyst", "read"), AiAnalystCard)
  \cup Only(Can(role, "checkin", "override"), {"guardScan"})
InsightsPage(role) ==
  {"insights", "insightsFacilities"}
  \cup Only(Can(role, "report", "read"), {"visitorSearch", "visitorAnalytics"})
VisitorLogPage == {"insightsLog", "insightsFacilities", "exportCsv", "exportXlsx"}

SettingsPage == {"settingsGet", "settingsUpdate", "logoSet", "logoClear"}
FacilitiesPage == {"facilityList", "facilityCreate", "facilityUpdate", "facilitySetActive"}
CategoriesPage == {"categoryList", "categoryCreate", "categoryUpdate", "categorySetActive"}
DepartmentsPage ==
  {"departmentList", "facilityList", "departmentCreate", "departmentUpdate", "departmentSetActive"}
OfficesPage == {"officeList", "departmentList", "officeCreate", "officeUpdate", "officeSetActive"}
UsersPage ==
  {"userList", "departmentList", "officeList", "userCreate", "userResend", "userUpdate",
   "userSetRole", "userBan", "userSetActive"}
PointsPage ==
  {"pointList", "facilityList", "pointCreate", "pointUpdate", "pointSetActive",
   "pointAssignmentsGet", "pointAssignmentsSet", "userList"}
DevicesPage ==
  {"devicesStatus", "pointList", "deviceUpsert", "devicePair", "checkpointSetActive",
   "checkpointLog"}

Asks(page, role) ==
  CASE page = "appointments" -> Appointments
    [] page = "detail" -> AppointmentDetail(role)
    [] page = "new" -> NewAppointment(role)
    [] page = "reception" -> Reception(role)
    [] page = "security" -> SecurityPage(role)
    [] page = "muster" -> {"muster"}
    [] page = "insights" -> InsightsPage(role)
    [] page = "visitorLog" -> VisitorLogPage
    [] page = "audit" -> {"auditList"}
    [] page \in {"settings", "policies"} -> SettingsPage
    [] page = "users" -> UsersPage
    [] page = "points" -> PointsPage
    [] page = "devices" -> DevicesPage
    [] page = "facilities" -> FacilitiesPage
    [] page = "departments" -> DepartmentsPage
    [] page = "offices" -> OfficesPage
    [] page = "categories" -> CategoriesPage

Offered == [role \in RoleNames |->
              Shell \cup UNION {Asks(page, role) : page \in Menu(role)}]

-----------------------------------------------------------------------------
AccessTypeOK ==
  /\ scene \in Scenes
  /\ account \in [Users -> [role : RoleNames, banned : BOOLEAN]]
  /\ live \in [Browsers -> Users \cup {None}]
  /\ cookie \in [Browsers -> [user : Users, role : RoleNames, age : 0..CacheAge + 1] \cup {None}]
  /\ shown \in [Browsers -> [user : Users, role : RoleNames] \cup {None}]
  /\ held \in [Users -> [RoleNames -> 0..CacheAge + 1]]
  /\ ended \in [Browsers -> 0..CacheAge + 1 \cup {None}]

(* A right that was taken away, or the account with it, is served no longer *)
(* than a signed copy lives: whatever a browser is served, its account had  *)
(* a role for within that time, and was not banned then.                    *)
Lately(u) == {role \in RoleNames : held[u][role] <= CacheAge}
RightsLapse ==
  \A b \in Browsers :
    SessionOf(b) # None =>
      Served(b) \subseteq UNION {OpenTo[role] : role \in Lately(SessionOf(b).user)}

(* What the pages a role can reach ask of the server, and every button they *)
(* show it, the server answers, while the browser and the server agree on   *)
(* who is signed in: the menu, the pages' flags and the procedures' gates   *)
(* are written apart and must not drift.                                    *)
OfferedIsServed ==
  \A b \in Browsers :
    shown[b] # None /\ shown[b] = SessionOf(b) => Offered[shown[b].role] \subseteq Served(b)

(* "Your other sessions will be signed out": a session ended by a password  *)
(* change elsewhere is served nothing once its signed copy is old.          *)
PasswordChangeEndsOthers ==
  \A b \in Browsers : ended[b] # None /\ ended[b] > CacheAge => SessionOf(b) = None

(* Rights lapse with the copies that carry them, however they were ended.   *)
SessionsLapse == RightsLapse /\ PasswordChangeEndsOthers
=============================================================================
