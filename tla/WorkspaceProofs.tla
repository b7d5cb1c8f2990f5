-------------------------- MODULE WorkspaceProofs --------------------------
(***************************************************************************)
(* Sessions, reports and lists of the staff workspace: what TLC checks on  *)
(* two users and two browsers, for any number of them.  What a session     *)
(* check finds is bounded by how long ago the account had the role; what a *)
(* report holds, by what its caller was in charge of while it was served;  *)
(* what pages, download and totals add up to, by what the log says as long *)
(* as nothing changes; what a list shows, by the rank of its rows.         *)
(***************************************************************************)
EXTENDS Workspace, FiniteSetTheorems, FunctionTheorems, SequenceTheorems, WellFoundedInduction,
        TLAPS

-----------------------------------------------------------------------------
(* Sessions.  A signed copy is no younger than the time since its user had  *)
(* its role; a session row is of an account that is not banned, and such an *)
(* account has its role now; a session that was ended has no row, and its   *)
(* copy is no younger than its end.                                         *)
CopiesAge == \A b \in Browsers : cookie[b] # None =>
               held[cookie[b].user][cookie[b].role] <= cookie[b].age
RowsOfTheUnbanned == \A b \in Browsers : live[b] # None => ~account[live[b]].banned
HasItNow == \A u \in Users : ~account[u].banned => held[u][account[u].role] = 0
EndedHasNoRow ==
  \A b \in Browsers : ended[b] # None =>
    live[b] = None /\ (cookie[b] # None => ended[b] <= cookie[b].age)

SessionIInv == AccessTypeOK /\ CopiesAge /\ RowsOfTheUnbanned /\ HasItNow /\ EndedHasNoRow

LEMMA AgesAreCounted == CacheAge \in Nat
BY AccessAssumption

(* The time that passes keeps the order of two ages.                        *)
LEMMA OlderAge ==
  ASSUME NEW a \in 0..CacheAge + 1, NEW c \in 0..CacheAge + 1
  PROVE  /\ Older(a) \in 0..CacheAge + 1
         /\ a <= c => Older(a) <= Older(c)
BY AccessAssumption, SMT DEF Older

(* What a browser's requests are judged by is a user and a role.            *)
LEMMA SessionType ==
  ASSUME AccessTypeOK, NEW b \in Browsers
  PROVE  SessionOf(b) \in [user : Users, role : RoleNames] \cup {None}
BY DEF AccessTypeOK, SessionOf, Cached

LEMMA SessionsStart == Init => SessionIInv
<1> SUFFICES ASSUME Init PROVE SessionIInv
  OBVIOUS
<1> USE DEF Init, AccessInit
<1>1. PICK hired \in scene.accounts : account = [u \in Users |-> [role |-> hired[u], banned |-> FALSE]]
  OBVIOUS
<1>2. hired \in [Users -> RoleNames] /\ scene.session \in [Browsers -> Users \cup {None}]
  BY AccessAssumption
<1>3. account \in [Users -> [role : RoleNames, banned : BOOLEAN]]
  BY <1>1, <1>2
<1>4. live \in [Browsers -> Users \cup {None}] /\ cookie = [b \in Browsers |-> None]
  BY <1>2
<1>5. \A b \in Browsers : SessionOf(b) \in [user : Users, role : RoleNames] \cup {None}
  BY <1>3, <1>4 DEF SessionOf, Cached
<1>6. held \in [Users -> [RoleNames -> 0..CacheAge + 1]]
  BY AccessAssumption
<1>7. AccessTypeOK
  BY <1>3, <1>4, <1>5, <1>6 DEF AccessTypeOK
<1>8. CopiesAge /\ RowsOfTheUnbanned /\ EndedHasNoRow
  BY <1>1, <1>2, <1>4 DEF CopiesAge, RowsOfTheUnbanned, EndedHasNoRow
<1>9. HasItNow
  BY <1>1, <1>2 DEF HasItNow
<1> QED
  BY <1>7, <1>8, <1>9 DEF SessionIInv
(* One lemma for each action on accounts and sessions.                      *)
LEMMA SignInKeeps ==
  ASSUME SessionIInv, NEW b \in Browsers, NEW u \in Users, SignIn(b, u)
  PROVE  SessionIInv'
<1> USE DEF SessionIInv, SignIn
<1>1. Fresh(u) \in [user : Users, role : RoleNames, age : 0..CacheAge + 1]
  BY AgesAreCounted DEF AccessTypeOK, Fresh
<1>2. AccessTypeOK'
  BY <1>1 DEF AccessTypeOK
<1>3. held[u][account[u].role] = 0 /\ ~account[u].banned
  BY DEF HasItNow
<1>4. CopiesAge'
  BY <1>1, <1>3 DEF CopiesAge, AccessTypeOK, Fresh
<1>5. RowsOfTheUnbanned' /\ HasItNow' /\ EndedHasNoRow'
  BY <1>3 DEF RowsOfTheUnbanned, HasItNow, EndedHasNoRow, AccessTypeOK
<1> QED
  BY <1>2, <1>4, <1>5

LEMMA GetSessionKeeps ==
  ASSUME SessionIInv, NEW b \in Browsers, GetSession(b)
  PROVE  SessionIInv'
<1> USE DEF SessionIInv
<1> DEFINE s == SessionOf(b)
<1>1. s \in [user : Users, role : RoleNames] \cup {None}
  BY SessionType
<1>2. /\ shown' = [shown EXCEPT ![b] = s]
      /\ UNCHANGED <<scene, account, live, held, ended>>
  BY DEF GetSession
<1>3. \/ cookie' = [cookie EXCEPT ![b] = None]
      \/ cookie' = cookie
      \/ /\ live[b] # None /\ live[b] \in Users
         /\ cookie' = [cookie EXCEPT ![b] = Fresh(live[b])]
  BY DEF GetSession, SessionOf, AccessTypeOK
<1> HIDE DEF s
<1>4. CASE cookie' = [cookie EXCEPT ![b] = None]
  <2>1. AccessTypeOK'
    BY <1>1, <1>2, <1>4 DEF AccessTypeOK
  <2>2. CopiesAge' /\ RowsOfTheUnbanned' /\ HasItNow' /\ EndedHasNoRow'
    BY <1>2, <1>4 DEF CopiesAge, RowsOfTheUnbanned, HasItNow, EndedHasNoRow, AccessTypeOK
  <2> QED
    BY <2>1, <2>2
<1>5. CASE cookie' = cookie
  <2>1. AccessTypeOK'
    BY <1>1, <1>2, <1>5 DEF AccessTypeOK
  <2>2. CopiesAge' /\ RowsOfTheUnbanned' /\ HasItNow' /\ EndedHasNoRow'
    BY <1>2, <1>5 DEF CopiesAge, RowsOfTheUnbanned, HasItNow, EndedHasNoRow, AccessTypeOK
  <2> QED
    BY <2>1, <2>2
<1>6. CASE /\ live[b] # None /\ live[b] \in Users
           /\ cookie' = [cookie EXCEPT ![b] = Fresh(live[b])]
  <2>1. Fresh(live[b]) \in [user : Users, role : RoleNames, age : 0..CacheAge + 1]
    BY <1>6, AgesAreCounted DEF AccessTypeOK, Fresh
  <2>2. AccessTypeOK'
    BY <1>1, <1>2, <1>6, <2>1 DEF AccessTypeOK
  <2>3. held[live[b]][account[live[b]].role] = 0
    BY <1>6 DEF HasItNow, RowsOfTheUnbanned
  <2>4. CopiesAge' /\ RowsOfTheUnbanned' /\ HasItNow'
    BY <1>2, <1>6, <2>1, <2>3 DEF CopiesAge, RowsOfTheUnbanned, HasItNow, AccessTypeOK, Fresh
  <2>5. EndedHasNoRow'
    BY <1>2, <1>6, <2>1 DEF EndedHasNoRow, AccessTypeOK
  <2> QED
    BY <2>2, <2>4, <2>5
<1> QED
  BY <1>3, <1>4, <1>5, <1>6

LEMMA SignOutKeeps ==
  ASSUME SessionIInv, NEW b \in Browsers, SignOut(b) \/ Expire(b)
  PROVE  SessionIInv'
<1> USE DEF SessionIInv, SignOut, Expire
<1>1. AccessTypeOK'
  BY DEF AccessTypeOK
<1>2. CopiesAge' /\ RowsOfTheUnbanned' /\ HasItNow' /\ EndedHasNoRow'
  BY DEF CopiesAge, RowsOfTheUnbanned, HasItNow, EndedHasNoRow, AccessTypeOK
<1> QED
  BY <1>1, <1>2

LEMMA ChangePasswordKeeps ==
  ASSUME SessionIInv, NEW b \in Browsers, ChangePassword(b)
  PROVE  SessionIInv'
<1> USE DEF SessionIInv, ChangePassword
<1>1. live[b] \in Users /\ live[b] # None
  BY DEF AccessTypeOK
<1>2. Fresh(live[b]) \in [user : Users, role : RoleNames, age : 0..CacheAge + 1]
  BY <1>1, AgesAreCounted DEF AccessTypeOK, Fresh
<1>3. AccessTypeOK'
  BY <1>2, AgesAreCounted DEF AccessTypeOK
<1>4. held[live[b]][account[live[b]].role] = 0
  BY <1>1 DEF HasItNow, RowsOfTheUnbanned
<1>5. CopiesAge' /\ RowsOfTheUnbanned' /\ HasItNow'
  BY <1>2, <1>4 DEF CopiesAge, RowsOfTheUnbanned, HasItNow, AccessTypeOK, Fresh
<1>6. \A x \in Browsers : x \in RevokeOtherSessions(b) <=> x # b /\ live[x] = live[b]
  BY DEF RevokeOtherSessions
<1>7. ended[b] = None
  BY <1>1 DEF EndedHasNoRow
<1>8. EndedHasNoRow'
  BY <1>1, <1>2, <1>6, <1>7 DEF EndedHasNoRow, AccessTypeOK
<1> QED
  BY <1>3, <1>5, <1>8

LEMMA UserSetRoleKeeps ==
  ASSUME SessionIInv, NEW b \in Browsers, NEW u \in Users, NEW role \in RoleNames,
         UserSetRole(b, u, role)
  PROVE  SessionIInv'
<1> USE DEF SessionIInv, UserSetRole
<1>1. account'[u].role = role /\ account'[u].banned = account[u].banned
  BY DEF AccessTypeOK
<1>2. held' = [held EXCEPT ![u][role] = IF account[u].banned THEN held[u][role] ELSE 0]
  <2>1. held' = Had(u)
    OBVIOUS
  <2> QED
    BY ONLY <1>1, <2>1 DEF Had
<1>3. AccessTypeOK'
  BY <1>2, AgesAreCounted DEF AccessTypeOK
<1>4. \A x \in Users, r \in RoleNames :
        held'[x][r] = IF x = u /\ r = role /\ ~account[u].banned THEN 0 ELSE held[x][r]
  BY <1>2 DEF AccessTypeOK
<1>5. CopiesAge'
  BY <1>4, AgesAreCounted DEF CopiesAge, AccessTypeOK
<1>6. RowsOfTheUnbanned' /\ EndedHasNoRow'
  BY <1>1 DEF RowsOfTheUnbanned, EndedHasNoRow, AccessTypeOK
<1>7. HasItNow'
  BY <1>1, <1>4 DEF HasItNow, AccessTypeOK
<1> QED
  BY <1>3, <1>5, <1>6, <1>7

LEMMA UserBanKeeps ==
  ASSUME SessionIInv, NEW b \in Browsers, NEW u \in Users, NEW banned \in BOOLEAN,
         UserBan(b, u, banned)
  PROVE  SessionIInv'
<1> USE DEF SessionIInv, UserBan
<1>1. account'[u].role = account[u].role /\ account'[u].banned = banned
  BY DEF AccessTypeOK
<1>2. held' = [held EXCEPT ![u][account[u].role] =
                 IF banned THEN held[u][account[u].role] ELSE 0]
  <2>1. held' = Had(u)
    OBVIOUS
  <2> QED
    BY ONLY <1>1, <2>1 DEF Had
<1>3. live' \in [Browsers -> Users \cup {None}]
  BY DEF Evicted, AccessTypeOK
<1>4. AccessTypeOK'
  <2>1. account' \in [Users -> [role : RoleNames, banned : BOOLEAN]]
    BY DEF AccessTypeOK
  <2>2. account[u].role \in RoleNames /\ held[u][account[u].role] \in 0..CacheAge + 1
    BY DEF AccessTypeOK
  <2>3. held' \in [Users -> [RoleNames -> 0..CacheAge + 1]]
    BY <1>2, <2>2, AgesAreCounted DEF AccessTypeOK
  <2> QED
    BY <1>3, <2>1, <2>3 DEF AccessTypeOK
<1>5. \A x \in Users, r \in RoleNames :
        held'[x][r] = IF x = u /\ r = account[u].role /\ ~banned THEN 0 ELSE held[x][r]
  BY <1>2 DEF AccessTypeOK
<1>6. CopiesAge'
  BY <1>5, AgesAreCounted DEF CopiesAge, AccessTypeOK
<1>7. \A x \in Browsers : live'[x] # None => live'[x] = live[x] /\ (banned => live[x] # u)
  BY DEF Evicted, AccessTypeOK
<1>8. RowsOfTheUnbanned'
  BY <1>1, <1>7 DEF RowsOfTheUnbanned, AccessTypeOK
<1>9. EndedHasNoRow'
  BY <1>7 DEF EndedHasNoRow, AccessTypeOK
<1>10. HasItNow'
  BY <1>1, <1>5 DEF HasItNow, AccessTypeOK
<1> QED
  BY <1>4, <1>6, <1>8, <1>9, <1>10

LEMMA TickKeeps ==
  ASSUME SessionIInv, Tick
  PROVE  SessionIInv'
<1> USE DEF SessionIInv, Tick
<1>1. \A b \in Browsers : cookie[b] # None =>
        /\ cookie[b] \in [user : Users, role : RoleNames, age : 0..CacheAge + 1]
        /\ cookie'[b] = [cookie[b] EXCEPT !.age = Older(cookie[b].age)]
  BY DEF AccessTypeOK
<1>2. \A b \in Browsers : cookie[b] # None =>
        /\ cookie'[b] \in [user : Users, role : RoleNames, age : 0..CacheAge + 1]
        /\ cookie'[b].user = cookie[b].user /\ cookie'[b].role = cookie[b].role
        /\ cookie'[b].age = Older(cookie[b].age) /\ cookie[b].age \in 0..CacheAge + 1
  BY <1>1, OlderAge
<1>3. \A b \in Browsers : cookie[b] = None => cookie'[b] = None
  OBVIOUS
<1>4. \A u \in Users, r \in RoleNames :
        /\ held[u][r] \in 0..CacheAge + 1
        /\ held'[u][r] = IF account[u].role = r /\ ~account[u].banned THEN 0 ELSE Older(held[u][r])
  BY DEF AccessTypeOK
<1>5. AccessTypeOK'
  <2>1. cookie' \in [Browsers -> [user : Users, role : RoleNames, age : 0..CacheAge + 1] \cup {None}]
    BY <1>2, <1>3
  <2>2. held' \in [Users -> [RoleNames -> 0..CacheAge + 1]]
    BY OlderAge, AgesAreCounted DEF AccessTypeOK
  <2>3. ended' \in [Browsers -> 0..CacheAge + 1 \cup {None}]
    BY OlderAge DEF AccessTypeOK
  <2> QED
    BY <2>1, <2>2, <2>3 DEF AccessTypeOK
<1>6. CopiesAge'
  <2> SUFFICES ASSUME NEW b \in Browsers, cookie'[b] # None
               PROVE  held'[cookie'[b].user][cookie'[b].role] <= cookie'[b].age
    BY DEF CopiesAge
  <2>1. held[cookie[b].user][cookie[b].role] <= cookie[b].age /\ cookie[b] # None
    BY <1>3 DEF CopiesAge
  <2>2. Older(held[cookie[b].user][cookie[b].role]) <= Older(cookie[b].age)
    BY <1>1, <1>2, <1>4, <2>1, OlderAge
  <2>3. Older(cookie[b].age) \in 0..CacheAge + 1
    BY <1>2, <2>1, OlderAge
  <2> QED
    BY <1>1, <1>2, <1>4, <2>1, <2>2, <2>3, AgesAreCounted
<1>7. RowsOfTheUnbanned' /\ HasItNow'
  BY <1>4 DEF RowsOfTheUnbanned, HasItNow, AccessTypeOK
<1>8. EndedHasNoRow'
  <2> SUFFICES ASSUME NEW b \in Browsers, ended'[b] # None
               PROVE  /\ live'[b] = None
                      /\ cookie'[b] # None => ended'[b] <= cookie'[b].age
    BY DEF EndedHasNoRow
  <2>1. ended[b] # None /\ ended[b] \in 0..CacheAge + 1 /\ ended'[b] = Older(ended[b])
    BY DEF AccessTypeOK
  <2>2. live[b] = None /\ (cookie[b] # None => ended[b] <= cookie[b].age)
    BY <2>1 DEF EndedHasNoRow
  <2> QED
    BY <1>2, <1>3, <2>1, <2>2, OlderAge
<1> QED
  BY <1>5, <1>6, <1>7, <1>8
LEMMA AccessKeeps ==
  ASSUME SessionIInv, AccessStep
  PROVE  SessionIInv'
<1>1. CASE \E b \in Browsers : GetSession(b)
  BY <1>1, GetSessionKeeps
<1>2. CASE \E b \in Browsers : SignOut(b) \/ Expire(b)
  BY <1>2, SignOutKeeps
<1>3. CASE \E b \in Browsers : ChangePassword(b)
  BY <1>3, ChangePasswordKeeps
<1>4. CASE \E b \in Browsers, u \in Users : SignIn(b, u)
  BY <1>4, SignInKeeps
<1>5. CASE \E b \in Browsers, u \in Users, role \in RoleNames : UserSetRole(b, u, role)
  BY <1>5, UserSetRoleKeeps
<1>6. CASE \E b \in Browsers, u \in Users, banned \in BOOLEAN : UserBan(b, u, banned)
  BY <1>6, UserBanKeeps
<1>7. CASE Tick
  BY <1>7, TickKeeps
<1> QED
  BY <1>1, <1>2, <1>3, <1>4, <1>5, <1>6, <1>7 DEF AccessStep

(* Neither a report nor an administration page changes an account, a        *)
(* session or the scene.                                                    *)
LEMMA ReportsLeaveAccess ==
  ASSUME ReportsStep
  PROVE  UNCHANGED <<scene, access>>
<1>1. CASE \/ \E v \in Visits : \/ Arrive(v) \/ \E row \in scene.rows : Register(v, row)
                                \/ \E t \in Times : Reschedule(v, t)
           \/ \E u \in scene.users, facilities \in SUBSET Facilities : Restation(u, facilities)
  BY <1>1 DEF Arrive, Register, Reschedule, Restation, Stirred
<1>2. CASE \/ LoadChoices \/ \E f \in scene.filters : SetFilter(f)
           \/ \E n \in PageSizes : SetPageSize(n)
           \/ \E p \in 1..Cardinality(Visits) : SetPage(p)
           \/ \E kind \in {"log", "export", "insights"} : Ask(kind)
  BY <1>2 DEF LoadChoices, SetFilter, SetPageSize, SetPage, Ask
<1>3. CASE ReadScope
  BY <1>3 DEF ReadScope, Onward, Answered
<1>4. CASE ReadRows \/ ReadOriginStatus
  BY <1>4 DEF ReadRows, ReadOriginStatus, Onward
<1>5. CASE ReadCount \/ InsightsLogExport \/ ReadDays
  BY <1>5 DEF ReadCount, InsightsLogExport, ReadDays, Answered
<1> QED
  BY <1>1, <1>2, <1>3, <1>4, <1>5 DEF ReportsStep

LEMMA ConsoleLeavesAccess ==
  ASSUME ConsoleStep
  PROVE  UNCHANGED <<scene, access>>
<1>1. ASSUME NEW b \in Browsers,
             \/ Load(b) \/ CancelEdit(b) \/ Save(b) \/ Add(b)
             \/ \E q \in Queries : Search(b, q)
             \/ \E p \in Ids : TurnTo(b, p)
             \/ \E n \in Sizes : ChangeSize(b, n)
             \/ \E id \in Ids : Edit(b, id) \/ Toggle(b, id)
      PROVE  UNCHANGED <<scene, access>>
  BY <1>1 DEF Load, CancelEdit, Save, Add, Search, TurnTo, ChangeSize, Edit, Toggle, Send, Becomes
<1>2. ASSUME NEW b \in Browsers,
             \E name \in scene.names, parent \in ParentChoices :
               \/ ChangeEditor(b, name, parent)
               \/ \E id \in scene.places \cup {None} :
                    ChangeDraft(b, [id |-> id, name |-> name, parent |-> parent])
      PROVE  UNCHANGED <<scene, access>>
  BY <1>2 DEF ChangeEditor, ChangeDraft, Becomes
<1>3. ASSUME NEW b \in Browsers, NEW what \in {"update", "create", "setActive"},
             Store(b, what) \/ Succeed(b, what) \/ Fail(b, what)
      PROVE  UNCHANGED <<scene, access>>
  BY <1>3 DEF Store, Succeed, Fail, Becomes
<1>4. ASSUME NEW b \in Browsers,
             \/ OpenStaff(b) \/ LoadStaff(b) \/ CloseStaff(b) \/ SaveStaff(b) \/ StoreStaff(b)
             \/ AnswerStaff(b) \/ \E u \in scene.users : TickBox(b, u)
      PROVE  UNCHANGED <<scene, access>>
  BY <1>4 DEF OpenStaff, LoadStaff, CloseStaff, SaveStaff, StoreStaff, AnswerStaff, TickBox, Assign
<1>5. CASE \E u \in scene.users : Requalify(u)
  BY <1>5 DEF Requalify
<1> QED
  BY <1>1, <1>2, <1>3, <1>4, <1>5 DEF ConsoleStep

LEMMA SessionFrame ==
  ASSUME SessionIInv, UNCHANGED <<scene, access>>
  PROVE  SessionIInv'
BY DEF SessionIInv, AccessTypeOK, CopiesAge, RowsOfTheUnbanned, HasItNow, EndedHasNoRow, access

(* Sessions and the ages of rights are what they are said to be in every    *)
(* state of the workspace, and of the right types.                          *)
THEOREM SessionInvariant == Spec => []SessionIInv
<1>1. SessionIInv /\ [Next]_workspace => SessionIInv'
  <2> SUFFICES ASSUME SessionIInv, [Next]_workspace PROVE SessionIInv'
    OBVIOUS
  <2>1. CASE AccessStep
    BY <2>1, AccessKeeps
  <2>2. CASE ReportsStep
    BY <2>2, ReportsLeaveAccess, SessionFrame
  <2>3. CASE ConsoleStep
    BY <2>3, ConsoleLeavesAccess, SessionFrame
  <2>4. CASE UNCHANGED workspace
    BY <2>4, SessionFrame DEF workspace
  <2> QED
    BY <2>1, <2>2, <2>3, <2>4 DEF Next
<1> QED
  BY <1>1, SessionsStart, PTL DEF Spec

(* A right that was taken away, by a new role or a ban, is served no longer *)
(* than a signed copy lives, and a session ended by a password change       *)
(* elsewhere no longer than the copy its browser kept: whoever signs in,    *)
(* bans, is banned or looks at his window, in whatever order.               *)
THEOREM WorkspaceSessionsLapse == Spec => []SessionsLapse
<1>1. SessionIInv => SessionsLapse
  <2> SUFFICES ASSUME SessionIInv PROVE SessionsLapse
    OBVIOUS
  <2> USE DEF SessionIInv
  <2>1. RightsLapse
    <3> SUFFICES ASSUME NEW b \in Browsers, SessionOf(b) # None
                 PROVE  Served(b) \subseteq UNION {OpenTo[role] : role \in Lately(SessionOf(b).user)}
      BY DEF RightsLapse
    <3>1. SessionOf(b) \in [user : Users, role : RoleNames]
      BY SessionType
    <3>2. held[SessionOf(b).user][SessionOf(b).role] <= CacheAge
      <4>1. CASE Cached(b)
        <5>1. cookie[b] \in [user : Users, role : RoleNames, age : 0..CacheAge + 1]
          BY <4>1 DEF Cached, AccessTypeOK
        <5>2. held[cookie[b].user][cookie[b].role] \in 0..CacheAge + 1
          BY <5>1 DEF AccessTypeOK
        <5>3. held[cookie[b].user][cookie[b].role] <= cookie[b].age /\ cookie[b].age <= CacheAge
          BY <4>1 DEF Cached, CopiesAge
        <5> QED
          BY <4>1, <5>1, <5>2, <5>3, AccessAssumption DEF SessionOf
      <4>2. CASE ~Cached(b) /\ live[b] # None
        <5>1. held[live[b]][account[live[b]].role] = 0
          BY <4>2 DEF AccessTypeOK, HasItNow, RowsOfTheUnbanned
        <5> QED
          BY <4>2, <5>1, AccessAssumption DEF SessionOf
      <4> QED
        BY <4>1, <4>2 DEF SessionOf
    <3>3. SessionOf(b).role \in Lately(SessionOf(b).user)
      BY <3>1, <3>2 DEF Lately
    <3> QED
      BY <3>3 DEF Served
  <2>2. PasswordChangeEndsOthers
    <3> SUFFICES ASSUME NEW b \in Browsers, ended[b] # None, ended[b] > CacheAge
                 PROVE  SessionOf(b) = None
      BY DEF PasswordChangeEndsOthers
    <3>1. live[b] = None /\ ended[b] \in 0..CacheAge + 1
      BY DEF EndedHasNoRow, AccessTypeOK
    <3>2. cookie[b] # None => ended[b] <= cookie[b].age /\ cookie[b].age \in 0..CacheAge + 1
      BY DEF EndedHasNoRow, AccessTypeOK
    <3>3. ~Cached(b)
      BY <3>1, <3>2, AccessAssumption DEF Cached
    <3> QED
      BY <3>1, <3>3 DEF SessionOf
  <2> QED
    BY <2>1, <2>2 DEF SessionsLapse
<1> QED
  BY <1>1, SessionInvariant, PTL
-----------------------------------------------------------------------------
(* What is offered and what is served.  A procedure answers whoever may     *)
(* make one of the requests at its gate.                                    *)
LEMMA GateOpens ==
  ASSUME NEW role \in RoleNames, NEW requests, NEW ops,
         OneOf(requests, ops) \subseteq Requires, AuthorizedAny(role, requests)
  PROVE  ops \subseteq OpenTo[role]
<1> SUFFICES ASSUME NEW op \in ops PROVE op \in OpenTo[role]
  OBVIOUS
<1>1. <<op, requests>> \in Requires
  BY DEF OneOf
<1> DEFINE gates == {g \in Requires : AuthorizedAny(role, g[2])}
<1>2. <<op, requests>> \in gates
  BY <1>1
<1>3. OpenTo[role] = {gate[1] : gate \in gates}
  BY DEF OpenTo
<1> HIDE DEF gates
<1> QED
  BY <1>2, <1>3

LEMMA NeedOpens ==
  ASSUME NEW role \in RoleNames, NEW resource, NEW verb, NEW ops,
         Need(resource, verb, ops) \subseteq Requires, Can(role, resource, verb)
  PROVE  ops \subseteq OpenTo[role]
<1>1. AuthorizedAny(role, {{<<resource, verb>>}})
  BY DEF AuthorizedAny, Can
<1> QED
  BY <1>1, GateOpens DEF Need

LEMMA CanIsGranted ==
  ASSUME NEW role \in RoleNames, NEW resource, NEW verb
  PROVE  Can(role, resource, verb) <=> <<resource, verb>> \in Grants[role]
BY DEF Can, AnyRoleHasPermission

(* The gates of the routers that the pages lean on.                         *)
LEMMA AdminGates ==
  ASSUME NEW role \in RoleNames
  PROVE  /\ Can(role, "config", "read") =>
              {"facilityList", "categoryList", "departmentList", "officeList", "settingsGet",
               "pointList", "pointAssignmentsGet", "devicesList", "devicesStatus",
               "checkpointLog"} \subseteq OpenTo[role]
         /\ Can(role, "config", "manage") =>
              {"facilityCreate", "facilityUpdate", "facilitySetActive", "categoryCreate",
               "categoryUpdate", "categorySetActive", "departmentCreate", "departmentUpdate",
               "departmentSetActive", "officeCreate", "officeUpdate", "officeSetActive",
               "settingsUpdate", "logoSet", "logoClear", "pointCreate", "pointUpdate",
               "pointSetActive", "pointAssignmentsSet", "deviceUpsert", "devicePair",
               "checkpointSetActive", "importHosts"} \subseteq OpenTo[role]
<1>1. AdminRouter \subseteq Requires
  BY DEF Requires
<1>2. Need("config", "read",
           {"facilityList", "categoryList", "departmentList", "officeList", "settingsGet",
            "pointList", "pointAssignmentsGet", "devicesList", "devicesStatus", "checkpointLog"})
        \subseteq AdminRouter
  BY DEF AdminRouter
<1>3. Need("config", "manage",
           {"facilityCreate", "facilityUpdate", "facilitySetActive", "categoryCreate",
            "categoryUpdate", "categorySetActive", "departmentCreate", "departmentUpdate",
            "departmentSetActive", "officeCreate", "officeUpdate", "officeSetActive",
            "settingsUpdate", "logoSet", "logoClear", "pointCreate", "pointUpdate",
            "pointSetActive", "pointAssignmentsSet", "deviceUpsert", "devicePair",
            "checkpointSetActive", "importHosts"}) \subseteq AdminRouter
  BY DEF AdminRouter
<1> QED
  BY <1>1, <1>2, <1>3, NeedOpens

LEMMA UserGates ==
  ASSUME NEW role \in RoleNames
  PROVE  /\ Can(role, "user", "list") => {"userList"} \subseteq OpenTo[role]
         /\ Can(role, "user", "create") => {"userCreate", "userResend"} \subseteq OpenTo[role]
         /\ Can(role, "user", "update") => {"userUpdate", "userSetActive"} \subseteq OpenTo[role]
         /\ Can(role, "user", "set-role") => {"userSetRole"} \subseteq OpenTo[role]
         /\ Can(role, "user", "ban") => {"userBan"} \subseteq OpenTo[role]
<1>1. /\ Need("user", "list", {"userList"}) \subseteq Requires
      /\ Need("user", "create", {"userCreate", "userResend"}) \subseteq Requires
      /\ Need("user", "update", {"userUpdate", "userSetActive"}) \subseteq Requires
      /\ Need("user", "set-role", {"userSetRole"}) \subseteq Requires
      /\ Need("user", "ban", {"userBan"}) \subseteq Requires
  BY DEF Requires, UserRouter
<1> QED
  BY <1>1, NeedOpens

LEMMA LookupGates ==
  ASSUME NEW role \in RoleNames
  PROVE  {"facilities", "categories", "myHost", "myContext", "myLandingPost", "hosts",
          "departments", "officesByDepartment", "hostsByOffice"} \subseteq OpenTo[role]
<1>1. LookupsRouter \subseteq Requires
  BY DEF Requires
<1>2. AuthorizedAny(role, {{}})
  BY DEF AuthorizedAny, AnyRoleHasPermission
<1> QED
  BY <1>1, <1>2, GateOpens DEF LookupsRouter
LEMMA StaffGates ==
  ASSUME NEW role \in RoleNames
  PROVE  /\ Can(role, "appointment", "create") => {"create"} \subseteq OpenTo[role]
         /\ Can(role, "appointment", "update") => {"update"} \subseteq OpenTo[role]
         /\ Can(role, "appointment", "read") =>
              {"list", "get", "trail", "documents", "document"} \subseteq OpenTo[role]
         /\ Can(role, "appointment", "cancel") => {"cancel"} \subseteq OpenTo[role]
         /\ Can(role, "appointment", "approve") => {"approve"} \subseteq OpenTo[role]
         /\ Can(role, "appointment", "deny") => {"deny"} \subseteq OpenTo[role]
         /\ Can(role, "invitation", "resend") => {"resend"} \subseteq OpenTo[role]
         /\ Can(role, "invitation", "revoke") => {"revoke"} \subseteq OpenTo[role]
         /\ Can(role, "visitor", "read") => {"lookup", "byId"} \subseteq OpenTo[role]
         /\ Can(role, "visitor", "create") => {"saveVisitor"} \subseteq OpenTo[role]
<1>1. /\ Need("appointment", "create", {"create"}) \subseteq AppointmentsRouter
      /\ Need("appointment", "update", {"update"}) \subseteq AppointmentsRouter
      /\ Need("appointment", "read", {"list", "get", "trail", "documents", "document"})
           \subseteq AppointmentsRouter
      /\ Need("appointment", "cancel", {"cancel"}) \subseteq AppointmentsRouter
      /\ Need("appointment", "approve", {"approve"}) \subseteq AppointmentsRouter
      /\ Need("appointment", "deny", {"deny"}) \subseteq AppointmentsRouter
  BY DEF AppointmentsRouter
<1>2. /\ Need("invitation", "resend", {"resend"}) \subseteq InvitationsRouter
      /\ Need("invitation", "revoke", {"revoke"}) \subseteq InvitationsRouter
      /\ Need("visitor", "read", {"lookup", "byId"}) \subseteq VisitorsRouter
      /\ Need("visitor", "create", {"saveVisitor"}) \subseteq VisitorsRouter
  BY DEF InvitationsRouter, VisitorsRouter
<1>3. /\ AppointmentsRouter \subseteq Requires /\ InvitationsRouter \subseteq Requires
      /\ VisitorsRouter \subseteq Requires
  BY DEF Requires
<1>4. \A resource, verb, ops :
        Need(resource, verb, ops) \subseteq Requires /\ Can(role, resource, verb)
          => ops \subseteq OpenTo[role]
  BY NeedOpens
<1>5. /\ Can(role, "appointment", "create") => {"create"} \subseteq OpenTo[role]
      /\ Can(role, "appointment", "update") => {"update"} \subseteq OpenTo[role]
      /\ Can(role, "appointment", "read") =>
           {"list", "get", "trail", "documents", "document"} \subseteq OpenTo[role]
      /\ Can(role, "appointment", "cancel") => {"cancel"} \subseteq OpenTo[role]
      /\ Can(role, "appointment", "approve") => {"approve"} \subseteq OpenTo[role]
      /\ Can(role, "appointment", "deny") => {"deny"} \subseteq OpenTo[role]
  BY <1>1, <1>3, NeedOpens
<1>6. /\ Can(role, "invitation", "resend") => {"resend"} \subseteq OpenTo[role]
      /\ Can(role, "invitation", "revoke") => {"revoke"} \subseteq OpenTo[role]
      /\ Can(role, "visitor", "read") => {"lookup", "byId"} \subseteq OpenTo[role]
      /\ Can(role, "visitor", "create") => {"saveVisitor"} \subseteq OpenTo[role]
  BY <1>2, <1>3, NeedOpens
<1> QED
  BY <1>5, <1>6

LEMMA DeskGates ==
  ASSUME NEW role \in RoleNames
  PROVE  /\ Can(role, "checkin", "process") =>
              {"assistedLookup", "assistedComplete", "issueTag", "extractId"} \subseteq OpenTo[role]
         /\ {<<"checkin", "process">>, <<"visitor", "create">>} \subseteq Grants[role] =>
              {"registerWalkIn"} \subseteq OpenTo[role]
         /\ Can(role, "checkin", "checkout") =>
              {"checkout", "assistedCheckout", "returnTag", "tagsOut"} \subseteq OpenTo[role]
         /\ Can(role, "checkin", "override") => {"guardScan"} \subseteq OpenTo[role]
         /\ Can(role, "dashboard", "reception") \/ Can(role, "dashboard", "security") =>
              {"summary", "onSite"} \subseteq OpenTo[role]
         /\ Can(role, "dashboard", "security") => {"security", "muster"} \subseteq OpenTo[role]
<1>1. /\ Need("checkin", "process", {"assistedLookup", "assistedComplete", "issueTag"})
           \subseteq CheckinRouter
      /\ OneOf({{<<"checkin", "process">>, <<"visitor", "create">>}}, {"registerWalkIn"})
           \subseteq CheckinRouter
      /\ Need("checkin", "checkout", {"checkout", "assistedCheckout", "returnTag", "tagsOut"})
           \subseteq CheckinRouter
      /\ Need("checkin", "override", {"guardScan"}) \subseteq CheckinRouter
      /\ Need("checkin", "process", {"extractId"}) \subseteq AiRouter
  BY DEF CheckinRouter, AiRouter
<1>2. /\ OneOf({{<<"dashboard", "reception">>}, {<<"dashboard", "security">>}},
               {"summary", "onSite"}) \subseteq DashboardRouter
      /\ Need("dashboard", "security", {"security", "muster"}) \subseteq DashboardRouter
  BY DEF DashboardRouter
<1>3. /\ CheckinRouter \subseteq Requires /\ AiRouter \subseteq Requires
      /\ DashboardRouter \subseteq Requires
  BY DEF Requires
<1>4. Can(role, "dashboard", "reception") \/ Can(role, "dashboard", "security") =>
        AuthorizedAny(role, {{<<"dashboard", "reception">>}, {<<"dashboard", "security">>}})
  BY DEF AuthorizedAny, Can
<1>5. {<<"checkin", "process">>, <<"visitor", "create">>} \subseteq Grants[role] =>
        AuthorizedAny(role, {{<<"checkin", "process">>, <<"visitor", "create">>}})
  BY DEF AuthorizedAny, AnyRoleHasPermission
<1>6. Can(role, "checkin", "process") =>
        {"assistedLookup", "assistedComplete", "issueTag", "extractId"} \subseteq OpenTo[role]
  <2>1. Can(role, "checkin", "process") =>
          /\ {"assistedLookup", "assistedComplete", "issueTag"} \subseteq OpenTo[role]
          /\ {"extractId"} \subseteq OpenTo[role]
    BY <1>1, <1>3, NeedOpens
  <2> QED
    BY <2>1
<1>7. /\ Can(role, "checkin", "checkout") =>
           {"checkout", "assistedCheckout", "returnTag", "tagsOut"} \subseteq OpenTo[role]
      /\ Can(role, "checkin", "override") => {"guardScan"} \subseteq OpenTo[role]
      /\ Can(role, "dashboard", "security") => {"security", "muster"} \subseteq OpenTo[role]
  BY <1>1, <1>2, <1>3, NeedOpens
<1>8. {<<"checkin", "process">>, <<"visitor", "create">>} \subseteq Grants[role] =>
        {"registerWalkIn"} \subseteq OpenTo[role]
  BY <1>1, <1>3, <1>5, GateOpens
<1>9. Can(role, "dashboard", "reception") \/ Can(role, "dashboard", "security") =>
        {"summary", "onSite"} \subseteq OpenTo[role]
  BY <1>2, <1>3, <1>4, GateOpens
<1> QED
  BY <1>6, <1>7, <1>8, <1>9

LEMMA WatchGates ==
  ASSUME NEW role \in RoleNames
  PROVE  /\ Can(role, "incident", "read") => {"incidents"} \subseteq OpenTo[role]
         /\ Can(role, "incident", "resolve") => {"resolve"} \subseteq OpenTo[role]
         /\ Can(role, "watchlist", "read") => {"watchlist"} \subseteq OpenTo[role]
         /\ Can(role, "watchlist", "manage") => {"add", "remove"} \subseteq OpenTo[role]
         /\ Can(role, "analyst", "read") => AiAnalystCard \subseteq OpenTo[role]
         /\ Can(role, "report", "insights") =>
              {"insights", "insightsLog", "insightsFacilities", "exportCsv", "exportXlsx"}
                \subseteq OpenTo[role]
         /\ Can(role, "report", "read") =>
              {"visitorSearch", "visitorAnalytics"} \subseteq OpenTo[role]
         /\ Can(role, "audit", "read") => {"auditList"} \subseteq OpenTo[role]
<1>1. /\ Need("incident", "read", {"incidents"}) \subseteq Requires
      /\ Need("incident", "resolve", {"resolve"}) \subseteq Requires
      /\ Need("watchlist", "read", {"watchlist"}) \subseteq Requires
      /\ Need("watchlist", "manage", {"add", "remove"}) \subseteq Requires
      /\ Need("audit", "read", {"auditList"}) \subseteq Requires
  BY DEF Requires, IncidentsRouter, WatchlistRouter, AuditRouter
<1>2. /\ OneOf({{<<"analyst", "read">>}, {<<"analyst", "operations">>}}, {"aiStatus", "speak"})
           \subseteq Requires
      /\ Need("analyst", "read", {"summarizeIncident", "askAudit", "similarIncidents"})
           \subseteq Requires
  BY DEF Requires, AiRouter
<1>3. /\ Need("report", "insights", {"insights", "insightsLog", "insightsFacilities"})
           \subseteq Requires
      /\ Need("report", "read", {"visitorLog", "statusBreakdown", "dailyVolume",
                                 "visitorSearch", "visitorAnalytics"}) \subseteq Requires
      /\ Need("report", "insights", {"exportCsv", "exportXlsx"}) \subseteq Requires
  BY DEF Requires, ReportsRouter, RequireInsights
<1>4. /\ Can(role, "incident", "read") => {"incidents"} \subseteq OpenTo[role]
      /\ Can(role, "incident", "resolve") => {"resolve"} \subseteq OpenTo[role]
      /\ Can(role, "watchlist", "read") => {"watchlist"} \subseteq OpenTo[role]
      /\ Can(role, "watchlist", "manage") => {"add", "remove"} \subseteq OpenTo[role]
      /\ Can(role, "audit", "read") => {"auditList"} \subseteq OpenTo[role]
  BY <1>1, NeedOpens
<1>5. Can(role, "analyst", "read") =>
        AuthorizedAny(role, {{<<"analyst", "read">>}, {<<"analyst", "operations">>}})
  BY DEF AuthorizedAny, Can
<1>6. Can(role, "analyst", "read") => {"aiStatus", "speak"} \subseteq OpenTo[role]
  BY <1>2, <1>5, GateOpens
<1>7. Can(role, "analyst", "read") =>
        {"summarizeIncident", "askAudit", "similarIncidents"} \subseteq OpenTo[role]
  BY <1>2, NeedOpens
<1>8. Can(role, "report", "insights") =>
        /\ {"insights", "insightsLog", "insightsFacilities"} \subseteq OpenTo[role]
        /\ {"exportCsv", "exportXlsx"} \subseteq OpenTo[role]
  BY <1>3, NeedOpens
<1>9. Can(role, "report", "read") =>
        {"visitorLog", "statusBreakdown", "dailyVolume", "visitorSearch", "visitorAnalytics"}
          \subseteq OpenTo[role]
  BY <1>3, NeedOpens
<1> QED
  BY <1>4, <1>6, <1>7, <1>8, <1>9 DEF AiAnalystCard

LEMMA ActsAre ==
  ASSUME NEW resource, NEW verbs, NEW r, NEW v
  PROVE  <<r, v>> \in Acts(resource, verbs) <=> r = resource /\ v \in verbs
BY DEF Acts

(* What the table of roles must say for the pages and the gates to agree:   *)
(* whoever makes appointments may look visitors up, whoever checks them in  *)
(* may look them up and add them, and whoever manages the configuration may *)
(* read it and manage the accounts.                                         *)
Agrees(granted) ==
  /\ <<"appointment", "create">> \in granted => <<"visitor", "read">> \in granted
  /\ <<"checkin", "process">> \in granted =>
       <<"visitor", "read">> \in granted /\ <<"visitor", "create">> \in granted
  /\ <<"config", "manage">> \in granted =>
       /\ <<"config", "read">> \in granted /\ <<"user", "list">> \in granted
       /\ <<"user", "create">> \in granted /\ <<"user", "update">> \in granted
       /\ <<"user", "set-role">> \in granted /\ <<"user", "ban">> \in granted

LEMMA TableAgrees == \A role \in RoleNames : Agrees(Grants[role])
<1>1. /\ Grants["visitor"] = Visitor /\ Grants["host"] = Host
      /\ Grants["receptionist"] = Receptionist /\ Grants["secretary"] = Secretary
      /\ Grants["security_guard"] = SecurityGuard
      /\ Grants["security_manager"] = SecurityManager
      /\ Grants["system_administrator"] = SystemAdministrator /\ Grants["auditor"] = Auditor
  BY DEF Grants, RoleNames
<1>2. Agrees(Visitor)
  BY ActsAre DEF Agrees, Visitor
<1>3. Agrees(Host)
  BY ActsAre DEF Agrees, Host
<1>4. Agrees(Receptionist)
  BY ActsAre DEF Agrees, Receptionist
<1>5. Agrees(Secretary)
  BY ActsAre DEF Agrees, Secretary
<1>6. Agrees(SecurityGuard)
  BY ActsAre DEF Agrees, SecurityGuard, EitherSecurity
<1>7. Agrees(SecurityManager)
  BY ActsAre DEF Agrees, SecurityManager, EitherSecurity
<1>8. Agrees(SystemAdministrator)
  BY ActsAre DEF Agrees, SystemAdministrator
<1>9. Agrees(Auditor)
  BY ActsAre DEF Agrees, Auditor
<1> QED
  BY <1>1, <1>2, <1>3, <1>4, <1>5, <1>6, <1>7, <1>8, <1>9 DEF RoleNames

LEMMA RightsComeTogether ==
  ASSUME NEW role \in RoleNames
  PROVE  /\ Can(role, "appointment", "create") => Can(role, "visitor", "read")
         /\ Can(role, "checkin", "process") =>
              /\ Can(role, "visitor", "read") /\ Can(role, "visitor", "create")
              /\ {<<"checkin", "process">>, <<"visitor", "create">>} \subseteq Grants[role]
         /\ Can(role, "config", "manage") =>
              /\ Can(role, "config", "read") /\ Can(role, "user", "list")
              /\ Can(role, "user", "create") /\ Can(role, "user", "update")
              /\ Can(role, "user", "set-role") /\ Can(role, "user", "ban")
BY TableAgrees, CanIsGranted DEF Agrees
(* The pages, each for whoever has it in his menu.                          *)
LEMMA StaffPages ==
  ASSUME NEW role \in RoleNames
  PROVE  /\ Can(role, "appointment", "read") => Appointments \subseteq OpenTo[role]
         /\ Can(role, "appointment", "read") => AppointmentDetail(role) \subseteq OpenTo[role]
         /\ CanCreate(role) => NewAppointment(role) \subseteq OpenTo[role]
         /\ Can(role, "dashboard", "reception") => Reception(role) \subseteq OpenTo[role]
<1>1. Can(role, "appointment", "read") => Appointments \subseteq OpenTo[role]
  BY StaffGates, LookupGates DEF Appointments
<1>2. Can(role, "appointment", "read") => AppointmentDetail(role) \subseteq OpenTo[role]
  BY StaffGates DEF AppointmentDetail, Only
<1>3. CanCreate(role) => NewAppointment(role) \subseteq OpenTo[role]
  BY StaffGates, LookupGates, DeskGates, RightsComeTogether DEF CanCreate, NewAppointment, Only
<1>4. Can(role, "dashboard", "reception") => Reception(role) \subseteq OpenTo[role]
  <2>1. Can(role, "checkin", "process") =>
          {"assistedLookup", "assistedComplete", "facilities", "departments",
           "officesByDepartment", "hostsByOffice", "registerWalkIn", "lookup", "saveVisitor"}
            \subseteq OpenTo[role]
    BY StaffGates, LookupGates, DeskGates, RightsComeTogether
  <2>2. Can(role, "checkin", "checkout") => {"checkout", "tagsOut"} \subseteq OpenTo[role]
    BY DeskGates
  <2>3. Can(role, "dashboard", "reception") => {"summary", "onSite"} \subseteq OpenTo[role]
    BY DeskGates
  <2> QED
    BY <2>1, <2>2, <2>3 DEF Reception, Only
<1> QED
  BY <1>1, <1>2, <1>3, <1>4

LEMMA WatchPages ==
  ASSUME NEW role \in RoleNames
  PROVE  /\ Can(role, "dashboard", "security") => SecurityPage(role) \subseteq OpenTo[role]
         /\ Can(role, "dashboard", "security") => {"muster"} \subseteq OpenTo[role]
         /\ Can(role, "report", "insights") => InsightsPage(role) \subseteq OpenTo[role]
         /\ Can(role, "report", "insights") => VisitorLogPage \subseteq OpenTo[role]
         /\ Can(role, "audit", "read") => {"auditList"} \subseteq OpenTo[role]
<1>1. Can(role, "dashboard", "security") =>
        SecurityPage(role) \subseteq OpenTo[role] /\ {"muster"} \subseteq OpenTo[role]
  <2>1. Can(role, "dashboard", "security") => {"security", "muster"} \subseteq OpenTo[role]
    BY DeskGates
  <2>2. Can(role, "checkin", "override") => {"guardScan"} \subseteq OpenTo[role]
    BY DeskGates
  <2>3. Can(role, "analyst", "read") => AiAnalystCard \subseteq OpenTo[role]
    BY WatchGates
  <2>4. /\ Can(role, "incident", "read") => {"incidents"} \subseteq OpenTo[role]
        /\ Can(role, "incident", "resolve") => {"resolve"} \subseteq OpenTo[role]
        /\ Can(role, "watchlist", "read") => {"watchlist"} \subseteq OpenTo[role]
        /\ Can(role, "watchlist", "manage") => {"add", "remove"} \subseteq OpenTo[role]
    BY WatchGates
  <2> QED
    BY <2>1, <2>2, <2>3, <2>4 DEF SecurityPage, Only
<1>2. Can(role, "report", "insights") =>
        InsightsPage(role) \subseteq OpenTo[role] /\ VisitorLogPage \subseteq OpenTo[role]
  BY WatchGates DEF InsightsPage, VisitorLogPage, Only
<1>3. Can(role, "audit", "read") => {"auditList"} \subseteq OpenTo[role]
  BY WatchGates
<1> QED
  BY <1>1, <1>2, <1>3

LEMMA AdministrationPages ==
  ASSUME NEW role \in RoleNames, Can(role, "config", "manage")
  PROVE  /\ SettingsPage \subseteq OpenTo[role] /\ UsersPage \subseteq OpenTo[role]
         /\ PointsPage \subseteq OpenTo[role] /\ DevicesPage \subseteq OpenTo[role]
         /\ FacilitiesPage \subseteq OpenTo[role] /\ DepartmentsPage \subseteq OpenTo[role]
         /\ OfficesPage \subseteq OpenTo[role] /\ CategoriesPage \subseteq OpenTo[role]
<1>1. /\ {"facilityList", "categoryList", "departmentList", "officeList", "settingsGet",
          "pointList", "pointAssignmentsGet", "devicesList", "devicesStatus",
          "checkpointLog"} \subseteq OpenTo[role]
      /\ {"facilityCreate", "facilityUpdate", "facilitySetActive", "categoryCreate",
          "categoryUpdate", "categorySetActive", "departmentCreate", "departmentUpdate",
          "departmentSetActive", "officeCreate", "officeUpdate", "officeSetActive",
          "settingsUpdate", "logoSet", "logoClear", "pointCreate", "pointUpdate",
          "pointSetActive", "pointAssignmentsSet", "deviceUpsert", "devicePair",
          "checkpointSetActive", "importHosts"} \subseteq OpenTo[role]
  BY AdminGates, RightsComeTogether
<1>2. /\ {"userList"} \subseteq OpenTo[role] /\ {"userCreate", "userResend"} \subseteq OpenTo[role]
      /\ {"userUpdate", "userSetActive"} \subseteq OpenTo[role]
      /\ {"userSetRole"} \subseteq OpenTo[role] /\ {"userBan"} \subseteq OpenTo[role]
  BY UserGates, RightsComeTogether
<1>3. SettingsPage \subseteq OpenTo[role] /\ UsersPage \subseteq OpenTo[role]
  BY <1>1, <1>2 DEF SettingsPage, UsersPage
<1>4. PointsPage \subseteq OpenTo[role] /\ DevicesPage \subseteq OpenTo[role]
  BY <1>1, <1>2 DEF PointsPage, DevicesPage
<1>5. FacilitiesPage \subseteq OpenTo[role] /\ DepartmentsPage \subseteq OpenTo[role]
  BY <1>1 DEF FacilitiesPage, DepartmentsPage
<1>6. OfficesPage \subseteq OpenTo[role] /\ CategoriesPage \subseteq OpenTo[role]
  BY <1>1 DEF OfficesPage, CategoriesPage
<1> QED
  BY <1>3, <1>4, <1>5, <1>6

LEMMA MenuIsServed ==
  ASSUME NEW role \in RoleNames, NEW page \in Menu(role)
  PROVE  Asks(page, role) \subseteq OpenTo[role]
<1>1. CASE page \in Only(Can(role, "appointment", "read"), {"appointments", "detail"})
  <2>1. Can(role, "appointment", "read") /\ page \in {"appointments", "detail"}
    BY <1>1 DEF Only
  <2> QED
    BY <2>1, StaffPages DEF Asks
<1>2. CASE page \in Only(CanCreate(role), {"new"})
  <2>1. CanCreate(role) /\ page = "new"
    BY <1>2 DEF Only
  <2> QED
    BY <2>1, StaffPages DEF Asks
<1>3. CASE page \in Only(Can(role, "dashboard", "reception"), {"reception"})
  <2>1. Can(role, "dashboard", "reception") /\ page = "reception"
    BY <1>3 DEF Only
  <2> QED
    BY <2>1, StaffPages DEF Asks
<1>4. CASE page \in Only(Can(role, "dashboard", "security"), {"security", "muster"})
  <2>1. Can(role, "dashboard", "security") /\ page \in {"security", "muster"}
    BY <1>4 DEF Only
  <2> QED
    BY <2>1, WatchPages DEF Asks
<1>5. CASE page \in Only(Can(role, "report", "insights"), {"insights", "visitorLog"})
  <2>1. Can(role, "report", "insights") /\ page \in {"insights", "visitorLog"}
    BY <1>5 DEF Only
  <2> QED
    BY <2>1, WatchPages DEF Asks
<1>6. CASE page \in Only(Can(role, "audit", "read"), {"audit"})
  <2>1. Can(role, "audit", "read") /\ page = "audit"
    BY <1>6 DEF Only
  <2> QED
    BY <2>1, WatchPages DEF Asks
<1>7. CASE page \in AdminPages(role)
  <2>1. /\ Can(role, "config", "manage")
        /\ page \in {"settings", "points", "devices", "facilities", "departments", "offices",
                     "categories", "policies", "users"}
    BY <1>7 DEF AdminPages, Only
  <2> QED
    BY <2>1, AdministrationPages DEF Asks
<1> QED
  BY <1>1, <1>2, <1>3, <1>4, <1>5, <1>6, <1>7 DEF Menu

(* Whatever a page in the menu of a role asks, and every button it shows to *)
(* it, the server answers while browser and server agree on who is signed   *)
(* in: for each of the eight roles, however the accounts came to have them. *)
THEOREM WorkspaceOfferedIsServed == Spec => []OfferedIsServed
<1>1. ASSUME NEW role \in RoleNames PROVE Offered[role] \subseteq OpenTo[role]
  <2>1. Offered[role] = Shell \cup UNION {Asks(page, role) : page \in Menu(role)}
    BY DEF Offered
  <2>2. Shell \subseteq OpenTo[role]
    BY LookupGates DEF Shell
  <2> QED
    BY <2>1, <2>2, MenuIsServed
<1>2. SessionIInv => OfferedIsServed
  <2> SUFFICES ASSUME SessionIInv, NEW b \in Browsers, shown[b] # None, shown[b] = SessionOf(b)
               PROVE  Offered[shown[b].role] \subseteq Served(b)
    BY DEF OfferedIsServed
  <2>1. shown[b].role \in RoleNames
    BY DEF SessionIInv, AccessTypeOK
  <2> QED
    BY <1>1, <2>1 DEF Served
<1> QED
  BY <1>2, SessionInvariant, PTL
-----------------------------------------------------------------------------
(* Reports.  A request is served by rights and postings as they were read   *)
(* one after the other: what it may show is what its caller was in charge   *)
(* of since it was made, the conditions it reads by are within that, and so *)
(* are the rows it has got.  Nobody is ever told of a visit that was not    *)
(* made, and a visit stays where it was made.                               *)
ChargeOf(caller, postings) ==
  IF AnyRoleHasPermission({caller.role}, {<<"report", "read">>}) THEN Facilities
  ELSE postings[caller.user]
Within(visits, order, may) ==
  \A i \in DOMAIN order : /\ order[i] \in Visits /\ visits[order[i]] # None
                          /\ visits[order[i]].facility \in may
Sound(input) == input.page \in Nat \ {0} /\ input.size \in Nat \ {0}

IsReading(r) ==
  r = [kind |-> r.kind, input |-> r.input, caller |-> r.caller, at |-> r.at,
       facilities |-> r.facilities, got |-> r.got, still |-> r.still, may |-> r.may]
IsAnswer(x) ==
  x = [input |-> x.input, still |-> x.still, may |-> x.may, rows |-> x.rows, total |-> x.total]
IsExport(x) == x = [input |-> x.input, still |-> x.still, may |-> x.may, rows |-> x.rows]

ReadingInScope(r, visits, postings) ==
  /\ IsReading(r) /\ Sound(r.input) /\ r.caller \in [user : Users, role : RoleNames]
  /\ \A f \in Facilities : f \in ChargeOf(r.caller, postings) => f \in r.may
  /\ r.at # "scope" =>
       \A f \in Facilities : r.facilities = None \/ f \in r.facilities => f \in r.may
  /\ r.at = "count" => Within(visits, r.got, r.may)
PageOK(page) ==
  page = [filter |-> page.filter, page |-> page.page, size |-> page.size] /\ Sound(page)

StoreOK == log \in [Visits -> LogRow \cup {None}] /\ stations \in [Users -> SUBSET Facilities]
AnswersInScope ==
  /\ answer # None => IsAnswer(answer) /\ Within(log, answer.rows, answer.may)
  /\ exported # None => IsExport(exported) /\ Within(log, exported.rows, exported.may)
ReportIInv ==
  /\ StoreOK /\ PageOK(report) /\ AnswersInScope
  /\ reading # None => ReadingInScope(reading, log, stations)

(* Visits stay where they were made.                                        *)
KeepsRows(before, after) ==
  \A v \in Visits : before[v] # None => after[v] # None /\ after[v].facility = before[v].facility

LEMMA WithinStays ==
  ASSUME NEW before, NEW after, NEW order, NEW may, NEW more,
         KeepsRows(before, after), Within(before, order, may), may \subseteq more
  PROVE  Within(after, order, more)
BY DEF KeepsRows, Within

(* Whatever is cut out of an ordering of some visits is of them.            *)
LEMMA CutWithin ==
  ASSUME NEW chosen \in SUBSET Visits, NEW order \in SetToSeqs(chosen),
         NEW from \in Nat, NEW n \in Nat
  PROVE  \A i \in DOMAIN Cut(order, from, n) : Cut(order, from, n)[i] \in chosen
<1>1. IsFiniteSet(chosen) /\ Cardinality(chosen) \in Nat
  BY ReportsAssumption, FS_Subset, FS_CardinalityType
<1>2. order \in [1..Cardinality(chosen) -> chosen]
  BY DEF SetToSeqs
<1>3. order \in Seq(chosen) /\ Len(order) = Cardinality(chosen)
  BY <1>1, <1>2
<1> DEFINE last == IF from + n < Len(order) THEN from + n ELSE Len(order)
<1>4. last \in Nat /\ last <= Len(order)
  BY <1>1, <1>3
<1>5. Cut(order, from, n) = SubSeq(order, from + 1, last)
  BY DEF Cut
<1> HIDE DEF last
<1>6. SubSeq(order, from + 1, last) = [i \in 1..(1 + last - (from + 1)) |-> order[i + (from + 1) - 1]]
  BY <1>3, <1>4
<1> SUFFICES ASSUME NEW i \in 1..(1 + last - (from + 1))
             PROVE  order[i + (from + 1) - 1] \in chosen
  BY <1>5, <1>6
<1>7. i + (from + 1) - 1 \in 1..Len(order)
  BY <1>1, <1>3, <1>4
<1> QED
  BY <1>2, <1>3, <1>7

LEMMA ReportsStart == Init => ReportIInv
<1> SUFFICES ASSUME Init PROVE ReportIInv
  OBVIOUS
<1> USE DEF Init, ReportsInit
<1>1. StoreOK
  BY ReportsAssumption DEF StoreOK
<1> DEFINE least == CHOOSE n \in PageSizes : \A m \in PageSizes : n <= m
<1>2. least \in PageSizes
  BY ReportsAssumption
<1>3. \E f : report = [filter |-> f, page |-> 1, size |-> least]
  OBVIOUS
<1> HIDE DEF least
<1>4. PageOK(report)
  BY ONLY <1>2, <1>3, ReportsAssumption DEF PageOK, Sound
<1> QED
  BY <1>1, <1>4 DEF ReportIInv, AnswersInScope
(* An answer that is out of date shows what it showed.                      *)
LEMMA OutdatedKeeps ==
  ASSUME AnswersInScope, KeepsRows(log, log'), Outdated
  PROVE  AnswersInScope'
<1> USE DEF Outdated
<1>1. ASSUME answer' # None
      PROVE  IsAnswer(answer') /\ Within(log', answer'.rows, answer'.may)
  <2>1. answer # None /\ IsAnswer(answer) /\ Within(log, answer.rows, answer.may)
        /\ answer' = [answer EXCEPT !.still = FALSE]
    BY <1>1 DEF Since, AnswersInScope
  <2>2. IsAnswer(answer') /\ answer'.rows = answer.rows /\ answer'.may = answer.may
    BY <2>1 DEF IsAnswer
  <2> QED
    BY <2>1, <2>2, WithinStays
<1>2. ASSUME exported' # None
      PROVE  IsExport(exported') /\ Within(log', exported'.rows, exported'.may)
  <2>1. exported # None /\ IsExport(exported) /\ Within(log, exported.rows, exported.may)
        /\ exported' = [exported EXCEPT !.still = FALSE]
    BY <1>2 DEF Since, AnswersInScope
  <2>2. IsExport(exported') /\ exported'.rows = exported.rows /\ exported'.may = exported.may
    BY <2>1 DEF IsExport
  <2> QED
    BY <2>1, <2>2, WithinStays
<1> QED
  BY <1>1, <1>2 DEF AnswersInScope

(* What is stored changes under a request: it may show as much as before,   *)
(* and what its caller came to be in charge of.                             *)
LEMMA StirredKeeps ==
  ASSUME ReportIInv, StoreOK', KeepsRows(log, log'), Stirred
  PROVE  ReportIInv'
<1> USE DEF ReportIInv, Stirred
<1>1. PageOK(report)'
  OBVIOUS
<1>2. AnswersInScope'
  BY OutdatedKeeps
<1>3. ASSUME reading' # None PROVE ReadingInScope(reading', log', stations')
  <2>1. reading # None /\ ReadingInScope(reading, log, stations)
    BY <1>3
  <2>2. reading' = [reading EXCEPT !.still = FALSE,
                                   !.may = reading.may \cup stations'[reading.caller.user]]
    BY <2>1
  <2>3. /\ IsReading(reading') /\ reading'.input = reading.input /\ reading'.at = reading.at
        /\ reading'.caller = reading.caller /\ reading'.got = reading.got
        /\ reading'.facilities = reading.facilities
        /\ reading'.may = reading.may \cup stations'[reading.caller.user]
    BY <2>1, <2>2 DEF ReadingInScope, IsReading
  <2>4. \A f \in Facilities : f \in ChargeOf(reading.caller, stations') => f \in reading'.may
    BY <2>1, <2>3 DEF ReadingInScope, ChargeOf
  <2>5. reading.at = "count" => Within(log', reading.got, reading'.may)
    BY <2>1, <2>3, WithinStays DEF ReadingInScope
  <2> QED
    BY <2>1, <2>3, <2>4, <2>5 DEF ReadingInScope
<1> QED
  BY <1>1, <1>2, <1>3

LEMMA StoreKeeps ==
  ASSUME ReportIInv,
         \/ \E v \in Visits : \/ Arrive(v) \/ \E row \in scene.rows : Register(v, row)
                              \/ \E t \in Times : Reschedule(v, t)
         \/ \E u \in scene.users, facilities \in SUBSET Facilities : Restation(u, facilities),
         scene \in Scenes
  PROVE  ReportIInv'
<1>1. log \in [Visits -> LogRow \cup {None}] /\ stations \in [Users -> SUBSET Facilities]
  BY DEF ReportIInv, StoreOK
<1>2. StoreOK' /\ KeepsRows(log, log') /\ Stirred
  <2>1. ASSUME NEW v \in Visits, Arrive(v)
        PROVE  StoreOK' /\ KeepsRows(log, log') /\ Stirred
    <3>1. log[v] \in LogRow
      BY <1>1, <2>1 DEF Arrive, Logged
    <3>2. /\ log' = [log EXCEPT ![v] = [log[v] EXCEPT !.status = "checked_in"]]
          /\ UNCHANGED stations /\ Stirred
      BY <1>1, <2>1 DEF Arrive
    <3>3. /\ [log[v] EXCEPT !.status = "checked_in"] \in LogRow
          /\ [log[v] EXCEPT !.status = "checked_in"].facility = log[v].facility
      BY <3>1 DEF LogRow, Statuses
    <3> QED
      BY <1>1, <3>2, <3>3, ReportsAssumption DEF StoreOK, KeepsRows
  <2>2. ASSUME NEW v \in Visits, NEW row \in scene.rows, Register(v, row)
        PROVE  StoreOK' /\ KeepsRows(log, log') /\ Stirred
    BY <1>1, <2>2, ReportsAssumption DEF Register, StoreOK, KeepsRows
  <2>3. ASSUME NEW v \in Visits, NEW t \in Times, Reschedule(v, t)
        PROVE  StoreOK' /\ KeepsRows(log, log') /\ Stirred
    <3>1. log[v] \in LogRow
      BY <1>1, <2>3 DEF Reschedule, Logged
    <3>2. /\ log' = [log EXCEPT ![v] = [log[v] EXCEPT !.expected = t]]
          /\ UNCHANGED stations /\ Stirred
      BY <1>1, <2>3 DEF Reschedule
    <3>3. /\ [log[v] EXCEPT !.expected = t] \in LogRow
          /\ [log[v] EXCEPT !.expected = t].facility = log[v].facility
      BY <3>1, ReportsAssumption DEF LogRow
    <3> QED
      BY <1>1, <3>2, <3>3, ReportsAssumption DEF StoreOK, KeepsRows
  <2>4. ASSUME NEW u \in scene.users, NEW facilities \in SUBSET Facilities,
               Restation(u, facilities)
        PROVE  StoreOK' /\ KeepsRows(log, log') /\ Stirred
    BY <1>1, <2>4 DEF Restation, StoreOK, KeepsRows
  <2> QED
    BY <2>1, <2>2, <2>3, <2>4
<1> QED
  BY <1>2, StirredKeeps
(* The page asks, and lets go of what it has been told of another choice.   *)
LEMMA ChoiceKeeps ==
  ASSUME ReportIInv,
         \/ LoadChoices \/ \E f \in scene.filters : SetFilter(f)
         \/ \E n \in PageSizes : SetPageSize(n)
         \/ \E p \in 1..Cardinality(Visits) : SetPage(p)
  PROVE  ReportIInv'
<1> USE DEF ReportIInv
<1>1. CASE LoadChoices
  BY <1>1 DEF LoadChoices, store, results, StoreOK, AnswersInScope
<1>2. ASSUME NEW f, SetFilter(f) PROVE ReportIInv'
  <2>1. report' = [report EXCEPT !.filter = f, !.page = 1] /\ UNCHANGED store
        /\ reading' = None /\ answer' = None /\ exported' = None
    BY <1>2 DEF SetFilter
  <2>2. report' = [filter |-> f, page |-> 1, size |-> report.size]
    BY <2>1 DEF PageOK
  <2>3. PageOK(report)'
    BY ONLY ReportIInv, <2>2 DEF ReportIInv, PageOK, Sound
  <2> QED
    BY <2>1, <2>3 DEF store, StoreOK, AnswersInScope
<1>3. ASSUME NEW n \in PageSizes, SetPageSize(n) PROVE ReportIInv'
  <2>1. report' = [report EXCEPT !.size = n] /\ UNCHANGED <<store, exported>>
        /\ reading' = None /\ answer' = None
    BY <1>3 DEF SetPageSize
  <2>2. PageOK(report)'
    BY <2>1, ReportsAssumption DEF PageOK, Sound
  <2> QED
    BY <2>1, <2>2 DEF store, StoreOK, AnswersInScope
<1>4. ASSUME NEW p \in 1..Cardinality(Visits), SetPage(p) PROVE ReportIInv'
  <2>1. report' = [report EXCEPT !.page = p] /\ UNCHANGED <<store, exported>>
        /\ reading' = None /\ answer' = None
    BY <1>4 DEF SetPage
  <2>2. p \in Nat \ {0}
    BY FS_CardinalityType, ReportsAssumption
  <2>3. report' = [filter |-> report.filter, page |-> p, size |-> report.size]
    BY <2>1 DEF PageOK
  <2>4. PageOK(report)'
    BY ONLY ReportIInv, <2>2, <2>3 DEF ReportIInv, PageOK, Sound
  <2> QED
    BY <2>1, <2>4 DEF store, StoreOK, AnswersInScope
<1> QED
  BY <1>1, <1>2, <1>3, <1>4

LEMMA AskKeeps ==
  ASSUME SessionIInv, ReportIInv, NEW kind, Ask(kind)
  PROVE  ReportIInv'
<1> USE DEF ReportIInv
<1>1. Caller \in [user : Users, role : RoleNames]
  <2>1. SessionOf(Reader) # None
    BY DEF Ask, Serves, Served
  <2> QED
    BY <2>1, SessionType, ReportsAssumption DEF SessionIInv, Caller
<1>2. /\ UNCHANGED <<store, report, results>>
      /\ reading' = [kind |-> kind, input |-> report, caller |-> Caller, at |-> "scope",
                     facilities |-> None, got |-> <<>>, still |-> TRUE,
                     may |-> ReportFacilities(Caller)]
  BY DEF Ask
<1>3. stations[Caller.user] \in SUBSET Facilities
  BY <1>1 DEF StoreOK
<1>4. \A f \in Facilities : f \in ChargeOf(Caller, stations) => f \in ReportFacilities(Caller)
  BY <1>3, ReportsAssumption DEF ChargeOf, ReportFacilities, ReportScope
<1>5. ReadingInScope(reading', log', stations')
  BY <1>1, <1>2, <1>4 DEF ReadingInScope, IsReading, PageOK, store
<1> QED
  BY <1>2, <1>5 DEF store, results, StoreOK, AnswersInScope

(* A caller's scope, and the facility he asked for within it.               *)
LEMMA EffectiveIsWithin ==
  ASSUME StoreOK, ReadingInScope(reading, log, stations), NEW requested
  PROVE  LET facilities == EffectiveFacilities(ReportScope(reading.caller), requested)
         IN  \A f \in Facilities : facilities = None \/ f \in facilities => f \in reading.may
<1> DEFINE scope == ReportScope(reading.caller)
<1>1. \A f \in Facilities : f \in ChargeOf(reading.caller, stations) => f \in reading.may
  BY DEF ReadingInScope
<1>2. CASE scope = None
  <2>1. ChargeOf(reading.caller, stations) = Facilities
    <3>1. stations[reading.caller.user] \in SUBSET Facilities
      BY DEF StoreOK, ReadingInScope
    <3> QED
      BY <1>2, <3>1, ReportsAssumption DEF ReportScope, ChargeOf
  <2> QED
    BY <1>1, <2>1
<1>3. CASE scope # None
  <2>1. scope = stations[reading.caller.user] /\ scope = ChargeOf(reading.caller, stations)
    BY <1>3 DEF ReportScope, ChargeOf
  <2>2. scope \in SUBSET Facilities
    BY <2>1 DEF StoreOK, ReadingInScope
  <2>3. \A f \in Facilities : f \in scope => f \in reading.may
    BY <1>1, <2>1
  <2> HIDE DEF scope
  <2>4. EffectiveFacilities(scope, requested) \in SUBSET scope
    BY <1>3 DEF EffectiveFacilities
  <2>5. EffectiveFacilities(scope, requested) # None
    BY <2>2, <2>4, ReportsAssumption
  <2> QED
    BY <2>3, <2>4, <2>5 DEF scope
<1> QED
  BY <1>2, <1>3

(* What a request's conditions choose, it may show.                         *)
LEMMA MatchingIsWithin ==
  ASSUME StoreOK, ReadingInScope(reading, log, stations), reading.at # "scope",
         NEW from \in Nat, NEW n \in Nat, NEW order \in LogRowsQuery(Matching)
  PROVE  Within(log, Cut(order, from, n), reading.may)
<1>1. Matching \in SUBSET Visits
  BY DEF Matching, LogConditions, Logged
<1>2. order \in SetToSeqs(Matching)
  BY DEF LogRowsQuery
<1>3. \A v \in Matching : /\ v \in Visits /\ log[v] # None
                          /\ reading.facilities = None \/ log[v].facility \in reading.facilities
  BY DEF Matching, LogConditions, Logged, InFacilities
<1>4. \A v \in Matching : log[v].facility \in Facilities
  BY <1>3 DEF StoreOK, LogRow
<1>5. \A v \in Matching : log[v].facility \in reading.may
  BY <1>3, <1>4 DEF ReadingInScope
<1>6. \A i \in DOMAIN Cut(order, from, n) : Cut(order, from, n)[i] \in Matching
  BY <1>1, <1>2, CutWithin
<1> QED
  BY <1>3, <1>5, <1>6 DEF Within
(* Each statement of the serving.                                           *)
LEMMA ReadScopeKeeps ==
  ASSUME ReportIInv, ReadScope
  PROVE  ReportIInv'
<1> USE DEF ReportIInv
<1> DEFINE facilities == EffectiveFacilities(ReportScope(reading.caller),
                                             reading.input.filter.facility)
<1>1. reading # None /\ reading.at = "scope" /\ ReadingInScope(reading, log, stations)
  BY DEF ReadScope
<1>2. CASE Onward([reading EXCEPT !.at = "rows", !.facilities = facilities])
  <2>1. \A f \in Facilities : facilities = None \/ f \in facilities => f \in reading.may
    BY <1>1, EffectiveIsWithin
  <2> HIDE DEF facilities
  <2>2. /\ reading' = [reading EXCEPT !.at = "rows", !.facilities = facilities]
        /\ UNCHANGED <<store, report, results>>
    BY <1>2 DEF Onward
  <2>3. /\ IsReading(reading') /\ reading'.at = "rows" /\ reading'.facilities = facilities
        /\ reading'.input = reading.input /\ reading'.caller = reading.caller
        /\ reading'.may = reading.may
    BY <1>1, <2>2 DEF ReadingInScope, IsReading
  <2>4. ReadingInScope(reading', log', stations')
    BY <1>1, <2>1, <2>2, <2>3 DEF ReadingInScope, store
  <2> QED
    BY <2>2, <2>4 DEF store, results, StoreOK, AnswersInScope
<1>3. CASE /\ Answered
           /\ \/ AnswerLog(<<>>, 0) \/ AnswerExport(<<>>)
              \/ AnswerInsights(EmptyInsights.totals, EmptyInsights.byDay)
  <2>1. reading' = None /\ UNCHANGED <<store, report>>
    BY <1>3 DEF Answered
  <2>2. Within(log, <<>>, reading.may)
    BY DEF Within
  <2>3. AnswersInScope'
    <3>1. CASE AnswerLog(<<>>, 0)
      BY <2>1, <2>2, <3>1 DEF AnswerLog, AnswersInScope, IsAnswer, store
    <3>2. CASE AnswerExport(<<>>)
      BY <2>1, <2>2, <3>2 DEF AnswerExport, AnswersInScope, IsExport, store
    <3>3. CASE AnswerInsights(EmptyInsights.totals, EmptyInsights.byDay)
      BY <2>1, <3>3 DEF AnswerInsights, AnswersInScope, store
    <3> QED
      BY <1>3, <3>1, <3>2, <3>3
  <2> QED
    BY <2>1, <2>3 DEF store, StoreOK
<1>4. \/ Onward([reading EXCEPT !.at = "rows", !.facilities = facilities])
      \/ /\ Answered
         /\ \/ AnswerLog(<<>>, 0) \/ AnswerExport(<<>>)
            \/ AnswerInsights(EmptyInsights.totals, EmptyInsights.byDay)
  BY DEF ReadScope
<1> QED
  BY <1>2, <1>3, <1>4

LEMMA ReadRowsKeeps ==
  ASSUME ReportIInv, ReadRows
  PROVE  ReportIInv'
<1> USE DEF ReportIInv
<1>1. /\ reading # None /\ reading.at = "rows" /\ reading.kind = "log"
      /\ ReadingInScope(reading, log, stations)
  BY DEF ReadRows, ReadingRows
<1>2. PICK order \in LogRowsQuery(Matching) :
        Onward([reading EXCEPT !.at = "count",
                               !.got = Cut(order, Skipped(reading.input), reading.input.size)])
  BY DEF ReadRows
<1> DEFINE got == Cut(order, Skipped(reading.input), reading.input.size)
<1>3. Skipped(reading.input) \in Nat /\ reading.input.size \in Nat
  <2>1. reading.input.page - 1 \in Nat /\ reading.input.size \in Nat
    BY <1>1 DEF ReadingInScope, Sound
  <2>2. \A m, n \in Nat : m * n \in Nat
    OBVIOUS
  <2> QED
    BY <2>1, <2>2 DEF Skipped, Offset
<1>4. Within(log, got, reading.may)
  BY <1>1, <1>3, MatchingIsWithin
<1> HIDE DEF got
<1>5. /\ reading' = [reading EXCEPT !.at = "count", !.got = got]
      /\ UNCHANGED <<store, report, results>>
  BY <1>2 DEF Onward, got
<1>6. /\ IsReading(reading') /\ reading'.at = "count" /\ reading'.got = got
      /\ reading'.facilities = reading.facilities /\ reading'.may = reading.may
      /\ reading'.input = reading.input /\ reading'.caller = reading.caller
  BY <1>1, <1>5 DEF ReadingInScope, IsReading
<1>7. ReadingInScope(reading', log', stations')
  BY <1>1, <1>4, <1>5, <1>6 DEF ReadingInScope, store
<1> QED
  BY <1>5, <1>7 DEF store, results, StoreOK, AnswersInScope

LEMMA ReadOriginStatusKeeps ==
  ASSUME ReportIInv, ReadOriginStatus
  PROVE  ReportIInv'
<1> USE DEF ReportIInv
<1>1. reading # None /\ reading.at = "rows" /\ ReadingInScope(reading, log, stations)
  BY DEF ReadOriginStatus, ReadingRows
<1>2. PICK got : /\ reading' = [reading EXCEPT !.at = "days", !.got = got]
                 /\ UNCHANGED <<store, report, results>>
  BY DEF ReadOriginStatus, Onward
<1>3. /\ IsReading(reading') /\ reading'.at = "days"
      /\ reading'.facilities = reading.facilities /\ reading'.may = reading.may
      /\ reading'.input = reading.input /\ reading'.caller = reading.caller
  BY <1>1, <1>2 DEF ReadingInScope, IsReading
<1>4. ReadingInScope(reading', log', stations')
  BY <1>1, <1>2, <1>3 DEF ReadingInScope, store
<1> QED
  BY <1>2, <1>4 DEF store, results, StoreOK, AnswersInScope

LEMMA AnswerKeeps ==
  ASSUME ReportIInv, ReadCount \/ InsightsLogExport \/ ReadDays
  PROVE  ReportIInv'
<1> USE DEF ReportIInv
<1>1. Answered /\ reading' = None /\ UNCHANGED <<store, report>>
  BY DEF ReadCount, InsightsLogExport, ReadDays, Answered
<1>2. AnswersInScope'
  <2>1. CASE ReadCount
    <3>1. AnswerLog(reading.got, Cardinality(Matching)) /\ Within(log, reading.got, reading.may)
      BY <2>1 DEF ReadCount, ReadingInScope
    <3> QED
      BY <1>1, <3>1 DEF AnswerLog, AnswersInScope, IsAnswer, store
  <2>2. CASE InsightsLogExport
    <3>1. PICK order \in LogRowsQuery(Matching) : AnswerExport(Cut(order, 0, ExportCap))
      BY <2>2 DEF InsightsLogExport
    <3>2. reading # None /\ reading.at = "rows" /\ ReadingInScope(reading, log, stations)
      BY <2>2 DEF InsightsLogExport, ReadingRows
    <3>3. Within(log, Cut(order, 0, ExportCap), reading.may)
      BY <3>2, MatchingIsWithin, ReportsAssumption
    <3> QED
      BY <1>1, <3>1, <3>3 DEF AnswerExport, AnswersInScope, IsExport, store
  <2>3. CASE ReadDays
    BY <1>1, <2>3 DEF ReadDays, AnswerInsights, AnswersInScope, store
  <2> QED
    BY <2>1, <2>2, <2>3
<1> QED
  BY <1>1, <1>2 DEF store, StoreOK

(* The reader's session changes under his request, which goes on as his.    *)
LEMMA ReaderKeeps ==
  ASSUME ReportIInv, ReaderChanges
  PROVE  ReportIInv'
<1> USE DEF ReportIInv
<1>1. UNCHANGED <<log, stations, report>> /\ reading' = Since(reading) /\ Outdated
  BY DEF ReaderChanges, store
<1>2. AnswersInScope'
  BY <1>1, OutdatedKeeps DEF KeepsRows
<1>3. ASSUME reading' # None PROVE ReadingInScope(reading', log', stations')
  <2>1. reading # None /\ ReadingInScope(reading, log, stations)
        /\ reading' = [reading EXCEPT !.still = FALSE]
    BY <1>1, <1>3 DEF Since
  <2>2. /\ IsReading(reading') /\ reading'.input = reading.input /\ reading'.at = reading.at
        /\ reading'.caller = reading.caller /\ reading'.got = reading.got
        /\ reading'.facilities = reading.facilities /\ reading'.may = reading.may
    BY <2>1 DEF ReadingInScope, IsReading
  <2> QED
    BY <1>1, <2>1, <2>2 DEF ReadingInScope
<1> QED
  BY <1>1, <1>2, <1>3 DEF StoreOK

LEMMA ReportFrame ==
  ASSUME ReportIInv, UNCHANGED reports
  PROVE  ReportIInv'
BY DEF ReportIInv, StoreOK, AnswersInScope, reports

LEMMA ReportsKeep ==
  ASSUME SessionIInv, ReportIInv, ReportsStep
  PROVE  ReportIInv'
<1>1. scene \in Scenes
  BY DEF SessionIInv, AccessTypeOK
<1>2. CASE \/ \E v \in Visits : \/ Arrive(v) \/ \E row \in scene.rows : Register(v, row)
                                \/ \E t \in Times : Reschedule(v, t)
           \/ \E u \in scene.users, facilities \in SUBSET Facilities : Restation(u, facilities)
  BY <1>1, <1>2, StoreKeeps
<1>3. CASE \/ LoadChoices \/ \E f \in scene.filters : SetFilter(f)
           \/ \E n \in PageSizes : SetPageSize(n)
           \/ \E p \in 1..Cardinality(Visits) : SetPage(p)
  BY <1>3, ChoiceKeeps
<1>4. CASE \E kind \in {"log", "export", "insights"} : Ask(kind)
  BY <1>4, AskKeeps
<1>5. CASE ReadScope
  BY <1>5, ReadScopeKeeps
<1>6. CASE ReadRows
  BY <1>6, ReadRowsKeeps
<1>7. CASE ReadOriginStatus
  BY <1>7, ReadOriginStatusKeeps
<1>8. CASE ReadCount \/ InsightsLogExport \/ ReadDays
  BY <1>8, AnswerKeeps
<1> QED
  BY <1>2, <1>3, <1>4, <1>5, <1>6, <1>7, <1>8 DEF ReportsStep

(* A request and the answers to it stay within what its caller was in       *)
(* charge of, statement by statement, while postings and visits change.     *)
THEOREM ReportInvariant == Spec => []ReportIInv
<1>1. SessionIInv /\ ReportIInv /\ [Next]_workspace => ReportIInv'
  <2> SUFFICES ASSUME SessionIInv, ReportIInv, [Next]_workspace PROVE ReportIInv'
    OBVIOUS
  <2>1. CASE ReportsStep
    BY <2>1, ReportsKeep
  <2>2. CASE UNCHANGED reports
    BY <2>2, ReportFrame
  <2>3. CASE ReaderChanges
    BY <2>3, ReaderKeeps
  <2> QED
    BY <2>1, <2>2, <2>3 DEF Next, workspace
<1> QED
  BY <1>1, ReportsStart, SessionInvariant, PTL DEF Spec

(* Nobody is shown, or downloads, a visit of a facility he was not in       *)
(* charge of at some time since he asked, whatever facility the page asked  *)
(* for and whoever was posted elsewhere while he was being answered.        *)
THEOREM WorkspaceScopedRows == Spec => []ScopedRows
<1>1. ReportIInv => ScopedRows
  BY DEF ReportIInv, AnswersInScope, Within, ScopedRows
<1> QED
  BY <1>1, ReportInvariant, PTL
-----------------------------------------------------------------------------
(* Lists.  The rows of a list, the latest first, have the ranks from 0 to   *)
(* one less than they are: every rank is some row's, since no two rows have *)
(* the same and there are as many ranks as rows.                            *)
LEMMA Ranks ==
  ASSUME NEW S \in SUBSET Nat, IsFiniteSet(S)
  PROVE  /\ Cardinality(S) \in Nat
         /\ \A id \in S : Cardinality({other \in S : other > id}) \in 0..Cardinality(S) - 1
         /\ \A r \in 0..Cardinality(S) - 1 : \E id \in S :
              Cardinality({other \in S : other > id}) = r
<1> DEFINE n == Cardinality(S)
           Above(id) == {other \in S : other > id}
           rank == [id \in S |-> Cardinality(Above(id))]
           T == 0..n - 1
<1>1. n \in Nat
  BY FS_CardinalityType
<1>2. \A id \in S : Above(id) \in SUBSET S /\ \A x \in S : x \in Above(id) <=> x > id
  OBVIOUS
<1>3. \A id \in S : rank[id] = Cardinality(Above(id))
  OBVIOUS
<1>4. DOMAIN rank = S /\ rank = [id \in S |-> rank[id]]
  OBVIOUS
<1>5. \A r : r \in T <=> r \in Int /\ 0 <= r /\ r <= n - 1
  BY <1>1
<1>6. IsFiniteSet(T) /\ Cardinality(T) = n
  <2> HIDE DEF n
  <2>1. IsFiniteSet(0..n - 1) /\ Cardinality(0..n - 1) = IF 0 > n - 1 THEN 0 ELSE (n - 1) - 0 + 1
    BY <1>1, FS_Interval
  <2> QED
    BY <1>1, <2>1
<1> HIDE DEF Above, rank, T
<1>7. ASSUME NEW id \in S PROVE IsFiniteSet(Above(id)) /\ Cardinality(Above(id)) \in Nat
  BY <1>2, FS_Subset, FS_CardinalityType
<1>8. ASSUME NEW id \in S PROVE Cardinality(Above(id)) \in T
  <2>1. IsFiniteSet(S \ {id}) /\ Cardinality(S \ {id}) = n - 1
    BY FS_RemoveElement
  <2>2. id \notin Above(id)
    BY <1>2
  <2>3. Above(id) \in SUBSET (S \ {id})
    BY <1>2, <2>2
  <2>4. Cardinality(Above(id)) <= n - 1
    BY <2>1, <2>3, FS_Subset
  <2> QED
    BY <1>1, <1>5, <1>7, <2>4
<1>9. ASSUME NEW x \in S, NEW y \in S, x < y
      PROVE  Cardinality(Above(x)) # Cardinality(Above(y))
  <2>1. y \in Above(x) /\ y \notin Above(y)
    BY <1>2, <1>9
  <2>2. \A z \in S : z > y => z > x
    BY <1>9
  <2>3. Above(y) \in SUBSET Above(x)
    BY <1>2, <2>2
  <2> QED
    BY <1>7, <2>1, <2>3, FS_Subset
<1>10. rank \in Injection(S, T)
  <2>1. rank \in [S -> T]
    BY <1>3, <1>4, <1>8
  <2>2. \A x, y \in S : rank[x] = rank[y] => x = y
    <3> SUFFICES ASSUME NEW x \in S, NEW y \in S, x # y PROVE rank[x] # rank[y]
      OBVIOUS
    <3>1. x < y \/ y < x
      OBVIOUS
    <3> QED
      BY <1>3, <1>9, <3>1
  <2> QED
    BY <2>1, <2>2, Fun_IsInj
<1>11. rank \in Surjection(S, T)
  BY <1>6, <1>10, FS_Injection
<1>12. \A r \in T : \E id \in S : rank[id] = r
  BY <1>11, Fun_SurjectionProperties
<1> QED
  BY <1>1, <1>3, <1>8, <1>12 DEF T, Above

(* A set of places that is not empty has a least.                           *)
LEMMA LeastOf ==
  ASSUME NEW S \in SUBSET Nat, IsFiniteSet(S), S # {}
  PROVE  \E id \in S : \A other \in S : id <= other
<1>1. Cardinality(S) \in Nat /\ Cardinality(S) # 0
  BY Ranks, FS_EmptySet
<1>2. PICK id \in S : Cardinality({other \in S : other > id}) = Cardinality(S) - 1
  BY <1>1, Ranks
<1>3. IsFiniteSet(S \ {id}) /\ Cardinality(S \ {id}) = Cardinality(S) - 1
  BY FS_RemoveElement
<1>4. {other \in S : other > id} \in SUBSET (S \ {id})
  OBVIOUS
<1>5. {other \in S : other > id} = S \ {id}
  BY <1>2, <1>3, <1>4, FS_Subset
<1> QED
  BY <1>5

LEMMA Division ==
  ASSUME NEW a \in Nat, NEW s \in Nat \ {0}
  PROVE  a \div s \in Nat /\ (a \div s) * s <= a /\ a < (a \div s) * s + s
OBVIOUS

LEMMA Product ==
  ASSUME NEW k \in Nat, NEW q \in Nat, NEW s \in Nat
  PROVE  /\ k * s \in Nat /\ (k + 1) * s = k * s + s
         /\ k <= q => k * s <= q * s
OBVIOUS

(* The page a rank is on, and the ranks a page begins with.                 *)
LEMMA PagesCover ==
  ASSUME NEW n \in Nat \ {0}, NEW s \in Nat \ {0}
  PROVE  LET last == (n + s - 1) \div s
         IN  /\ last \in Nat \ {0}
             /\ \A r \in 0..n - 1 : \E p \in 1..last : r \in (p - 1) * s .. p * s - 1
             /\ \A p \in 1..last : (p - 1) * s \in 0..n - 1 /\ (p - 1) * s <= p * s - 1
<1> DEFINE last == (n + s - 1) \div s
<1>1. last \in Nat /\ last * s <= n + s - 1 /\ n + s - 1 < last * s + s
  BY Division
<1> HIDE DEF last
<1>2. last # 0
  BY <1>1
<1>3. ASSUME NEW r \in 0..n - 1 PROVE \E p \in 1..last : r \in (p - 1) * s .. p * s - 1
  <2> DEFINE k == r \div s
  <2>1. k \in Nat /\ k * s <= r /\ r < k * s + s
    BY Division
  <2> HIDE DEF k
  <2>2. (k + 1) * s = k * s + s /\ k * s \in Nat /\ last * s \in Nat
    BY <1>1, <2>1, Product
  <2>3. k < last
    <3> SUFFICES ASSUME last <= k PROVE FALSE
      BY <1>1, <2>1
    <3>1. last * s <= k * s
      BY <1>1, <2>1, Product
    <3> QED
      BY <1>1, <2>1, <2>2, <3>1
  <2>4. k + 1 \in 1..last /\ (k + 1) - 1 = k
    BY <1>1, <2>1, <2>3
  <2>5. r \in k * s .. (k + 1) * s - 1
    BY <2>1, <2>2
  <2> QED
    BY <2>4, <2>5
<1>4. ASSUME NEW p \in 1..last
      PROVE  (p - 1) * s \in 0..n - 1 /\ (p - 1) * s <= p * s - 1
  <2>1. PICK k \in Nat : p = k + 1 /\ k + 1 <= last
    <3>1. p - 1 \in Nat /\ p = (p - 1) + 1 /\ (p - 1) + 1 <= last
      BY <1>1
    <3> QED
      BY <3>1
  <2>2. (k + 1) * s = k * s + s /\ k * s \in Nat /\ (k + 1) * s <= last * s /\ last * s \in Nat
    BY <1>1, <2>1, Product
  <2>3. k * s <= n - 1
    BY <1>1, <2>2
  <2>4. p - 1 = k /\ p * s = k * s + s
    BY <2>1, <2>2
  <2> QED
    BY <2>2, <2>3, <2>4
<1> QED
  BY <1>1, <1>2, <1>3, <1>4 DEF last
(* Every row of a list is on one of its pages, and no page is empty but the *)
(* one of an empty list.                                                    *)
LEMMA PagesShow ==
  ASSUME NEW d, d.size \in Nat \ {0}
  PROVE  /\ LastPage(d) \in Nat \ {0}
         /\ Filtered(d) # {} => \A p \in 1..LastPage(d) : PageItems(d, p) # {}
         /\ UNION {PageItems(d, p) : p \in 1..LastPage(d)} = Filtered(d)
<1> DEFINE S == Filtered(d)
           n == Cardinality(S)
<1>1. S \in SUBSET Nat /\ IsFiniteSet(S)
  <2>1. S \in SUBSET Ids
    BY DEF Filtered
  <2> QED
    BY <2>1, ConsoleAssumption, FS_Subset
<1>2. /\ n \in Nat
      /\ \A id \in S : RankOf(d, id) \in 0..n - 1
      /\ \A r \in 0..n - 1 : \E id \in S : RankOf(d, id) = r
  BY <1>1, Ranks DEF RankOf
<1>3. n = 0 <=> S = {}
  BY <1>1, FS_EmptySet
<1>4. LastPage(d) = IF n = 0 THEN 1 ELSE (n + d.size - 1) \div d.size
  BY DEF LastPage
<1>5. \A p : PageItems(d, p) = {id \in S : RankOf(d, id) \in (p - 1) * d.size .. p * d.size - 1}
  BY DEF PageItems
<1> HIDE DEF S, n
<1>6. CASE n = 0
  BY <1>3, <1>4, <1>5, <1>6 DEF S
<1>7. CASE n # 0
  <2>1. n \in Nat \ {0}
    BY <1>2, <1>7
  <2>2. LastPage(d) = (n + d.size - 1) \div d.size
    BY <1>4, <1>7
  <2>3. /\ LastPage(d) \in Nat \ {0}
        /\ \A r \in 0..n - 1 : \E p \in 1..LastPage(d) : r \in (p - 1) * d.size .. p * d.size - 1
        /\ \A p \in 1..LastPage(d) : /\ (p - 1) * d.size \in 0..n - 1
                                     /\ (p - 1) * d.size <= p * d.size - 1
    BY <2>1, <2>2, PagesCover
  <2>4. ASSUME NEW p \in 1..LastPage(d) PROVE PageItems(d, p) # {}
    <3>1. PICK id \in S : RankOf(d, id) = (p - 1) * d.size
      BY <1>2, <2>3
    <3>2. p \in Nat /\ p * d.size - 1 \in Int /\ (p - 1) * d.size \in Int
      BY <2>3, Product
    <3>3. (p - 1) * d.size \in (p - 1) * d.size .. p * d.size - 1
      BY <2>3, <3>2
    <3> QED
      BY <1>5, <3>1, <3>3
  <2>5. \A id \in S : \E p \in 1..LastPage(d) : id \in PageItems(d, p)
    BY <1>2, <1>5, <2>3
  <2>6. \A p : PageItems(d, p) \in SUBSET S
    BY <1>5
  <2>7. UNION {PageItems(d, p) : p \in 1..LastPage(d)} = S
    BY <2>5, <2>6
  <2> QED
    BY <2>3, <2>4, <2>7 DEF S
<1> QED
  BY <1>6, <1>7

(* What the sections have in common: a form always has the name, and at     *)
(* most a parent besides, and only a department's parent is left out of an  *)
(* edit when it is empty.                                                   *)
LEMMA SectionFacts ==
  ASSUME scene.kind \in Kinds
  PROVE  /\ "name" \in Section.fields /\ "name" \notin Section.dropped
         /\ \A f \in Section.fields : f \in {"name", "parent"}
         /\ "parent" \in Section.fields <=> scene.kind \notin {"facility", "category"}
         /\ "parent" \in Section.dropped <=> scene.kind = "department"
         /\ scene.kind = "device" => Section.needed = {"id"}
<1>1. CASE scene.kind \in {"facility", "category"}
  BY <1>1 DEF Section, FacilitiesSection, CategoriesSection
<1>2. CASE scene.kind = "department"
  BY <1>2 DEF Section, DepartmentsSection
<1>3. CASE scene.kind = "office"
  BY <1>3 DEF Section, OfficesSection
<1>4. CASE scene.kind = "point"
  BY <1>4 DEF Section, PointsSection
<1>5. CASE scene.kind = "device"
  BY <1>5 DEF Section, CheckpointsSection
<1> QED
  BY <1>1, <1>2, <1>3, <1>4, <1>5 DEF Kinds

(* An edit of a row: the name as in the form, the parent too where the kind *)
(* has one and the edit sends it, the activation as it was.                 *)
LEMMA PatchedIs ==
  ASSUME scene.kind \in Kinds, NEW row \in Line, NEW form \in Form
  PROVE  Patched(row, form) =
           [name |-> form.name,
            parent |-> IF /\ scene.kind \notin {"facility", "category"}
                          /\ scene.kind = "department" => form.parent # None
                       THEN form.parent ELSE row.parent,
            isActive |-> row.isActive]
<1>1. DOMAIN row = {"name", "parent", "isActive"} /\ form["name"] = form.name
      /\ form["parent"] = form.parent
  BY DEF Line, Form
<1>2. "name" \in Sent(form)
  BY SectionFacts DEF Sent
<1>3. "isActive" \notin Sent(form)
  BY SectionFacts DEF Sent
<1>4. "parent" \in Sent(form) <=>
        /\ scene.kind \notin {"facility", "category"}
        /\ scene.kind = "department" => form.parent # None
  BY <1>1, SectionFacts DEF Sent
<1> QED
  BY <1>1, <1>2, <1>3, <1>4 DEF Patched
-----------------------------------------------------------------------------
(* The administration pages.  What a browser works with is of rows there    *)
(* are, for no row is ever removed; where the kind has no parent nothing    *)
(* has one; and its page is one the list has.  A dialog keeps nobody it     *)
(* would not send.                                                          *)
Whats == {"update", "create", "setActive"}
DeskPage ==
  [list : [Ids -> Line \cup {None}], editor : Form \cup {None}, draft : Form,
   query : Queries \cup {{}}, page : Nat \ {0}, size : Sizes,
   sent : [Whats -> Requests \cup {None}]]
Staff == SUBSET Users
Told == Staff \cup {None}
Handed == [users : Staff, keep : Staff, stored : BOOLEAN] \cup {None}
Dialog == [open : BOOLEAN, data : Told, sel : Told, keep : Staff, sent : Handed]

Parentless(kind, x) == kind \in {"facility", "category"} => x.parent = None
Outgoing(what, request, kind, stored) ==
  request # None =>
    /\ Parentless(kind, request.form)
    /\ what # "create" => request.form.id \in stored
    /\ what = "create" /\ kind = "device" => request.form.id \in Ids
Carries(d, kind, stored) ==
  /\ d \in DeskPage /\ Parentless(kind, d.draft)
  /\ \A id \in Ids : d.list[id] # None => id \in stored /\ Parentless(kind, d.list[id])
  /\ d.editor # None => /\ d.editor.id \in stored /\ d.list[d.editor.id] # None
                        /\ Parentless(kind, d.editor)
  /\ \A what \in Whats : Outgoing(what, d.sent[what], kind, stored)
Candid(m) == /\ m \in Dialog
             /\ m.sel # None => m.open /\ m.keep \subseteq m.sel
             /\ m.sent # None => m.sent.keep \subseteq m.sent.users

TableOK ==
  /\ scene.kind \in Kinds /\ rows \in [Ids -> Line \cup {None}]
  /\ \A id \in Ids : rows[id] # None => Parentless(scene.kind, rows[id])
DesksOK ==
  /\ desk \in [Browsers -> DeskPage]
  /\ \A b \in Browsers : /\ Carries(desk[b], scene.kind, Stored)
                         /\ desk[b].page <= LastPage(desk[b])
StaffOK ==
  /\ staffing \subseteq Users /\ eligible \subseteq Users
  /\ modal \in [Browsers -> Dialog] /\ \A b \in Browsers : Candid(modal[b])
ConsoleIInv == TableOK /\ DesksOK /\ StaffOK

LEMMA ClosedDialog ==
  LET m == [open |-> FALSE, data |-> None, sel |-> None, keep |-> {}, sent |-> None]
  IN  m \in Dialog /\ Candid(m)
<1> DEFINE m == [open |-> FALSE, data |-> None, sel |-> None, keep |-> {}, sent |-> None]
<1>1. {} \in Staff /\ None \in Told /\ None \in Handed
  BY DEF Staff, Told, Handed
<1>2. m \in Dialog
  BY <1>1 DEF Dialog
<1>3. m.sel = None /\ m.sent = None
  OBVIOUS
<1> HIDE DEF m
<1>4. Candid(m)
  BY <1>2, <1>3 DEF Candid
<1> QED
  BY <1>2, <1>4 DEF m

LEMMA ConsoleStart == Init => ConsoleIInv
<1> SUFFICES ASSUME Init PROVE ConsoleIInv
  OBVIOUS
<1> USE DEF Init, ConsoleInit
<1>1. TableOK
  BY ConsoleAssumption DEF TableOK, Parentless
<1>2. StaffOK
  <2> DEFINE m == [open |-> FALSE, data |-> None, sel |-> None, keep |-> {}, sent |-> None]
  <2>1. Candid(m) /\ m \in Dialog
    BY ONLY ClosedDialog
  <2>3. modal = [b \in Browsers |-> m]
    OBVIOUS
  <2>4. staffing \subseteq Users /\ eligible \subseteq Users
    BY ConsoleAssumption
  <2> HIDE DEF m
  <2> QED
    BY <2>1, <2>3, <2>4 DEF StaffOK
<1>3. DesksOK
  <2> DEFINE least == CHOOSE n \in Sizes : \A m \in Sizes : n <= m
             nothing == [update |-> None, create |-> None, setActive |-> None]
             d == [list |-> [id \in Ids |-> None], editor |-> None, draft |-> Blank, query |-> {},
                   page |-> 1, size |-> least, sent |-> nothing]
  <2>1. least \in Sizes
    BY ConsoleAssumption
  <2>2. nothing \in [Whats -> Requests \cup {None}] /\ \A what \in Whats : nothing[what] = None
    BY DEF Whats
  <2>3. Blank \in Form /\ Blank.parent = None
    BY DEF Blank, Form
  <2>4. desk = [b \in Browsers |-> d]
    OBVIOUS
  <2> HIDE DEF least, nothing
  <2>5. d \in DeskPage
    BY <2>1, <2>2, <2>3 DEF DeskPage
  <2>6. Carries(d, scene.kind, Stored)
    BY <2>2, <2>3, <2>5 DEF Carries, Parentless, Outgoing
  <2>7. d.page = 1 /\ d.size \in Nat \ {0}
    BY <2>1, ConsoleAssumption
  <2> HIDE DEF d
  <2>8. d.page <= LastPage(d)
    BY <2>7, PagesShow
  <2> QED
    BY <2>4, <2>5, <2>6, <2>8 DEF DesksOK
<1> QED
  BY <1>1, <1>2, <1>3 DEF ConsoleIInv

(* Every change of a page ends on a page that its list has.                 *)
LEMMA SnappedFits ==
  ASSUME NEW d \in DeskPage, NEW kind, NEW stored, Carries(d, kind, stored)
  PROVE  /\ Snapped(d) \in DeskPage /\ Carries(Snapped(d), kind, stored)
         /\ Snapped(d).page <= LastPage(Snapped(d))
<1>1. d.page \in Nat \ {0} /\ d.size \in Nat \ {0}
  BY ConsoleAssumption DEF DeskPage
<1>2. LastPage(d) \in Nat \ {0}
  BY <1>1, PagesShow
<1> DEFINE p == IF d.page > LastPage(d) THEN LastPage(d) ELSE d.page
<1>3. p \in Nat \ {0} /\ p <= LastPage(d)
  BY <1>1, <1>2
<1>4. Snapped(d) = [d EXCEPT !.page = p]
  BY DEF Snapped
<1> HIDE DEF p
<1>5. /\ Snapped(d) \in DeskPage /\ Snapped(d).page = p
      /\ Snapped(d).list = d.list /\ Snapped(d).editor = d.editor /\ Snapped(d).draft = d.draft
      /\ Snapped(d).query = d.query /\ Snapped(d).size = d.size /\ Snapped(d).sent = d.sent
  BY <1>3, <1>4 DEF DeskPage
<1>6. Filtered(Snapped(d)) = Filtered(d)
  BY <1>5 DEF Filtered
<1>7. LastPage(Snapped(d)) = LastPage(d)
  BY <1>5, <1>6 DEF LastPage
<1>8. Carries(Snapped(d), kind, stored)
  BY <1>5 DEF Carries
<1> QED
  BY <1>3, <1>5, <1>7, <1>8

LEMMA BecomesKeeps ==
  ASSUME ConsoleIInv, NEW b \in Browsers, NEW d, Carries(d, scene.kind, Stored), Becomes(b, d)
  PROVE  ConsoleIInv'
<1>1. /\ desk' = [desk EXCEPT ![b] = Snapped(d)]
      /\ UNCHANGED <<scene, rows, staffing, eligible, modal>>
  BY DEF Becomes
<1>2. Stored' = Stored
  BY <1>1 DEF Stored
<1>3. d \in DeskPage
  BY DEF Carries
<1>4. /\ Snapped(d) \in DeskPage /\ Carries(Snapped(d), scene.kind, Stored)
      /\ Snapped(d).page <= LastPage(Snapped(d))
  BY <1>3, SnappedFits
<1>5. DesksOK'
  BY <1>1, <1>2, <1>4 DEF ConsoleIInv, DesksOK
<1> QED
  BY <1>1, <1>5 DEF ConsoleIInv, TableOK, StaffOK

(* The steps that look at the list and turn its pages.                      *)
LEMMA LookKeeps ==
  ASSUME ConsoleIInv, NEW b \in Browsers,
         \/ Load(b) \/ \E q \in Queries : Search(b, q)
         \/ \E p \in Ids : TurnTo(b, p)
         \/ \E n \in Sizes : ChangeSize(b, n)
  PROVE  ConsoleIInv'
<1>1. Carries(desk[b], scene.kind, Stored) /\ desk[b] \in DeskPage
  BY DEF ConsoleIInv, DesksOK
<1>2. CASE Load(b)
  <2> DEFINE d == [desk[b] EXCEPT !.list = rows]
  <2>1. /\ d \in DeskPage /\ d.list = rows /\ d.editor = desk[b].editor
        /\ d.draft = desk[b].draft /\ d.sent = desk[b].sent
    BY <1>1 DEF ConsoleIInv, TableOK, DeskPage
  <2>2. Becomes(b, d)
    BY <1>2 DEF Load
  <2> HIDE DEF d
  <2>3. \A id \in Ids : rows[id] # None => id \in Stored /\ Parentless(scene.kind, rows[id])
    BY DEF ConsoleIInv, TableOK, Stored
  <2>4. Carries(d, scene.kind, Stored)
    BY <1>1, <2>1, <2>3 DEF Carries, Stored
  <2> QED
    BY <2>2, <2>4, BecomesKeeps
<1>3. ASSUME NEW q \in Queries, Search(b, q) PROVE ConsoleIInv'
  <2> DEFINE e == [desk[b] EXCEPT !.query = q]
             d == [desk[b] EXCEPT !.query = q, !.page = 1]
  <2>0. /\ e \in DeskPage /\ e.list = desk[b].list /\ e.editor = desk[b].editor
        /\ e.draft = desk[b].draft /\ e.sent = desk[b].sent /\ d = [e EXCEPT !.page = 1]
    BY <1>1 DEF DeskPage
  <2>1. /\ d \in DeskPage /\ d.list = desk[b].list /\ d.editor = desk[b].editor
        /\ d.draft = desk[b].draft /\ d.sent = desk[b].sent
    <3> HIDE DEF e, d
    <3> QED
      BY <2>0 DEF DeskPage
  <2>2. Becomes(b, d)
    BY <1>3 DEF Search
  <2> HIDE DEF d
  <2>3. Carries(d, scene.kind, Stored)
    BY <1>1, <2>1 DEF Carries
  <2> QED
    BY <2>2, <2>3, BecomesKeeps
<1>4. ASSUME NEW p \in Ids, TurnTo(b, p) PROVE ConsoleIInv'
  <2> DEFINE d == [desk[b] EXCEPT !.page = p]
  <2>0. p \in Nat \ {0}
    BY <1>4, ConsoleAssumption DEF TurnTo
  <2>1. /\ d \in DeskPage /\ d.list = desk[b].list /\ d.editor = desk[b].editor
        /\ d.draft = desk[b].draft /\ d.sent = desk[b].sent
    BY <1>1, <2>0 DEF DeskPage
  <2>2. Becomes(b, d)
    BY <1>4 DEF TurnTo
  <2> HIDE DEF d
  <2>3. Carries(d, scene.kind, Stored)
    BY <1>1, <2>1 DEF Carries
  <2> QED
    BY <2>2, <2>3, BecomesKeeps
<1>5. ASSUME NEW n \in Sizes, ChangeSize(b, n) PROVE ConsoleIInv'
  <2> DEFINE e == [desk[b] EXCEPT !.size = n]
             d == [desk[b] EXCEPT !.size = n, !.page = 1]
  <2>0. /\ e \in DeskPage /\ e.list = desk[b].list /\ e.editor = desk[b].editor
        /\ e.draft = desk[b].draft /\ e.sent = desk[b].sent /\ d = [e EXCEPT !.page = 1]
    BY <1>1 DEF DeskPage
  <2>1. /\ d \in DeskPage /\ d.list = desk[b].list /\ d.editor = desk[b].editor
        /\ d.draft = desk[b].draft /\ d.sent = desk[b].sent
    <3> HIDE DEF e, d
    <3> QED
      BY <2>0 DEF DeskPage
  <2>2. Becomes(b, d)
    BY <1>5 DEF ChangeSize
  <2> HIDE DEF d
  <2>3. Carries(d, scene.kind, Stored)
    BY <1>1, <2>1 DEF Carries
  <2> QED
    BY <2>2, <2>3, BecomesKeeps
<1> QED
  BY <1>2, <1>3, <1>4, <1>5
(* A page is given another editor, another draft, or a request on its way.  *)
LEMMA EditorCarries ==
  ASSUME NEW d, NEW kind, NEW stored, Carries(d, kind, stored), NEW e \in Form \cup {None},
         e # None => e.id \in stored /\ d.list[e.id] # None /\ Parentless(kind, e)
  PROVE  /\ Carries([d EXCEPT !.editor = e], kind, stored)
         /\ [d EXCEPT !.editor = e].draft = d.draft
<1> DEFINE x == [d EXCEPT !.editor = e]
<1>1. /\ x \in DeskPage /\ x.list = d.list /\ x.editor = e /\ x.draft = d.draft
      /\ x.sent = d.sent
  BY DEF Carries, DeskPage
<1> HIDE DEF x
<1>2. Carries(x, kind, stored)
  BY <1>1 DEF Carries
<1> QED
  BY <1>1, <1>2 DEF x

LEMMA DraftCarries ==
  ASSUME NEW d, NEW kind, NEW stored, Carries(d, kind, stored),
         NEW form \in Form, Parentless(kind, form)
  PROVE  Carries([d EXCEPT !.draft = form], kind, stored)
<1> DEFINE x == [d EXCEPT !.draft = form]
<1>1. /\ x \in DeskPage /\ x.list = d.list /\ x.editor = d.editor /\ x.draft = form
      /\ x.sent = d.sent
  BY DEF Carries, DeskPage
<1> HIDE DEF x
<1>2. Carries(x, kind, stored)
  BY <1>1 DEF Carries
<1> QED
  BY <1>2 DEF x

LEMMA SentCarries ==
  ASSUME NEW d, NEW kind, NEW stored, Carries(d, kind, stored), NEW what \in Whats,
         NEW request \in Requests \cup {None}, Outgoing(what, request, kind, stored)
  PROVE  /\ Carries([d EXCEPT !.sent[what] = request], kind, stored)
         /\ [d EXCEPT !.sent[what] = request].draft = d.draft
<1> DEFINE x == [d EXCEPT !.sent[what] = request]
           s == [d.sent EXCEPT ![what] = request]
<1>1. d \in DeskPage /\ d.sent \in [Whats -> Requests \cup {None}]
  BY DEF Carries, DeskPage
<1>2. /\ s \in [Whats -> Requests \cup {None}]
      /\ \A w \in Whats : s[w] = IF w = what THEN request ELSE d.sent[w]
  BY <1>1
<1>3. x = [d EXCEPT !.sent = s]
  BY <1>1 DEF DeskPage
<1> HIDE DEF x, s
<1>4. /\ x \in DeskPage /\ x.list = d.list /\ x.editor = d.editor /\ x.draft = d.draft
      /\ x.sent = s
  BY <1>1, <1>2, <1>3 DEF DeskPage
<1>5. \A w \in Whats : Outgoing(w, x.sent[w], kind, stored)
  BY <1>2, <1>4 DEF Carries
<1>6. Carries(x, kind, stored)
  BY <1>4, <1>5 DEF Carries
<1> QED
  BY <1>4, <1>6 DEF x

LEMMA EmptiedForm ==
  ASSUME NEW form \in Form, NEW kind, Parentless(kind, form)
  PROVE  Emptied(form) \in Form /\ Parentless(kind, Emptied(form))
<1>1. Emptied(form) = [id |-> IF "id" \in Section.emptied THEN None ELSE form.id,
                       name |-> IF "name" \in Section.emptied THEN None ELSE form.name,
                       parent |-> IF "parent" \in Section.emptied THEN None ELSE form.parent]
  BY DEF Emptied, Form
<1> QED
  BY <1>1 DEF Form, Parentless

LEMMA BlankForm == Blank \in Form /\ \A kind : Parentless(kind, Blank)
BY DEF Blank, Form, Parentless

LEMMA ItemIsListed ==
  ASSUME NEW b \in Browsers, NEW id \in Items(b)
  PROVE  id \in Ids /\ desk[b].list[id] # None
BY DEF Items, PageItems, Filtered

(* Opening, filling in and closing the forms.                               *)
LEMMA FormsKeep ==
  ASSUME ConsoleIInv, scene \in Scenes, NEW b \in Browsers,
         \/ CancelEdit(b) \/ \E id \in Ids : Edit(b, id)
         \/ \E name \in scene.names, parent \in ParentChoices :
              \/ ChangeEditor(b, name, parent)
              \/ \E id \in scene.places \cup {None} :
                   ChangeDraft(b, [id |-> id, name |-> name, parent |-> parent])
  PROVE  ConsoleIInv'
<1>1. Carries(desk[b], scene.kind, Stored) /\ desk[b] \in DeskPage
  BY DEF ConsoleIInv, DesksOK
<1>2. CASE CancelEdit(b)
  BY <1>1, <1>2, EditorCarries, BecomesKeeps DEF CancelEdit
<1>3. ASSUME NEW id \in Ids, Edit(b, id) PROVE ConsoleIInv'
  <2> DEFINE e == FormOf(b, id)
             x == [desk[b] EXCEPT !.editor = e]
             draft == IF InPlace THEN x.draft ELSE Blank
             d == [desk[b] EXCEPT !.editor = e, !.draft = IF InPlace THEN @ ELSE Blank]
  <2>1. id \in Items(b) /\ Becomes(b, d)
    BY <1>3 DEF Edit
  <2>2. /\ desk[b].list[id] \in Line /\ desk[b].list[id] # None /\ id \in Stored
        /\ Parentless(scene.kind, desk[b].list[id])
    BY <1>1, <2>1, ItemIsListed DEF Carries, DeskPage
  <2>3. e \in Form /\ e.id = id /\ Parentless(scene.kind, e)
    BY <2>2 DEF FormOf, Form, Line, Parentless
  <2>4. d = [x EXCEPT !.draft = draft]
    BY <1>1 DEF DeskPage
  <2> HIDE DEF e, d
  <2>5. Carries(x, scene.kind, Stored) /\ x.draft = desk[b].draft
    BY <1>1, <2>2, <2>3, EditorCarries
  <2>6. x.draft \in Form /\ Parentless(scene.kind, x.draft)
    BY <1>1, <2>5 DEF Carries, DeskPage
  <2> HIDE DEF x
  <2>7. draft \in Form /\ Parentless(scene.kind, draft)
    BY <2>6, BlankForm
  <2> HIDE DEF draft
  <2>8. Carries(d, scene.kind, Stored)
    BY <2>4, <2>5, <2>7, DraftCarries
  <2> QED
    BY <2>1, <2>8, BecomesKeeps
<1>4. scene.names \subseteq Names /\ scene.places \subseteq Ids /\ scene.kind \in Kinds
  BY ConsoleAssumption
<1>5. \A parent \in ParentChoices :
        /\ parent \in Parents \cup {None}
        /\ scene.kind \in {"facility", "category"} => parent = None
  BY <1>4, SectionFacts DEF ParentChoices
<1>6. ASSUME NEW name \in scene.names, NEW parent \in ParentChoices, ChangeEditor(b, name, parent)
      PROVE  ConsoleIInv'
  <2> DEFINE d == [desk[b] EXCEPT !.editor.name = name, !.editor.parent = parent]
             e == [id |-> desk[b].editor.id, name |-> name, parent |-> parent]
  <2>1. desk[b].editor # None /\ Becomes(b, d)
    BY <1>6 DEF ChangeEditor
  <2>2. desk[b].editor \in Form
    BY <1>1, <2>1 DEF DeskPage
  <2>3. e = [[desk[b].editor EXCEPT !.name = name] EXCEPT !.parent = parent]
    <3>1. PICK i, n, p : desk[b].editor = [id |-> i, name |-> n, parent |-> p]
      BY <2>2 DEF Form
    <3>2. [desk[b].editor EXCEPT !.name = name] = [id |-> i, name |-> name, parent |-> p]
      BY <3>1
    <3>3. [[id |-> i, name |-> name, parent |-> p] EXCEPT !.parent = parent] =
            [id |-> i, name |-> name, parent |-> parent]
      OBVIOUS
    <3>4. desk[b].editor.id = i
      BY <3>1
    <3> QED
      BY ONLY <3>2, <3>3, <3>4 DEF e
  <2>4. d = [desk[b] EXCEPT !.editor = e]
    BY <1>1, <2>2, <2>3 DEF DeskPage, Form
  <2>5. e \in Form /\ e.id = desk[b].editor.id /\ Parentless(scene.kind, e)
    BY <1>4, <1>5, <2>2 DEF Form, Parentless
  <2> HIDE DEF d, e
  <2>6. Carries(d, scene.kind, Stored)
    BY <1>1, <2>1, <2>4, <2>5, EditorCarries DEF Carries
  <2> QED
    BY <2>1, <2>6, BecomesKeeps
<1>7. ASSUME NEW name \in scene.names, NEW parent \in ParentChoices,
             NEW id \in scene.places \cup {None},
             ChangeDraft(b, [id |-> id, name |-> name, parent |-> parent])
      PROVE  ConsoleIInv'
  <2> DEFINE form == [id |-> id, name |-> name, parent |-> parent]
  <2>1. form \in Form /\ Parentless(scene.kind, form)
    BY <1>4, <1>5 DEF Form, Parentless
  <2>2. Becomes(b, [desk[b] EXCEPT !.draft = form])
    BY <1>7 DEF ChangeDraft
  <2> HIDE DEF form
  <2> QED
    BY <1>1, <2>1, <2>2, DraftCarries, BecomesKeeps
<1> QED
  BY <1>2, <1>3, <1>6, <1>7
(* Sending a request, and its answer.                                       *)
LEMMA SendKeeps ==
  ASSUME ConsoleIInv, NEW b \in Browsers, NEW what \in Whats, NEW form, NEW active \in BOOLEAN,
         form \in Form, Outgoing(what, Request(form, active), scene.kind, Stored),
         Send(b, what, Request(form, active))
  PROVE  ConsoleIInv'
<1>1. Carries(desk[b], scene.kind, Stored)
  BY DEF ConsoleIInv, DesksOK
<1>2. Request(form, active) \in Requests \cup {None}
  BY DEF Request, Requests
<1>3. Becomes(b, [desk[b] EXCEPT !.sent[what] = Request(form, active)])
  BY DEF Send
<1> QED
  BY <1>1, <1>2, <1>3, SentCarries, BecomesKeeps

LEMMA SavingKeeps ==
  ASSUME ConsoleIInv, NEW b \in Browsers,
         Save(b) \/ Add(b) \/ \E id \in Ids : Toggle(b, id)
  PROVE  ConsoleIInv'
<1>1. Carries(desk[b], scene.kind, Stored) /\ desk[b] \in DeskPage /\ scene.kind \in Kinds
  BY DEF ConsoleIInv, DesksOK, TableOK
<1>2. CASE Save(b)
  <2> DEFINE form == desk[b].editor
             active == desk[b].list[form.id].isActive
  <2>1. form # None /\ Send(b, "update", Request(form, active))
    BY <1>2 DEF Save
  <2>2. form \in Form /\ form.id \in Stored /\ desk[b].list[form.id] # None
        /\ Parentless(scene.kind, form)
    BY <1>1, <2>1 DEF Carries, DeskPage
  <2>3. desk[b].list[form.id] \in Line
    BY <1>1, <2>2 DEF Stored, DeskPage
  <2>4. active \in BOOLEAN
    BY <2>3 DEF Line
  <2> HIDE DEF form, active
  <2>5. Outgoing("update", Request(form, active), scene.kind, Stored) /\ "update" \in Whats
    BY <2>2 DEF Outgoing, Request, Whats
  <2> QED
    BY <2>1, <2>2, <2>4, <2>5, SendKeeps
<1>3. CASE Add(b)
  <2> DEFINE form == desk[b].draft
  <2>1. Complete(form) /\ Send(b, "create", Request(form, TRUE))
    BY <1>3 DEF Add
  <2>2. form \in Form /\ Parentless(scene.kind, form)
    BY <1>1 DEF Carries, DeskPage
  <2>3. scene.kind = "device" => form.id \in Ids
    BY <1>1, <2>1, <2>2, SectionFacts DEF Complete, Form
  <2> HIDE DEF form
  <2>4. Outgoing("create", Request(form, TRUE), scene.kind, Stored) /\ "create" \in Whats
    BY <2>2, <2>3 DEF Outgoing, Request, Whats
  <2> QED
    BY <2>1, <2>2, <2>4, SendKeeps
<1>4. ASSUME NEW id \in Ids, Toggle(b, id) PROVE ConsoleIInv'
  <2> DEFINE form == [Blank EXCEPT !.id = id]
             active == ~desk[b].list[id].isActive
  <2>1. id \in Items(b) /\ Send(b, "setActive", Request(form, active))
    BY <1>4 DEF Toggle
  <2>2. form \in Form /\ form.id = id /\ Parentless(scene.kind, form)
    BY DEF Form, Blank, Parentless
  <2>3. id \in Stored
    BY <1>1, <2>1, ItemIsListed DEF Carries
  <2>4. active \in BOOLEAN
    OBVIOUS
  <2> HIDE DEF form, active
  <2>5. Outgoing("setActive", Request(form, active), scene.kind, Stored) /\ "setActive" \in Whats
    BY <2>2, <2>3 DEF Outgoing, Request, Whats
  <2> QED
    BY <2>1, <2>2, <2>4, <2>5, SendKeeps
<1> QED
  BY <1>2, <1>3, <1>4

LEMMA AnsweringKeeps ==
  ASSUME ConsoleIInv, NEW b \in Browsers, NEW what \in Whats, Succeed(b, what) \/ Fail(b, what)
  PROVE  ConsoleIInv'
<1>1. Carries(desk[b], scene.kind, Stored)
  BY DEF ConsoleIInv, DesksOK
<1> DEFINE d == [desk[b] EXCEPT !.sent[what] = None]
<1>2. Carries(d, scene.kind, Stored)
  <2>1. Outgoing(what, None, scene.kind, Stored)
    BY DEF Outgoing
  <2> QED
    BY <1>1, <2>1, SentCarries
<1>3. \/ Becomes(b, d)
      \/ Becomes(b, [d EXCEPT !.editor = None])
      \/ Becomes(b, [d EXCEPT !.draft = Emptied(d.draft)])
      \/ Becomes(b, [[d EXCEPT !.editor = None] EXCEPT !.draft = Emptied(d.draft)])
  <2>0. d \in DeskPage
    BY <1>2 DEF Carries
  <2>1. CASE Fail(b, what)
    BY <2>1 DEF Fail
  <2>2. CASE Succeed(b, what)
    <3> DEFINE e == CASE what = "setActive" -> d
                      [] what = "update" /\ InPlace -> [d EXCEPT !.editor = None]
                      [] what = "create" /\ InPlace -> [d EXCEPT !.draft = Emptied(@)]
                      [] OTHER -> [d EXCEPT !.editor = None, !.draft = Emptied(@)]
    <3>1. Becomes(b, e)
      BY <2>2 DEF Succeed
    <3>2. [d EXCEPT !.draft = Emptied(@)] = [d EXCEPT !.draft = Emptied(d.draft)]
      OBVIOUS
    <3>3. [d EXCEPT !.editor = None, !.draft = Emptied(@)]
            = [[d EXCEPT !.editor = None] EXCEPT !.draft = Emptied(d.draft)]
      <4> HIDE DEF d
      <4> QED
        BY <2>0 DEF DeskPage
    <3> HIDE DEF d
    <3>4. e \in {d, [d EXCEPT !.editor = None], [d EXCEPT !.draft = Emptied(d.draft)],
                 [[d EXCEPT !.editor = None] EXCEPT !.draft = Emptied(d.draft)]}
      BY <3>2, <3>3 DEF Whats
    <3> HIDE DEF e
    <3> QED
      BY <3>1, <3>4
  <2> QED
    BY <2>1, <2>2
<1> HIDE DEF d
<1>4. d.draft \in Form /\ Parentless(scene.kind, d.draft)
  BY <1>2 DEF Carries, DeskPage
<1>5. Emptied(d.draft) \in Form /\ Parentless(scene.kind, Emptied(d.draft))
  BY <1>4, EmptiedForm
<1>6. Carries([d EXCEPT !.editor = None], scene.kind, Stored)
  BY <1>2, EditorCarries
<1>7. Carries([d EXCEPT !.draft = Emptied(d.draft)], scene.kind, Stored)
  BY <1>2, <1>5, DraftCarries
<1>8. Carries([[d EXCEPT !.editor = None] EXCEPT !.draft = Emptied(d.draft)], scene.kind, Stored)
  BY <1>5, <1>6, DraftCarries
<1> QED
  BY <1>2, <1>3, <1>6, <1>7, <1>8, BecomesKeeps

(* Storing a request: what it does to the rows.                             *)
LEMMA NextPlaceIsFree ==
  ASSUME Stored # Ids
  PROVE  NextPlace \in Ids /\ NextPlace \notin Stored
<1>1. Ids \ Stored \in SUBSET Nat /\ IsFiniteSet(Ids \ Stored)
  BY ConsoleAssumption, FS_Difference
<1>2. Ids \ Stored # {}
  BY DEF Stored
<1>3. \E id \in Ids \ Stored : \A other \in Ids \ Stored : id <= other
  BY <1>1, <1>2, LeastOf
<1>4. NextPlace \in Ids \ Stored
  BY <1>3 DEF NextPlace
<1> QED
  BY <1>4

(* An edit touches one row, and of it what its form shows.                  *)
Edits(id, form) ==
  rows' = [rows EXCEPT ![id] =
             [name |-> form.name,
              parent |-> IF /\ scene.kind \notin {"facility", "category"}
                            /\ scene.kind = "department" => form.parent # None
                         THEN form.parent ELSE rows[id].parent,
              isActive |-> rows[id].isActive]]
Adds(id, form) ==
  /\ id \in Ids /\ id \notin Stored
  /\ rows' = [rows EXCEPT ![id] = Inserted(form)]
Switches(id, active) ==
  rows' = [rows EXCEPT ![id] = [name |-> rows[id].name, parent |-> rows[id].parent,
                                isActive |-> active]]

LEMMA EditedRow ==
  ASSUME TableOK, NEW request \in Requests, request.form.id \in Stored,
         rows' = UpdateRow(request)
  PROVE  Edits(request.form.id, request.form)
<1>1. rows[request.form.id] \in Line /\ request.form \in Form
  BY DEF TableOK, Stored, Requests
<1> QED
  BY <1>1, PatchedIs DEF TableOK, UpdateRow, Edits

LEMMA StoreStores ==
  ASSUME TableOK, NEW b \in Browsers, NEW what \in Whats, Store(b, what),
         NEW request, request = desk[b].sent[what], request \in Requests,
         Outgoing(what, request, scene.kind, Stored)
  PROVE  \/ /\ what # "setActive" /\ request.form.id \in Stored
            /\ Edits(request.form.id, request.form)
         \/ what = "create" /\ \E id \in Ids : Adds(id, request.form)
         \/ what = "setActive" /\ Switches(request.form.id, request.active)
<1>1. request # None
  BY DEF Store
<1>2. /\ what = "create" /\ InPlace => Stored # Ids
      /\ rows' = CASE what = "update" -> UpdateRow(request)
                   [] what = "create" -> CreateRow(request)
                   [] what = "setActive" -> SetActive(request)
  BY DEF Store
<1>3. CASE what = "update"
  <2>1. rows' = UpdateRow(request) /\ request.form.id \in Stored
    BY <1>1, <1>2, <1>3 DEF Outgoing
  <2> QED
    BY <1>3, <2>1, EditedRow
<1>4. CASE what = "create"
  <2>1. rows' = CreateRow(request)
    BY <1>2, <1>4
  <2>2. CASE scene.kind = "device" /\ rows[request.form.id] # None
    <3>1. request.form.id \in Stored
      BY <1>1, <1>4, <2>2 DEF Outgoing, Stored
    <3> QED
      BY <1>4, <2>1, <2>2, <3>1, EditedRow DEF CreateRow
  <2>3. CASE scene.kind = "device" /\ rows[request.form.id] = None
    <3>1. request.form.id \in Ids /\ request.form.id \notin Stored
      BY <1>1, <1>4, <2>3 DEF Outgoing, Stored
    <3> QED
      BY <1>4, <2>1, <2>3, <3>1 DEF CreateRow, InPlace, Adds
  <2>4. CASE scene.kind # "device"
    <3>1. NextPlace \in Ids /\ NextPlace \notin Stored
      BY <1>2, <1>4, <2>4, NextPlaceIsFree DEF InPlace
    <3> QED
      BY <1>4, <2>1, <2>4, <3>1 DEF CreateRow, InPlace, Adds
  <2> QED
    BY <2>2, <2>3, <2>4
<1>5. CASE what = "setActive"
  <2>1. request.form.id \in Stored /\ rows' = SetActive(request)
    BY <1>1, <1>2, <1>5 DEF Outgoing
  <2>2. rows[request.form.id] \in Line
    BY <2>1 DEF TableOK, Stored
  <2>3. [rows[request.form.id] EXCEPT !.isActive = request.active]
          = [name |-> rows[request.form.id].name, parent |-> rows[request.form.id].parent,
             isActive |-> request.active]
    BY <2>2 DEF Line
  <2>4. rows' = [rows EXCEPT ![request.form.id] =
                   [rows[request.form.id] EXCEPT !.isActive = request.active]]
    BY <2>1 DEF SetActive, TableOK
  <2> QED
    BY <1>5, <2>3, <2>4 DEF Switches
<1> QED
  BY <1>3, <1>4, <1>5 DEF Whats

LEMMA CarriesMore ==
  ASSUME NEW d, NEW kind, NEW stored, NEW more, Carries(d, kind, stored), stored \subseteq more
  PROVE  Carries(d, kind, more)
BY DEF Carries, Outgoing

LEMMA RowsStay ==
  ASSUME TableOK, scene' = scene, NEW request \in Requests,
         Parentless(scene.kind, request.form),
         \/ request.form.id \in Stored /\ Edits(request.form.id, request.form)
         \/ \E id \in Ids : Adds(id, request.form)
         \/ request.form.id \in Stored /\ Switches(request.form.id, request.active)
  PROVE  TableOK' /\ Stored \subseteq Stored'
<1>1. request.form \in Form /\ request.active \in BOOLEAN
  BY DEF Requests
<1>2. \A id \in Stored : id \in Ids /\ rows[id] \in Line /\ Parentless(scene.kind, rows[id])
  BY DEF TableOK, Stored
<1>3. ASSUME NEW id \in Ids, NEW line \in Line, Parentless(scene.kind, line),
             rows' = [rows EXCEPT ![id] = line]
      PROVE  TableOK' /\ Stored \subseteq Stored'
  <2>1. line # None
    BY ConsoleAssumption
  <2> QED
    BY <1>3, <2>1 DEF TableOK, Stored
<1>4. CASE request.form.id \in Stored /\ Edits(request.form.id, request.form)
  <2> DEFINE id == request.form.id
             line == [name |-> request.form.name,
                      parent |-> IF /\ scene.kind \notin {"facility", "category"}
                                    /\ scene.kind = "department" => request.form.parent # None
                                 THEN request.form.parent ELSE rows[id].parent,
                      isActive |-> rows[id].isActive]
  <2>1. rows[id] \in Line /\ id \in Ids /\ rows' = [rows EXCEPT ![id] = line]
    BY <1>2, <1>4 DEF Edits
  <2>2. line \in Line
    BY <1>1, <2>1 DEF Line, Form
  <2>3. Parentless(scene.kind, line)
    BY <1>2, <1>4 DEF Parentless
  <2> HIDE DEF line, id
  <2> QED
    BY <1>3, <2>1, <2>2, <2>3
<1>5. ASSUME NEW id \in Ids, Adds(id, request.form) PROVE TableOK' /\ Stored \subseteq Stored'
  <2>1. Inserted(request.form) \in Line /\ Parentless(scene.kind, Inserted(request.form))
    BY <1>1 DEF Inserted, Form, Line, Parentless
  <2> QED
    BY <1>3, <1>5, <2>1 DEF Adds
<1>6. CASE request.form.id \in Stored /\ Switches(request.form.id, request.active)
  <2> DEFINE id == request.form.id
             line == [name |-> rows[id].name, parent |-> rows[id].parent,
                      isActive |-> request.active]
  <2>1. rows[id] \in Line /\ id \in Ids /\ rows' = [rows EXCEPT ![id] = line]
    BY <1>2, <1>6 DEF Switches
  <2>2. line \in Line
    BY <1>1, <2>1 DEF Line
  <2>3. Parentless(scene.kind, line)
    BY <1>2, <1>6 DEF Parentless
  <2> HIDE DEF line, id
  <2> QED
    BY <1>3, <2>1, <2>2, <2>3
<1> QED
  BY <1>4, <1>5, <1>6

(* The request of a browser that is being stored.                           *)
LEMMA StoredRequest ==
  ASSUME ConsoleIInv, NEW b \in Browsers, NEW what \in Whats, Store(b, what)
  PROVE  /\ desk[b].sent[what] \in Requests /\ desk[b].sent[what] # None
         /\ ~desk[b].sent[what].stored
         /\ Outgoing(what, desk[b].sent[what], scene.kind, Stored)
         /\ desk' = [desk EXCEPT ![b] = [desk[b] EXCEPT !.sent[what] =
                       [desk[b].sent[what] EXCEPT !.stored = TRUE]]]
<1>1. desk \in [Browsers -> DeskPage] /\ desk[b] \in DeskPage /\ Carries(desk[b], scene.kind, Stored)
  BY DEF ConsoleIInv, DesksOK
<1>2. desk[b].sent \in [Whats -> Requests \cup {None}]
  BY <1>1 DEF DeskPage
<1>3. desk[b].sent[what] # None /\ ~desk[b].sent[what].stored
  BY DEF Store
<1>4. desk[b].sent[what] \in Requests
  BY <1>2, <1>3
<1>5. Outgoing(what, desk[b].sent[what], scene.kind, Stored)
  BY <1>1 DEF Carries
<1>6. desk' = [desk EXCEPT ![b].sent[what].stored = TRUE]
  BY DEF Store
<1> QED
  BY <1>1, <1>2, <1>3, <1>4, <1>5, <1>6

LEMMA StoringKeeps ==
  ASSUME ConsoleIInv, NEW b \in Browsers, NEW what \in Whats, Store(b, what)
  PROVE  ConsoleIInv'
<1> DEFINE request == desk[b].sent[what]
           done == [request EXCEPT !.stored = TRUE]
           d == [desk[b] EXCEPT !.sent[what] = done]
<1>1. /\ request \in Requests /\ request # None
      /\ Outgoing(what, request, scene.kind, Stored)
      /\ desk' = [desk EXCEPT ![b] = d]
  BY StoredRequest
<1>2. UNCHANGED <<scene, staffing, eligible, modal>>
  BY DEF Store
<1>3. Parentless(scene.kind, request.form)
  BY <1>1 DEF Outgoing
<1>4. what # "create" => request.form.id \in Stored
  BY <1>1 DEF Outgoing
<1>5. TableOK
  BY DEF ConsoleIInv
<1>6. TableOK' /\ Stored \subseteq Stored'
  <2>1. \/ /\ what # "setActive" /\ request.form.id \in Stored
           /\ Edits(request.form.id, request.form)
        \/ what = "create" /\ \E id \in Ids : Adds(id, request.form)
        \/ what = "setActive" /\ Switches(request.form.id, request.active)
    BY <1>1, <1>5, StoreStores
  <2> HIDE DEF request
  <2> QED
    BY <1>1, <1>2, <1>3, <1>4, <1>5, <2>1, RowsStay
<1>7. done \in Requests /\ Outgoing(what, done, scene.kind, Stored)
  <2>1. done.form = request.form /\ done \in Requests
    BY <1>1 DEF Requests
  <2> QED
    BY <1>1, <2>1 DEF Outgoing
<1>8. Carries(desk[b], scene.kind, Stored) /\ desk[b] \in DeskPage
      /\ desk[b].page <= LastPage(desk[b])
  BY DEF ConsoleIInv, DesksOK
<1> HIDE DEF request, done
<1>9. Carries(d, scene.kind, Stored)
  BY <1>7, <1>8, SentCarries
<1>10. /\ d \in DeskPage /\ d.list = desk[b].list /\ d.query = desk[b].query
       /\ d.size = desk[b].size /\ d.page = desk[b].page
  BY <1>8, <1>9 DEF Carries, DeskPage
<1> HIDE DEF d
<1>11. Filtered(d) = Filtered(desk[b])
  BY <1>10 DEF Filtered
<1>12. d.page <= LastPage(d)
  BY <1>8, <1>10, <1>11 DEF LastPage
<1>13. \A x \in Browsers : Carries(desk'[x], scene.kind, Stored) /\ desk'[x] \in DeskPage
                           /\ desk'[x].page <= LastPage(desk'[x])
  BY <1>1, <1>9, <1>10, <1>12 DEF ConsoleIInv, DesksOK
<1>14. \A x \in Browsers : Carries(desk'[x], scene.kind, Stored')
  BY <1>6, <1>13, CarriesMore
<1>15. desk' \in [Browsers -> DeskPage]
  BY <1>1, <1>10 DEF ConsoleIInv, DesksOK
<1>16. DesksOK'
  BY <1>2, <1>13, <1>14, <1>15 DEF DesksOK
<1> QED
  BY <1>2, <1>6, <1>16 DEF ConsoleIInv, StaffOK
-----------------------------------------------------------------------------
(* The staffing dialogs.                                                    *)
LEMMA AssignKeeps ==
  ASSUME ConsoleIInv, NEW b \in Browsers, NEW m, Candid(m), Assign(b, m)
  PROVE  ConsoleIInv'
<1>1. modal' = [modal EXCEPT ![b] = m] /\ UNCHANGED <<scene, rows, staffing, eligible, desk>>
  BY DEF Assign
<1>2. m \in Dialog
  BY DEF Candid
<1>3. Stored' = Stored
  BY <1>1 DEF Stored
<1>4. StaffOK'
  BY <1>1, <1>2 DEF ConsoleIInv, StaffOK
<1> QED
  BY <1>1, <1>3, <1>4 DEF ConsoleIInv, TableOK, DesksOK

(* One part of a dialog changes, and the rest of it stays.                  *)
LEMMA OpenSet ==
  ASSUME NEW m \in Dialog, NEW x \in BOOLEAN, NEW n, n = [m EXCEPT !.open = x]
  PROVE  n \in Dialog /\ n.open = x /\ n.data = m.data /\ n.sel = m.sel /\ n.keep = m.keep
         /\ n.sent = m.sent
BY DEF Dialog

LEMMA DataSet ==
  ASSUME NEW m \in Dialog, NEW x \in Told, NEW n, n = [m EXCEPT !.data = x]
  PROVE  n \in Dialog /\ n.open = m.open /\ n.data = x /\ n.sel = m.sel /\ n.keep = m.keep
         /\ n.sent = m.sent
BY DEF Dialog

LEMMA SelSet ==
  ASSUME NEW m \in Dialog, NEW x \in Told, NEW n, n = [m EXCEPT !.sel = x]
  PROVE  n \in Dialog /\ n.open = m.open /\ n.data = m.data /\ n.sel = x /\ n.keep = m.keep
         /\ n.sent = m.sent
BY DEF Dialog

LEMMA KeepSet ==
  ASSUME NEW m \in Dialog, NEW x \in Staff, NEW n, n = [m EXCEPT !.keep = x]
  PROVE  n \in Dialog /\ n.open = m.open /\ n.data = m.data /\ n.sel = m.sel /\ n.keep = x
         /\ n.sent = m.sent
BY DEF Dialog

LEMMA SentSet ==
  ASSUME NEW m \in Dialog, NEW x \in Handed, NEW n, n = [m EXCEPT !.sent = x]
  PROVE  n \in Dialog /\ n.open = m.open /\ n.data = m.data /\ n.sel = m.sel /\ n.keep = m.keep
         /\ n.sent = x
BY DEF Dialog

LEMMA DialogHas ==
  ASSUME NEW m, Candid(m)
  PROVE  /\ m \in Dialog /\ m.data \in Told /\ m.sel \in Told /\ m.keep \in Staff /\ m.sent \in Handed
         /\ m.sel # None => m.open /\ m.keep \subseteq m.sel
         /\ m.sent # None => m.sent.keep \subseteq m.sent.users
BY DEF Candid, Dialog

LEMMA SeededIsCandid ==
  ASSUME NEW m, Candid(m)
  PROVE  Candid(Seeded(m))
<1>1. m \in Dialog
  BY DialogHas
<1>2. CASE m.open /\ m.sel = None /\ m.data # None
  <2> DEFINE chosen == [m EXCEPT !.sel = m.data]
             n == [chosen EXCEPT !.keep = m.data]
  <2>1. m.data \in Staff /\ m.data \in Told
    BY <1>2, DialogHas DEF Told
  <2>2. [m EXCEPT !.sel = m.data, !.keep = m.data] = n
    BY <1>1
  <2>3. chosen \in Dialog /\ chosen.open = m.open /\ chosen.sel = m.data /\ chosen.sent = m.sent
    BY <1>1, <2>1, SelSet
  <2> HIDE DEF chosen
  <2>4. n \in Dialog /\ n.open = m.open /\ n.sel = m.data /\ n.keep = m.data /\ n.sent = m.sent
    BY <2>1, <2>3, KeepSet
  <2> HIDE DEF n
  <2>5. Candid(n)
    BY <1>2, <2>4, DialogHas DEF Candid
  <2> QED
    BY <1>2, <2>2, <2>5 DEF Seeded
<1>3. CASE ~(m.open /\ m.sel = None /\ m.data # None)
  BY <1>3 DEF Seeded
<1> QED
  BY <1>2, <1>3

LEMMA ClosedIsCandid ==
  ASSUME NEW m, Candid(m)
  PROVE  Candid(Closed(m))
<1> DEFINE shut == [m EXCEPT !.open = FALSE]
           bare == [shut EXCEPT !.sel = None]
           n == [bare EXCEPT !.keep = {}]
<1>1. m \in Dialog /\ None \in Told /\ {} \in Staff
  BY DialogHas DEF Told, Staff
<1>2. Closed(m) = n
  BY <1>1 DEF Closed
<1>3. shut \in Dialog /\ shut.sent = m.sent
  BY <1>1, OpenSet
<1> HIDE DEF shut
<1>4. bare \in Dialog /\ bare.sel = None /\ bare.sent = m.sent
  BY <1>1, <1>3, SelSet
<1> HIDE DEF bare
<1>5. n \in Dialog /\ n.sel = None /\ n.sent = m.sent
  BY <1>1, <1>4, KeepSet
<1> HIDE DEF n
<1>6. Candid(n)
  BY <1>5, DialogHas DEF Candid
<1> QED
  BY <1>2, <1>6

LEMMA DialogsKeep ==
  ASSUME ConsoleIInv, NEW b \in Browsers,
         \/ OpenStaff(b) \/ LoadStaff(b) \/ CloseStaff(b) \/ SaveStaff(b) \/ AnswerStaff(b)
         \/ \E u \in scene.users : TickBox(b, u)
  PROVE  ConsoleIInv'
<1> DEFINE m == modal[b]
<1>1. Candid(m) /\ m \in Dialog /\ staffing \in Staff /\ eligible \in Staff
  BY DEF ConsoleIInv, StaffOK, Staff
<1>2. ASSUME NEW n, Candid(n), Assign(b, n) PROVE ConsoleIInv'
  BY <1>2, AssignKeeps
<1>3. CASE OpenStaff(b)
  <2> DEFINE n == [m EXCEPT !.open = TRUE]
  <2>1. Assign(b, Seeded(n))
    BY <1>3 DEF OpenStaff
  <2> HIDE DEF m
  <2>2. n \in Dialog /\ n.open = TRUE /\ n.sel = m.sel /\ n.keep = m.keep /\ n.sent = m.sent
    BY <1>1, OpenSet
  <2> HIDE DEF n
  <2>3. Candid(n)
    BY <1>1, <2>2, DialogHas DEF Candid
  <2> QED
    BY <1>2, <2>1, <2>3, SeededIsCandid
<1>4. CASE LoadStaff(b)
  <2> DEFINE n == [m EXCEPT !.data = staffing]
  <2>1. n \in Dialog /\ n.open = m.open /\ n.sel = m.sel /\ n.keep = m.keep /\ n.sent = m.sent
    BY <1>1, DataSet DEF Told
  <2>2. Assign(b, Seeded(n))
    BY <1>4 DEF LoadStaff
  <2> HIDE DEF n, m
  <2>3. Candid(n)
    BY <1>1, <2>1, DialogHas DEF Candid
  <2> QED
    BY <1>2, <2>2, <2>3, SeededIsCandid
<1>5. CASE CloseStaff(b)
  BY <1>1, <1>2, <1>5, ClosedIsCandid DEF CloseStaff
<1>6. CASE SaveStaff(b)
  <2> DEFINE ask == [users |-> m.sel, keep |-> m.keep, stored |-> FALSE]
             n == [m EXCEPT !.sent = ask]
  <2>1. Assign(b, n) /\ m.sel # None
    BY <1>6 DEF SaveStaff, Selected
  <2>2. m.sel \in Staff /\ m.keep \in Staff /\ m.keep \subseteq m.sel
    BY <1>1, <2>1, DialogHas DEF Told
  <2>3. ask \in Handed /\ ask.keep = m.keep /\ ask.users = m.sel
    BY <2>2 DEF Handed
  <2> HIDE DEF ask, m
  <2>4. n \in Dialog /\ n.open = m.open /\ n.sel = m.sel /\ n.keep = m.keep /\ n.sent = ask
    BY <1>1, <2>3, SentSet
  <2> HIDE DEF n
  <2>5. Candid(n)
    BY <1>1, <2>2, <2>3, <2>4, DialogHas DEF Candid
  <2> QED
    BY <1>2, <2>1, <2>5
<1>7. CASE AnswerStaff(b)
  <2>1. ASSUME NEW k, Candid(k), Assign(b, [k EXCEPT !.sent = None]) PROVE ConsoleIInv'
    <3> DEFINE n == [k EXCEPT !.sent = None]
    <3>1. n \in Dialog /\ n.open = k.open /\ n.sel = k.sel /\ n.keep = k.keep /\ n.sent = None
      BY <2>1, DialogHas, SentSet DEF Handed
    <3>2. Assign(b, n)
      BY <2>1
    <3> HIDE DEF n
    <3>3. Candid(n)
      BY <2>1, <3>1, DialogHas DEF Candid
    <3> QED
      BY <1>2, <3>2, <3>3
  <2>2. CASE Assign(b, [Closed(m) EXCEPT !.sent = None])
    BY <1>1, <2>1, <2>2, ClosedIsCandid
  <2>3. CASE Assign(b, [m EXCEPT !.sent = None])
    BY <1>1, <2>1, <2>3
  <2> QED
    BY <1>7, <2>2, <2>3 DEF AnswerStaff
<1>8. CASE \E u \in scene.users : TickBox(b, u)
  <2>1. PICK u : TickBox(b, u)
    BY <1>8
  <2>2. m.sel # None /\ u \in eligible
    BY ONLY <2>1, Zenon DEF TickBox
  <2>3. m.sel \in Staff /\ m.keep \in Staff /\ m.keep \subseteq m.sel /\ m.open /\ u \in Users
    BY <1>1, <2>2, DialogHas DEF Told, Staff
  <2>4. CASE u \in m.sel
    <3> DEFINE fewer == m.sel \ {u}
               kept == m.keep \ {u}
               off == [m EXCEPT !.sel = fewer]
               n == [off EXCEPT !.keep = kept]
    <3>1. Assign(b, [m EXCEPT !.sel = fewer, !.keep = kept])
      BY ONLY <2>1, <2>4, Zenon DEF TickBox
    <3> HIDE DEF m
    <3>2. [m EXCEPT !.sel = fewer, !.keep = kept] = n
      BY <1>1
    <3>3. fewer \in Staff /\ fewer \in Told /\ kept \in Staff /\ kept \subseteq fewer
      BY <2>3 DEF Staff, Told
    <3> HIDE DEF fewer, kept
    <3>4. off \in Dialog /\ off.open = m.open /\ off.sel = fewer /\ off.sent = m.sent
      BY ONLY <1>1, <3>3, SelSet
    <3> HIDE DEF off
    <3>5. n \in Dialog /\ n.open = m.open /\ n.sel = fewer /\ n.keep = kept /\ n.sent = m.sent
      BY ONLY <3>3, <3>4, KeepSet
    <3> HIDE DEF n
    <3>6. Candid(n)
      BY <1>1, <2>3, <3>3, <3>5, DialogHas DEF Candid
    <3> QED
      BY <1>2, <3>1, <3>2, <3>6
  <2>5. CASE u \notin m.sel
    <3> DEFINE more == m.sel \cup {u}
               n == [m EXCEPT !.sel = more]
    <3>1. Assign(b, n)
      BY ONLY <2>1, <2>5, Zenon DEF TickBox
    <3> HIDE DEF m
    <3>2. more \in Staff /\ more \in Told /\ m.keep \subseteq more
      BY <2>3 DEF Staff, Told
    <3> HIDE DEF more
    <3>3. n \in Dialog /\ n.open = m.open /\ n.sel = more /\ n.keep = m.keep /\ n.sent = m.sent
      BY ONLY <1>1, <3>2, SelSet
    <3> HIDE DEF n
    <3>4. Candid(n)
      BY <1>1, <2>3, <3>2, <3>3, DialogHas DEF Candid
    <3> QED
      BY <1>2, <3>1, <3>4
  <2> QED
    BY <2>4, <2>5
<1> QED
  BY <1>3, <1>4, <1>5, <1>6, <1>7, <1>8

LEMMA StaffingKeeps ==
  ASSUME ConsoleIInv, scene \in Scenes,
         \/ \E b \in Browsers : StoreStaff(b)
         \/ \E u \in scene.users : Requalify(u)
  PROVE  ConsoleIInv'
<1>1. StaffOK
  BY DEF ConsoleIInv
<1>2. CASE \E b \in Browsers : StoreStaff(b)
  <2>1. PICK b \in Browsers : StoreStaff(b)
    BY <1>2
  <2> DEFINE m == modal[b]
             done == [m.sent EXCEPT !.stored = TRUE]
             n == [m EXCEPT !.sent = done]
  <2>2. Candid(m)
    BY <1>1 DEF StaffOK
  <2>3. /\ m.sent # None /\ staffing' = m.sent.users
        /\ UNCHANGED <<scene, rows, eligible, desk>>
    BY <2>1 DEF StoreStaff
  <2>4. modal' = [modal EXCEPT ![b] = n]
    BY <1>1, <2>1 DEF StoreStaff, StaffOK
  <2> HIDE DEF m
  <2>6. m.sent \in Handed /\ m.sent.keep \subseteq m.sent.users
    BY <2>2, <2>3, DialogHas
  <2>7. done \in Handed /\ done.keep \subseteq done.users /\ m.sent.users \in Staff
    BY <2>3, <2>6 DEF Handed
  <2> HIDE DEF done
  <2>5. n \in Dialog /\ n.open = m.open /\ n.sel = m.sel /\ n.keep = m.keep /\ n.sent = done
    BY <2>2, <2>7, DialogHas, SentSet
  <2> HIDE DEF n
  <2>8. Candid(n)
    BY <2>2, <2>5, <2>7, DialogHas DEF Candid
  <2>9. n \in Dialog /\ m.sent.users \subseteq Users
    BY <2>7, <2>8 DEF Candid, Staff
  <2>10. StaffOK'
    BY <1>1, <2>3, <2>4, <2>8, <2>9 DEF StaffOK
  <2>11. Stored' = Stored
    BY <2>3 DEF Stored
  <2> QED
    BY <2>3, <2>10, <2>11 DEF ConsoleIInv, TableOK, DesksOK
<1>3. CASE \E u \in scene.users : Requalify(u)
  <2>1. scene.users \subseteq Users
    BY AccessAssumption
  <2>2. UNCHANGED <<scene, rows, staffing, desk, modal>> /\ eligible' \subseteq Users
    BY <1>1, <1>3, <2>1 DEF Requalify, StaffOK
  <2>3. Stored' = Stored
    BY <2>2 DEF Stored
  <2>4. StaffOK'
    BY <1>1, <2>2 DEF StaffOK
  <2> QED
    BY <2>2, <2>3, <2>4 DEF ConsoleIInv, TableOK, DesksOK
<1> QED
  BY <1>2, <1>3

LEMMA ConsoleFrame ==
  ASSUME ConsoleIInv, UNCHANGED <<scene, console>>
  PROVE  ConsoleIInv'
<1>1. UNCHANGED <<scene, rows, staffing, eligible, desk, modal>>
  BY DEF console
<1>2. Stored' = Stored
  BY <1>1 DEF Stored
<1> QED
  BY <1>1, <1>2 DEF ConsoleIInv, TableOK, DesksOK, StaffOK

LEMMA ConsoleKeeps ==
  ASSUME scene \in Scenes, ConsoleIInv, ConsoleStep
  PROVE  ConsoleIInv'
<1>1. ASSUME NEW b \in Browsers,
             \/ Load(b) \/ \E q \in Queries : Search(b, q)
             \/ \E p \in Ids : TurnTo(b, p)
             \/ \E n \in Sizes : ChangeSize(b, n)
      PROVE  ConsoleIInv'
  BY <1>1, LookKeeps
<1>2. ASSUME NEW b \in Browsers,
             \/ CancelEdit(b) \/ \E id \in Ids : Edit(b, id)
             \/ \E name \in scene.names, parent \in ParentChoices :
                  \/ ChangeEditor(b, name, parent)
                  \/ \E id \in scene.places \cup {None} :
                       ChangeDraft(b, [id |-> id, name |-> name, parent |-> parent])
      PROVE  ConsoleIInv'
  BY <1>2, FormsKeep
<1>3. ASSUME NEW b \in Browsers, Save(b) \/ Add(b) \/ \E id \in Ids : Toggle(b, id)
      PROVE  ConsoleIInv'
  BY <1>3, SavingKeeps
<1>4. ASSUME NEW b \in Browsers, NEW what \in Whats, Store(b, what) \/ Succeed(b, what) \/ Fail(b, what)
      PROVE  ConsoleIInv'
  BY <1>4, StoringKeeps, AnsweringKeeps
<1>5. ASSUME NEW b \in Browsers,
             \/ OpenStaff(b) \/ LoadStaff(b) \/ CloseStaff(b) \/ SaveStaff(b) \/ AnswerStaff(b)
             \/ \E u \in scene.users : TickBox(b, u)
      PROVE  ConsoleIInv'
  BY <1>5, DialogsKeep
<1>6. CASE \/ \E b \in Browsers : StoreStaff(b)
           \/ \E u \in scene.users : Requalify(u)
  BY <1>6, StaffingKeeps
<1> QED
  BY <1>1, <1>2, <1>3, <1>4, <1>5, <1>6 DEF ConsoleStep, Whats

LEMMA AccessLeavesScene ==
  ASSUME AccessStep
  PROVE  UNCHANGED scene
BY DEF AccessStep, GetSession, SignOut, ChangePassword, Expire, SignIn, UserSetRole, UserBan, Tick

(* The lists, forms, requests and dialogs of the administration pages are   *)
(* well formed in every state, with any number of administrators at work.   *)
THEOREM ConsoleInvariant == Spec => []ConsoleIInv
<1>1. SessionIInv /\ ConsoleIInv /\ [Next]_workspace => ConsoleIInv'
  <2> SUFFICES ASSUME SessionIInv, ConsoleIInv, [Next]_workspace PROVE ConsoleIInv'
    OBVIOUS
  <2>1. CASE ConsoleStep
    BY <2>1, ConsoleKeeps DEF SessionIInv, AccessTypeOK
  <2>2. CASE UNCHANGED <<scene, console>>
    BY <2>2, ConsoleFrame
  <2> QED
    BY <2>1, <2>2, AccessLeavesScene, ReportsLeaveAccess DEF Next, workspace
<1> QED
  BY <1>1, ConsoleStart, SessionInvariant, PTL DEF Spec
-----------------------------------------------------------------------------
(* Where the reports page and the request it waits for stand.               *)
PlaceOK ==
  /\ choices \subseteq Facilities /\ report.size \in PageSizes
  /\ reading # None => reading.at \in {"scope", "rows", "count", "days"}

LEMMA PlaceStart == Init => PlaceOK
<1> SUFFICES ASSUME Init PROVE PlaceOK
  OBVIOUS
<1>1. choices = {} /\ reading = None
  BY DEF Init, ReportsInit
<1> DEFINE least == CHOOSE n \in PageSizes : \A m \in PageSizes : n <= m
<1>2. least \in PageSizes
  BY ReportsAssumption
<1>3. report.size = least
  BY DEF Init, ReportsInit
<1> HIDE DEF least
<1> QED
  BY <1>1, <1>2, <1>3 DEF PlaceOK

LEMMA StirredLeavesPlace ==
  ASSUME ReportIInv, PlaceOK, Stirred
  PROVE  PlaceOK'
<1>1. UNCHANGED <<choices, report>>
  BY DEF Stirred
<1>2. ASSUME reading' # None PROVE reading # None /\ reading'.at = reading.at
  <2>1. reading # None /\ IsReading(reading)
    BY <1>2 DEF Stirred, ReportIInv, ReadingInScope
  <2>2. reading' = [reading EXCEPT !.still = FALSE,
                                   !.may = reading.may \cup stations'[reading.caller.user]]
    BY <2>1 DEF Stirred
  <2> QED
    BY <2>1, <2>2 DEF IsReading
<1> QED
  BY <1>1, <1>2 DEF PlaceOK

LEMMA ReaderLeavesPlace ==
  ASSUME ReportIInv, PlaceOK, ReaderChanges
  PROVE  PlaceOK'
<1>1. UNCHANGED <<choices, report>>
  BY DEF ReaderChanges
<1>2. ASSUME reading' # None PROVE reading # None /\ reading'.at = reading.at
  <2>1. reading # None /\ IsReading(reading) /\ reading' = [reading EXCEPT !.still = FALSE]
    BY <1>2 DEF ReaderChanges, Since, ReportIInv, ReadingInScope
  <2> QED
    BY <2>1 DEF IsReading
<1> QED
  BY <1>1, <1>2 DEF PlaceOK

LEMMA ChoicesAreFacilities ==
  ASSUME SessionIInv, ReportIInv, LoadChoices
  PROVE  choices' \subseteq Facilities
<1>1. SessionOf(Reader) # None
  BY DEF LoadChoices, Serves, Served
<1>2. Caller \in [user : Users, role : RoleNames]
  BY <1>1, SessionType, ReportsAssumption DEF SessionIInv, Caller
<1>3. stations[Caller.user] \in SUBSET Facilities
  BY <1>2 DEF ReportIInv, StoreOK
<1> QED
  BY <1>3 DEF LoadChoices, ReportFacilities, ReportScope

LEMMA OnwardPlace ==
  ASSUME ReportIInv, PlaceOK, ReadScope \/ ReadRows \/ ReadOriginStatus
  PROVE  PlaceOK'
<1>1. reading # None /\ IsReading(reading)
  BY DEF ReadScope, ReadRows, ReadOriginStatus, ReadingRows, ReportIInv, ReadingInScope
<1>2. ASSUME NEW f, Onward([reading EXCEPT !.at = "rows", !.facilities = f]) PROVE PlaceOK'
  <2>1. reading' = [reading EXCEPT !.at = "rows", !.facilities = f] /\ UNCHANGED <<choices, report>>
    BY <1>2 DEF Onward
  <2>2. reading'.at = "rows"
    BY <1>1, <2>1 DEF IsReading
  <2> QED
    BY <2>1, <2>2 DEF PlaceOK
<1>3. ASSUME NEW at \in {"count", "days"}, NEW got, Onward([reading EXCEPT !.at = at, !.got = got])
      PROVE  PlaceOK'
  <2>1. reading' = [reading EXCEPT !.at = at, !.got = got] /\ UNCHANGED <<choices, report>>
    BY <1>3 DEF Onward
  <2>2. reading'.at = at
    BY <1>1, <2>1 DEF IsReading
  <2> QED
    BY <1>3, <2>1, <2>2 DEF PlaceOK
<1>4. CASE ReadScope
  <2>1. CASE reading' = None /\ UNCHANGED <<choices, report>>
    BY <2>1 DEF PlaceOK
  <2> QED
    BY <1>2, <1>4, <2>1 DEF ReadScope, Answered
<1>5. CASE ReadRows
  BY <1>3, <1>5 DEF ReadRows
<1>6. CASE ReadOriginStatus
  BY <1>3, <1>6 DEF ReadOriginStatus
<1> QED
  BY <1>4, <1>5, <1>6

LEMMA PlaceKeeps ==
  ASSUME SessionIInv, ReportIInv, PlaceOK, ReportsStep
  PROVE  PlaceOK'
<1>1. CASE \/ \E v \in Visits : \/ Arrive(v) \/ \E row \in scene.rows : Register(v, row)
                                \/ \E t \in Times : Reschedule(v, t)
           \/ \E u \in scene.users, facilities \in SUBSET Facilities : Restation(u, facilities)
  <2>1. Stirred
    BY <1>1 DEF Arrive, Register, Reschedule, Restation
  <2> QED
    BY <2>1, StirredLeavesPlace
<1>2. CASE LoadChoices
  <2>1. choices' \subseteq Facilities
    BY <1>2, ChoicesAreFacilities
  <2> QED
    BY <1>2, <2>1 DEF LoadChoices, PlaceOK
<1>3. ASSUME NEW f, SetFilter(f) PROVE PlaceOK'
  <2>1. report' = [report EXCEPT !.filter = f, !.page = 1] /\ reading' = None /\ choices' = choices
    BY <1>3 DEF SetFilter
  <2>2. report = [filter |-> report.filter, page |-> report.page, size |-> report.size]
    BY DEF ReportIInv, PageOK
  <2>3. report'.size = report.size
    BY <2>1, <2>2
  <2> QED
    BY <2>1, <2>3 DEF PlaceOK
<1>4. ASSUME NEW n \in PageSizes, SetPageSize(n) PROVE PlaceOK'
  <2>1. report' = [report EXCEPT !.size = n] /\ reading' = None /\ choices' = choices
    BY <1>4 DEF SetPageSize
  <2>2. report'.size = n
    BY <2>1 DEF ReportIInv, PageOK
  <2> QED
    BY <1>4, <2>1, <2>2 DEF PlaceOK
<1>5. ASSUME NEW p, SetPage(p) PROVE PlaceOK'
  <2>1. report' = [report EXCEPT !.page = p] /\ reading' = None /\ choices' = choices
    BY <1>5 DEF SetPage
  <2>2. report'.size = report.size
    BY <2>1 DEF ReportIInv, PageOK
  <2> QED
    BY <2>1, <2>2 DEF PlaceOK
<1>6. ASSUME NEW kind, Ask(kind) PROVE PlaceOK'
  BY <1>6 DEF Ask, PlaceOK
<1>7. CASE ReadScope \/ ReadRows \/ ReadOriginStatus
  BY <1>7, OnwardPlace
<1>8. CASE ReadCount \/ InsightsLogExport \/ ReadDays
  BY <1>8 DEF ReadCount, InsightsLogExport, ReadDays, Answered, PlaceOK
<1> QED
  BY <1>1, <1>2, <1>3, <1>4, <1>5, <1>6, <1>7, <1>8 DEF ReportsStep

LEMMA PlaceInvariant == Spec => []PlaceOK
<1>1. SessionIInv /\ ReportIInv /\ PlaceOK /\ [Next]_workspace => PlaceOK'
  <2> SUFFICES ASSUME SessionIInv, ReportIInv, PlaceOK, [Next]_workspace PROVE PlaceOK'
    OBVIOUS
  <2>1. CASE ReportsStep
    BY <2>1, PlaceKeeps
  <2>2. CASE UNCHANGED reports
    BY <2>2 DEF PlaceOK, reports
  <2>3. CASE ReaderChanges
    BY <2>3, ReaderLeavesPlace
  <2> QED
    BY <2>1, <2>2, <2>3 DEF Next, workspace
<1> QED
  BY <1>1, PlaceStart, SessionInvariant, ReportInvariant, PTL DEF Spec

(* Every list of the administration pages shows what it has: its page is    *)
(* one of the pager's, is not empty when the list is not, and the pages     *)
(* together are the rows that match, whatever was searched for, loaded or   *)
(* turned to meanwhile; and everything in the workspace is of its type.     *)
THEOREM WorkspaceShowsItsRows == Spec => []WorkspaceInv
<1>1. ConsoleIInv => RowsStayVisible
  <2> SUFFICES ASSUME ConsoleIInv, NEW b \in Browsers
               PROVE  /\ desk[b].page \in 1..LastPage(desk[b])
                      /\ Filtered(desk[b]) # {} => Items(b) # {}
                      /\ UNION {PageItems(desk[b], p) : p \in 1..LastPage(desk[b])} = Filtered(desk[b])
    BY DEF RowsStayVisible
  <2>1. desk[b] \in DeskPage /\ desk[b].page <= LastPage(desk[b])
    BY DEF ConsoleIInv, DesksOK
  <2>2. desk[b].size \in Nat \ {0} /\ desk[b].page \in Nat \ {0}
    BY <2>1, ConsoleAssumption DEF DeskPage
  <2>3. /\ LastPage(desk[b]) \in Nat \ {0}
        /\ Filtered(desk[b]) # {} => \A p \in 1..LastPage(desk[b]) : PageItems(desk[b], p) # {}
        /\ UNION {PageItems(desk[b], p) : p \in 1..LastPage(desk[b])} = Filtered(desk[b])
    BY <2>2, PagesShow
  <2>4. desk[b].page \in 1..LastPage(desk[b])
    BY <2>1, <2>2, <2>3
  <2> QED
    BY <2>3, <2>4 DEF Items
<1>2. SessionIInv /\ ReportIInv /\ PlaceOK /\ ConsoleIInv => TypeOK
  <2> SUFFICES ASSUME SessionIInv, ReportIInv, PlaceOK, ConsoleIInv PROVE TypeOK
    OBVIOUS
  <2>1. AccessTypeOK
    BY DEF SessionIInv
  <2>2. /\ log \in [Visits -> LogRow \cup {None}]
        /\ stations \in [Users -> SUBSET Facilities] /\ report.page \in Nat \ {0}
    BY DEF ReportIInv, StoreOK, PageOK, Sound
  <2>3. ASSUME NEW b \in Browsers
        PROVE  /\ [list |-> desk[b].list, page |-> desk[b].page, size |-> desk[b].size,
                   query |-> desk[b].query] \in Page
               /\ modal[b].sel # None => modal[b].open
    <3>1. desk[b] \in DeskPage /\ Candid(modal[b])
      BY DEF ConsoleIInv, DesksOK, StaffOK
    <3>2. /\ desk[b].list \in [Ids -> Line \cup {None}] /\ desk[b].page \in Nat \ {0}
          /\ desk[b].size \in Sizes /\ desk[b].query \in Queries \cup {{}}
      BY <3>1 DEF DeskPage
    <3> QED
      BY <3>1, <3>2 DEF Page, Candid
  <2>4. /\ rows \in [Ids -> Line \cup {None}]
        /\ staffing \subseteq Users /\ eligible \subseteq Users
    BY DEF ConsoleIInv, TableOK, StaffOK
  <2> QED
    BY <2>1, <2>2, <2>3, <2>4 DEF TypeOK, PlaceOK
<1> QED
  BY <1>1, <1>2, SessionInvariant, ReportInvariant, PlaceInvariant, ConsoleInvariant, PTL
     DEF WorkspaceInv

(* What one step may do to a row there was, and to the staff of the point.  *)
Says(id) ==
  \E b \in Browsers :
    \/ \E what \in {"update", "create"} :
         LET form == desk[b].sent[what].form IN
         /\ StoresNow(b, what) /\ form.id = id
         /\ rows'[id].name = form.name /\ rows'[id].isActive = rows[id].isActive
         /\ rows'[id].parent = IF scene.kind = "department" /\ form.parent = None
                              THEN rows[id].parent ELSE form.parent
    \/ /\ StoresNow(b, "setActive") /\ desk[b].sent.setActive.form.id = id
       /\ rows'[id] = [rows[id] EXCEPT !.isActive = desk[b].sent.setActive.active]
Keeps ==
  \A u \in staffing \ staffing' :
    \E b \in Browsers : /\ modal[b].sent # None /\ ~modal[b].sent.stored
                        /\ modal'[b].sent.stored
                        /\ u \notin modal[b].sent.keep

LEMMA StoreSays ==
  ASSUME ConsoleIInv, NEW b \in Browsers, NEW what \in Whats, Store(b, what),
         NEW id \in Stored, rows'[id] # rows[id]
  PROVE  Says(id)
<1> DEFINE request == desk[b].sent[what]
<1>1. /\ request \in Requests /\ request # None /\ ~request.stored
      /\ Outgoing(what, request, scene.kind, Stored)
      /\ desk' = [desk EXCEPT ![b] = [desk[b] EXCEPT !.sent[what] =
                    [request EXCEPT !.stored = TRUE]]]
  BY StoredRequest
<1>2. TableOK /\ desk[b] \in DeskPage /\ desk \in [Browsers -> DeskPage]
  BY DEF ConsoleIInv, DesksOK
<1>3. desk'[b].sent[what] = [request EXCEPT !.stored = TRUE]
  BY <1>1, <1>2 DEF DeskPage
<1>4. [request EXCEPT !.stored = TRUE] \in Requests /\ [request EXCEPT !.stored = TRUE].stored
  BY <1>1 DEF Requests
<1>5. StoresNow(b, what)
  BY <1>1, <1>3, <1>4, ConsoleAssumption DEF StoresNow
<1>6. \/ /\ what # "setActive" /\ request.form.id \in Stored
         /\ Edits(request.form.id, request.form)
      \/ what = "create" /\ \E place \in Ids : Adds(place, request.form)
      \/ what = "setActive" /\ Switches(request.form.id, request.active)
  BY <1>1, <1>2, StoreStores
<1>7. rows \in [Ids -> Line \cup {None}] /\ id \in Ids /\ rows[id] \in Line
      /\ Parentless(scene.kind, rows[id])
  BY <1>2 DEF TableOK, Stored
<1>8. CASE what # "setActive" /\ Edits(request.form.id, request.form)
  <2> DEFINE parent == IF /\ scene.kind \notin {"facility", "category"}
                          /\ scene.kind = "department" => request.form.parent # None
                       THEN request.form.parent ELSE rows[id].parent
  <2>1. request.form.id = id
    BY <1>7, <1>8 DEF Edits
  <2>2. rows'[id] = [name |-> request.form.name, parent |-> parent,
                     isActive |-> rows[id].isActive]
    BY <1>7, <1>8, <2>1 DEF Edits
  <2>3. Parentless(scene.kind, request.form)
    BY <1>1 DEF Outgoing
  <2>4. parent = IF scene.kind = "department" /\ request.form.parent = None
                 THEN rows[id].parent ELSE request.form.parent
    BY <1>7, <2>3 DEF Parentless
  <2> HIDE DEF parent
  <2>5. /\ rows'[id].name = request.form.name /\ rows'[id].isActive = rows[id].isActive
        /\ rows'[id].parent = parent
    BY <2>2
  <2>6. what \in {"update", "create"}
    BY <1>8 DEF Whats
  <2> QED
    BY <1>5, <2>1, <2>4, <2>5, <2>6 DEF Says
<1>9. CASE \E place \in Ids : Adds(place, request.form)
  BY <1>7, <1>9 DEF Adds
<1>10. CASE what = "setActive" /\ Switches(request.form.id, request.active)
  <2>1. request.form.id = id
    BY <1>7, <1>10 DEF Switches
  <2>2. rows'[id] = [name |-> rows[id].name, parent |-> rows[id].parent,
                     isActive |-> request.active]
    BY <1>7, <1>10, <2>1 DEF Switches
  <2>3. rows'[id] = [rows[id] EXCEPT !.isActive = request.active]
    BY <1>7, <2>2 DEF Line
  <2> QED
    BY <1>5, <1>10, <2>1, <2>3 DEF Says
<1> QED
  BY <1>6, <1>8, <1>9, <1>10

LEMMA StaffStoreKeeps ==
  ASSUME ConsoleIInv, NEW b \in Browsers, StoreStaff(b)
  PROVE  Keeps
<1>1. /\ modal[b].sent # None /\ ~modal[b].sent.stored /\ staffing' = modal[b].sent.users
      /\ modal' = [modal EXCEPT ![b].sent.stored = TRUE]
  BY DEF StoreStaff
<1>2. modal \in [Browsers -> Dialog] /\ modal[b] \in Dialog /\ Candid(modal[b])
  BY DEF ConsoleIInv, StaffOK
<1>3. modal[b].sent \in Handed /\ modal[b].sent.keep \subseteq modal[b].sent.users
  BY <1>1, <1>2, DialogHas
<1>4. modal'[b].sent = [modal[b].sent EXCEPT !.stored = TRUE]
  BY <1>1, <1>2 DEF Dialog
<1>5. modal'[b].sent.stored
  BY <1>1, <1>3, <1>4 DEF Handed
<1> QED
  BY <1>1, <1>3, <1>5 DEF Keeps

(* Rows are written when a request is stored, and the staffing when a       *)
(* dialog's is, by no other step.                                           *)
LEMMA WritesStore ==
  ASSUME ConsoleStep
  PROVE  /\ rows' = rows \/ \E b \in Browsers, what \in Whats : Store(b, what)
         /\ staffing' = staffing \/ \E b \in Browsers : StoreStaff(b)
<1>1. ASSUME NEW b \in Browsers,
             \/ Load(b) \/ CancelEdit(b) \/ Save(b) \/ Add(b)
             \/ \E q \in Queries : Search(b, q)
             \/ \E p \in Ids : TurnTo(b, p)
             \/ \E n \in Sizes : ChangeSize(b, n)
             \/ \E id \in Ids : Edit(b, id) \/ Toggle(b, id)
      PROVE  UNCHANGED <<rows, staffing>>
  BY <1>1 DEF Load, CancelEdit, Save, Add, Search, TurnTo, ChangeSize, Edit, Toggle, Send, Becomes
<1>2. ASSUME NEW b \in Browsers,
             \E name \in scene.names, parent \in ParentChoices :
               \/ ChangeEditor(b, name, parent)
               \/ \E id \in scene.places \cup {None} :
                    ChangeDraft(b, [id |-> id, name |-> name, parent |-> parent])
      PROVE  UNCHANGED <<rows, staffing>>
  BY <1>2 DEF ChangeEditor, ChangeDraft, Becomes
<1>3. ASSUME NEW b \in Browsers, NEW what \in Whats, Succeed(b, what) \/ Fail(b, what)
      PROVE  UNCHANGED <<rows, staffing>>
  BY <1>3 DEF Succeed, Fail, Becomes
<1>4. ASSUME NEW b \in Browsers, NEW what \in Whats, Store(b, what) PROVE staffing' = staffing
  BY <1>4 DEF Store
<1>5. ASSUME NEW b \in Browsers,
             \/ OpenStaff(b) \/ LoadStaff(b) \/ CloseStaff(b) \/ SaveStaff(b)
             \/ AnswerStaff(b) \/ \E u \in scene.users : TickBox(b, u)
      PROVE  UNCHANGED <<rows, staffing>>
  BY <1>5 DEF OpenStaff, LoadStaff, CloseStaff, SaveStaff, AnswerStaff, TickBox, Assign
<1>6. ASSUME NEW b \in Browsers, StoreStaff(b) PROVE rows' = rows
  BY <1>6 DEF StoreStaff
<1>7. CASE \E u \in scene.users : Requalify(u)
  BY <1>7 DEF Requalify
<1> QED
  BY <1>1, <1>2, <1>3, <1>4, <1>5, <1>6, <1>7 DEF ConsoleStep, Whats

(* A row changes only as a form showed it or a switch said, and leaves what *)
(* others did to the rest of it; nobody is taken off a point by a save that *)
(* did not show him: in every step, of any number of administrators.        *)
THEOREM WorkspaceSavesKept == Spec => SavesKept
<1>1. ConsoleIInv /\ [Next]_workspace => \A id \in Stored : rows'[id] # rows[id] => Says(id)
  <2> SUFFICES ASSUME ConsoleIInv, [Next]_workspace, NEW id \in Stored, rows'[id] # rows[id]
               PROVE  Says(id)
    OBVIOUS
  <2>1. ConsoleStep
    BY DEF Next, workspace, console
  <2>2. \E b \in Browsers, what \in Whats : Store(b, what)
    BY <2>1, WritesStore
  <2> QED
    BY <2>2, StoreSays
<1>2. ConsoleIInv /\ [Next]_workspace => Keeps
  <2> SUFFICES ASSUME ConsoleIInv, [Next]_workspace PROVE Keeps
    OBVIOUS
  <2>1. CASE ConsoleStep /\ staffing' # staffing
    BY <2>1, WritesStore, StaffStoreKeeps
  <2>2. CASE staffing' = staffing
    BY <2>2 DEF Keeps
  <2> QED
    BY <2>1, <2>2 DEF Next, workspace, console
<1> QED
  BY <1>1, <1>2, ConsoleInvariant, PTL DEF Spec, SavesKept, SavedAsShown, HiddenStaffKept, Says, Keeps
-----------------------------------------------------------------------------
(* Pages, download and totals.  What the reader's own scope shows him now,  *)
(* and the orders the query may give it in.                                 *)
Scope(f) == EffectiveFacilities(ReportScope(Caller), f.facility)
Seen(f) == LogConditions(Scope(f), f)
Figured(f) == InsightsWhere(Scope(f), f)
Orders(f) == LogRowsQuery(Seen(f))
TimesTellApart == \A v, w \in Logged : v # w => OccurredAt(v) # OccurredAt(w)
AddsUp(totals) ==
  /\ totals.total = totals.walkIns + totals.appointments
  /\ totals.attended <= totals.total

(* What a request for the page p holds, and what the page was answered, is  *)
(* what the log says now, as long as nothing has changed since.             *)
ReadingAgrees(p) ==
  reading # None =>
    /\ reading.input = p
    /\ reading.at = "days" => AddsUp(reading.got[1])
    /\ reading.still =>
         /\ reading.caller = Caller
         /\ reading.at # "scope" => reading.facilities = Scope(p.filter)
         /\ reading.at = "count" =>
              \E order \in Orders(p.filter) : reading.got = Cut(order, Offset(p), p.size)
         /\ reading.at = "days" => reading.got = <<Counted(Figured(p.filter))>>
AnswerAgrees(p) ==
  answer # None =>
    /\ answer.input = p
    /\ answer.still => answer.total = Cardinality(Seen(p.filter))
ExportAgrees(p) ==
  exported # None =>
    /\ exported.input.filter = p.filter
    /\ exported.still =>
         \E order \in Orders(p.filter) : exported.rows = Cut(order, 0, ExportCap)
InsightsAgree(p) ==
  insights # None =>
    /\ insights = [input |-> insights.input, still |-> insights.still,
                   totals |-> insights.totals, byDay |-> insights.byDay]
    /\ insights.input.filter = p.filter /\ AddsUp(insights.totals)
    /\ insights.still => /\ insights.totals = Counted(Figured(p.filter))
                         /\ insights.byDay = ByDay(Figured(p.filter))
WalkAgrees(p) ==
  walk # None =>
    /\ walk.pages \in Nat \ {0}
    /\ TimesTellApart =>
         \E order \in Orders(p.filter) : walk.rows = Cut(order, 0, walk.pages * p.size)
AgreeIInv ==
  \A p \in {report} :
    ReadingAgrees(p) /\ AnswerAgrees(p) /\ ExportAgrees(p) /\ InsightsAgree(p) /\ WalkAgrees(p)

-----------------------------------------------------------------------------
(* Of finitely many sets one has none of the others inside it.              *)
LEMMA LeastSubset ==
  ASSUME NEW S, IsFiniteSet(S), NEW T, T \subseteq SUBSET S, T # {}
  PROVE  \E x \in T : \A y \in T : y \subseteq x => y = x
<1>1. IsWellFoundedOn(StrictSubsetOrdering(S), SUBSET S)
  BY FS_StrictSubsetOrderingWellFounded, FS_FiniteSubsetsOfFinite
<1>2. PICK x \in T : \A y \in T : <<y, x>> \notin StrictSubsetOrdering(S)
  BY <1>1, WFMin
<1> QED
  BY <1>2 DEF StrictSubsetOrdering

SumOf(f) == FoldFunction(+, 0, f)

(* Things sorted by day, counted day by day in whatever order, are as many  *)
(* as there are.  The fold is a recursive function on the sets of days: the *)
(* count of what is on such days satisfies its recursion, and only one      *)
(* function does, since there is no least set where two would differ.       *)
LEMMA DaysAddUp ==
  ASSUME NEW R, IsFiniteSet(R), NEW day, DOMAIN day = R, NEW f,
         f = [t \in {day[v] : v \in R} |-> Cardinality({v \in R : day[v] = t})]
  PROVE  SumOf(f) = Cardinality(R)
<1> DEFINE D == {day[v] : v \in R}
           On(t) == {v \in R : day[v] = t}
           OnAny(s) == {v \in R : day[v] \in s}
           pick(s) == CHOOSE x \in s : TRUE
           g == [s \in SUBSET D |-> Cardinality(OnAny(s))]
           Sums(h) == h = [s \in SUBSET D |-> IF s = {} THEN 0
                                              ELSE f[pick(s)] + h[s \ {pick(s)}]]
<1>1. SumOf(f) = (CHOOSE h : Sums(h))[D]
  <2>1. DOMAIN f = D
    OBVIOUS
  <2> HIDE DEF D
  <2> QED
    BY <2>1 DEF SumOf, FoldFunction, FoldFunctionOnSet, MapThenFoldSet
<1>2. IsFiniteSet(D)
  <2>1. [v \in R |-> day[v]] \in Surjection(R, D)
    BY DEF Surjection
  <2> QED
    BY <2>1, FS_Surjection
<1>3. \A s : s # {} => pick(s) \in s
  OBVIOUS
<1>4. \A s : \A v : v \in OnAny(s) <=> v \in R /\ day[v] \in s
  OBVIOUS
<1>5. \A t : \A v : v \in On(t) <=> v \in R /\ day[v] = t
  OBVIOUS
<1>6. \A t \in D : f[t] = Cardinality(On(t))
  OBVIOUS
<1>7. \A s \in SUBSET D : g[s] = Cardinality(OnAny(s))
  OBVIOUS
<1>8. g = [s \in SUBSET D |-> g[s]]
  OBVIOUS
<1> HIDE DEF pick, OnAny, On, g
<1>9. \A s : IsFiniteSet(OnAny(s)) /\ Cardinality(OnAny(s)) \in Nat
  BY <1>4, FS_Subset, FS_CardinalityType
<1>10. \A t : IsFiniteSet(On(t)) /\ Cardinality(On(t)) \in Nat
  BY <1>5, FS_Subset, FS_CardinalityType
<1>11. ASSUME NEW s \in SUBSET D, s # {}
       PROVE  g[s] = f[pick(s)] + g[s \ {pick(s)}]
  <2>1. PICK x \in s : x = pick(s)
    BY <1>3, <1>11
  <2>2. x \in D /\ s \ {x} \in SUBSET D
    OBVIOUS
  <2>3. OnAny(s) = On(x) \cup OnAny(s \ {x}) /\ On(x) \cap OnAny(s \ {x}) = {}
    BY <1>4, <1>5
  <2>4. Cardinality(OnAny(s)) = Cardinality(On(x)) + Cardinality(OnAny(s \ {x})) - 0
    BY <1>9, <1>10, <2>3, FS_Union, FS_EmptySet
  <2>5. g[s] = f[x] + g[s \ {x}]
    BY <1>6, <1>7, <1>9, <1>10, <2>2, <2>4
  <2> QED
    BY <2>1, <2>5
<1>12. g[{}] = 0
  <2>1. OnAny({}) = {}
    BY <1>4
  <2> QED
    BY <1>7, <2>1, FS_EmptySet
<1>13. Sums(g)
  <2>1. \A s \in SUBSET D : g[s] = IF s = {} THEN 0 ELSE f[pick(s)] + g[s \ {pick(s)}]
    BY <1>11, <1>12
  <2> QED
    BY <1>8, <2>1
<1>14. ASSUME NEW h, Sums(h) PROVE h[D] = g[D]
  <2>1. \A s \in SUBSET D : h[s] = IF s = {} THEN 0 ELSE f[pick(s)] + h[s \ {pick(s)}]
    BY <1>14
  <2> SUFFICES ASSUME h[D] # g[D] PROVE FALSE
    OBVIOUS
  <2> DEFINE T == {s \in SUBSET D : h[s] # g[s]}
  <2>2. T \subseteq SUBSET D /\ T # {}
    OBVIOUS
  <2>3. \A s : s \in T <=> s \in SUBSET D /\ h[s] # g[s]
    OBVIOUS
  <2> HIDE DEF T, D
  <2>4. PICK s \in T : \A y \in T : y \subseteq s => y = s
    BY <1>2, <2>2, LeastSubset
  <2>5. s \in SUBSET D /\ h[s] # g[s] /\ s # {}
    BY <1>12, <2>1, <2>3, <2>4
  <2>6. s \ {pick(s)} \notin T
    BY <1>3, <2>4, <2>5
  <2>7. h[s \ {pick(s)}] = g[s \ {pick(s)}]
    BY <2>3, <2>5, <2>6
  <2> QED
    BY <1>11, <2>1, <2>5, <2>7
<1>15. (CHOOSE h : Sums(h))[D] = g[D]
  <2>1. Sums(CHOOSE h : Sums(h))
    BY <1>13
  <2> QED
    BY <1>14, <2>1
<1>16. g[D] = Cardinality(R)
  <2>1. OnAny(D) = R
    BY <1>4
  <2> QED
    BY <1>7, <2>1
<1> QED
  BY <1>1, <1>15, <1>16

-----------------------------------------------------------------------------
(* An order the query may give has each visit once, the latest first.       *)
LEMMA OrderHasEach ==
  ASSUME NEW R, IsFiniteSet(R), NEW order \in LogRowsQuery(R)
  PROVE  LET n == Cardinality(R)
         IN  /\ n \in Nat /\ order \in [1..n -> R] /\ order \in Seq(R) /\ Len(order) = n
             /\ \A i, j \in 1..n : order[i] = order[j] => i = j
             /\ \A v \in R : \E i \in 1..n : order[i] = v
             /\ \A i, j \in 1..n : i < j => OccurredAt(order[i]) >= OccurredAt(order[j])
<1> DEFINE n == Cardinality(R)
           places == 1..n
<1>1. n \in Nat
  BY FS_CardinalityType
<1>2. /\ order \in [places -> R]
      /\ \A i, j \in places : order[i] = order[j] => i = j
      /\ \A i, j \in places : i < j => OccurredAt(order[i]) >= OccurredAt(order[j])
  <2>1. order \in SetToSeqs(R)
        /\ \A i, j \in DOMAIN order : i < j => OccurredAt(order[i]) >= OccurredAt(order[j])
    BY DEF LogRowsQuery
  <2>2. order \in [places -> R] /\ \A i, j \in places : i # j => order[i] # order[j]
    BY <2>1 DEF SetToSeqs
  <2> QED
    BY <2>1, <2>2
<1> HIDE DEF n
<1>3. order \in Seq(R) /\ Len(order) = n
  BY <1>1, <1>2
<1>4. IsFiniteSet(places) /\ Cardinality(places) = n
  <2>1. Cardinality(1..n) = IF 1 > n THEN 0 ELSE n - 1 + 1
    BY <1>1, FS_Interval
  <2> QED
    BY <1>1, <2>1, FS_Interval
<1> HIDE DEF places
<1>5. order \in Injection(places, R)
  BY <1>2, Fun_IsInj
<1>6. order \in Surjection(places, R)
  BY <1>4, <1>5, FS_Injection DEF n
<1>7. \A v \in R : \E i \in places : order[i] = v
  BY <1>6, Fun_SurjectionProperties
<1> QED
  BY <1>1, <1>2, <1>3, <1>7 DEF n, places

(* Visits that their times tell apart have one order: at the first place    *)
(* where two differed, each would be later than the other.                  *)
LEMMA OneOrder ==
  ASSUME NEW R, IsFiniteSet(R), \A v \in R : OccurredAt(v) \in Int,
         \A v, w \in R : v # w => OccurredAt(v) # OccurredAt(w),
         NEW first \in LogRowsQuery(R), NEW second \in LogRowsQuery(R)
  PROVE  first = second
<1> DEFINE n == Cardinality(R)
           Differ == {i \in 1..n : first[i] # second[i]}
<1>1. /\ n \in Nat /\ first \in [1..n -> R] /\ second \in [1..n -> R]
      /\ \A i, j \in 1..n : first[i] = first[j] => i = j
      /\ \A i, j \in 1..n : second[i] = second[j] => i = j
      /\ \A v \in R : \E i \in 1..n : first[i] = v
      /\ \A v \in R : \E i \in 1..n : second[i] = v
      /\ \A i, j \in 1..n : i < j => OccurredAt(first[i]) >= OccurredAt(first[j])
      /\ \A i, j \in 1..n : i < j => OccurredAt(second[i]) >= OccurredAt(second[j])
  BY OrderHasEach
<1> HIDE DEF n
<1>2. \A i \in 1..n : first[i] \in R /\ second[i] \in R
  BY <1>1
<1>3. \A i \in 1..n : i \in Nat
  BY <1>1
<1> SUFFICES ASSUME Differ # {} PROVE FALSE
  <2>1. first = [i \in 1..n |-> first[i]] /\ second = [i \in 1..n |-> second[i]]
    BY <1>1
  <2>2. Differ = {} => \A i \in 1..n : first[i] = second[i]
    OBVIOUS
  <2> QED
    BY <2>1, <2>2
<1>4. Differ \in SUBSET Nat /\ IsFiniteSet(Differ)
  <2>1. IsFiniteSet(1..n)
    BY <1>1, FS_Interval
  <2> QED
    BY <1>3, <2>1, FS_Subset
<1>5. PICK i \in Differ : \A j \in Differ : i <= j
  BY <1>4, LeastOf
<1>6. i \in 1..n /\ first[i] # second[i] /\ \A j \in 1..n : j < i => first[j] = second[j]
  BY <1>5
<1>7. PICK j \in 1..n : second[j] = first[i]
  BY <1>1, <1>2, <1>6
<1>8. PICK k \in 1..n : first[k] = second[i]
  BY <1>1, <1>2, <1>6
<1>9. i < j
  <2>1. j # i
    BY <1>6, <1>7
  <2>2. ~(j < i)
    BY <1>1, <1>6, <1>7
  <2> QED
    BY <1>3, <1>6, <2>1, <2>2
<1>10. i < k
  <2>1. k # i
    BY <1>6, <1>8
  <2>2. ~(k < i)
    BY <1>1, <1>6, <1>8
  <2> QED
    BY <1>3, <1>6, <2>1, <2>2
<1>11. /\ OccurredAt(second[i]) >= OccurredAt(first[i])
       /\ OccurredAt(first[i]) >= OccurredAt(second[i])
  BY <1>1, <1>6, <1>7, <1>8, <1>9, <1>10
<1>12. OccurredAt(second[i]) = OccurredAt(first[i])
  BY <1>2, <1>6, <1>11
<1> QED
  BY <1>2, <1>6, <1>12

(* What a page and the next cut out of an order joins to what both do.      *)
LEMMA CutIs ==
  ASSUME NEW S, NEW order \in Seq(S), NEW from \in Nat, NEW n \in Nat
  PROVE  /\ Cut(order, from, n) \in Seq(S)
         /\ Len(Cut(order, from, n)) = IF from + n < Len(order) THEN n
                                       ELSE IF Len(order) < from THEN 0 ELSE Len(order) - from
         /\ \A i \in 1..Len(Cut(order, from, n)) : Cut(order, from, n)[i] = order[from + i]
<1> DEFINE last == IF from + n < Len(order) THEN from + n ELSE Len(order)
           size == IF last < from THEN 0 ELSE last - from
<1>1. last \in Nat /\ last <= Len(order) /\ Len(order) \in Nat
  OBVIOUS
<1>2. Cut(order, from, n) = SubSeq(order, from + 1, last)
  BY DEF Cut
<1>3. size = IF from + n < Len(order) THEN n
             ELSE IF Len(order) < from THEN 0 ELSE Len(order) - from
  BY <1>1
<1> HIDE DEF last
<1>4. size \in Nat
  BY <1>1
<1>5. SubSeq(order, from + 1, last) = [i \in 1..size |-> order[from + i]]
  <2>1. SubSeq(order, from + 1, last) = [i \in 1..(1 + last - (from + 1)) |-> order[i + (from + 1) - 1]]
    BY <1>1
  <2>2. 1..(1 + last - (from + 1)) = 1..size
    BY <1>1
  <2>3. \A i \in 1..size : i + (from + 1) - 1 = from + i
    BY <1>4
  <2> HIDE DEF size
  <2> QED
    BY <2>1, <2>2, <2>3
<1>6. \A i \in 1..size : from + i \in 1..Len(order)
  BY <1>1
<1> HIDE DEF size
<1>7. [i \in 1..size |-> order[from + i]] \in Seq(S)
      /\ Len([i \in 1..size |-> order[from + i]]) = size
  BY <1>4, <1>6
<1> QED
  BY <1>2, <1>3, <1>5, <1>7

LEMMA CutFront ==
  ASSUME NEW S, NEW order \in Seq(S), NEW n \in Nat
  PROVE  /\ Cut(order, 0, n) \in Seq(S)
         /\ Len(Cut(order, 0, n)) = IF n < Len(order) THEN n ELSE Len(order)
         /\ \A i \in 1..Len(Cut(order, 0, n)) : Cut(order, 0, n)[i] = order[i]
<1>1. PICK cut : cut = Cut(order, 0, n)
  OBVIOUS
<1>2. /\ cut \in Seq(S)
      /\ Len(cut) = IF 0 + n < Len(order) THEN n
                    ELSE IF Len(order) < 0 THEN 0 ELSE Len(order) - 0
      /\ \A i \in 1..Len(cut) : cut[i] = order[0 + i]
  <2>1. 0 \in Nat
    OBVIOUS
  <2> QED
    BY ONLY <1>1, <2>1, CutIs, order \in Seq(S), n \in Nat, Zenon
<1>3. Len(order) \in Nat /\ \A i \in 1..Len(cut) : 0 + i = i
  OBVIOUS
<1>4. Len(cut) = IF n < Len(order) THEN n ELSE Len(order)
  BY <1>2, <1>3
<1>5. \A i \in 1..Len(cut) : cut[i] = order[i]
  BY <1>2, <1>3, Zenon
<1> QED
  BY <1>1, <1>2, <1>4, <1>5

LEMMA JoinedLengths ==
  ASSUME NEW a \in Nat, NEW b \in Nat, NEW n \in Nat
  PROVE  (IF a < n THEN a ELSE n) + (IF a + b < n THEN b ELSE IF n < a THEN 0 ELSE n - a)
           = IF a + b < n THEN a + b ELSE n
OBVIOUS

LEMMA CutsJoin ==
  ASSUME NEW S, NEW order \in Seq(S), NEW a \in Nat, NEW b \in Nat
  PROVE  Cut(order, 0, a) \o Cut(order, a, b) = Cut(order, 0, a + b)
<1>1. PICK left : left = Cut(order, 0, a)
  OBVIOUS
<1>2. PICK right : right = Cut(order, a, b)
  OBVIOUS
<1>3. PICK c \in Nat : c = a + b
  OBVIOUS
<1>4. PICK both : both = Cut(order, 0, c)
  OBVIOUS
<1>5. PICK n \in Nat : n = Len(order)
  OBVIOUS
<1>6. /\ left \in Seq(S) /\ Len(left) = IF a < n THEN a ELSE n
      /\ \A i \in 1..Len(left) : left[i] = order[i]
  BY <1>1, <1>5, CutFront, Zenon
<1>7. /\ right \in Seq(S)
      /\ Len(right) = IF a + b < n THEN b ELSE IF n < a THEN 0 ELSE n - a
      /\ \A i \in 1..Len(right) : right[i] = order[a + i]
  BY <1>2, <1>5, CutIs, Zenon
<1>8. /\ both \in Seq(S) /\ Len(both) = IF c < n THEN c ELSE n
      /\ \A i \in 1..Len(both) : both[i] = order[i]
  BY <1>4, <1>5, CutFront, Zenon
<1>9. /\ left \o right \in Seq(S) /\ Len(left \o right) = Len(left) + Len(right)
      /\ \A i \in 1..Len(left) + Len(right) :
           (left \o right)[i] = IF i <= Len(left) THEN left[i] ELSE right[i - Len(left)]
  <2>1. left \in Seq(S) /\ right \in Seq(S)
    BY <1>6, <1>7
  <2> QED
    BY <2>1, ConcatProperties
<1>10. PICK l \in Nat : l = Len(left)
  BY <1>6
<1>11. PICK r \in Nat : r = Len(right)
  BY <1>7
<1>12. l + r = Len(both)
  <2>1. /\ l = IF a < n THEN a ELSE n
        /\ r = IF a + b < n THEN b ELSE IF n < a THEN 0 ELSE n - a
        /\ Len(both) = IF a + b < n THEN a + b ELSE n
    BY <1>3, <1>6, <1>7, <1>8, <1>10, <1>11
  <2> QED
    BY ONLY <2>1, JoinedLengths, a \in Nat, b \in Nat, n \in Nat
<1>13. ASSUME NEW i \in 1..l + r PROVE (left \o right)[i] = both[i]
  <2>1. both[i] = order[i]
    BY <1>8, <1>12
  <2>2. (left \o right)[i] = IF i <= l THEN left[i] ELSE right[i - l]
    BY <1>9, <1>10, <1>11
  <2>3. CASE i <= l
    <3>1. i \in 1..l
      BY <2>3
    <3>2. left[i] = order[i]
      BY <1>6, <1>10, <3>1
    <3> QED
      BY <2>1, <2>2, <2>3, <3>2
  <2>4. CASE ~(i <= l)
    <3>1. i - l \in 1..r
      BY ONLY <2>4, l \in Nat, r \in Nat, i \in 1..l + r
    <3>2. right[i - l] = order[a + (i - l)]
      BY <1>7, <1>11, <3>1
    <3>3. l = a
      <4>1. l = IF a < n THEN a ELSE n
        BY <1>6, <1>10
      <4>2. r = IF a + b < n THEN b ELSE IF n < a THEN 0 ELSE n - a
        BY <1>7, <1>11
      <4> QED
        BY ONLY <3>1, <4>1, <4>2, a \in Nat, b \in Nat, n \in Nat, i \in 1..l + r
    <3>4. a + (i - l) = i
      BY <3>3
    <3> QED
      BY <2>1, <2>2, <2>4, <3>2, <3>4
  <2> QED
    BY <2>3, <2>4
<1>14. left \o right = both
  BY <1>8, <1>9, <1>10, <1>11, <1>12, <1>13, SeqEqual
<1> QED
  BY <1>1, <1>2, <1>3, <1>4, <1>14

LEMMA CutAll ==
  ASSUME NEW S, NEW order \in Seq(S), NEW n \in Nat, Len(order) <= n
  PROVE  Cut(order, 0, n) = order
<1>1. /\ Cut(order, 0, n) \in Seq(S)
      /\ Len(Cut(order, 0, n)) = IF n < Len(order) THEN n ELSE Len(order)
      /\ \A i \in 1..Len(Cut(order, 0, n)) : Cut(order, 0, n)[i] = order[i]
  BY CutFront
<1>2. Len(Cut(order, 0, n)) = Len(order)
  BY <1>1
<1> QED
  BY <1>1, <1>2, SeqEqual

LEMMA CutNothing ==
  ASSUME NEW from \in Nat, NEW n \in Nat
  PROVE  Cut(<<>>, from, n) = <<>>
<1>1. PICK none \in Seq({}) : none = <<>>
  BY EmptySeq
<1>2. Len(none) = 0
  BY <1>1
<1>3. /\ Cut(none, from, n) \in Seq({})
      /\ Len(Cut(none, from, n)) = IF from + n < Len(none) THEN n
                                   ELSE IF Len(none) < from THEN 0 ELSE Len(none) - from
  BY CutIs
<1>4. Cut(none, from, n) \in Seq({}) /\ Len(Cut(none, from, n)) = 0
  BY <1>2, <1>3
<1> QED
  BY <1>1, <1>4

(* The pages there are hold every row.                                      *)
LEMMA PagesHoldAll ==
  ASSUME NEW total \in Nat, NEW size \in Nat \ {0}, NEW pages \in Nat,
         pages >= PageCount(total, size)
  PROVE  total <= pages * size
<1> DEFINE last == (total + size - 1) \div size
<1>1. total + size - 1 \in Nat
  OBVIOUS
<1>2. last \in Nat /\ total + size - 1 < last * size + size
  BY <1>1, Division
<1>3. last <= pages
  BY DEF PageCount
<1> HIDE DEF last
<1>4. last * size \in Nat /\ pages * size \in Nat /\ last * size <= pages * size
  BY <1>2, <1>3, Product
<1> QED
  BY <1>2, <1>4

-----------------------------------------------------------------------------
(* What is counted at once adds up.                                         *)
LEMMA CountsAddUp ==
  ASSUME NEW R, IsFiniteSet(R)
  PROVE  AddsUp(Counted(R)) /\ Counted(R).total = Cardinality(R)
<1> DEFINE walkIns == {v \in R : log[v].origin = "walk_in"}
           appointments == {v \in R : log[v].origin # "walk_in"}
           attended == {v \in R : log[v].status \in {"checked_in", "checked_out"}}
<1>1. /\ Counted(R).total = Cardinality(R) /\ Counted(R).walkIns = Cardinality(walkIns)
      /\ Counted(R).appointments = Cardinality(appointments)
      /\ Counted(R).attended = Cardinality(attended)
  BY DEF Counted
<1>2. /\ walkIns \in SUBSET R /\ appointments \in SUBSET R /\ attended \in SUBSET R
      /\ walkIns \cup appointments = R /\ walkIns \cap appointments = {}
  OBVIOUS
<1> HIDE DEF walkIns, appointments, attended
<1>3. IsFiniteSet(walkIns) /\ IsFiniteSet(appointments) /\ Cardinality(attended) <= Cardinality(R)
  BY <1>2, FS_Subset
<1>4. Cardinality(R) = Cardinality(walkIns) + Cardinality(appointments) - 0
  BY <1>2, <1>3, FS_Union, FS_EmptySet
<1>5. Cardinality(walkIns) \in Nat /\ Cardinality(appointments) \in Nat
  BY <1>3, FS_CardinalityType
<1> QED
  BY <1>1, <1>3, <1>4, <1>5 DEF AddsUp

LEMMA CountIsTheSumOfDays ==
  ASSUME NEW R, IsFiniteSet(R)
  PROVE  SumOf(ByDay(R)) = Cardinality(R)
<1> DEFINE day == [v \in R |-> OccurredAt(v)]
<1>1. {day[v] : v \in R} = {OccurredAt(v) : v \in R}
  OBVIOUS
<1>2. \A t : {v \in R : day[v] = t} = {v \in R : OccurredAt(v) = t}
  OBVIOUS
<1>3. ByDay(R) = [t \in {day[v] : v \in R} |-> Cardinality({v \in R : day[v] = t})]
  BY <1>1, <1>2 DEF ByDay
<1>4. DOMAIN day = R
  OBVIOUS
<1> HIDE DEF day
<1> QED
  BY <1>3, <1>4, DaysAddUp

(* What the reader sees is finitely many visits that have a time.           *)
LEMMA SeenIsFinite ==
  ASSUME StoreOK, NEW f
  PROVE  /\ Seen(f) \in SUBSET Logged /\ IsFiniteSet(Seen(f)) /\ Cardinality(Seen(f)) \in Nat
         /\ Figured(f) \in SUBSET Logged /\ IsFiniteSet(Figured(f))
         /\ \A v \in Logged : OccurredAt(v) \in Int
<1>1. Seen(f) \in SUBSET Logged /\ Figured(f) \in SUBSET Logged
  BY DEF Seen, Figured, LogConditions, InsightsWhere
<1>2. Logged \in SUBSET Visits
  BY DEF Logged
<1>3. IsFiniteSet(Logged)
  BY <1>2, ReportsAssumption, FS_Subset
<1>4. ASSUME NEW v \in Logged PROVE OccurredAt(v) \in Int
  <2>1. log[v] \in LogRow
    BY DEF Logged, StoreOK
  <2> QED
    BY <2>1 DEF LogRow, OccurredAt
<1> QED
  BY <1>1, <1>3, <1>4, FS_Subset, FS_CardinalityType

LEMMA OrdersAreOne ==
  ASSUME StoreOK, TimesTellApart, NEW f, NEW first \in Orders(f), NEW second \in Orders(f)
  PROVE  first = second
<1>1. \A v, w \in Seen(f) : v # w => OccurredAt(v) # OccurredAt(w)
  BY SeenIsFinite DEF TimesTellApart
<1> QED
  BY <1>1, SeenIsFinite, OneOrder DEF Orders

(* A reader in charge of no facility sees nothing, in one order.            *)
LEMMA NothingSeen ==
  ASSUME NEW f, Scope(f) = {}
  PROVE  /\ Seen(f) = {} /\ Figured(f) = {} /\ Cardinality(Seen(f)) = 0
         /\ \E order \in Orders(f) :
              \A from \in Nat, n \in Nat : Cut(order, from, n) = <<>>
<1>1. Scope(f) # None
  BY ReportsAssumption
<1>2. Seen(f) = {} /\ Figured(f) = {}
  BY <1>1 DEF Seen, Figured, LogConditions, InsightsWhere, InFacilities
<1>3. Cardinality({}) = 0
  BY FS_EmptySet
<1>4. <<>> \in SetToSeqs({})
  <2>1. 1..0 = {} /\ <<>> \in [{} -> {}]
    OBVIOUS
  <2> QED
    BY <1>3, <2>1 DEF SetToSeqs
<1>5. <<>> \in Orders(f)
  <2>1. DOMAIN <<>> = {}
    OBVIOUS
  <2> QED
    BY <1>2, <1>4, <2>1 DEF Orders, LogRowsQuery
<1> QED
  BY <1>2, <1>3, <1>5, CutNothing

(* Without a change to the tables, or to the reader, he sees what he saw.   *)
Undisturbed == UNCHANGED <<log, stations>> /\ Caller' = Caller

LEMMA SeesTheSame ==
  ASSUME Undisturbed, NEW f
  PROVE  /\ Scope(f)' = Scope(f) /\ Seen(f)' = Seen(f) /\ Figured(f)' = Figured(f)
         /\ Orders(f)' = Orders(f) /\ TimesTellApart' = TimesTellApart
         /\ \A R : Counted(R)' = Counted(R) /\ ByDay(R)' = ByDay(R)
<1> USE DEF Undisturbed
<1>1. Logged' = Logged /\ \A v : OccurredAt(v)' = OccurredAt(v)
  BY DEF Logged, OccurredAt
<1>2. Scope(f)' = Scope(f)
  BY DEF Scope, ReportScope, EffectiveFacilities
<1>3. Seen(f)' = Seen(f) /\ Figured(f)' = Figured(f)
  BY <1>1, <1>2 DEF Seen, Figured, LogConditions, InsightsWhere, InFacilities
<1>4. Orders(f)' = Orders(f)
  BY <1>1, <1>3 DEF Orders, LogRowsQuery
<1>5. TimesTellApart' = TimesTellApart
  BY <1>1 DEF TimesTellApart
<1>6. \A R : Counted(R)' = Counted(R) /\ ByDay(R)' = ByDay(R)
  BY <1>1 DEF Counted, ByDay
<1> QED
  BY <1>2, <1>3, <1>4, <1>5, <1>6

LEMMA CountsTheSame ==
  ASSUME Undisturbed, NEW f
  PROVE  Counted(Figured(f))' = Counted(Figured(f)) /\ ByDay(Figured(f))' = ByDay(Figured(f))
<1>1. Figured(f)' = Figured(f)
  BY SeesTheSame
<1>2. UNCHANGED log
  BY DEF Undisturbed
<1> QED
  BY <1>1, <1>2 DEF Counted, ByDay, OccurredAt

-----------------------------------------------------------------------------
(* What stays as it was agrees as it did.                                   *)
LEMMA UndisturbedAgree ==
  ASSUME Undisturbed, NEW p
  PROVE  /\ UNCHANGED reading /\ ReadingAgrees(p) => ReadingAgrees(p)'
         /\ UNCHANGED answer /\ AnswerAgrees(p) => AnswerAgrees(p)'
         /\ UNCHANGED exported /\ ExportAgrees(p) => ExportAgrees(p)'
         /\ UNCHANGED insights /\ InsightsAgree(p) => InsightsAgree(p)'
         /\ UNCHANGED walk /\ WalkAgrees(p) => WalkAgrees(p)'
<1>1. Caller' = Caller /\ \A f : Scope(f)' = Scope(f) /\ Orders(f)' = Orders(f)
  BY SeesTheSame DEF Undisturbed
<1>2. \A f : Seen(f)' = Seen(f) /\ TimesTellApart' = TimesTellApart
  BY SeesTheSame
<1>3. \A f : Counted(Figured(f))' = Counted(Figured(f)) /\ ByDay(Figured(f))' = ByDay(Figured(f))
  BY CountsTheSame
<1>4. UNCHANGED reading /\ ReadingAgrees(p) => ReadingAgrees(p)'
  BY <1>1, <1>3 DEF ReadingAgrees
<1>5. UNCHANGED answer /\ AnswerAgrees(p) => AnswerAgrees(p)'
  BY <1>2 DEF AnswerAgrees
<1>6. UNCHANGED exported /\ ExportAgrees(p) => ExportAgrees(p)'
  BY <1>1 DEF ExportAgrees
<1>7. UNCHANGED insights /\ InsightsAgree(p) => InsightsAgree(p)'
  BY <1>3 DEF InsightsAgree
<1>8. UNCHANGED walk /\ WalkAgrees(p) => WalkAgrees(p)'
  BY <1>1, <1>2 DEF WalkAgrees
<1> QED
  BY <1>4, <1>5, <1>6, <1>7, <1>8

(* Download and totals are of a filter, whatever the page and its size.     *)
LEMMA FilterIsEnough ==
  ASSUME NEW p, NEW q, p.filter = q.filter
  PROVE  /\ ExportAgrees(p) => ExportAgrees(q)
         /\ InsightsAgree(p) => InsightsAgree(q)
         /\ p.size = q.size /\ WalkAgrees(p) => WalkAgrees(q)
BY DEF ExportAgrees, InsightsAgree, WalkAgrees

LEMMA AgreeStart == Init => AgreeIInv
BY DEF Init, ReportsInit, AgreeIInv, ReadingAgrees, AnswerAgrees, ExportAgrees, InsightsAgree,
       WalkAgrees

(* After a change nothing is held to be so still.                           *)
LEMMA OutdatedAgree ==
  ASSUME ReportIInv, AgreeIInv, Outdated, UNCHANGED report,
         reading' # None =>
           /\ reading # None /\ ~reading'.still /\ reading'.input = reading.input
           /\ reading'.at = reading.at /\ reading'.got = reading.got
  PROVE  AgreeIInv'
<1>1. PICK p : p = report
  OBVIOUS
<1>2. ReadingAgrees(p) /\ AnswerAgrees(p) /\ ExportAgrees(p) /\ InsightsAgree(p)
  BY <1>1 DEF AgreeIInv
<1>3. ReadingAgrees(p)'
  BY <1>2 DEF ReadingAgrees
<1>4. AnswerAgrees(p)'
  <2> SUFFICES ASSUME answer' # None PROVE answer'.input = p /\ ~answer'.still
    BY DEF AnswerAgrees
  <2>1. answer # None /\ IsAnswer(answer) /\ answer' = [answer EXCEPT !.still = FALSE]
    BY DEF Outdated, Since, ReportIInv, AnswersInScope
  <2> QED
    BY <1>2, <2>1 DEF IsAnswer, AnswerAgrees
<1>5. ExportAgrees(p)'
  <2> SUFFICES ASSUME exported' # None
               PROVE  exported'.input.filter = p.filter /\ ~exported'.still
    BY DEF ExportAgrees
  <2>1. exported # None /\ IsExport(exported) /\ exported' = [exported EXCEPT !.still = FALSE]
    BY DEF Outdated, Since, ReportIInv, AnswersInScope
  <2> QED
    BY <1>2, <2>1 DEF IsExport, ExportAgrees
<1>6. InsightsAgree(p)'
  <2> SUFFICES ASSUME insights' # None
               PROVE  /\ insights' = [input |-> insights'.input, still |-> insights'.still,
                                      totals |-> insights'.totals, byDay |-> insights'.byDay]
                      /\ insights'.input.filter = p.filter /\ AddsUp(insights'.totals)
                      /\ ~insights'.still
    BY DEF InsightsAgree
  <2>1. insights # None /\ insights' = [insights EXCEPT !.still = FALSE]
    BY DEF Outdated, Since
  <2> QED
    BY <1>2, <2>1 DEF InsightsAgree
<1>7. WalkAgrees(p)'
  BY DEF Outdated, WalkAgrees
<1> QED
  BY <1>1, <1>3, <1>4, <1>5, <1>6, <1>7 DEF AgreeIInv

LEMMA StirredAgree ==
  ASSUME ReportIInv, AgreeIInv, Stirred
  PROVE  AgreeIInv'
<1>1. UNCHANGED report /\ Outdated
  BY DEF Stirred
<1>2. ASSUME reading' # None
      PROVE  /\ reading # None /\ ~reading'.still /\ reading'.input = reading.input
             /\ reading'.at = reading.at /\ reading'.got = reading.got
  <2>1. reading # None /\ IsReading(reading)
    BY <1>2 DEF Stirred, ReportIInv, ReadingInScope
  <2>2. reading' = [reading EXCEPT !.still = FALSE,
                                   !.may = reading.may \cup stations'[reading.caller.user]]
    BY <2>1 DEF Stirred
  <2> QED
    BY <2>1, <2>2 DEF IsReading
<1> QED
  BY <1>1, <1>2, OutdatedAgree

LEMMA ReaderAgrees ==
  ASSUME ReportIInv, AgreeIInv, ReaderChanges
  PROVE  AgreeIInv'
<1>1. UNCHANGED report /\ Outdated /\ reading' = Since(reading)
  BY DEF ReaderChanges
<1>2. ASSUME reading' # None
      PROVE  /\ reading # None /\ ~reading'.still /\ reading'.input = reading.input
             /\ reading'.at = reading.at /\ reading'.got = reading.got
  <2>1. reading # None /\ IsReading(reading) /\ reading' = [reading EXCEPT !.still = FALSE]
    BY <1>1, <1>2 DEF Since, ReportIInv, ReadingInScope
  <2> QED
    BY <2>1 DEF IsReading
<1> QED
  BY <1>1, <1>2, OutdatedAgree

LEMMA CallerOfAccess ==
  ASSUME UNCHANGED access
  PROVE  Caller' = Caller
BY DEF access, Caller, SessionOf, Cached

(* The page chooses, turns or asks.                                         *)
LEMMA ChoiceAgrees ==
  ASSUME ReportIInv, AgreeIInv,
         \/ LoadChoices \/ \E f \in scene.filters : SetFilter(f)
         \/ \E n \in PageSizes : SetPageSize(n)
         \/ \E q \in 1..Cardinality(Visits) : SetPage(q)
         \/ \E kind \in {"log", "export", "insights"} : Ask(kind)
  PROVE  AgreeIInv'
<1>1. Undisturbed
  <2>1. UNCHANGED <<access, store>>
    BY DEF LoadChoices, SetFilter, SetPageSize, SetPage, Ask
  <2> QED
    BY <2>1, CallerOfAccess DEF Undisturbed, store
<1>2. PICK p : p = report
  OBVIOUS
<1>3. /\ ReadingAgrees(p) /\ AnswerAgrees(p) /\ ExportAgrees(p) /\ InsightsAgree(p)
      /\ WalkAgrees(p)
  BY <1>2 DEF AgreeIInv
<1>4. PICK q : q = report'
  OBVIOUS
<1>5. SUFFICES /\ ReadingAgrees(q)' /\ AnswerAgrees(q)' /\ ExportAgrees(q)' /\ InsightsAgree(q)'
               /\ WalkAgrees(q)'
  BY <1>4 DEF AgreeIInv
<1>6. CASE LoadChoices
  <2>1. q = p /\ UNCHANGED <<reading, results>>
    BY <1>2, <1>4, <1>6 DEF LoadChoices
  <2> QED
    BY <1>1, <1>3, <2>1, UndisturbedAgree DEF results
<1>7. ASSUME NEW f, SetFilter(f) PROVE <1>5!1
  BY <1>7 DEF SetFilter, ReadingAgrees, AnswerAgrees, ExportAgrees, InsightsAgree, WalkAgrees
<1>8. ASSUME NEW n \in PageSizes, SetPageSize(n) PROVE <1>5!1
  <2>1. /\ reading' = None /\ answer' = None /\ walk' = None /\ UNCHANGED <<exported, insights>>
        /\ report' = [report EXCEPT !.size = n]
    BY <1>8 DEF SetPageSize
  <2>2. q.filter = p.filter
    BY <1>2, <1>4, <2>1 DEF ReportIInv, PageOK
  <2>3. ExportAgrees(q) /\ InsightsAgree(q)
    BY <1>3, <2>2, FilterIsEnough
  <2> QED
    BY <1>1, <2>1, <2>3, UndisturbedAgree DEF ReadingAgrees, AnswerAgrees, WalkAgrees
<1>9. ASSUME NEW n, SetPage(n) PROVE <1>5!1
  <2>1. /\ reading' = None /\ answer' = None /\ UNCHANGED <<exported, insights, walk>>
        /\ report' = [report EXCEPT !.page = n]
    BY <1>9 DEF SetPage
  <2>2. q.filter = p.filter /\ q.size = p.size
    BY <1>2, <1>4, <2>1 DEF ReportIInv, PageOK
  <2>3. ExportAgrees(q) /\ InsightsAgree(q) /\ WalkAgrees(q)
    BY <1>3, <2>2, FilterIsEnough
  <2> QED
    BY <1>1, <2>1, <2>3, UndisturbedAgree DEF ReadingAgrees, AnswerAgrees
<1>10. ASSUME NEW kind, Ask(kind) PROVE <1>5!1
  <2>1. /\ q = p /\ UNCHANGED <<answer, exported, insights, walk>>
        /\ reading' = [kind |-> kind, input |-> report, caller |-> Caller, at |-> "scope",
                       facilities |-> None, got |-> <<>>, still |-> TRUE,
                       may |-> ReportFacilities(Caller)]
    BY <1>2, <1>4, <1>10 DEF Ask, results
  <2>2. reading'.input = p /\ reading'.at = "scope" /\ reading'.caller = Caller
    BY <1>2, <2>1
  <2>3. ReadingAgrees(p)'
    BY <1>1, <2>2 DEF ReadingAgrees, Undisturbed
  <2> QED
    BY <1>1, <1>3, <2>1, <2>3, UndisturbedAgree
<1> QED
  BY <1>6, <1>7, <1>8, <1>9, <1>10

-----------------------------------------------------------------------------
(* The serving.  A request that nothing disturbed goes on with more in      *)
(* hand.                                                                    *)
LEMMA OnwardAgrees ==
  ASSUME ReportIInv, AgreeIInv, Undisturbed, UNCHANGED <<report, results>>,
         reading # None, reading'.input = reading.input,
         reading'.still = reading.still, reading'.caller = reading.caller,
         NEW p, p = report,
         reading'.at = "days" => AddsUp(reading'.got[1]),
         reading.still =>
           /\ reading'.at # "scope" => reading'.facilities = Scope(p.filter)
           /\ reading'.at = "count" =>
                \E order \in Orders(p.filter) : reading'.got = Cut(order, Offset(p), p.size)
           /\ reading'.at = "days" => reading'.got = <<Counted(Figured(p.filter))>>
  PROVE  AgreeIInv'
<1>1. /\ ReadingAgrees(p) /\ AnswerAgrees(p) /\ ExportAgrees(p) /\ InsightsAgree(p)
      /\ WalkAgrees(p)
  BY DEF AgreeIInv
<1>2. /\ Caller' = Caller /\ Scope(p.filter)' = Scope(p.filter) /\ Orders(p.filter)' = Orders(p.filter)
      /\ Counted(Figured(p.filter))' = Counted(Figured(p.filter))
  BY SeesTheSame, CountsTheSame DEF Undisturbed
<1>3. ReadingAgrees(p)'
  BY <1>1, <1>2 DEF ReadingAgrees
<1>4. AnswerAgrees(p)' /\ ExportAgrees(p)' /\ InsightsAgree(p)' /\ WalkAgrees(p)'
  BY <1>1, UndisturbedAgree DEF results
<1> QED
  BY <1>3, <1>4 DEF AgreeIInv

(* What is answered of the log is what it says, and joins the walk.         *)
LEMMA AnswerLogAgrees ==
  ASSUME ReportIInv, AgreeIInv, Undisturbed, Answered, reading # None, NEW p, p = report,
         NEW shows, NEW total, AnswerLog(shows, total),
         reading.still => /\ total = Cardinality(Seen(p.filter))
                          /\ \E order \in Orders(p.filter) : shows = Cut(order, Offset(p), p.size)
  PROVE  AgreeIInv'
<1>1. /\ ReadingAgrees(p) /\ ExportAgrees(p) /\ InsightsAgree(p) /\ WalkAgrees(p)
      /\ reading.input = p
  BY DEF AgreeIInv, ReadingAgrees
<1>2. reading' = None /\ UNCHANGED report
  BY DEF Answered
<1>3. /\ UNCHANGED <<exported, insights>>
      /\ answer' = [input |-> reading.input, still |-> reading.still, may |-> reading.may,
                    rows |-> shows, total |-> total]
      /\ walk' = IF reading.still THEN Walked(reading.input, shows) ELSE None
  BY DEF AnswerLog
<1>4. ReadingAgrees(p)' /\ ExportAgrees(p)' /\ InsightsAgree(p)'
  BY <1>1, <1>2, <1>3, UndisturbedAgree DEF ReadingAgrees
<1>5. AnswerAgrees(p)'
  <2>1. Seen(p.filter)' = Seen(p.filter)
    BY SeesTheSame
  <2>2. answer'.input = p /\ (answer'.still => reading.still /\ answer'.total = total)
    BY <1>1, <1>3
  <2> QED
    BY <2>1, <2>2 DEF AnswerAgrees
<1>6. p.page \in Nat \ {0} /\ p.size \in Nat \ {0} /\ StoreOK
  BY DEF ReportIInv, PageOK, Sound
<1>7. WalkAgrees(p)'
  <2>1. TimesTellApart' = TimesTellApart /\ Orders(p.filter)' = Orders(p.filter)
    BY SeesTheSame
  <2>2. SUFFICES ASSUME walk' # None
                 PROVE  /\ walk'.pages \in Nat \ {0}
                        /\ TimesTellApart =>
                             \E order \in Orders(p.filter) :
                               walk'.rows = Cut(order, 0, walk'.pages * p.size)
    BY <2>1 DEF WalkAgrees
  <2>3. reading.still /\ walk' = Walked(p, shows)
    BY <1>1, <1>3, <2>2
  <2>4. PICK order \in Orders(p.filter) : shows = Cut(order, Offset(p), p.size)
    BY <2>3
  <2>5. CASE p.page = 1
    <3>1. walk' = [pages |-> 1, rows |-> shows]
      BY <2>3, <2>5 DEF Walked
    <3>2. Offset(p) = 0 /\ 1 * p.size = p.size
      BY <1>6, <2>5 DEF Offset
    <3> QED
      BY <2>4, <3>1, <3>2
  <2>6. CASE p.page # 1 /\ walk # None /\ p.page = walk.pages + 1
    <3>1. walk' = [pages |-> p.page, rows |-> walk.rows \o shows]
      BY <2>3, <2>6 DEF Walked
    <3>2. ASSUME TimesTellApart
          PROVE  walk.rows \o shows = Cut(order, 0, p.page * p.size)
      <4>1. PICK before \in Orders(p.filter) : walk.rows = Cut(before, 0, walk.pages * p.size)
        BY <1>1, <2>6, <3>2 DEF WalkAgrees
      <4>2. before = order
        BY <1>6, <3>2, OrdersAreOne
      <4>3. PICK S : order \in Seq(S)
        BY <1>6, SeenIsFinite, OrderHasEach DEF Orders
      <4>4. PICK a \in Nat : a = walk.pages * p.size
        BY <1>1, <1>6, <2>6, Product DEF WalkAgrees
      <4>5. Offset(p) = a /\ p.page * p.size = a + p.size
        <5>1. walk.pages \in Nat /\ p.page - 1 = walk.pages
          BY <1>1, <2>6 DEF WalkAgrees
        <5>2. (walk.pages + 1) * p.size = walk.pages * p.size + p.size
          BY <1>6, <5>1, Product
        <5> QED
          BY <2>6, <4>4, <5>1, <5>2 DEF Offset
      <4>6. Cut(order, 0, a) \o Cut(order, a, p.size) = Cut(order, 0, a + p.size)
        BY <1>6, <4>3, CutsJoin
      <4> QED
        BY <2>4, <4>1, <4>2, <4>4, <4>5, <4>6
    <3> QED
      BY <1>6, <3>1, <3>2
  <2>7. CASE p.page # 1 /\ ~(walk # None /\ p.page = walk.pages + 1)
    <3>1. walk' = walk
      BY <2>3, <2>7 DEF Walked
    <3> QED
      BY <1>1, <2>2, <3>1 DEF WalkAgrees
  <2> QED
    BY <2>5, <2>6, <2>7
<1> QED
  BY <1>2, <1>4, <1>5, <1>7 DEF AgreeIInv

LEMMA AnswerExportAgrees ==
  ASSUME ReportIInv, AgreeIInv, Undisturbed, Answered, reading # None, NEW p, p = report,
         NEW shows, AnswerExport(shows),
         reading.still => \E order \in Orders(p.filter) : shows = Cut(order, 0, ExportCap)
  PROVE  AgreeIInv'
<1>1. /\ ReadingAgrees(p) /\ AnswerAgrees(p) /\ InsightsAgree(p) /\ WalkAgrees(p)
      /\ reading.input = p
  BY DEF AgreeIInv, ReadingAgrees
<1>2. reading' = None /\ UNCHANGED report
  BY DEF Answered
<1>3. /\ UNCHANGED <<answer, insights, walk>>
      /\ exported' = [input |-> reading.input, still |-> reading.still, may |-> reading.may,
                      rows |-> shows]
  BY DEF AnswerExport
<1>4. ReadingAgrees(p)' /\ AnswerAgrees(p)' /\ InsightsAgree(p)' /\ WalkAgrees(p)'
  BY <1>1, <1>2, <1>3, UndisturbedAgree DEF ReadingAgrees
<1>5. ExportAgrees(p)'
  <2>1. Orders(p.filter)' = Orders(p.filter)
    BY SeesTheSame
  <2>2. /\ exported'.input = p
        /\ exported'.still => reading.still /\ exported'.rows = shows
    BY <1>1, <1>3
  <2> QED
    BY <2>1, <2>2 DEF ExportAgrees
<1> QED
  BY <1>2, <1>4, <1>5 DEF AgreeIInv

LEMMA AnswerInsightsAgrees ==
  ASSUME ReportIInv, AgreeIInv, Undisturbed, Answered, reading # None, NEW p, p = report,
         NEW totals, NEW byDay, AnswerInsights(totals, byDay), AddsUp(totals),
         reading.still => /\ totals = Counted(Figured(p.filter))
                          /\ byDay = ByDay(Figured(p.filter))
  PROVE  AgreeIInv'
<1>1. /\ ReadingAgrees(p) /\ AnswerAgrees(p) /\ ExportAgrees(p) /\ WalkAgrees(p)
      /\ reading.input = p
  BY DEF AgreeIInv, ReadingAgrees
<1>2. reading' = None /\ UNCHANGED report
  BY DEF Answered
<1>3. /\ UNCHANGED <<answer, exported, walk>>
      /\ insights' = [input |-> reading.input, still |-> reading.still,
                      totals |-> totals, byDay |-> byDay]
  BY DEF AnswerInsights
<1>4. ReadingAgrees(p)' /\ AnswerAgrees(p)' /\ ExportAgrees(p)' /\ WalkAgrees(p)'
  BY <1>1, <1>2, <1>3, UndisturbedAgree DEF ReadingAgrees
<1>5. InsightsAgree(p)'
  <2>1. Counted(Figured(p.filter))' = Counted(Figured(p.filter))
        /\ ByDay(Figured(p.filter))' = ByDay(Figured(p.filter))
    BY CountsTheSame
  <2>2. /\ insights'.input = p /\ insights'.totals = totals /\ insights'.byDay = byDay
        /\ insights'.still = reading.still
    BY <1>1, <1>3
  <2>3. insights' = [input |-> insights'.input, still |-> insights'.still,
                     totals |-> insights'.totals, byDay |-> insights'.byDay]
    BY <1>3
  <2> QED
    BY <2>1, <2>2, <2>3 DEF InsightsAgree
<1> QED
  BY <1>2, <1>4, <1>5 DEF AgreeIInv

LEMMA ServingDisturbsNothing ==
  ASSUME ReadScope \/ ReadRows \/ ReadCount \/ InsightsLogExport \/ ReadOriginStatus \/ ReadDays
  PROVE  Undisturbed /\ reading # None
<1>1. UNCHANGED <<access, store>> /\ reading # None
  BY DEF ReadScope, ReadRows, ReadCount, InsightsLogExport, ReadOriginStatus, ReadDays,
         ReadingRows, Onward, Answered
<1> QED
  BY <1>1, CallerOfAccess DEF Undisturbed, store

(* Each statement of the serving.                                           *)
LEMMA ReadScopeAgrees ==
  ASSUME ReportIInv, AgreeIInv, ReadScope
  PROVE  AgreeIInv'
<1>1. Undisturbed /\ reading # None /\ IsReading(reading) /\ reading.at = "scope" /\ StoreOK
  BY ServingDisturbsNothing DEF ReadScope, ReportIInv, ReadingInScope
<1>2. PICK p : p = report
  OBVIOUS
<1>3. reading.input = p /\ (reading.still => reading.caller = Caller)
  BY <1>1, <1>2 DEF AgreeIInv, ReadingAgrees
<1>4. PICK facilities :
        /\ facilities = EffectiveFacilities(ReportScope(reading.caller), reading.input.filter.facility)
        /\ \/ Onward([reading EXCEPT !.at = "rows", !.facilities = facilities])
           \/ /\ facilities = {} /\ Answered
              /\ CASE reading.kind = "log" -> AnswerLog(<<>>, 0)
                   [] reading.kind = "export" -> AnswerExport(<<>>)
                   [] OTHER -> AnswerInsights(EmptyInsights.totals, EmptyInsights.byDay)
  BY DEF ReadScope
<1>5. reading.still => facilities = Scope(p.filter)
  BY <1>3, <1>4 DEF Scope
<1>6. CASE Onward([reading EXCEPT !.at = "rows", !.facilities = facilities])
  <2>1. /\ reading' = [reading EXCEPT !.at = "rows", !.facilities = facilities]
        /\ UNCHANGED <<report, results>>
    BY <1>6 DEF Onward
  <2>2. reading' = [kind |-> reading.kind, input |-> reading.input, caller |-> reading.caller,
                    at |-> "rows", facilities |-> facilities, got |-> reading.got,
                    still |-> reading.still, may |-> reading.may]
    BY <1>1, <2>1 DEF IsReading
  <2>3. /\ reading'.input = reading.input /\ reading'.still = reading.still
        /\ reading'.caller = reading.caller /\ reading'.at = "rows"
        /\ reading'.facilities = facilities
    BY <2>2
  <2> QED
    BY <1>1, <1>2, <1>5, <2>1, <2>3, OnwardAgrees
<1>7. CASE /\ facilities = {} /\ Answered
           /\ CASE reading.kind = "log" -> AnswerLog(<<>>, 0)
                [] reading.kind = "export" -> AnswerExport(<<>>)
                [] OTHER -> AnswerInsights(EmptyInsights.totals, EmptyInsights.byDay)
  <2>1. p.size \in Nat /\ Offset(p) \in Nat /\ 0 \in Nat /\ ExportCap \in Nat
    <3>1. p.page - 1 \in Nat /\ p.size \in Nat
      BY <1>2 DEF ReportIInv, PageOK, Sound
    <3> QED
      BY <3>1, Product, ReportsAssumption DEF Offset
  <2>2. ASSUME reading.still
        PROVE  /\ Seen(p.filter) = {} /\ Figured(p.filter) = {} /\ Cardinality(Seen(p.filter)) = 0
               /\ \E order \in Orders(p.filter) :
                    \A from \in Nat, n \in Nat : Cut(order, from, n) = <<>>
    BY <1>5, <1>7, <2>2, NothingSeen
  <2>3. CASE AnswerLog(<<>>, 0)
    BY <1>1, <1>2, <1>7, <2>1, <2>2, <2>3, AnswerLogAgrees
  <2>4. CASE AnswerExport(<<>>)
    BY <1>1, <1>2, <1>7, <2>1, <2>2, <2>4, AnswerExportAgrees
  <2>5. CASE AnswerInsights(EmptyInsights.totals, EmptyInsights.byDay)
    <3>1. EmptyInsights.totals = Counted({}) /\ EmptyInsights.byDay = ByDay({})
      BY DEF EmptyInsights
    <3>2. AddsUp(Counted({}))
      BY CountsAddUp, FS_EmptySet
    <3> QED
      BY <1>1, <1>2, <1>7, <2>2, <2>5, <3>1, <3>2, AnswerInsightsAgrees
  <2> QED
    BY <1>7, <2>3, <2>4, <2>5
<1> QED
  BY <1>4, <1>6, <1>7

LEMMA ReadRowsAgrees ==
  ASSUME ReportIInv, AgreeIInv, ReadRows
  PROVE  AgreeIInv'
<1>1. /\ Undisturbed /\ reading # None /\ IsReading(reading) /\ reading.at = "rows"
  BY ServingDisturbsNothing DEF ReadRows, ReadingRows, ReportIInv, ReadingInScope
<1>2. PICK p : p = report
  OBVIOUS
<1>3. /\ reading.input = p
      /\ reading.still => reading.caller = Caller /\ reading.facilities = Scope(p.filter)
  BY <1>1, <1>2 DEF AgreeIInv, ReadingAgrees
<1>4. PICK order \in LogRowsQuery(Matching) :
        Onward([reading EXCEPT !.at = "count",
                               !.got = Cut(order, Skipped(reading.input), reading.input.size)])
  BY DEF ReadRows
<1>5. PICK got : got = Cut(order, Offset(p), p.size)
  OBVIOUS
<1>6. reading' = [reading EXCEPT !.at = "count", !.got = got] /\ UNCHANGED <<report, results>>
  BY <1>3, <1>4, <1>5 DEF Onward, Skipped
<1>7. reading' = [kind |-> reading.kind, input |-> reading.input, caller |-> reading.caller,
                  at |-> "count", facilities |-> reading.facilities, got |-> got,
                  still |-> reading.still, may |-> reading.may]
  BY <1>1, <1>6 DEF IsReading
<1>8. reading.still => Matching = Seen(p.filter)
  BY <1>3 DEF Matching, Seen
<1>9. reading.still => order \in Orders(p.filter)
  BY <1>4, <1>8 DEF Orders
<1>10. /\ reading'.input = reading.input /\ reading'.still = reading.still
       /\ reading'.caller = reading.caller /\ reading'.at = "count"
       /\ reading'.facilities = reading.facilities /\ reading'.got = got
  BY <1>7
<1> QED
  BY <1>1, <1>2, <1>3, <1>5, <1>6, <1>9, <1>10, OnwardAgrees

LEMMA ReadOriginStatusAgrees ==
  ASSUME ReportIInv, AgreeIInv, ReadOriginStatus
  PROVE  AgreeIInv'
<1>1. /\ Undisturbed /\ reading # None /\ IsReading(reading) /\ reading.at = "rows"
  BY ServingDisturbsNothing DEF ReadOriginStatus, ReadingRows, ReportIInv, ReadingInScope
<1>2. PICK p : p = report
  OBVIOUS
<1>3. /\ reading.input = p
      /\ reading.still => reading.caller = Caller /\ reading.facilities = Scope(p.filter)
  BY <1>1, <1>2 DEF AgreeIInv, ReadingAgrees
<1>4. PICK got : got = <<Counted(InsightsMatching)>>
  OBVIOUS
<1>5. /\ Onward([reading EXCEPT !.at = "days", !.got = got])
      /\ reading' = [reading EXCEPT !.at = "days", !.got = got] /\ UNCHANGED <<report, results>>
  BY <1>4 DEF ReadOriginStatus, Onward
<1>6. reading' = [kind |-> reading.kind, input |-> reading.input, caller |-> reading.caller,
                  at |-> "days", facilities |-> reading.facilities, got |-> got,
                  still |-> reading.still, may |-> reading.may]
  BY <1>1, <1>5 DEF IsReading
<1>7. reading.still => InsightsMatching = Figured(p.filter)
  BY <1>3 DEF InsightsMatching, Figured
<1>8. AddsUp(got[1])
  <2>1. InsightsMatching \in SUBSET Visits
    BY DEF InsightsMatching, InsightsWhere, Logged
  <2>2. IsFiniteSet(InsightsMatching)
    BY <2>1, ReportsAssumption, FS_Subset
  <2> QED
    BY <1>4, <2>2, CountsAddUp
<1>9. /\ reading'.input = reading.input /\ reading'.still = reading.still
      /\ reading'.caller = reading.caller /\ reading'.at = "days"
      /\ reading'.facilities = reading.facilities /\ reading'.got = got
  BY <1>6
<1> QED
  BY <1>1, <1>2, <1>3, <1>4, <1>5, <1>7, <1>8, <1>9, OnwardAgrees

LEMMA AnswersAgree ==
  ASSUME ReportIInv, AgreeIInv, ReadCount \/ InsightsLogExport \/ ReadDays
  PROVE  AgreeIInv'
<1>1. Undisturbed /\ reading # None /\ IsReading(reading) /\ Answered
  BY ServingDisturbsNothing
     DEF ReadCount, InsightsLogExport, ReadDays, ReportIInv, ReadingInScope
<1>2. PICK p : p = report
  OBVIOUS
<1>3. ReadingAgrees(p) /\ reading.input = p
  BY <1>1, <1>2 DEF AgreeIInv, ReadingAgrees
<1>4. reading.still /\ reading.at # "scope" =>
        Matching = Seen(p.filter) /\ InsightsMatching = Figured(p.filter)
  BY <1>1, <1>3 DEF ReadingAgrees, Matching, InsightsMatching, Seen, Figured
<1>5. CASE ReadCount
  <2>1. reading.at = "count" /\ AnswerLog(reading.got, Cardinality(Matching))
    BY <1>5 DEF ReadCount
  <2>2. reading.still =>
          /\ Cardinality(Matching) = Cardinality(Seen(p.filter))
          /\ \E order \in Orders(p.filter) : reading.got = Cut(order, Offset(p), p.size)
    BY <1>1, <1>3, <1>4, <2>1 DEF ReadingAgrees
  <2> QED
    BY <1>1, <1>2, <2>1, <2>2, AnswerLogAgrees
<1>6. CASE InsightsLogExport
  <2>1. reading.at = "rows"
    BY <1>6 DEF InsightsLogExport, ReadingRows
  <2>2. PICK order \in LogRowsQuery(Matching) : AnswerExport(Cut(order, 0, ExportCap))
    BY <1>6 DEF InsightsLogExport
  <2>3. reading.still => order \in Orders(p.filter)
    BY <1>4, <2>1, <2>2 DEF Orders
  <2> QED
    BY <1>1, <1>2, <2>2, <2>3, AnswerExportAgrees
<1>7. CASE ReadDays
  <2>1. reading.at = "days" /\ AnswerInsights(reading.got[1], ByDay(InsightsMatching))
    BY <1>7 DEF ReadDays
  <2>2. AddsUp(reading.got[1])
    BY <1>1, <1>3, <2>1 DEF ReadingAgrees
  <2>3. reading.still => /\ reading.got[1] = Counted(Figured(p.filter))
                         /\ ByDay(InsightsMatching) = ByDay(Figured(p.filter))
    BY <1>1, <1>3, <1>4, <2>1 DEF ReadingAgrees
  <2> QED
    BY <1>1, <1>2, <2>1, <2>2, <2>3, AnswerInsightsAgrees
<1> QED
  BY <1>5, <1>6, <1>7

LEMMA AgreeStep ==
  SessionIInv /\ ReportIInv /\ AgreeIInv /\ [Next]_workspace => AgreeIInv'
<1> SUFFICES ASSUME SessionIInv, ReportIInv, AgreeIInv, [Next]_workspace PROVE AgreeIInv'
  OBVIOUS
<1>1. CASE \/ \E v \in Visits : \/ Arrive(v) \/ \E row \in scene.rows : Register(v, row)
                                \/ \E t \in Times : Reschedule(v, t)
           \/ \E u \in scene.users, facilities \in SUBSET Facilities : Restation(u, facilities)
  BY <1>1, StirredAgree DEF Arrive, Register, Reschedule, Restation
<1>2. CASE \/ LoadChoices \/ \E f \in scene.filters : SetFilter(f)
           \/ \E n \in PageSizes : SetPageSize(n)
           \/ \E q \in 1..Cardinality(Visits) : SetPage(q)
           \/ \E kind \in {"log", "export", "insights"} : Ask(kind)
  BY <1>2, ChoiceAgrees
<1>3. CASE ReadScope
  BY <1>3, ReadScopeAgrees
<1>4. CASE ReadRows
  BY <1>4, ReadRowsAgrees
<1>5. CASE ReadOriginStatus
  BY <1>5, ReadOriginStatusAgrees
<1>6. CASE ReadCount \/ InsightsLogExport \/ ReadDays
  BY <1>6, AnswersAgree
<1>7. CASE ReaderChanges
  BY <1>7, ReaderAgrees
<1>8. CASE UNCHANGED reports /\ Caller' = Caller
  <2>1. Undisturbed /\ UNCHANGED <<report, reading, answer, exported, insights, walk>>
    BY <1>8 DEF reports, Undisturbed
  <2>2. PICK p : p = report
    OBVIOUS
  <2>3. /\ ReadingAgrees(p)' /\ AnswerAgrees(p)' /\ ExportAgrees(p)' /\ InsightsAgree(p)'
        /\ WalkAgrees(p)'
    BY <2>1, <2>2, UndisturbedAgree DEF AgreeIInv
  <2> QED
    BY <2>1, <2>2, <2>3 DEF AgreeIInv
<1>9. ConsoleStep => Caller' = Caller
  BY ConsoleLeavesAccess, CallerOfAccess
<1>10. UNCHANGED workspace => Caller' = Caller /\ UNCHANGED reports
  BY CallerOfAccess DEF workspace
<1> QED
  BY <1>1, <1>2, <1>3, <1>4, <1>5, <1>6, <1>7, <1>8, <1>9, <1>10 DEF Next, ReportsStep

(* Pages, download and totals tell one story, for every number of visits,   *)
(* whatever page sizes and whoever is moved or promoted meanwhile: the      *)
(* pages turned to the last hold each visit once, the download is their     *)
(* beginning, and days, origins and the log count the same visits.          *)
THEOREM WorkspaceReportsAgree == Spec => []ReportsAgree
<1>1. ReportIInv /\ AgreeIInv => WalkIsTheExport
  <2> DEFINE pages == PageCount(answer.total, answer.input.size)
  <2> SUFFICES ASSUME ReportIInv, AgreeIInv, answer # None, answer.still, walk # None,
                      walk.pages >= pages, TimesTellApart
               PROVE  /\ IsInjective(walk.rows) /\ Len(walk.rows) = answer.total
                      /\ exported # None /\ exported.still
                         /\ exported.input.filter = answer.input.filter
                         => exported.rows = Cut(walk.rows, 0, ExportCap)
    BY DEF WalkIsTheExport, TimesTellApart
  <2>1. PICK p : p = report
    OBVIOUS
  <2>2. /\ AnswerAgrees(p) /\ ExportAgrees(p) /\ WalkAgrees(p) /\ StoreOK
        /\ p.size \in Nat \ {0}
    BY <2>1 DEF AgreeIInv, ReportIInv, PageOK, Sound
  <2>3. answer.input = p /\ answer.total = Cardinality(Seen(p.filter)) /\ answer.total \in Nat
    BY <2>2, SeenIsFinite DEF AnswerAgrees
  <2>4. PICK order \in Orders(p.filter) : walk.rows = Cut(order, 0, walk.pages * p.size)
    BY <2>2 DEF WalkAgrees
  <2>5. PICK n : n = answer.total
    OBVIOUS
  <2>6. /\ n \in Nat /\ order \in [1..n -> Seen(p.filter)] /\ order \in Seq(Seen(p.filter))
        /\ Len(order) = n /\ \A i, j \in 1..n : order[i] = order[j] => i = j
    BY <2>2, <2>3, <2>5, SeenIsFinite, OrderHasEach DEF Orders
  <2>7. PICK turned \in Nat : turned = walk.pages * p.size
    <3>1. walk.pages \in Nat
      BY <2>2 DEF WalkAgrees
    <3> QED
      BY <2>2, <3>1, Product
  <2>8. n <= turned
    <3>1. walk.pages \in Nat
      BY <2>2 DEF WalkAgrees
    <3>2. n <= walk.pages * p.size
      BY <2>2, <2>3, <2>5, <2>6, <3>1, PagesHoldAll
    <3> QED
      BY <2>7, <3>2
  <2>9. walk.rows = order
    BY <2>4, <2>6, <2>7, <2>8, CutAll
  <2>10. IsInjective(walk.rows) /\ Len(walk.rows) = answer.total
    BY <2>5, <2>6, <2>9 DEF IsInjective
  <2>11. ASSUME exported # None, exported.still
         PROVE  exported.rows = Cut(walk.rows, 0, ExportCap)
    <3>1. PICK other \in Orders(p.filter) : exported.rows = Cut(other, 0, ExportCap)
      BY <2>2, <2>11 DEF ExportAgrees
    <3>2. other = order
      BY <2>2, OrdersAreOne
    <3> QED
      BY <2>9, <3>1, <3>2
  <2> QED
    BY <2>10, <2>11
<1>2. ReportIInv /\ AgreeIInv => InsightsAgreeWithLog
  <2> SUFFICES ASSUME ReportIInv, AgreeIInv, insights # None
               PROVE  /\ AddsUp(insights.totals)
                      /\ insights.still => insights.totals.total = SumOf(insights.byDay)
                      /\ insights.still /\ answer # None /\ answer.still
                         /\ answer.input.filter.origin = None
                         /\ answer.input.filter.status = None
                         => insights.totals.total = answer.total
    BY DEF InsightsAgreeWithLog, AddsUp, SumOf
  <2>1. PICK p : p = report
    OBVIOUS
  <2>2. AnswerAgrees(p) /\ InsightsAgree(p) /\ StoreOK
    BY <2>1 DEF AgreeIInv, ReportIInv
  <2>3. AddsUp(insights.totals)
    BY <2>2 DEF InsightsAgree
  <2>4. ASSUME insights.still
        PROVE  /\ insights.totals.total = Cardinality(Figured(p.filter))
               /\ insights.byDay = ByDay(Figured(p.filter))
               /\ insights.totals.total = SumOf(insights.byDay)
    <3>1. insights.totals = Counted(Figured(p.filter)) /\ insights.byDay = ByDay(Figured(p.filter))
      BY <2>2, <2>4 DEF InsightsAgree
    <3> QED
      BY <2>2, <3>1, SeenIsFinite, CountsAddUp, CountIsTheSumOfDays
  <2>5. ASSUME insights.still, answer # None, answer.still,
               answer.input.filter.origin = None, answer.input.filter.status = None
        PROVE  insights.totals.total = answer.total
    <3>1. answer.input = p /\ answer.total = Cardinality(Seen(p.filter))
      BY <2>2, <2>5 DEF AnswerAgrees
    <3>2. Seen(p.filter) = Figured(p.filter)
      BY <2>5, <3>1 DEF Seen, Figured, LogConditions, InsightsWhere
    <3> QED
      BY <2>4, <2>5, <3>1, <3>2
  <2> QED
    BY <2>3, <2>4, <2>5
<1> QED
  BY <1>1, <1>2, AgreeStart, AgreeStep, SessionInvariant, ReportInvariant, PTL
     DEF Spec, ReportsAgree
=============================================================================
