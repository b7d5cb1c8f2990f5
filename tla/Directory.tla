----------------------------- MODULE Directory -----------------------------
(***************************************************************************)
(* Staff accounts and the directory of bookable officers that mirrors      *)
(* them, the administrators' forms over both, and the appointment form     *)
(* that picks an officer from the directory.  An account lives in the      *)
(* library's table and its officer in the host table: an administrator's   *)
(* request writes one and then finds and writes the other, and may die, or *)
(* meet another request, in between.                                       *)
(***************************************************************************)
EXTENDS Naturals, FiniteSets

CONSTANTS
  Users, Emails, Admins,
  Booker,          \* who fills the appointment form
  Hosts,           \* ids of rows of the host table
  Depts, Offices,
  Texts,           \* what a setting may say
  None,
  Scenes,          \* [ops, staff, roles, places, admins]: (a bound) what happens
  MaxRequests      \* bound: requests being served

VARIABLES
  scene,           \* one of Scenes; never changes
  user,            \* accounts: [email, role]
  host,            \* officers: [email, user, office, active]
  dept, office,    \* active departments; of an office: [dept, active]
  setting,         \* [general, rules]
  requests,        \* being served
  form,            \* an administrator's open dialog over one account
  sheet,           \* an administrator's open settings page
  booking,         \* the open appointment form
  visits,          \* the visit booked last (a bound)
  torn,            \* history: accounts whose request died, or met another
  away             \* history: accounts marked inactive and not put back

vars == <<scene, user, host, dept, office, setting, requests, form, sheet,
          booking, visits, torn, away>>
accounts == <<user, host, torn, away>>
tree == <<dept, office>>
pages == <<form, sheet>>

RoleNames == {"secretary", "receptionist"}
InitialRole == IF "secretary" \in scene.roles THEN "secretary" ELSE "receptionist"
Does(op) == op \in scene.ops
Staff == {u \in Users : user[u] # None}
Directory == {h \in Hosts : host[h] # None}
RowsOf(u) == {h \in Directory : host[h].user = u}

-----------------------------------------------------------------------------
(* Accounts.  The library's own tables refuse an email that is taken.       *)
Free(email, u) == \A v \in Staff \ {u} : user[v].email # email
Editing == {r \in requests : r.op = "sync"}

(* The request whose first write this is goes on to mirror the account.     *)
Write(u, email, role, place, by) ==
  /\ Cardinality(requests) < MaxRequests /\ Free(email, u)
  /\ \A r \in requests : by # None => r.by # by
  /\ user' = [user EXCEPT ![u] = [email |-> email, role |-> role]]
  /\ requests' = requests \cup
       {[op |-> "sync", u |-> u, email |-> email, office |-> place, by |-> by, found |-> None,
         at |-> "find"]}
  /\ torn' = torn \cup (IF Editing = {} THEN {} ELSE {u} \cup {r.u : r \in Editing})

UserCreate(u, email, role, place) ==
  /\ Does("userCreate") /\ u \notin Staff
  /\ Write(u, email, role, place, None)
  /\ UNCHANGED <<scene, host, tree, setting, pages, booking, visits, away>>

(* The officer of an account: its own row, or else one that has its email.  *)
EmailFirst(r) ==
  LET own == RowsOf(r.u)
      same == {h \in Directory : host[h].email = r.email}
  IN IF same # {} THEN same ELSE own
Match(r) ==
  LET own == RowsOf(r.u)
      same == {h \in Directory : host[h].email = r.email}
  IN IF own # {} THEN own ELSE same

(* Reads of the row to write: None when there is no such row.               *)
Found(r, found) ==
  /\ r.at = "find"
  /\ IF found = {} THEN requests' = (requests \ {r}) \cup {[r EXCEPT !.at = "store"]}
     ELSE \E h \in found :
            requests' = (requests \ {r}) \cup {[r EXCEPT !.at = "store", !.found = h]}
  /\ UNCHANGED <<scene, accounts, tree, setting, pages, booking, visits>>

FindHost(r) == r.op = "sync" /\ Found(r, Match(r))

(* Only the profile is written: who is away stays away.                     *)
EmailForgotten(r, h) ==
  [host[h] EXCEPT !.user = r.u, !.office = r.office]
Mirrored(r, h) ==
  [host[h] EXCEPT !.email = r.email, !.user = r.u, !.office = r.office]

Moved(r) == {q \in requests \ {r} : q.op = "book"}
Rest(r) == ((requests \ {r}) \ Moved(r)) \cup {[q EXCEPT !.moved = TRUE] : q \in Moved(r)}

NewHost(row) == [host EXCEPT ![CHOOSE h \in Hosts \ Directory : TRUE] = row]

(* The row found is written, or a new one: an account that loses its row to *)
(* another is not known to be away any longer.                              *)
StoreHost(r) ==
  /\ r.op = "sync" /\ r.at = "store"
  /\ \/ /\ r.found # None
        /\ host' = [host EXCEPT ![r.found] = Mirrored(r, r.found)]
        /\ away' = IF host[r.found].user \in {r.u, None} THEN away
                   ELSE away \ {host[r.found].user}
     \/ /\ r.found = None /\ Directory # Hosts
        /\ host' = NewHost([email |-> r.email, user |-> r.u,
                             office |-> r.office, active |-> TRUE])
        /\ UNCHANGED away
  /\ requests' = Rest(r)
  /\ form' = IF r.by = None THEN form ELSE [form EXCEPT ![r.by].at = "role"]
  /\ UNCHANGED <<scene, user, tree, setting, sheet, booking, visits, torn>>

(* A request dies before it has found or written its row; its form hears so.*)
Die(r) ==
  /\ requests' = requests \ {r}
  /\ torn' = IF r.op = "sync" THEN torn \cup {r.u} ELSE torn
  /\ form' = IF r.op = "sync" /\ r.by # None THEN [form EXCEPT ![r.by].at = "open"] ELSE form
  /\ UNCHANGED <<scene, user, host, away, tree, setting, sheet, booking, visits>>

(* Marking somebody inactive or active, and the personnel import, find a    *)
(* row and write it by its id.  The import takes who it names as active.    *)
Begin(r) ==
  /\ Cardinality(requests) < MaxRequests /\ requests' = requests \cup {r}
  /\ UNCHANGED <<scene, accounts, tree, setting, pages, booking, visits>>

SetUserActive(u, active) ==
  /\ Does("setUserActive") /\ u \in Staff
  /\ Begin([op |-> "setActive", u |-> u, active |-> active, found |-> None, by |-> None,
            at |-> "find"])

ImportHosts(email) ==
  /\ Does("importHosts")
  /\ Begin([op |-> "import", email |-> email, active |-> TRUE, found |-> None, by |-> None,
            at |-> "find"])

FindRow(r) ==
  \/ r.op = "setActive" /\ RowsOf(r.u) # {} /\ Found(r, RowsOf(r.u))
  \/ r.op = "import" /\ Found(r, {h \in Directory : host[h].email = r.email})

StoreRow(r) ==
  /\ r.op \in {"setActive", "import"} /\ r.at = "store"
  /\ requests' = requests \ {r}
  /\ \/ /\ r.found # None
        /\ host' = [host EXCEPT ![r.found].active = r.active]
        /\ away' = IF r.active THEN away \ {host[r.found].user}
                   ELSE away \cup {host[r.found].user}
     \/ /\ r.found = None /\ Directory # Hosts
        /\ host' = NewHost([email |-> r.email, user |-> None,
                             office |-> None, active |-> TRUE])
        /\ UNCHANGED away
  /\ UNCHANGED <<scene, user, torn, tree, setting, pages, booking, visits>>

NoSuchRow(r) ==
  /\ r.op = "setActive" /\ r.at = "find" /\ RowsOf(r.u) = {}
  /\ requests' = requests \ {r}
  /\ UNCHANGED <<scene, accounts, tree, setting, pages, booking, visits>>

-----------------------------------------------------------------------------
(* The dialog over an account is filled from the list when it opens, and    *)
(* sends what differs from that: the details first, then the role.          *)
PlaceOf(u) == IF RowsOf(u) = {} THEN None ELSE host[CHOOSE h \in RowsOf(u) : TRUE].office
OpenForm(a, u) ==
  /\ Does("edit") /\ form[a] = None /\ u \in Staff
  /\ LET row == [email |-> user[u].email, role |-> user[u].role, office |-> PlaceOf(u)]
     IN \E now \in [email : Emails, role : scene.roles, office : scene.places] :
          form' = [form EXCEPT ![a] = [u |-> u, now |-> now, at |-> "open",
                                       fields |-> {f \in DOMAIN row : now[f] # row[f]}]]
  /\ UNCHANGED <<scene, accounts, tree, setting, requests, sheet, booking, visits>>

CloseForm(a) ==
  /\ form[a] # None /\ form[a].at = "open" /\ form' = [form EXCEPT ![a] = None]
  /\ UNCHANGED <<scene, accounts, tree, setting, requests, sheet, booking, visits>>

DetailsChanged(f) == f.fields \ {"role"} # {}
RoleChanged(f) == "role" \in f.fields

SaveDetails(a) ==
  /\ form[a] # None /\ form[a].at = "open"
  /\ IF DetailsChanged(form[a])
     THEN /\ Write(form[a].u, form[a].now.email, user[form[a].u].role, form[a].now.office, a)
          /\ form' = [form EXCEPT ![a].at = "details"]
     ELSE form' = [form EXCEPT ![a].at = "role"] /\ UNCHANGED <<user, torn, requests>>
  /\ UNCHANGED <<scene, host, away, tree, setting, sheet, booking, visits>>

SetRole(a) ==
  /\ form[a] # None /\ form[a].at = "role"
  /\ \/ /\ user' = IF RoleChanged(form[a])
                   THEN [user EXCEPT ![form[a].u].role = form[a].now.role] ELSE user
        /\ form' = [form EXCEPT ![a] = None]
     \/ RoleChanged(form[a]) /\ form' = [form EXCEPT ![a].at = "open"] /\ UNCHANGED user
  /\ UNCHANGED <<scene, host, torn, away, tree, setting, requests, sheet, booking, visits>>

(* The settings and the policies are pages of their own over one table: a   *)
(* page is filled when it is read, again when what it read has changed, and *)
(* saves the keys it shows.                                                 *)
OpenSheet(a, page) ==
  /\ Does("settings")
  /\ IF sheet[a] = None THEN TRUE ELSE sheet[a].seen # setting /\ sheet[a].page = page
  /\ \E text \in Texts : sheet' = [sheet EXCEPT ![a] = [page |-> page, seen |-> setting, text |-> text]]
  /\ UNCHANGED <<scene, accounts, tree, setting, requests, form, booking, visits>>

WholeTable(s) == [s.seen EXCEPT ![s.page] = s.text]
Saved(s) == [setting EXCEPT ![s.page] = s.text]
SaveSheet(a) ==
  /\ sheet[a] # None
  /\ setting' = Saved(sheet[a])
  /\ sheet' = [sheet EXCEPT ![a] = None]
  /\ UNCHANGED <<scene, accounts, tree, requests, form, booking, visits>>

(* Departments and offices come and go, and an office may move.             *)
SetDeptActive(d) ==
  /\ Does("tree")
  /\ dept' = (dept \ {d}) \cup ({d} \ dept)
  /\ UNCHANGED <<scene, accounts, office, setting, requests, pages, booking, visits>>

UpdateOffice(o, d, active) ==
  /\ Does("tree") /\ office[o] # [dept |-> d, active |-> active]
  /\ office' = [office EXCEPT ![o] = [dept |-> d, active |-> active]]
  /\ UNCHANGED <<scene, accounts, dept, setting, requests, pages, booking, visits>>

-----------------------------------------------------------------------------
(* The appointment form: a department, one of its offices, one of the       *)
(* officers listed for it; or the booker.  "from" is history: the office    *)
(* for which the officer was listed.                                        *)
Blank == [self |-> FALSE, dept |-> None, office |-> None, host |-> None,
          offices |-> {}, hosts |-> {}, from |-> None]
SecretaryOnly == InitialRole = "secretary"
Fill(new) ==
  /\ Does("book") /\ \A r \in requests : r.op # "book"
  /\ booking' = new
  /\ UNCHANGED <<scene, accounts, tree, setting, requests, pages, visits>>

ChooseDept(d) ==
  d \in dept /\ ~booking.self /\ Fill([Blank EXCEPT !.dept = d])
LoadOffices ==
  /\ booking.dept # None /\ ~booking.self
  /\ Fill([booking EXCEPT !.offices = {o \in Offices : office[o] = [dept |-> booking.dept, active |-> TRUE]}])
OfficeChosen(o) == [booking EXCEPT !.office = o, !.host = None, !.hosts = {}, !.from = None]
ChooseOffice(o) == o \in booking.offices /\ ~booking.self /\ Fill(OfficeChosen(o))
HostsByOffice(o) ==
  IF SecretaryOnly /\ PlaceOf(Booker) # o THEN {}
  ELSE {h \in Directory : host[h].office = o /\ host[h].active}
LoadHosts ==
  /\ booking.office # None /\ ~booking.self
  /\ Fill([booking EXCEPT !.hosts = HostsByOffice(booking.office)])
ChooseHost(h) ==
  /\ h \in booking.hosts /\ ~booking.self
  /\ Fill([booking EXCEPT !.host = h, !.from = booking.office])
ForSelf ==
  IF booking.self THEN Fill(Blank)
  ELSE \E h \in RowsOf(Booker) : Fill([booking EXCEPT !.self = TRUE, !.host = h])

(* The officer is always asked for, where he sits when it is not the booker.*)
FormSchema(b) == b.host # None /\ (b.self \/ (b.dept # None /\ b.office # None))

Submit ==
  /\ Does("book") /\ Cardinality(requests) < MaxRequests
  /\ \A r \in requests : r.op # "book"
  /\ FormSchema(booking)
  /\ requests' = requests \cup
       {[op |-> "book", host |-> booking.host, own |-> None, office |-> None, moved |-> FALSE,
         by |-> None, at |-> IF SecretaryOnly THEN "scope" ELSE "officer"]}
  /\ UNCHANGED <<scene, accounts, tree, setting, pages, booking, visits>>

(* A secretary without an office books for nobody.                          *)
Scope(r) ==
  /\ r.op = "book" /\ r.at = "scope"
  /\ requests' = (requests \ {r}) \cup
       (IF PlaceOf(Booker) = None THEN {}
        ELSE {[r EXCEPT !.at = "target", !.own = PlaceOf(Booker)]})
  /\ UNCHANGED <<scene, accounts, tree, setting, pages, booking, visits>>

AnyOffice(r) == TRUE
InScope(r) == host[r.host].office = r.own
Target(r) ==
  /\ r.op = "book" /\ r.at = "target"
  /\ requests' = (requests \ {r}) \cup
       (IF InScope(r) THEN {[r EXCEPT !.at = "officer"]} ELSE {})
  /\ UNCHANGED <<scene, accounts, tree, setting, pages, booking, visits>>

Officer(r) ==
  /\ r.op = "book" /\ r.at = "officer"
  /\ requests' = (requests \ {r}) \cup {[r EXCEPT !.at = "insert", !.office = host[r.host].office]}
  /\ UNCHANGED <<scene, accounts, tree, setting, pages, booking, visits>>

Insert(r) ==
  /\ r.op = "book" /\ r.at = "insert"
  /\ requests' = requests \ {r}
  /\ visits' = {[host |-> r.host, office |-> r.office, moved |-> r.moved,
                 own |-> PlaceOf(Booker)]}
  /\ booking' = Blank
  /\ UNCHANGED <<scene, accounts, tree, setting, pages>>

-----------------------------------------------------------------------------
(* At first every account has its officer; a row without one is imported.   *)
OneEach(S, T) == CHOOSE f \in [S -> T] : \A x, y \in S : f[x] = f[y] => x = y
Init ==
  /\ scene \in Scenes
  /\ LET email == OneEach(Users, Emails)
         row == OneEach(Users, Hosts)
     IN \E place \in [scene.staff -> scene.places] :
       /\ user = [u \in Users |-> IF u \in scene.staff
                   THEN [email |-> email[u], role |-> InitialRole] ELSE None]
       /\ host = [h \in Hosts |->
            IF \E u \in scene.staff : row[u] = h
            THEN LET u == CHOOSE v \in scene.staff : row[v] = h
                 IN [email |-> email[u], user |-> u, office |-> place[u], active |-> TRUE]
            ELSE None]
  /\ dept = Depts
  /\ office \in [Offices -> [dept : IF Does("tree") THEN Depts ELSE {CHOOSE d \in Depts : TRUE},
                            active : {TRUE}]]
  /\ setting = [general |-> CHOOSE x \in Texts : TRUE, rules |-> CHOOSE x \in Texts : TRUE]
  /\ requests = {} /\ visits = {} /\ torn = {} /\ away = {}
  /\ form = [a \in Admins |-> None] /\ sheet = [a \in Admins |-> None]
  /\ booking = Blank

Next ==
  \/ \E u \in Users, email \in Emails, place \in scene.places :
       UserCreate(u, email, "secretary", place)
  \/ \E u \in Users, active \in BOOLEAN : SetUserActive(u, active)
  \/ \E email \in Emails : ImportHosts(email)
  \/ \E r \in requests :
       \/ FindHost(r) \/ StoreHost(r) \/ FindRow(r) \/ StoreRow(r) \/ NoSuchRow(r) \/ Die(r)
       \/ Scope(r) \/ Target(r) \/ Officer(r) \/ Insert(r)
  \/ \E a \in scene.admins :
       \/ \E u \in Users : OpenForm(a, u)
       \/ CloseForm(a) \/ SaveDetails(a) \/ SetRole(a)
       \/ (\E page \in {"general", "rules"} : OpenSheet(a, page)) \/ SaveSheet(a)
  \/ \E d \in Depts : SetDeptActive(d) \/ ChooseDept(d)
  \/ \E o \in Offices, d \in Depts, active \in BOOLEAN : UpdateOffice(o, d, active)
  \/ LoadOffices \/ LoadHosts \/ ForSelf \/ Submit
  \/ \E o \in Offices : ChooseOffice(o)
  \/ \E h \in Hosts : ChooseHost(h)

Spec == Init /\ [][Next]_vars

-----------------------------------------------------------------------------
Places == Offices \cup {None}

HostRow == [email : Emails, user : Users \cup {None}, office : Places, active : BOOLEAN]
OfficeRow == [dept : Depts, active : BOOLEAN]
Account == [email : Emails, role : RoleNames]
FormRow == [u : Users, now : [email : Emails, role : RoleNames, office : Places],
            at : {"open", "details", "role"}, fields : SUBSET {"email", "role", "office"}]
Page == [page : {"general", "rules"}, seen : [general : Texts, rules : Texts], text : Texts]

(* null is no id and no row; an account has an email and a row to itself;   *)
(* there is a department and something to say.                              *)
ASSUME NullIsNothing ==
  /\ None \notin Users \cup Hosts \cup Offices \cup Admins \cup Depts
  /\ None \notin HostRow \cup Account \cup FormRow \cup Page
ASSUME OneForEach ==
  \A T \in {Emails, Hosts} :
    \E f \in [Users -> T] : \A x, y \in Users : f[x] = f[y] => x = y
ASSUME Somebody ==
  /\ Booker \in Users /\ Depts # {} /\ Texts # {}
  /\ Scenes \subseteq [ops : SUBSET STRING, staff : SUBSET Users, roles : SUBSET RoleNames,
                      places : SUBSET Places, admins : SUBSET Admins]

(* The variables have their types, and no two accounts have one email.      *)
TypeOK ==
  /\ scene \in Scenes
  /\ user \in [Users -> [email : Emails, role : RoleNames] \cup {None}]
  /\ \A u, v \in Staff : user[u].email = user[v].email => u = v
  /\ \A h \in Directory :
       host[h] \in HostRow
  /\ dept \subseteq Depts /\ office \in [Offices -> OfficeRow]
  /\ setting \in [general : Texts, rules : Texts]
  /\ \A r \in requests :
       /\ r.op \in {"sync", "setActive", "import", "book"}
       /\ r.op = "sync" /\ r.by # None => form[r.by] # None /\ form[r.by].at = "details"
  /\ torn \cup away \subseteq Users

(* An account has one officer at most, however often it is edited, as long  *)
(* as its requests run one at a time and to their end: the mirror looks for *)
(* the account's own row before it looks for its email.                     *)
OneHostPerUser ==
  \A u \in Users \ torn : Cardinality(RowsOf(u)) <= 1

(* An officer, and so every visit booked for him, is never handed to another*)
(* account: a row found by its email is nobody's.  Only an account whose    *)
(* request died between its two tables, or met another, can lose its row.   *)
HostKeepsItsUser ==
  [][\A h \in Directory : host[h].user \notin torn \cup {None} =>
       host'[h].user = host[h].user]_vars

(* Somebody marked inactive is bookable again only once he is marked active,*)
(* or the personnel import names him: editing his profile does not do it.   *)
DeactivatedNotBookable ==
  \A u \in away \ torn : \A h \in RowsOf(u) : ~host[h].active

(* What only a secretary may book is in her own office, if nobody moved     *)
(* while the booking was made; without an office she books nothing.         *)
BookedWithinOffice ==
  SecretaryOnly => \A v \in visits :
    ~v.moved => v.own # None /\ v.office = v.own

(* The officer the form holds is one who was listed for the office it shows,*)
(* whatever was chosen before it.                                           *)
BookedAsShown ==
  booking.host # None /\ ~booking.self => booking.from = booking.office

(* A role changes only where an administrator chose another one: saving     *)
(* details from a dialog opened before a colleague's change leaves it.      *)
RoleKept ==
  [][\A u \in Staff : user'[u].role # user[u].role =>
       \E a \in Admins : form[a] # None /\ form[a].u = u /\ "role" \in form[a].fields]_vars

(* Saving the system settings, from a page filled long ago, does not bring  *)
(* an old policy back, nor saving a policy an old setting.                  *)
PolicyKept ==
  [][\A page \in {"general", "rules"} : setting'[page] # setting[page] =>
       \E a \in Admins : sheet[a] # None /\ sheet[a].page = page]_vars

(* Accounts and officers stay in step, and the inactive unbookable.         *)
DirectoryInv == TypeOK /\ OneHostPerUser /\ DeactivatedNotBookable

(* A booking is of the office its booker may book and its form shows.       *)
BookedInOffice == BookedWithinOffice /\ BookedAsShown

(* Pages filled before a colleague's change do not undo it.                 *)
NothingStaleSaved == RoleKept /\ PolicyKept
=============================================================================
