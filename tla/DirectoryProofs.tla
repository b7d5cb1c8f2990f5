--------------------------- MODULE DirectoryProofs ---------------------------
(***************************************************************************)
(* Staff accounts and officers stay in step, nothing stale is saved, and   *)
(* what is booked is in its office.  The argument: an account is torn as   *)
(* soon as another account is being edited, so one that is not has its     *)
(* request to itself; the row it finds by email is then nobody's, because  *)
(* no email of an account that is in step is that of another's request.    *)
(***************************************************************************)
EXTENDS Directory, FiniteSetTheorems, TLAPS

Sync == [op : {"sync"}, u : Users, email : Emails, office : Places, by : Admins \cup {None},
         found : Hosts \cup {None}, at : {"find", "store"}]
SetActive == [op : {"setActive"}, u : Users, active : BOOLEAN, found : Hosts \cup {None},
              by : {None}, at : {"find", "store"}]
Import == [op : {"import"}, email : Emails, active : {TRUE}, found : Hosts \cup {None},
           by : {None}, at : {"find", "store"}]
Book == [op : {"book"}, host : Hosts, own : Places, office : Places, moved : BOOLEAN,
         by : {None}, at : {"scope", "target", "officer", "insert"}]
Request == Sync \cup SetActive \cup Import \cup Book

(* The types, in full.                                                      *)
AccountTypes ==
  /\ user \in [Users -> Account \cup {None}]
  /\ host \in [Hosts -> HostRow \cup {None}]
  /\ requests \subseteq Request
  /\ torn \subseteq Users /\ away \subseteq Users
PageTypes ==
  /\ form \in [Admins -> FormRow \cup {None}]
  /\ \A a \in Admins : form[a] # None => form[a].u \in Staff
  /\ sheet \in [Admins -> Page \cup {None}]
  /\ setting \in [general : Texts, rules : Texts]
TreeTypes ==
  /\ scene \in Scenes
  /\ dept \subseteq Depts /\ office \in [Offices -> OfficeRow]
BookingTypes ==
  booking \in [self : BOOLEAN, dept : Depts \cup {None}, office : Places,
               host : Hosts \cup {None}, offices : SUBSET Offices,
               hosts : SUBSET Hosts, from : Places]

(* A dialog sends one request at a time, and waits for it.                  *)
FormWaits ==
  /\ \A r \in requests : r.by # None => form[r.by] # None /\ form[r.by].at = "details"
  /\ \A r, q \in requests : r.by = q.by /\ r.by # None => r = q

Types == AccountTypes /\ PageTypes /\ TreeTypes /\ BookingTypes /\ FormWaits

(* The rows of an account that is not torn.                                 *)
Idle(u) == \A r \in Editing : r.u # u
RowsInStep ==
  /\ \A u, v \in Staff : user[u].email = user[v].email => u = v
  /\ \A h \in Directory : host[h].user \in Staff \cup {None}
  /\ \A h, g \in Directory :
       host[h].user = host[g].user /\ host[h].user \notin torn \cup {None} => h = g
  /\ \A h \in Directory : LET u == host[h].user IN
       u \notin torn \cup {None} /\ Idle(u) => host[h].email = user[u].email
  /\ \A u \in away \ torn :
       \E h \in Directory : host[h].user = u /\ ~host[h].active

(* A request that mirrors an account, and what it has found.                *)
Alone(r) ==
  r.u \notin torn => /\ \A q \in Editing : q = r
                     /\ r.email = user[r.u].email
Takes(r) ==
  IF r.at = "find" THEN r.found = None ELSE
    /\ r.found # None => /\ r.found \in Directory
                         /\ host[r.found].user \in torn \cup {None, r.u}
    /\ r.u \notin torn => \A h \in Directory : host[h].user = r.u => h = r.found
SyncInStep(r) ==
  /\ r.u \in Staff
  /\ Alone(r)
  /\ \A v \in Staff \ torn : v # r.u => user[v].email # r.email
  /\ Takes(r)

(* One that marks a row has a row, and of somebody.                         *)
MarkInStep(r) ==
  /\ r.op = "setActive" /\ r.at = "store" => r.found # None
  /\ r.found # None => /\ r.found \in Directory
                       /\ r.op = "setActive" => host[r.found].user # None

InStep ==
  /\ RowsInStep
  /\ \A r \in requests :
       /\ r.op = "sync" => SyncInStep(r)
       /\ r.op \in {"setActive", "import"} => MarkInStep(r)

(* The appointment form, and a booking on its way, are of rows that exist.  *)
FormInOffice ==
  /\ booking.hosts \subseteq Directory
  /\ booking.host # None => booking.host \in Directory
  /\ BookedAsShown
StillThere(r) ==
  /\ r.at \in {"target", "officer", "insert"} =>
       r.own # None /\ PlaceOf(Booker) = r.own
  /\ r.at \in {"officer", "insert"} => host[r.host].office = r.own
  /\ r.at = "insert" => r.office = r.own
InOffice ==
  /\ FormInOffice
  /\ \A r \in requests : r.op = "book" =>
       /\ r.host \in Directory
       /\ SecretaryOnly /\ ~r.moved => StillThere(r)
  /\ BookedWithinOffice

DirectoryIInv == Types /\ InStep /\ InOffice
-----------------------------------------------------------------------------
(* An injection of a set is one of its subsets.                             *)
LEMMA OneEachIs ==
  ASSUME NEW T \in {Emails, Hosts}
  PROVE  /\ OneEach(Users, T) \in [Users -> T]
         /\ \A x, y \in Users : OneEach(Users, T)[x] = OneEach(Users, T)[y] => x = y
BY OneForEach DEF OneEach

(* A request is of one of four kinds, told apart by what it does.           *)
LEMMA Kinds ==
  ASSUME NEW r \in Request
  PROVE  /\ r.op \in {"sync", "setActive", "import", "book"}
         /\ r.op = "sync" => r \in Sync
         /\ r.op = "setActive" => r \in SetActive
         /\ r.op = "import" => r \in Import
         /\ r.op = "book" => r \in Book
         /\ r.by \in Admins \cup {None}
BY DEF Request, Sync, SetActive, Import, Book

(* The variables that an action leaves alone keep their types.              *)
LEMMA AccountTypesKept ==
  ASSUME AccountTypes, UNCHANGED <<user, host, torn, away>>, requests' \subseteq Request
  PROVE  AccountTypes'
BY DEF AccountTypes

LEMMA PageTypesKept ==
  ASSUME PageTypes, UNCHANGED <<form, sheet, setting>>, Staff \subseteq Staff'
  PROVE  PageTypes'
BY DEF PageTypes

LEMMA FormKept ==
  ASSUME FormWaits, UNCHANGED form,
         \A r \in requests' \ requests : r.by = None
  PROVE  FormWaits'
BY DEF FormWaits

(* A write of an account: what it leaves, and the request it starts.        *)
LEMMA WriteTypes ==
  ASSUME Types, NEW u \in Users, NEW email \in Emails, NEW role \in RoleNames,
         NEW place \in Places, NEW by \in Admins \cup {None},
         Write(u, email, role, place, by), UNCHANGED <<host, away>>
  PROVE  /\ AccountTypes'
         /\ Staff' = Staff \cup {u}
         /\ user'[u].email = email
         /\ \A v \in Users \ {u} : user'[v] = user[v]
<1> DEFINE s == [op |-> "sync", u |-> u, email |-> email, office |-> place, by |-> by,
                 found |-> None, at |-> "find"]
           row == [email |-> email, role |-> role]
<1>1. row \in Account /\ row # None /\ row.email = email
  BY NullIsNothing DEF Account
<1>2. user' = [user EXCEPT ![u] = row] /\ requests' = requests \cup {s}
      /\ torn' = torn \cup (IF Editing = {} THEN {} ELSE {u} \cup {r.u : r \in Editing})
  BY DEF Write
<1>3. s \in Request
  BY DEF Request, Sync
<1>4. torn' \subseteq Users
  <2>1. \A r \in Editing : r.u \in Users
    BY Kinds DEF Editing, Types, AccountTypes, Sync
  <2> QED BY <1>2, <2>1 DEF Types, AccountTypes
<1> HIDE DEF row, s
<1>5. user' \in [Users -> Account \cup {None}] /\ user'[u] = row
      /\ \A v \in Users \ {u} : user'[v] = user[v]
  BY <1>1, <1>2 DEF Types, AccountTypes
<1>6. Staff' = Staff \cup {u}
  BY <1>1, <1>5 DEF Staff
<1> QED BY <1>1, <1>2, <1>3, <1>4, <1>5, <1>6 DEF Types, AccountTypes
(* A request goes on: what it does and who waits for it stay as they were.  *)
LEMMA GoesOn ==
  ASSUME Types, NEW r \in requests, NEW q \in Request,
         q.by = r.by, requests' = (requests \ {r}) \cup {q},
         UNCHANGED <<scene, accounts, tree, setting, pages, booking>>
  PROVE  Types'
<1>1. AccountTypes'
  BY DEF Types, AccountTypes, accounts
<1>2. PageTypes' /\ TreeTypes' /\ BookingTypes'
  BY DEF Types, PageTypes, TreeTypes, BookingTypes, Staff, accounts, tree, pages
<1>3. FormWaits'
  BY DEF Types, FormWaits, pages
<1> QED BY <1>1, <1>2, <1>3 DEF Types

(* A request ends, and nothing else of its tables changes.                  *)
LEMMA Ends ==
  ASSUME Types, NEW r, requests' = requests \ {r},
         UNCHANGED <<scene, user, host, torn, away, tree, setting, pages>>, BookingTypes'
  PROVE  Types'
<1>1. AccountTypes' /\ PageTypes' /\ TreeTypes'
  BY DEF Types, AccountTypes, PageTypes, TreeTypes, Staff, tree, pages
<1>2. FormWaits'
  BY DEF Types, FormWaits, pages
<1> QED BY <1>1, <1>2 DEF Types

LEMMA FoundTypes ==
  ASSUME Types, NEW r \in requests, r.op # "book",
         NEW found \in SUBSET Hosts, Found(r, found)
  PROVE  Types'
<1>1. r \in Sync \cup SetActive \cup Import
  BY Kinds DEF Types, AccountTypes
<1>2. PICK q \in {[r EXCEPT !.at = "store"]} \cup
                 {[r EXCEPT !.at = "store", !.found = h] : h \in found} :
        requests' = (requests \ {r}) \cup {q}
  BY DEF Found
<1>3. q \in Request /\ q.by = r.by
  BY <1>1, <1>2 DEF Request, Sync, SetActive, Import
<1> QED BY <1>2, <1>3, GoesOn DEF Found, accounts, tree, pages

(* A row that is not there, and what becomes of the table when it is made.  *)
LEMMA NewRow ==
  ASSUME AccountTypes, NEW row \in HostRow, Directory # Hosts, host' = NewHost(row)
  PROVE  \E h \in Hosts \ Directory :
           /\ host' = [host EXCEPT ![h] = row]
           /\ host' \in [Hosts -> HostRow \cup {None}]
           /\ Directory' = Directory \cup {h}
<1>1. Hosts \ Directory # {} /\ row # None
  BY NullIsNothing DEF Directory
<1>2. PICK h \in Hosts \ Directory : host' = [host EXCEPT ![h] = row]
  BY <1>1 DEF NewHost
<1> QED BY <1>1, <1>2 DEF AccountTypes, Directory

LEMMA RowTyped ==
  ASSUME AccountTypes, NEW h \in Directory
  PROVE  /\ h \in Hosts /\ host[h] \in HostRow /\ host[h] # None
         /\ host[h].user \in Users \cup {None} /\ host[h].email \in Emails
         /\ host[h].office \in Places /\ host[h].active \in BOOLEAN
BY DEF AccountTypes, Directory, HostRow

(* What a mirror request leaves: one row, found or made, is of its account. *)
LEMMA Stored ==
  ASSUME Types, NEW r \in requests, StoreHost(r),
         r.found # None => r.found \in Directory
  PROVE  \E h \in Hosts :
           /\ IF r.found = None THEN h \notin Directory ELSE h = r.found
           /\ \A g \in Hosts \ {h} : host'[g] = host[g]
           /\ host' \in [Hosts -> HostRow \cup {None}]
           /\ Directory' = Directory \cup {h}
           /\ host'[h].email = r.email /\ host'[h].user = r.u
           /\ r.found # None => host'[h].active = host[h].active
           /\ away' \subseteq away
           /\ \A u \in away \ away' : r.found # None /\ host[r.found].user = u /\ u # r.u
<1>1. r \in Sync
  BY Kinds DEF Types, AccountTypes, StoreHost
<1>2. CASE r.found = None
  <2> DEFINE row == [email |-> r.email, user |-> r.u, office |-> r.office, active |-> TRUE]
  <2>1. row \in HostRow /\ row.email = r.email /\ row.user = r.u
    BY <1>1 DEF Sync, HostRow
  <2>2. Directory # Hosts /\ host' = NewHost(row) /\ away' = away
    BY <1>2 DEF StoreHost
  <2> HIDE DEF row
  <2>3. PICK h \in Hosts \ Directory :
           /\ host' = [host EXCEPT ![h] = row]
           /\ host' \in [Hosts -> HostRow \cup {None}]
           /\ Directory' = Directory \cup {h}
    BY <2>1, <2>2, NewRow DEF Types
  <2> QED BY <1>2, <2>1, <2>2, <2>3 DEF Types, AccountTypes
<1>3. CASE r.found # None
  <2> DEFINE row == Mirrored(r, r.found)
  <2>1. r.found \in Directory /\ r.found \in Hosts /\ host[r.found] \in HostRow
    BY <1>3, RowTyped DEF Types
  <2>2. row \in HostRow /\ row # None /\ row.email = r.email /\ row.user = r.u
        /\ row.active = host[r.found].active
    BY <1>1, <2>1, NullIsNothing DEF Mirrored, HostRow, Sync
  <2>3. host' = [host EXCEPT ![r.found] = row]
        /\ away' = IF host[r.found].user \in {r.u, None} THEN away
                   ELSE away \ {host[r.found].user}
    BY <1>3 DEF StoreHost
  <2> HIDE DEF row
  <2>4. host' \in [Hosts -> HostRow \cup {None}] /\ host'[r.found] = row
        /\ \A g \in Hosts \ {r.found} : host'[g] = host[g]
    BY <2>1, <2>2, <2>3 DEF Types, AccountTypes
  <2>5. Directory' = Directory \cup {r.found}
    BY <2>1, <2>2, <2>4 DEF Directory
  <2> QED BY <1>3, <2>1, <2>2, <2>3, <2>4, <2>5
<1> QED BY <1>2, <1>3
LEMMA RestTypes ==
  ASSUME Types, NEW r \in requests, r.op = "sync"
  PROVE  /\ Rest(r) \subseteq Request
         /\ \A q \in Rest(r) \ requests : q.by = None /\ q.op = "book"
         /\ \A q \in Rest(r) : q.by # None => q \in requests \ {r}
         /\ \A q \in Rest(r) : q.op # "book" => q \in requests \ {r}
<1>1. \A q \in Moved(r) : /\ [q EXCEPT !.moved = TRUE] \in Book
                          /\ [q EXCEPT !.moved = TRUE].by = None
                          /\ [q EXCEPT !.moved = TRUE].op = "book"
  BY Kinds DEF Moved, Types, AccountTypes, Book
<1> QED BY <1>1 DEF Rest, Request, Types, AccountTypes

(* The dialog that waited for a request hears of its end.                   *)
LEMMA Heard ==
  ASSUME Types, NEW r \in requests, r.op = "sync", NEW at \in {"open", "role"},
         form' = IF r.by = None THEN form ELSE [form EXCEPT ![r.by].at = at],
         \A q \in requests' : q.by # None => q \in requests \ {r},
         UNCHANGED <<user, sheet, setting>>
  PROVE  PageTypes' /\ FormWaits'
<1>1. r \in Sync
  BY Kinds DEF Types, AccountTypes
<1>2. /\ form' \in [Admins -> FormRow \cup {None}]
      /\ \A a \in Admins : a # r.by => form'[a] = form[a]
      /\ \A a \in Admins : form'[a] # None => form[a] # None /\ form'[a].u = form[a].u
  <2>1. CASE r.by = None
    BY <2>1, NullIsNothing DEF Types, PageTypes
  <2>2. CASE r.by # None
    <3> DEFINE row == [form[r.by] EXCEPT !.at = at]
    <3>1. form[r.by] \in FormRow /\ r.by \in Admins
      BY <1>1, <2>2 DEF Types, PageTypes, FormWaits, Sync
    <3>2. row \in FormRow /\ row # None /\ row.u = form[r.by].u
      BY <3>1, NullIsNothing DEF FormRow
    <3>3. form' = [form EXCEPT ![r.by] = row]
      BY <2>2, <3>1 DEF Types, PageTypes
    <3> HIDE DEF row
    <3> QED BY <3>1, <3>2, <3>3, NullIsNothing DEF Types, PageTypes
  <2> QED BY <2>1, <2>2
<1>3. PageTypes'
  <2>1. \A a \in Admins : form'[a] # None => form'[a].u \in Staff'
    BY <1>2 DEF Types, PageTypes, Staff
  <2> QED BY <1>2, <2>1 DEF Types, PageTypes
<1>4. FormWaits'
  <2>1. \A q \in requests' : q.by # None => q \in requests /\ q.by # r.by /\ q.by \in Admins
    BY Kinds DEF Types, FormWaits, AccountTypes
  <2> QED BY <1>2, <2>1 DEF Types, FormWaits
<1> QED BY <1>3, <1>4

LEMMA StoreHostTypes ==
  ASSUME Types, NEW r \in requests, StoreHost(r),
         r.found # None => r.found \in Directory
  PROVE  Types'
<1>1. requests' = Rest(r) /\ r.op = "sync"
  BY DEF StoreHost
<1>2. AccountTypes'
  BY <1>1, Stored, RestTypes DEF StoreHost, Types, AccountTypes
<1>3. PageTypes' /\ FormWaits'
  BY <1>1, RestTypes, Heard DEF StoreHost
<1>4. TreeTypes' /\ BookingTypes'
  BY DEF StoreHost, Types, TreeTypes, BookingTypes, tree
<1> QED BY <1>2, <1>3, <1>4 DEF Types

LEMMA DieTypes ==
  ASSUME Types, NEW r \in requests, Die(r)
  PROVE  Types'
<1>1. CASE r.op = "sync"
  <2>1. r \in Sync
    BY <1>1, Kinds DEF Types, AccountTypes
  <2>2. AccountTypes'
    BY <1>1, <2>1 DEF Die, Types, AccountTypes, Sync
  <2>3. form' = IF r.by = None THEN form ELSE [form EXCEPT ![r.by].at = "open"]
    BY <1>1 DEF Die
  <2>4. PageTypes' /\ FormWaits'
    BY <1>1, <2>3, Heard DEF Die
  <2>5. TreeTypes' /\ BookingTypes'
    BY DEF Die, Types, TreeTypes, BookingTypes, tree
  <2> QED BY <2>2, <2>4, <2>5 DEF Types
<1>2. CASE r.op # "sync"
  BY <1>2, Ends DEF Die, Types, BookingTypes, tree, pages
<1> QED BY <1>1, <1>2

(* A row marked, or imported.                                               *)
LEMMA Marked ==
  ASSUME Types, NEW r \in requests, StoreRow(r), MarkInStep(r)
  PROVE  \E h \in Hosts :
           /\ IF r.found = None THEN h \notin Directory /\ away' = away /\ host'[h].user = None
              ELSE /\ h = r.found /\ host'[h].active = r.active
                   /\ host'[h].user = host[h].user /\ host'[h].email = host[h].email
                   /\ host'[h].office = host[h].office
                   /\ away' = IF r.active THEN away \ {host[h].user}
                              ELSE away \cup {host[h].user}
           /\ \A g \in Hosts \ {h} : host'[g] = host[g]
           /\ host' \in [Hosts -> HostRow \cup {None}]
           /\ Directory' = Directory \cup {h}
<1>1. r \in SetActive \cup Import
  BY Kinds DEF Types, AccountTypes, StoreRow
<1>2. CASE r.found = None
  <2> DEFINE row == [email |-> r.email, user |-> None, office |-> None, active |-> TRUE]
  <2>1. Directory # Hosts /\ host' = NewHost(row) /\ away' = away /\ r \in Import
    BY <1>1, <1>2 DEF StoreRow, MarkInStep, SetActive, Import
  <2>2. row \in HostRow /\ row.user = None
    BY <2>1 DEF Import, HostRow, Places
  <2> HIDE DEF row
  <2>3. PICK h \in Hosts \ Directory :
           /\ host' = [host EXCEPT ![h] = row]
           /\ host' \in [Hosts -> HostRow \cup {None}]
           /\ Directory' = Directory \cup {h}
    BY <2>1, <2>2, NewRow DEF Types
  <2> QED BY <1>2, <2>1, <2>2, <2>3 DEF Types, AccountTypes
<1>3. CASE r.found # None
  <2> DEFINE row == [host[r.found] EXCEPT !.active = r.active]
  <2>1. r.found \in Directory /\ r.found \in Hosts /\ host[r.found] \in HostRow
    BY <1>3, RowTyped DEF Types, MarkInStep
  <2>2. /\ row \in HostRow /\ row # None /\ row.active = r.active
        /\ row.user = host[r.found].user /\ row.email = host[r.found].email
        /\ row.office = host[r.found].office
    BY <1>1, <2>1, NullIsNothing DEF HostRow, SetActive, Import
  <2>3. host' = [host EXCEPT ![r.found] = row]
        /\ away' = IF r.active THEN away \ {host[r.found].user}
                   ELSE away \cup {host[r.found].user}
    BY <1>3, <2>1 DEF StoreRow, Types, AccountTypes
  <2> HIDE DEF row
  <2>4. host' \in [Hosts -> HostRow \cup {None}] /\ host'[r.found] = row
        /\ \A g \in Hosts \ {r.found} : host'[g] = host[g]
    BY <2>1, <2>2, <2>3 DEF Types, AccountTypes
  <2>5. Directory' = Directory \cup {r.found}
    BY <2>1, <2>2, <2>4 DEF Directory
  <2> QED BY <1>3, <2>1, <2>2, <2>3, <2>4, <2>5
<1> QED BY <1>2, <1>3
LEMMA StoreRowTypes ==
  ASSUME Types, NEW r \in requests, StoreRow(r), MarkInStep(r)
  PROVE  Types'
<1>1. requests' = requests \ {r} /\ r.by = None /\ r \in SetActive \cup Import
  BY Kinds DEF StoreRow, Types, AccountTypes, SetActive, Import
<1>2. PICK h \in Hosts :
           /\ IF r.found = None THEN away' = away
              ELSE away' = IF r.active THEN away \ {host[h].user}
                           ELSE away \cup {host[h].user}
           /\ ~r.active => r.found = h /\ h \in Directory
           /\ host' \in [Hosts -> HostRow \cup {None}]
  BY <1>1, Marked DEF MarkInStep, SetActive, Import, StoreRow
<1>3. away' \subseteq Users
  <2>1. ~r.active => host[h].user \in Users
    <3>1. ~r.active => r.op = "setActive" /\ r.found # None
      BY <1>1, NullIsNothing, <1>2 DEF SetActive, Import
    <3> QED BY <1>2, <3>1, RowTyped DEF MarkInStep, Types
  <2> QED BY <1>2, <2>1 DEF Types, AccountTypes
<1>4. AccountTypes'
  BY <1>1, <1>2, <1>3 DEF StoreRow, Types, AccountTypes
<1>5. PageTypes' /\ TreeTypes' /\ BookingTypes'
  BY DEF StoreRow, Types, PageTypes, TreeTypes, BookingTypes, Staff, tree, pages
<1>6. FormWaits'
  BY <1>1 DEF StoreRow, Types, FormWaits, pages
<1> QED BY <1>4, <1>5, <1>6 DEF Types

LEMMA BeginTypes ==
  ASSUME Types, NEW q \in Request, q.by = None, requests' = requests \cup {q},
         UNCHANGED <<scene, accounts, tree, setting, pages, booking>>
  PROVE  Types'
<1>1. AccountTypes' /\ PageTypes' /\ TreeTypes' /\ BookingTypes'
  BY DEF Types, AccountTypes, PageTypes, TreeTypes, BookingTypes, Staff, accounts, tree, pages
<1>2. FormWaits'
  BY DEF Types, FormWaits, pages
<1> QED BY <1>1, <1>2 DEF Types

LEMMA UserCreateTypes ==
  ASSUME Types, NEW u \in Users, NEW email \in Emails, NEW place \in scene.places,
         UserCreate(u, email, "secretary", place)
  PROVE  Types'
<1>1. place \in Places /\ "secretary" \in RoleNames
  BY Somebody DEF Types, TreeTypes, RoleNames
<1>2. Write(u, email, "secretary", place, None) /\ UNCHANGED <<host, away, pages>>
  BY DEF UserCreate
<1>3. AccountTypes' /\ Staff \subseteq Staff'
  BY <1>1, <1>2, WriteTypes
<1>4. PageTypes' /\ TreeTypes' /\ BookingTypes'
  <2>1. UNCHANGED <<form, sheet, setting>>
    BY DEF UserCreate, pages
  <2> QED BY <1>3, <2>1, PageTypesKept DEF UserCreate, Types, TreeTypes, BookingTypes, tree
<1>5. FormWaits'
  <2>1. \A r \in requests' \ requests : r.by = None
    BY <1>2 DEF Write
  <2> QED BY <1>2, <2>1, FormKept DEF Types, pages
<1> QED BY <1>3, <1>4, <1>5 DEF Types

(* One of the forms changes, and the requests do not.                       *)
LEMMA FormTypes ==
  ASSUME Types, NEW a \in Admins, NEW row \in FormRow \cup {None},
         row # None => row.u \in Staff,
         form' = [form EXCEPT ![a] = row],
         form[a] = None \/ form[a].at # "details",
         UNCHANGED <<user, host, torn, away, requests, scene, tree, setting, sheet, booking>>
  PROVE  Types'
<1>1. AccountTypes' /\ TreeTypes' /\ BookingTypes'
  BY DEF Types, AccountTypes, TreeTypes, BookingTypes, tree
<1>2. Staff' = Staff
  BY DEF Staff
<1>3. /\ form' \in [Admins -> FormRow \cup {None}]
      /\ form'[a] = row
      /\ \A b \in Admins \ {a} : form'[b] = form[b]
  BY DEF Types, PageTypes
<1>4. PageTypes'
  BY <1>2, <1>3 DEF Types, PageTypes
<1>5. FormWaits'
  <2>1. \A r \in requests : r.by # None => r.by \in Admins \ {a}
    BY Kinds DEF Types, FormWaits, AccountTypes
  <2> QED BY <1>3, <2>1 DEF Types, FormWaits
<1> QED BY <1>1, <1>4, <1>5 DEF Types

LEMMA OpenFormTypes ==
  ASSUME Types, NEW a \in Admins, NEW u \in Users, OpenForm(a, u)
  PROVE  Types'
<1> DEFINE row == [email |-> user[u].email, role |-> user[u].role, office |-> PlaceOf(u)]
<1>1. PICK now \in [email : Emails, role : scene.roles, office : scene.places] :
        form' = [form EXCEPT ![a] = [u |-> u, now |-> now, at |-> "open",
                                     fields |-> {f \in DOMAIN row : now[f] # row[f]}]]
  BY DEF OpenForm
<1>2. now \in [email : Emails, role : RoleNames, office : Places]
  BY Somebody DEF Types, TreeTypes
<1>3. DOMAIN row = {"email", "role", "office"}
  OBVIOUS
<1> HIDE DEF row
<1> DEFINE new == [u |-> u, now |-> now, at |-> "open",
                   fields |-> {f \in DOMAIN row : now[f] # row[f]}]
<1>4. new \in FormRow /\ new.u = u
  BY <1>2, <1>3 DEF FormRow
<1>5. form' = [form EXCEPT ![a] = new]
  BY <1>1
<1> HIDE DEF new
<1> QED BY <1>4, <1>5, FormTypes DEF OpenForm, accounts

LEMMA CloseFormTypes ==
  ASSUME Types, NEW a \in Admins, CloseForm(a)
  PROVE  Types'
BY FormTypes DEF CloseForm, accounts

(* A dialog whose row keeps everything but where it is.                     *)
LEMMA FormAt ==
  ASSUME Types, NEW a \in Admins, form[a] # None, NEW at \in {"open", "details", "role"}
  PROVE  /\ [form[a] EXCEPT !.at = at] \in FormRow
         /\ [form[a] EXCEPT !.at = at].u = form[a].u
         /\ form[a].u \in Staff /\ form[a] \in FormRow
         /\ [form EXCEPT ![a].at = at] = [form EXCEPT ![a] = [form[a] EXCEPT !.at = at]]
<1>1. form[a] \in FormRow
  BY DEF Types, PageTypes
<1>2. [form[a] EXCEPT !.at = at] \in FormRow /\ [form[a] EXCEPT !.at = at].u = form[a].u
  BY <1>1 DEF FormRow
<1> QED BY <1>1, <1>2 DEF Types, PageTypes
LEMMA SaveDetailsTypes ==
  ASSUME Types, NEW a \in Admins, SaveDetails(a)
  PROVE  Types'
<1>1. form[a] # None /\ form[a].at = "open" /\ a # None
  BY NullIsNothing DEF SaveDetails
<1>2. CASE ~DetailsChanged(form[a])
  BY <1>1, <1>2, FormAt, FormTypes DEF SaveDetails
<1>3. CASE DetailsChanged(form[a])
  <2> DEFINE u == form[a].u
             row == [form[a] EXCEPT !.at = "details"]
  <2>1. row \in FormRow /\ row # None /\ row.u = u /\ u \in Staff /\ row.at = "details"
        /\ form' = [form EXCEPT ![a] = row] /\ form[a] \in FormRow
    BY <1>1, <1>3, FormAt, NullIsNothing DEF SaveDetails, FormRow
  <2>2. /\ u \in Users /\ user[u].role \in RoleNames
        /\ form[a].now.email \in Emails /\ form[a].now.office \in Places
    BY <2>1 DEF Staff, Types, AccountTypes, Account, FormRow
  <2>3. Write(u, form[a].now.email, user[u].role, form[a].now.office, a)
        /\ UNCHANGED <<host, away>>
    BY <1>3 DEF SaveDetails
  <2> HIDE DEF row, u
  <2>4. AccountTypes' /\ Staff \subseteq Staff'
    BY <2>2, <2>3, WriteTypes
  <2>5. PageTypes'
    BY <2>1, <2>4 DEF SaveDetails, Types, PageTypes
  <2>6. FormWaits'
    <3> DEFINE s == [op |-> "sync", u |-> u, email |-> form[a].now.email,
                     office |-> form[a].now.office, by |-> a, found |-> None, at |-> "find"]
    <3>0. requests' = requests \cup {s} /\ s.by = a
      BY <2>3 DEF Write
    <3> HIDE DEF s
    <3>1. PICK q : requests' = requests \cup {q} /\ q.by = a
      BY <3>0
    <3>2. \A r \in requests : r.by # None => r.by \in Admins \ {a}
      BY <1>1, <2>3, Kinds DEF Write, Types, AccountTypes
    <3> QED BY <1>1, <2>1, <3>1, <3>2 DEF Types, FormWaits, PageTypes
  <2>7. TreeTypes' /\ BookingTypes'
    BY DEF SaveDetails, Types, TreeTypes, BookingTypes, tree
  <2> QED BY <2>4, <2>5, <2>6, <2>7 DEF Types
<1> QED BY <1>2, <1>3

(* Saving a role changes the role of one account, and keeps its email.      *)
LEMMA RoleSaved ==
  ASSUME Types, NEW a \in Admins, SetRole(a)
  PROVE  /\ user' \in [Users -> Account \cup {None}]
         /\ Staff' = Staff
         /\ \A u \in Staff : user'[u].email = user[u].email
         /\ \A u \in Staff : user'[u].role # user[u].role =>
              form[a].u = u /\ "role" \in form[a].fields
<1>1. form[a] \in FormRow /\ form[a].u \in Staff
  BY DEF SetRole, Types, PageTypes
<1>2. CASE user' = user
  BY <1>2 DEF Types, AccountTypes, Staff
<1>3. CASE RoleChanged(form[a]) /\ user' = [user EXCEPT ![form[a].u].role = form[a].now.role]
  <2> DEFINE u == form[a].u
             row == [user[u] EXCEPT !.role = form[a].now.role]
  <2>1. u \in Users /\ user[u] \in Account /\ form[a].now.role \in RoleNames
    BY <1>1 DEF Staff, Types, AccountTypes, FormRow
  <2>2. row \in Account /\ row # None /\ row.email = user[u].email
    BY <2>1, NullIsNothing DEF Account
  <2>3. user' = [user EXCEPT ![u] = row] /\ "role" \in form[a].fields
    BY <1>3, <2>1 DEF RoleChanged, Types, AccountTypes
  <2>4. u \in Staff
    BY <1>1
  <2> HIDE DEF row
  <2>5. user' \in [Users -> Account \cup {None}] /\ user'[u] = row
        /\ \A v \in Users \ {u} : user'[v] = user[v]
    BY <2>1, <2>2, <2>3 DEF Types, AccountTypes
  <2>6. Staff' = Staff
    BY <2>2, <2>4, <2>5 DEF Staff
  <2>7. \A v \in Staff : v # u => user'[v] = user[v]
    BY <2>5 DEF Staff
  <2> QED BY <2>2, <2>3, <2>4, <2>5, <2>6, <2>7
<1>4. user' = user \/ (/\ RoleChanged(form[a])
                       /\ user' = [user EXCEPT ![form[a].u].role = form[a].now.role])
  BY DEF SetRole
<1> QED BY <1>2, <1>3, <1>4

LEMMA SetRoleTypes ==
  ASSUME Types, NEW a \in Admins, SetRole(a)
  PROVE  Types'
<1>1. form[a] # None /\ form[a].at = "role" /\ form[a] \in FormRow
  BY DEF SetRole, Types, PageTypes
<1>2. PICK row \in FormRow \cup {None} :
        /\ form' = [form EXCEPT ![a] = row]
        /\ row # None => row.u \in Staff
  BY <1>1, FormAt DEF SetRole
<1>3. AccountTypes' /\ Staff' = Staff
  BY RoleSaved DEF SetRole, Types, AccountTypes
<1>4. PageTypes'
  BY <1>2, <1>3 DEF SetRole, Types, PageTypes
<1>5. TreeTypes' /\ BookingTypes'
  BY DEF SetRole, Types, TreeTypes, BookingTypes, tree
<1>6. FormWaits'
  <2>1. \A r \in requests : r.by # None => r.by \in Admins \ {a}
    BY <1>1, Kinds DEF Types, FormWaits, AccountTypes
  <2> QED BY <1>2, <2>1 DEF SetRole, Types, FormWaits, PageTypes
<1> QED BY <1>3, <1>4, <1>5, <1>6 DEF Types

LEMMA SheetTypes ==
  ASSUME Types, NEW a \in Admins, NEW row \in Page \cup {None},
         sheet' = [sheet EXCEPT ![a] = row], setting' \in [general : Texts, rules : Texts],
         UNCHANGED <<scene, accounts, tree, requests, form, booking>>
  PROVE  Types'
BY DEF Types, AccountTypes, PageTypes, TreeTypes, BookingTypes, FormWaits, Staff, accounts, tree

LEMMA OpenSheetTypes ==
  ASSUME Types, NEW a \in Admins, NEW page \in {"general", "rules"}, OpenSheet(a, page)
  PROVE  Types'
<1>1. PICK text \in Texts :
        sheet' = [sheet EXCEPT ![a] = [page |-> page, seen |-> setting, text |-> text]]
  BY DEF OpenSheet
<1>2. [page |-> page, seen |-> setting, text |-> text] \in Page
  BY DEF Types, PageTypes, Page
<1>3. UNCHANGED <<scene, accounts, tree, requests, form, booking>>
      /\ setting' \in [general : Texts, rules : Texts]
  BY DEF OpenSheet, Types, PageTypes
<1> QED BY <1>1, <1>2, <1>3, SheetTypes

(* A page saves its own key.                                                *)
LEMMA SheetSaved ==
  ASSUME Types, NEW a \in Admins, SaveSheet(a)
  PROVE  /\ setting' \in [general : Texts, rules : Texts]
         /\ \A page \in {"general", "rules"} :
              setting'[page] # setting[page] => sheet[a].page = page
<1>1. sheet[a] \in Page /\ setting \in [general : Texts, rules : Texts]
  BY DEF SaveSheet, Types, PageTypes
<1>2. setting' = [setting EXCEPT ![sheet[a].page] = sheet[a].text]
  BY DEF SaveSheet, Saved
<1> QED BY <1>1, <1>2 DEF Page

LEMMA SaveSheetTypes ==
  ASSUME Types, NEW a \in Admins, SaveSheet(a)
  PROVE  Types'
BY SheetSaved, SheetTypes DEF SaveSheet

LEMMA TreeStepTypes ==
  ASSUME Types,
         (\E d \in Depts : SetDeptActive(d)) \/
         (\E o \in Offices, d \in Depts, active \in BOOLEAN : UpdateOffice(o, d, active))
  PROVE  Types'
<1>1. AccountTypes' /\ PageTypes' /\ BookingTypes' /\ FormWaits' /\ scene' = scene
  BY DEF SetDeptActive, UpdateOffice, Types, AccountTypes, PageTypes, BookingTypes, FormWaits,
         Staff, accounts, pages
<1>2. dept' \subseteq Depts /\ office' \in [Offices -> OfficeRow]
  <2>1. CASE \E d \in Depts : SetDeptActive(d)
    BY <2>1 DEF SetDeptActive, Types, TreeTypes
  <2>2. ASSUME NEW o \in Offices, NEW d \in Depts, NEW active \in BOOLEAN,
               UpdateOffice(o, d, active)
        PROVE  dept' \subseteq Depts /\ office' \in [Offices -> OfficeRow]
    BY <2>2 DEF UpdateOffice, Types, TreeTypes, OfficeRow
  <2> QED BY <2>1, <2>2
<1> QED BY <1>1, <1>2 DEF Types, TreeTypes
(* The appointment form, whatever is chosen.                                *)
LEMMA FillTypes ==
  ASSUME Types, UNCHANGED <<scene, accounts, tree, setting, requests, pages>>, BookingTypes'
  PROVE  Types'
BY DEF Types, AccountTypes, PageTypes, TreeTypes, FormWaits, Staff, accounts, tree, pages

BookingStep ==
  \/ \E d \in Depts : ChooseDept(d)
  \/ LoadOffices \/ LoadHosts \/ ForSelf
  \/ \E o \in Offices : ChooseOffice(o)
  \/ \E h \in Hosts : ChooseHost(h)

LEMMA BookingStepTypes ==
  ASSUME Types, BookingStep
  PROVE  /\ Types'
         /\ UNCHANGED <<scene, accounts, tree, setting, requests, pages, visits>>
         /\ FormInOffice => FormInOffice'
<1> USE DEF Types, BookingTypes
<1>1. CASE \E d \in Depts : ChooseDept(d)
  <2>1. PICK d \in Depts : Fill([Blank EXCEPT !.dept = d])
    BY <1>1 DEF ChooseDept
  <2>2. booking' = [Blank EXCEPT !.dept = d]
    BY <2>1 DEF Fill
  <2>3. BookingTypes' /\ booking'.host = None /\ booking'.hosts = {}
    BY <2>2 DEF Blank, Places
  <2>4. UNCHANGED <<scene, accounts, tree, setting, requests, pages, visits>>
    BY <2>1 DEF Fill
  <2> QED BY <2>3, <2>4, FillTypes DEF FormInOffice, BookedAsShown
<1>2. CASE LoadOffices
  <2> DEFINE S == {o \in Offices : office[o] = [dept |-> booking.dept, active |-> TRUE]}
  <2>1. Fill([booking EXCEPT !.offices = S]) /\ S \subseteq Offices
    BY <1>2 DEF LoadOffices
  <2> HIDE DEF S
  <2>2. /\ BookingTypes' /\ booking'.host = booking.host /\ booking'.hosts = booking.hosts
        /\ booking'.from = booking.from /\ booking'.office = booking.office
        /\ booking'.self = booking.self
    BY <2>1 DEF Fill
  <2>3. UNCHANGED <<scene, accounts, tree, setting, requests, pages, visits>>
    BY <2>1 DEF Fill
  <2> QED BY <2>2, <2>3, FillTypes DEF FormInOffice, BookedAsShown, Directory, accounts
<1>3. CASE LoadHosts
  <2> DEFINE S == HostsByOffice(booking.office)
  <2>1. Fill([booking EXCEPT !.hosts = S]) /\ S \subseteq Directory /\ S \subseteq Hosts
    BY <1>3 DEF LoadHosts, HostsByOffice, Directory
  <2> HIDE DEF S
  <2>2. /\ BookingTypes' /\ booking'.host = booking.host /\ booking'.hosts = S
        /\ booking'.from = booking.from /\ booking'.office = booking.office
        /\ booking'.self = booking.self
    BY <2>1 DEF Fill
  <2>3. UNCHANGED <<scene, accounts, tree, setting, requests, pages, visits>>
    BY <2>1 DEF Fill
  <2> QED BY <2>1, <2>2, <2>3, FillTypes DEF FormInOffice, BookedAsShown, Directory, accounts
<1>4. CASE ForSelf
  <2>1. CASE booking.self
    <3>1. booking' = Blank /\ UNCHANGED <<scene, accounts, tree, setting, requests, pages, visits>>
      BY <1>4, <2>1 DEF ForSelf, Fill
    <3>2. BookingTypes' /\ booking'.host = None /\ booking'.hosts = {}
      BY <3>1 DEF Blank, Places
    <3> QED BY <3>1, <3>2, FillTypes DEF FormInOffice, BookedAsShown
  <2>2. CASE ~booking.self
    <3>1. PICK h \in RowsOf(Booker) : Fill([booking EXCEPT !.self = TRUE, !.host = h])
      BY <1>4, <2>2 DEF ForSelf
    <3>2. /\ BookingTypes' /\ booking'.host = h /\ booking'.hosts = booking.hosts
          /\ booking'.self = TRUE /\ h \in Directory
      BY <3>1 DEF Fill, RowsOf, Directory
    <3>3. UNCHANGED <<scene, accounts, tree, setting, requests, pages, visits>>
      BY <3>1 DEF Fill
    <3> QED BY <3>2, <3>3, FillTypes DEF FormInOffice, BookedAsShown, Directory, accounts
  <2> QED BY <2>1, <2>2
<1>5. CASE \E o \in Offices : ChooseOffice(o)
  <2>1. PICK o \in Offices : Fill(OfficeChosen(o))
    BY <1>5 DEF ChooseOffice
  <2>2. BookingTypes' /\ booking'.host = None /\ booking'.hosts = {}
    BY <2>1 DEF Fill, OfficeChosen, Places
  <2>3. UNCHANGED <<scene, accounts, tree, setting, requests, pages, visits>>
    BY <2>1 DEF Fill
  <2> QED BY <2>2, <2>3, FillTypes DEF FormInOffice, BookedAsShown
<1>6. CASE \E h \in Hosts : ChooseHost(h)
  <2>1. PICK h \in booking.hosts : Fill([booking EXCEPT !.host = h, !.from = booking.office])
    BY <1>6 DEF ChooseHost
  <2>2. /\ BookingTypes' /\ booking'.host = h /\ booking'.hosts = booking.hosts
        /\ booking'.from = booking'.office
    BY <2>1 DEF Fill
  <2>3. UNCHANGED <<scene, accounts, tree, setting, requests, pages, visits>>
    BY <2>1 DEF Fill
  <2> QED BY <2>1, <2>2, <2>3, FillTypes DEF FormInOffice, BookedAsShown, Directory, accounts
<1> QED BY <1>1, <1>2, <1>3, <1>4, <1>5, <1>6 DEF BookingStep

LEMMA PlaceTyped ==
  ASSUME AccountTypes, NEW u \in Users
  PROVE  PlaceOf(u) \in Places
<1>1. CASE RowsOf(u) = {}
  BY <1>1 DEF PlaceOf, Places
<1>2. CASE RowsOf(u) # {}
  <2>1. (CHOOSE h \in RowsOf(u) : TRUE) \in RowsOf(u)
    BY <1>2
  <2>2. PICK h \in RowsOf(u) : PlaceOf(u) = host[h].office
    BY <1>2, <2>1 DEF PlaceOf
  <2> QED BY <2>2, RowTyped DEF RowsOf
<1> QED BY <1>1, <1>2

(* A booking on its way: what each of its reads makes of the request.       *)
BookStep(r) == Scope(r) \/ Target(r) \/ Officer(r)

LEMMA BookRequest ==
  ASSUME Types, NEW r \in requests, BookStep(r), r.op = "book" => r.host \in Directory
  PROVE  /\ r \in Book /\ UNCHANGED <<scene, accounts, tree, setting, pages, booking, visits>>
         /\ \/ requests' = requests \ {r}
            \/ \E q \in Book :
                 /\ requests' = (requests \ {r}) \cup {q}
                 /\ q.host = r.host /\ q.moved = r.moved
                 /\ \/ /\ q.at = "target" /\ q.own = PlaceOf(Booker) /\ q.own # None
                       /\ r.at = "scope"
                    \/ /\ q.at = "officer" /\ q.own = r.own /\ r.at = "target"
                       /\ host[r.host].office = r.own
                    \/ /\ q.at = "insert" /\ q.own = r.own /\ r.at = "officer"
                       /\ q.office = host[r.host].office
<1>1. r.op = "book" /\ r \in Book
  BY Kinds DEF BookStep, Scope, Target, Officer, Types, AccountTypes
<1>2. UNCHANGED <<scene, accounts, tree, setting, pages, booking, visits>>
  BY DEF BookStep, Scope, Target, Officer
<1>3. CASE Scope(r)
  <2>1. CASE PlaceOf(Booker) = None
    BY <1>1, <1>2, <1>3, <2>1 DEF Scope
  <2>2. CASE PlaceOf(Booker) # None
    <3> DEFINE q == [r EXCEPT !.at = "target", !.own = PlaceOf(Booker)]
    <3>1. requests' = (requests \ {r}) \cup {q} /\ r.at = "scope"
      BY <1>3, <2>2 DEF Scope
    <3>2. /\ q \in Book /\ q.host = r.host /\ q.moved = r.moved
          /\ q.at = "target" /\ q.own = PlaceOf(Booker)
      BY <1>1, PlaceTyped, Somebody DEF Book, Types
    <3> HIDE DEF q
    <3> QED BY <1>1, <1>2, <2>2, <3>1, <3>2
  <2> QED BY <2>1, <2>2
<1>4. CASE Target(r)
  <2>1. CASE ~InScope(r)
    BY <1>1, <1>2, <1>4, <2>1 DEF Target
  <2>2. CASE InScope(r)
    <3> DEFINE q == [r EXCEPT !.at = "officer"]
    <3>1. requests' = (requests \ {r}) \cup {q} /\ r.at = "target"
      BY <1>4, <2>2 DEF Target
    <3>2. /\ q \in Book /\ q.host = r.host /\ q.moved = r.moved
          /\ q.at = "officer" /\ q.own = r.own
      BY <1>1 DEF Book
    <3> HIDE DEF q
    <3> QED BY <1>1, <1>2, <2>2, <3>1, <3>2 DEF InScope
  <2> QED BY <2>1, <2>2
<1>5. CASE Officer(r)
  <2> DEFINE q == [r EXCEPT !.at = "insert", !.office = host[r.host].office]
  <2>1. requests' = (requests \ {r}) \cup {q} /\ r.at = "officer"
    BY <1>5 DEF Officer
  <2>2. /\ q \in Book /\ q.host = r.host /\ q.moved = r.moved
        /\ q.at = "insert" /\ q.own = r.own /\ q.office = host[r.host].office
    BY <1>1, RowTyped DEF Book, Types
  <2> HIDE DEF q
  <2> QED BY <1>1, <1>2, <2>1, <2>2
<1> QED BY <1>3, <1>4, <1>5 DEF BookStep
LEMMA SubmitTypes ==
  ASSUME Types, Submit
  PROVE  /\ Types' /\ UNCHANGED <<scene, accounts, tree, setting, pages, booking, visits>>
         /\ \E q \in Book :
              /\ requests' = requests \cup {q} /\ q.host = booking.host /\ booking.host # None
              /\ SecretaryOnly => q.at = "scope"
<1> DEFINE q == [op |-> "book", host |-> booking.host, own |-> None, office |-> None,
                 moved |-> FALSE, by |-> None,
                 at |-> IF SecretaryOnly THEN "scope" ELSE "officer"]
<1>1. requests' = requests \cup {q} /\ booking.host # None
  BY DEF Submit, FormSchema
<1>2. q \in Book /\ q.host = booking.host /\ (SecretaryOnly => q.at = "scope") /\ q.by = None
  BY <1>1 DEF Book, Places, Types, BookingTypes
<1> HIDE DEF q
<1>3. UNCHANGED <<scene, accounts, tree, setting, pages, booking, visits>>
  BY DEF Submit
<1> QED BY <1>1, <1>2, <1>3, BeginTypes DEF Request

LEMMA InsertTypes ==
  ASSUME Types, NEW r \in requests, Insert(r)
  PROVE  Types'
<1>1. BookingTypes'
  BY DEF Insert, Blank, BookingTypes, Places
<1> QED BY <1>1, Ends DEF Insert, accounts

LEMMA NoSuchRowTypes ==
  ASSUME Types, NEW r \in requests, NoSuchRow(r)
  PROVE  Types'
BY Ends DEF NoSuchRow, accounts, Types, BookingTypes

(* A request to mark somebody, or an import, begins.                        *)
LEMMA MarkBegins ==
  ASSUME Types,
         \/ \E u \in Users, active \in BOOLEAN : SetUserActive(u, active)
         \/ \E email \in Emails : ImportHosts(email)
  PROVE  /\ Types' /\ UNCHANGED <<scene, accounts, tree, setting, pages, booking, visits>>
         /\ \E q \in SetActive \cup Import :
              requests' = requests \cup {q} /\ q.at = "find" /\ q.found = None
<1>1. PICK q \in SetActive \cup Import :
        Begin(q) /\ q.at = "find" /\ q.found = None /\ q.by = None
  <2>1. ASSUME NEW u \in Users, NEW active \in BOOLEAN, SetUserActive(u, active)
        PROVE  \E q \in SetActive \cup Import :
                 Begin(q) /\ q.at = "find" /\ q.found = None /\ q.by = None
    <3> DEFINE q == [op |-> "setActive", u |-> u, active |-> active, found |-> None,
                     by |-> None, at |-> "find"]
    <3>1. Begin(q) /\ q \in SetActive /\ q.at = "find" /\ q.found = None /\ q.by = None
      BY <2>1 DEF SetUserActive, SetActive
    <3> HIDE DEF q
    <3> QED BY <3>1
  <2>2. ASSUME NEW email \in Emails, ImportHosts(email)
        PROVE  \E q \in SetActive \cup Import :
                 Begin(q) /\ q.at = "find" /\ q.found = None /\ q.by = None
    <3> DEFINE q == [op |-> "import", email |-> email, active |-> TRUE, found |-> None,
                     by |-> None, at |-> "find"]
    <3>1. Begin(q) /\ q \in Import /\ q.at = "find" /\ q.found = None /\ q.by = None
      BY <2>2 DEF ImportHosts, Import
    <3> HIDE DEF q
    <3> QED BY <3>1
  <2> QED BY <2>1, <2>2
<1>2. requests' = requests \cup {q}
      /\ UNCHANGED <<scene, accounts, tree, setting, pages, booking, visits>>
  BY <1>1 DEF Begin
<1> QED BY <1>1, <1>2, BeginTypes DEF Request

-----------------------------------------------------------------------------
(* Accounts and rows stay in step.  Rows are in step as long as nobody is   *)
(* less edited than before, and the rest of the tables is left alone.       *)
LEMMA RowsKept ==
  ASSUME RowsInStep, UNCHANGED <<user, host, away>>, torn \subseteq torn',
         \A u \in Users \ torn' : Idle(u)' => Idle(u), AccountTypes
  PROVE  RowsInStep'
<1>1. Staff' = Staff /\ Directory' = Directory
  BY DEF Staff, Directory
<1>2. \A h \in Directory : host[h].user \in Users \cup {None}
  BY RowTyped
<1> QED BY <1>1, <1>2 DEF RowsInStep

(* A request that mirrors stays in step when the tables do not change.      *)
LEMMA SyncKept ==
  ASSUME NEW r, SyncInStep(r), UNCHANGED <<user, host>>, torn \subseteq torn',
         Editing' \subseteq Editing \/ r.u \in torn'
  PROVE  SyncInStep(r)'
<1>1. Staff' = Staff /\ Directory' = Directory
  BY DEF Staff, Directory
<1> QED BY <1>1 DEF SyncInStep, Alone, Takes

LEMMA MarkKept ==
  ASSUME NEW r, MarkInStep(r), Directory \subseteq Directory',
         r.found # None => host'[r.found].user # None \/ host'[r.found].user = host[r.found].user
  PROVE  MarkInStep(r)'
BY DEF MarkInStep

(* No mirror request begins or moves.                                       *)
LEMMA NotMirroring ==
  ASSUME Types, InStep, UNCHANGED accounts, Editing' = Editing,
         \A r \in requests' \ requests : r.op \in {"setActive", "import"} => MarkInStep(r)
  PROVE  InStep'
<1>1. RowsInStep'
  BY RowsKept DEF accounts, InStep, Idle, Types
<1>2. ASSUME NEW r \in requests', r.op = "sync"
      PROVE  SyncInStep(r)'
  <2>1. r \in requests /\ SyncInStep(r)
    BY <1>2 DEF Editing, InStep
  <2> QED BY <2>1, SyncKept DEF accounts
<1>3. ASSUME NEW r \in requests', r.op \in {"setActive", "import"}
      PROVE  MarkInStep(r)'
  <2>1. MarkInStep(r)
    BY <1>3 DEF InStep
  <2> QED BY <2>1, MarkKept DEF accounts, Directory
<1> QED BY <1>1, <1>2, <1>3 DEF InStep

(* The tables that no account is in change.                                 *)
LEMMA Elsewhere ==
  ASSUME Types, InStep, UNCHANGED <<accounts, requests>>
  PROVE  InStep'
BY NotMirroring DEF Editing

(* An account is written: its request is alone, or everybody being edited   *)
(* is torn.                                                                 *)
LEMMA WriteInStep ==
  ASSUME Types, InStep, NEW u \in Users, NEW email \in Emails, NEW role \in RoleNames,
         NEW place \in Places, NEW by \in Admins \cup {None},
         Write(u, email, role, place, by), UNCHANGED <<host, away>>
  PROVE  InStep'
<1> DEFINE s == [op |-> "sync", u |-> u, email |-> email, office |-> place, by |-> by,
                 found |-> None, at |-> "find"]
<1>1. /\ requests' = requests \cup {s}
      /\ torn' = torn \cup (IF Editing = {} THEN {} ELSE {u} \cup {r.u : r \in Editing})
      /\ Free(email, u)
  BY DEF Write
<1>2. s.op = "sync" /\ s.u = u /\ s.email = email /\ s.at = "find" /\ s.found = None
  OBVIOUS
<1> HIDE DEF s
<1>3. Editing' = Editing \cup {s}
  BY <1>1, <1>2 DEF Editing
<1>4. /\ Staff' = Staff \cup {u}
      /\ user'[u].email = email
      /\ \A v \in Users \ {u} : user'[v] = user[v]
  BY WriteTypes
<1>5. Directory' = Directory /\ torn \subseteq torn' /\ host' = host /\ away' = away
  BY <1>1 DEF Directory
<1>6. \A r \in Editing : r.u \in torn' /\ u \in torn'
  BY <1>1
<1>7. \A h \in Directory : host[h].user \in Staff \cup {None} /\ host[h].user \in Users \cup {None}
  BY RowTyped DEF InStep, RowsInStep, Types
<1>8. Staff \subseteq Users
  BY DEF Staff
<1>9. RowsInStep'
  <2>1. \A v, w \in Staff' : user'[v].email = user'[w].email => v = w
    <3>1. \A v \in Staff \ {u} : user[v].email # email
      BY <1>1 DEF Free
    <3>2. \A v, w \in Staff : user[v].email = user[w].email => v = w
      BY DEF InStep, RowsInStep
    <3> QED BY <1>4, <1>8, <3>1, <3>2
  <2>2. ASSUME NEW h \in Directory', host'[h].user \notin torn' \cup {None},
               \A r \in Editing' : r.u # host'[h].user
        PROVE  host'[h].email = user'[host'[h].user].email
    <3>1. host[h].user # u /\ (\A r \in Editing : r.u # host[h].user)
          /\ host[h].user \in Users
      BY <1>2, <1>3, <1>5, <1>7, <2>2
    <3>2. host[h].email = user[host[h].user].email
      BY <1>5, <2>2, <3>1 DEF InStep, RowsInStep, Idle
    <3> QED BY <1>4, <1>5, <3>1, <3>2
  <2>3. \A h, g \in Directory' :
          host'[h].user = host'[g].user /\ host'[h].user \notin torn' \cup {None} => h = g
    BY <1>5 DEF InStep, RowsInStep
  <2>4. \A v \in away' \ torn' :
          \E h \in Directory' : host'[h].user = v /\ ~host'[h].active
    BY <1>5 DEF InStep, RowsInStep
  <2>5. \A h \in Directory' : host'[h].user \in Staff' \cup {None}
    BY <1>4, <1>5, <1>7
  <2> QED BY <2>1, <2>2, <2>3, <2>4, <2>5 DEF RowsInStep, Idle
<1>10. SyncInStep(s)'
  <2>1. s.u \in Staff'
    BY <1>2, <1>4
  <2>2. Alone(s)'
    <3>1. s.u \notin torn' => Editing = {}
      BY <1>1, <1>2
    <3> QED BY <1>2, <1>3, <1>4, <3>1 DEF Alone
  <2>3. \A v \in Staff' \ torn' : v # s.u => user'[v].email # s.email
    BY <1>1, <1>2, <1>4, <1>8 DEF Free
  <2> QED BY <1>2, <2>1, <2>2, <2>3 DEF SyncInStep, Takes
<1>11. ASSUME NEW r \in Editing
       PROVE  SyncInStep(r)'
  <2>1. SyncInStep(r) /\ r.u \in torn' /\ u \in torn'
    BY <1>6, <1>11 DEF Editing, InStep
  <2>2. \A v \in Staff' \ torn' : v \in Staff \ torn /\ user'[v] = user[v]
    BY <1>4, <1>5, <1>8, <2>1
  <2>3. Alone(r)' /\ Takes(r)'
    BY <1>5, <2>1 DEF SyncInStep, Alone, Takes
  <2> QED BY <1>4, <2>1, <2>2, <2>3 DEF SyncInStep
<1>12. ASSUME NEW r \in requests', r.op \in {"setActive", "import"}
       PROVE  MarkInStep(r)'
  <2>1. MarkInStep(r)
    BY <1>1, <1>2, <1>12 DEF InStep
  <2> QED BY <1>5, <2>1, MarkKept
<1>13. \A r \in requests' : r.op = "sync" => r \in Editing \/ r = s
  BY <1>1 DEF Editing
<1> QED BY <1>9, <1>10, <1>11, <1>12, <1>13 DEF InStep
(* The row a request finds is its account's own, or nobody's.               *)
LEMMA MatchIsFree ==
  ASSUME Types, InStep, NEW r \in Editing, NEW h \in Match(r)
  PROVE  h \in Directory /\ host[h].user \in torn \cup {None, r.u}
<1>1. h \in Directory /\ (host[h].user = r.u \/ host[h].email = r.email)
  BY DEF Match, RowsOf
<1>2. CASE host[h].user \notin torn \cup {None, r.u}
  <2> DEFINE v == host[h].user
  <2>1. v \in Staff \ torn /\ SyncInStep(r) /\ host[h].email = r.email
    BY <1>1, <1>2 DEF InStep, RowsInStep, Editing
  <2>2. ASSUME NEW q \in Editing, q.u = v
        PROVE  FALSE
    <3>1. q = r
      BY <1>2, <2>2 DEF InStep, SyncInStep, Alone, Editing
    <3> QED BY <1>2, <2>2, <3>1
  <2>3. host[h].email = user[v].email
    BY <1>1, <1>2, <2>2 DEF InStep, RowsInStep, Idle
  <2> QED BY <1>2, <2>1, <2>3 DEF SyncInStep
<1> QED BY <1>1, <1>2

LEMMA FindHostInStep ==
  ASSUME Types, InStep, NEW r \in requests, FindHost(r)
  PROVE  InStep' /\ Types'
<1>1. r \in Editing /\ r.op = "sync" /\ r.at = "find" /\ UNCHANGED accounts /\ r \in Sync
  BY Kinds DEF FindHost, Found, Editing, Types, AccountTypes
<1>2. Match(r) \subseteq Directory /\ Match(r) \subseteq Hosts
  BY DEF Match, RowsOf, Directory
<1>3. Types'
  BY <1>1, <1>2, FoundTypes DEF FindHost
<1>4. PICK q : /\ requests' = (requests \ {r}) \cup {q}
               /\ q.op = "sync" /\ q.at = "store" /\ q.u = r.u /\ q.email = r.email
               /\ \/ Match(r) = {} /\ q.found = None
                  \/ q.found \in Match(r)
  <2>1. CASE Match(r) = {}
    <3> DEFINE q == [r EXCEPT !.at = "store"]
    <3>1. requests' = (requests \ {r}) \cup {q}
      BY <2>1 DEF FindHost, Found
    <3>2. q.op = "sync" /\ q.at = "store" /\ q.u = r.u /\ q.email = r.email /\ q.found = r.found
      BY <1>1 DEF Sync
    <3>3. r.found = None
      BY <1>1 DEF InStep, SyncInStep, Takes
    <3> QED BY <2>1, <3>1, <3>2, <3>3
  <2>2. CASE Match(r) # {}
    <3>1. PICK h \in Match(r) :
            requests' = (requests \ {r}) \cup {[r EXCEPT !.at = "store", !.found = h]}
      BY <2>2 DEF FindHost, Found
    <3> DEFINE q == [r EXCEPT !.at = "store", !.found = h]
    <3>2. q.op = "sync" /\ q.at = "store" /\ q.u = r.u /\ q.email = r.email /\ q.found = h
      BY <1>1 DEF Sync
    <3> QED BY <3>1, <3>2
  <2> QED BY <2>1, <2>2
<1>5. Editing' = (Editing \ {r}) \cup {q}
  BY <1>1, <1>4 DEF Editing
<1>6. Staff' = Staff /\ Directory' = Directory /\ UNCHANGED <<user, host, torn, away>>
  BY <1>1 DEF Staff, Directory, accounts
<1>7. RowsInStep'
  <2>1. \A u \in Users : Idle(u)' => Idle(u)
    BY <1>4, <1>5 DEF Idle
  <2> QED BY <1>6, <2>1, RowsKept DEF InStep, Types
<1>8. SyncInStep(q)'
  <2>1. SyncInStep(r)
    BY <1>1 DEF InStep
  <2>2. q.u \notin torn => (\A p \in Editing' : p = q) /\ q.email = user[q.u].email
    BY <1>4, <1>5, <2>1 DEF SyncInStep, Alone
  <2>3. q.found # None => q.found \in Directory /\ host[q.found].user \in torn \cup {None, q.u}
    BY <1>1, <1>4, MatchIsFree
  <2>4. ASSUME q.u \notin torn, NEW h \in Directory, host[h].user = q.u
        PROVE  h = q.found
    <3>1. h \in RowsOf(r.u) /\ Match(r) = RowsOf(r.u)
      BY <1>4, <2>4 DEF Match, RowsOf
    <3>2. q.found \in Directory /\ host[q.found].user = q.u
      BY <1>4, <3>1 DEF RowsOf
    <3>3. q.u # None
      BY <1>1, <1>4, NullIsNothing DEF Sync
    <3> QED BY <2>4, <3>2, <3>3 DEF InStep, RowsInStep
  <2> QED BY <1>4, <1>6, <2>1, <2>2, <2>3, <2>4 DEF SyncInStep, Alone, Takes
<1>9. ASSUME NEW p \in Editing \ {r}
      PROVE  SyncInStep(p)'
  <2>1. SyncInStep(p) /\ p.u \in torn'
    BY <1>1, <1>6, <1>9 DEF InStep, Editing, SyncInStep, Alone
  <2> QED BY <1>6, <2>1, SyncKept
<1>10. ASSUME NEW p \in requests', p.op \in {"setActive", "import"}
       PROVE  MarkInStep(p)'
  <2>1. MarkInStep(p)
    BY <1>4, <1>10 DEF InStep
  <2> QED BY <1>6, <2>1, MarkKept
<1>11. \A p \in requests' : p.op = "sync" => p \in Editing \ {r} \/ p = q
  BY <1>4 DEF Editing
<1> QED BY <1>3, <1>7, <1>8, <1>9, <1>10, <1>11 DEF InStep

(* What it then writes: no account in step loses a row by it.               *)
LEMMA StoreHostInStep ==
  ASSUME Types, InStep, NEW r \in requests, StoreHost(r)
  PROVE  /\ InStep' /\ Types'
         /\ \A h \in Directory : host[h].user \notin torn \cup {None} =>
              host'[h].user = host[h].user
<1>1. /\ r \in Editing /\ r.op = "sync" /\ r.at = "store" /\ r \in Sync /\ SyncInStep(r)
      /\ requests' = Rest(r) /\ user' = user /\ torn' = torn
  BY Kinds DEF StoreHost, Editing, Types, AccountTypes, InStep
<1>2. /\ r.found # None => r.found \in Directory /\ host[r.found].user \in torn \cup {None, r.u}
      /\ r.u \notin torn => \A g \in Directory : host[g].user = r.u => g = r.found
  BY <1>1 DEF SyncInStep, Takes
<1>3. PICK h \in Hosts :
           /\ IF r.found = None THEN h \notin Directory ELSE h = r.found
           /\ \A g \in Hosts \ {h} : host'[g] = host[g]
           /\ host' \in [Hosts -> HostRow \cup {None}]
           /\ Directory' = Directory \cup {h}
           /\ host'[h].email = r.email /\ host'[h].user = r.u
           /\ r.found # None => host'[h].active = host[h].active
           /\ away' \subseteq away
           /\ \A u \in away \ away' : r.found # None /\ host[r.found].user = u /\ u # r.u
  BY <1>2, Stored
<1>4. Types'
  BY <1>2, StoreHostTypes
<1>5. Editing' = Editing \ {r} /\ Staff' = Staff
  <2>1. \A p \in Rest(r) : p.op # "book" => p \in requests \ {r}
    BY <1>1, RestTypes
  <2>2. \A p \in requests \ {r} : p.op # "book" => p \in Rest(r)
    BY DEF Rest, Moved
  <2> QED BY <1>1, <2>1, <2>2 DEF Editing, Staff
<1>6. \A g \in Directory : g \in Hosts
  BY DEF Directory
<1>7. \A g \in Directory : host[g].user \notin torn \cup {None} => host'[g].user = host[g].user
  BY <1>1, <1>2, <1>3, <1>6
<1>8. r.u \in Users /\ r.u # None /\ r.u \in Staff
  BY <1>1, NullIsNothing DEF Sync, SyncInStep
<1>9. RowsInStep'
  <2>1. \A u, v \in Staff' : user'[u].email = user'[v].email => u = v
    BY <1>1, <1>5 DEF InStep, RowsInStep
  <2>2. \A g \in Directory' : host'[g].user \in Staff' \cup {None}
    BY <1>3, <1>5, <1>6, <1>8 DEF InStep, RowsInStep
  <2>3. ASSUME NEW g \in Directory', NEW k \in Directory', host'[g].user = host'[k].user,
               host'[g].user \notin torn' \cup {None}
        PROVE  g = k
    <3>1. CASE g # h /\ k # h
      BY <1>1, <1>3, <1>6, <2>3, <3>1 DEF InStep, RowsInStep
    <3>2. CASE g = h /\ k # h
      <4>1. k \in Directory /\ host[k].user = r.u /\ r.u \notin torn
        BY <1>1, <1>3, <1>6, <2>3, <3>2
      <4>2. k = r.found
        BY <1>2, <4>1
      <4> QED BY <1>3, <1>6, <3>2, <4>1, <4>2, NullIsNothing
    <3>3. CASE k = h /\ g # h
      <4>1. g \in Directory /\ host[g].user = r.u /\ r.u \notin torn
        BY <1>1, <1>3, <1>6, <2>3, <3>3
      <4>2. g = r.found
        BY <1>2, <4>1
      <4> QED BY <1>3, <1>6, <3>3, <4>1, <4>2, NullIsNothing
    <3> QED BY <3>1, <3>2, <3>3
  <2>4. ASSUME NEW g \in Directory', host'[g].user \notin torn' \cup {None},
               \A p \in Editing' : p.u # host'[g].user
        PROVE  host'[g].email = user'[host'[g].user].email
    <3>1. CASE g = h
      BY <1>1, <1>3, <2>4, <3>1 DEF SyncInStep, Alone
    <3>2. CASE g # h
      <4>1. g \in Directory /\ host'[g] = host[g]
        BY <1>3, <1>6, <3>2
      <4>2. host[g].user # r.u
        BY <1>1, <1>2, <1>3, <1>6, <2>4, <3>2, <4>1, NullIsNothing
      <4>3. \A p \in Editing : p.u # host[g].user
        BY <1>5, <2>4, <4>1, <4>2
      <4> QED BY <1>1, <2>4, <4>1, <4>3 DEF InStep, RowsInStep, Idle
    <3> QED BY <3>1, <3>2
  <2>5. ASSUME NEW u \in away' \ torn'
        PROVE  \E g \in Directory' : host'[g].user = u /\ ~host'[g].active
    <3>1. PICK g \in Directory : host[g].user = u /\ ~host[g].active
      BY <1>1, <1>3, <2>5 DEF InStep, RowsInStep
    <3>2. u # None
      BY <1>3, <2>5, NullIsNothing DEF Types, AccountTypes
    <3>3. CASE g # h
      BY <1>3, <1>6, <3>1, <3>3
    <3>4. CASE g = h
      <4>1. r.found = g /\ r.found # None
        BY <1>3, <3>4, NullIsNothing
      <4>2. u = r.u
        BY <1>1, <1>2, <2>5, <3>1, <3>2, <4>1
      <4> QED BY <1>3, <3>1, <3>4, <4>1, <4>2
    <3> QED BY <3>3, <3>4
  <2> QED BY <2>1, <2>2, <2>3, <2>4, <2>5 DEF RowsInStep, Idle
<1>10. ASSUME NEW p \in Editing \ {r}
       PROVE  SyncInStep(p)'
  <2>1. SyncInStep(p) /\ p.u \in torn /\ r.u \in torn
    BY <1>1, <1>10 DEF InStep, Editing, SyncInStep, Alone
  <2>2. p.found # None /\ p.at # "find" =>
          p.found \in Directory' /\ host'[p.found].user \in torn \cup {None, p.u}
    BY <1>3, <1>6, <2>1 DEF SyncInStep, Takes
  <2> QED BY <1>1, <1>5, <2>1, <2>2 DEF SyncInStep, Alone, Takes
<1>11. ASSUME NEW p \in requests', p.op \in {"setActive", "import"}
       PROVE  MarkInStep(p)'
  <2>1. MarkInStep(p)
    BY <1>1, <1>11, RestTypes DEF InStep
  <2>2. p.found # None => p.found \in Directory
    BY <2>1 DEF MarkInStep
  <2> QED BY <1>3, <1>6, <1>8, <2>1, <2>2, MarkKept
<1>12. \A p \in requests' : p.op = "sync" => p \in Editing \ {r}
  BY <1>1, RestTypes DEF Editing
<1> QED BY <1>4, <1>7, <1>9, <1>10, <1>11, <1>12 DEF InStep
LEMMA DieInStep ==
  ASSUME Types, InStep, NEW r \in requests, Die(r)
  PROVE  InStep'
<1>1. /\ requests' = requests \ {r} /\ UNCHANGED <<user, host, away>>
      /\ torn \subseteq torn' /\ (r.op = "sync" => r.u \in torn')
  BY DEF Die
<1>2. RowsInStep'
  <2>1. \A u \in Users \ torn' : Idle(u)' => Idle(u)
    BY <1>1 DEF Idle, Editing
  <2> QED BY <1>1, <2>1, RowsKept DEF InStep, Types
<1>3. ASSUME NEW q \in requests', q.op = "sync"
      PROVE  SyncInStep(q)'
  <2>1. SyncInStep(q) /\ Editing' \subseteq Editing
    BY <1>1, <1>3 DEF InStep, Editing
  <2> QED BY <1>1, <2>1, SyncKept
<1>4. ASSUME NEW q \in requests', q.op \in {"setActive", "import"}
      PROVE  MarkInStep(q)'
  <2>1. MarkInStep(q)
    BY <1>1, <1>4 DEF InStep
  <2> QED BY <1>1, <2>1, MarkKept DEF Directory
<1> QED BY <1>2, <1>3, <1>4 DEF InStep

LEMMA FindRowInStep ==
  ASSUME Types, InStep, NEW r \in requests, FindRow(r)
  PROVE  InStep' /\ Types'
<1> DEFINE found == IF r.op = "setActive" THEN RowsOf(r.u)
                    ELSE {h \in Directory : host[h].email = r.email}
<1>1. /\ r \in SetActive \cup Import /\ Found(r, found) /\ r.op \in {"setActive", "import"}
      /\ r.op = "setActive" => found # {}
  BY Kinds DEF FindRow, Types, AccountTypes
<1>2. /\ found \subseteq Directory /\ found \subseteq Hosts
      /\ r.op = "setActive" => \A h \in found : host[h].user = r.u /\ r.u # None
  BY <1>1, NullIsNothing DEF RowsOf, Directory, SetActive, Import
<1> HIDE DEF found
<1>3. Types' /\ UNCHANGED accounts
  BY <1>1, <1>2, FoundTypes DEF Found
<1>4. PICK q : /\ requests' = (requests \ {r}) \cup {q} /\ q.op = r.op
               /\ \/ found = {} /\ q.found = r.found
                  \/ q.found \in found
  <2>1. CASE found = {}
    <3> DEFINE q == [r EXCEPT !.at = "store"]
    <3>1. requests' = (requests \ {r}) \cup {q}
      BY <1>1, <2>1 DEF Found
    <3>2. q.op = r.op /\ q.found = r.found
      BY <1>1 DEF SetActive, Import
    <3> QED BY <2>1, <3>1, <3>2
  <2>2. CASE found # {}
    <3>1. PICK h \in found :
            requests' = (requests \ {r}) \cup {[r EXCEPT !.at = "store", !.found = h]}
      BY <1>1, <2>2 DEF Found
    <3> DEFINE q == [r EXCEPT !.at = "store", !.found = h]
    <3>2. q.op = r.op /\ q.found = h
      BY <1>1 DEF SetActive, Import
    <3> QED BY <3>1, <3>2
  <2> QED BY <2>1, <2>2
<1>5. MarkInStep(q)
  <2>1. MarkInStep(r)
    BY <1>1 DEF InStep
  <2>2. CASE q.found \in found
    <3>1. q.found \in Directory /\ q.found # None
          /\ (r.op = "setActive" => host[q.found].user # None)
      BY <1>2, <2>2, NullIsNothing
    <3> QED BY <1>4, <3>1 DEF MarkInStep
  <2>3. CASE found = {} /\ q.found = r.found
    BY <1>1, <1>4, <2>1, <2>3 DEF MarkInStep
  <2> QED BY <1>4, <2>2, <2>3
<1>6. Editing' = Editing
  BY <1>1, <1>4 DEF Editing
<1> QED BY <1>3, <1>4, <1>5, <1>6, NotMirroring

LEMMA StoreRowInStep ==
  ASSUME Types, InStep, NEW r \in requests, StoreRow(r)
  PROVE  /\ InStep' /\ Types'
         /\ \A h \in Directory : /\ host'[h].user = host[h].user
                                 /\ host'[h].office = host[h].office
         /\ Directory \subseteq Directory'
         /\ \A h \in Directory' \ Directory : host'[h].user = None
<1>1. /\ r.op \in {"setActive", "import"} /\ MarkInStep(r) /\ r.at = "store"
      /\ requests' = requests \ {r} /\ user' = user /\ torn' = torn
  BY DEF StoreRow, InStep
<1>2. PICK h \in Hosts :
           /\ IF r.found = None THEN h \notin Directory /\ away' = away /\ host'[h].user = None
              ELSE /\ h = r.found /\ host'[h].active = r.active
                   /\ host'[h].user = host[h].user /\ host'[h].email = host[h].email
                   /\ host'[h].office = host[h].office
                   /\ away' = IF r.active THEN away \ {host[h].user}
                              ELSE away \cup {host[h].user}
           /\ \A g \in Hosts \ {h} : host'[g] = host[g]
           /\ host' \in [Hosts -> HostRow \cup {None}]
           /\ Directory' = Directory \cup {h}
  BY <1>1, Marked
<1>3. Types'
  BY <1>1, StoreRowTypes
<1>4. \A g \in Directory : g \in Hosts
  BY DEF Directory
<1>5. r.found # None => r.found \in Directory
  BY <1>1 DEF MarkInStep
<1>6. /\ \A g \in Directory : /\ host'[g].user = host[g].user
                              /\ host'[g].email = host[g].email
                              /\ host'[g].office = host[g].office
      /\ \A g \in Directory' \ Directory : host'[g].user = None
  BY <1>2, <1>4, <1>5
<1>7. Staff' = Staff /\ Editing' = Editing /\ Directory \subseteq Directory'
  BY <1>1, <1>2 DEF Staff, Editing
<1>8. RowsInStep'
  <2>1. \A g \in Directory' : host'[g].user \in Staff' \cup {None}
    BY <1>6, <1>7 DEF InStep, RowsInStep
  <2>2. \A g, k \in Directory' :
          host'[g].user = host'[k].user /\ host'[g].user \notin torn' \cup {None} => g = k
    BY <1>1, <1>6 DEF InStep, RowsInStep
  <2>3. ASSUME NEW g \in Directory', host'[g].user \notin torn' \cup {None},
               \A p \in Editing' : p.u # host'[g].user
        PROVE  host'[g].email = user'[host'[g].user].email
    <3>1. g \in Directory
      BY <1>6, <2>3
    <3> QED BY <1>1, <1>6, <1>7, <2>3, <3>1 DEF InStep, RowsInStep, Idle
  <2>4. ASSUME NEW u \in away' \ torn'
        PROVE  \E g \in Directory' : host'[g].user = u /\ ~host'[g].active
    <3>1. CASE r.found = None
      <4>1. PICK g \in Directory : host[g].user = u /\ ~host[g].active
        BY <1>1, <1>2, <2>4, <3>1 DEF InStep, RowsInStep
      <4> QED BY <1>2, <1>4, <3>1, <4>1
    <3>2. CASE r.found # None /\ u = host[h].user
      <4>1. ~r.active
        BY <1>2, <2>4, <3>2, Kinds, <1>1 DEF Types, AccountTypes, SetActive, Import
      <4>2. host'[h].user = u /\ host'[h].active = FALSE /\ h \in Directory'
        <5>1. r.active \in BOOLEAN
          BY Kinds, <1>1 DEF Types, AccountTypes, SetActive, Import
        <5> QED BY <1>2, <3>2, <4>1, <5>1
      <4> QED BY <4>2
    <3>3. CASE r.found # None /\ u # host[h].user
      <4>1. PICK g \in Directory : host[g].user = u /\ ~host[g].active
        BY <1>1, <1>2, <2>4, <3>3 DEF InStep, RowsInStep
      <4> QED BY <1>2, <1>4, <3>3, <4>1
    <3> QED BY <3>1, <3>2, <3>3
  <2>5. \A u, v \in Staff' : user'[u].email = user'[v].email => u = v
    BY <1>1, <1>7 DEF InStep, RowsInStep
  <2> QED BY <2>1, <2>2, <2>3, <2>4, <2>5 DEF RowsInStep, Idle
<1>9. ASSUME NEW p \in requests', p.op = "sync"
      PROVE  SyncInStep(p)'
  <2>1. SyncInStep(p) /\ p.u # None
    BY <1>1, <1>9, Kinds, NullIsNothing DEF InStep, Types, AccountTypes, Sync
  <2>2. Alone(p)'
    BY <1>1, <1>7, <2>1 DEF SyncInStep, Alone
  <2>3. Takes(p)'
    <3>1. p.found # None /\ p.at # "find" =>
            p.found \in Directory' /\ host'[p.found].user \in torn \cup {None, p.u}
      BY <1>6, <1>7, <2>1 DEF SyncInStep, Takes
    <3>2. p.at # "find" /\ p.u \notin torn =>
            \A g \in Directory' : host'[g].user = p.u => g = p.found
      BY <1>6, <2>1 DEF SyncInStep, Takes
    <3> QED BY <1>1, <2>1, <3>1, <3>2 DEF SyncInStep, Takes
  <2> QED BY <1>1, <1>7, <2>1, <2>2, <2>3 DEF SyncInStep
<1>10. ASSUME NEW p \in requests', p.op \in {"setActive", "import"}
       PROVE  MarkInStep(p)'
  <2>1. MarkInStep(p)
    BY <1>1, <1>10 DEF InStep
  <2> QED BY <1>6, <1>7, <2>1, MarkKept DEF MarkInStep
<1> QED BY <1>3, <1>6, <1>7, <1>8, <1>9, <1>10 DEF InStep

LEMMA SetRoleInStep ==
  ASSUME Types, InStep, NEW a \in Admins, SetRole(a)
  PROVE  InStep'
<1>1. /\ Staff' = Staff /\ (\A u \in Staff : user'[u].email = user[u].email)
      /\ UNCHANGED <<host, torn, away, requests>>
  BY RoleSaved DEF SetRole
<1>2. Editing' = Editing /\ Directory' = Directory
  BY <1>1 DEF Editing, Directory
<1>3. RowsInStep'
  <2>1. \A g \in Directory : host[g].user \notin {None} => host[g].user \in Staff
    BY DEF InStep, RowsInStep
  <2> QED BY <1>1, <1>2, <2>1 DEF InStep, RowsInStep, Idle
<1>4. ASSUME NEW p \in requests, SyncInStep(p)
      PROVE  SyncInStep(p)'
  BY <1>1, <1>2, <1>4 DEF SyncInStep, Alone, Takes
<1>5. ASSUME NEW p \in requests, MarkInStep(p)
      PROVE  MarkInStep(p)'
  BY <1>1, <1>2, <1>5 DEF MarkInStep
<1> QED BY <1>1, <1>3, <1>4, <1>5 DEF InStep
-----------------------------------------------------------------------------
(* Bookings stay in their office.  Where somebody sits is read off the host *)
(* table alone.                                                             *)
LEMMA SameChoice ==
  ASSUME NEW S, NEW T, S = T
  PROVE  (CHOOSE x \in S : TRUE) = (CHOOSE x \in T : TRUE)
OBVIOUS

LEMMA PlaceKept ==
  ASSUME NEW u, Directory \subseteq Directory', u # None,
         \A h \in Directory : host'[h].user = host[h].user /\ host'[h].office = host[h].office,
         \A h \in Directory' \ Directory : host'[h].user = None
  PROVE  PlaceOf(u)' = PlaceOf(u)
<1>1. RowsOf(u)' = RowsOf(u)
  BY DEF RowsOf
<1>2. (CHOOSE h \in RowsOf(u)' : TRUE) = (CHOOSE h \in RowsOf(u) : TRUE)
  BY <1>1, SameChoice
<1>3. CASE RowsOf(u) = {}
  BY <1>1, <1>3 DEF PlaceOf
<1>4. CASE RowsOf(u) # {}
  <2>1. (CHOOSE h \in RowsOf(u) : TRUE) \in Directory
    BY <1>4 DEF RowsOf
  <2> DEFINE k == CHOOSE h \in RowsOf(u) : TRUE
             l == CHOOSE h \in RowsOf(u)' : TRUE
  <2>2. l = k /\ k \in Directory
    BY <1>2, <2>1
  <2>3. PlaceOf(u) = host[k].office /\ PlaceOf(u)' = host'[l].office
    BY <1>1, <1>4 DEF PlaceOf
  <2> HIDE DEF k, l
  <2> QED BY <2>2, <2>3
<1> QED BY <1>3, <1>4

LEMMA OfficeKept ==
  ASSUME Types, InOffice, UNCHANGED <<scene, booking, visits>>,
         Directory \subseteq Directory',
         \A h \in Directory : host'[h].user = host[h].user /\ host'[h].office = host[h].office,
         \A h \in Directory' \ Directory : host'[h].user = None,
         \A r \in requests' \ requests : r.op = "book" =>
           /\ r.host \in Directory
           /\ SecretaryOnly /\ ~r.moved => StillThere(r)
  PROVE  InOffice'
<1>1. PlaceOf(Booker)' = PlaceOf(Booker) /\ SecretaryOnly' = SecretaryOnly
  BY PlaceKept, Somebody, NullIsNothing DEF SecretaryOnly, InitialRole
<1>2. FormInOffice'
  BY DEF InOffice, FormInOffice, BookedAsShown
<1>3. BookedWithinOffice'
  BY <1>1 DEF InOffice, BookedWithinOffice
<1>4. ASSUME NEW r \in requests', r.op = "book"
      PROVE  r.host \in Directory' /\ (SecretaryOnly' /\ ~r.moved => StillThere(r)')
  <2>1. r.host \in Directory /\ (SecretaryOnly /\ ~r.moved => StillThere(r))
    BY <1>4 DEF InOffice
  <2> QED BY <1>1, <2>1 DEF StillThere
<1> QED BY <1>2, <1>3, <1>4 DEF InOffice

(* The same where the host table is not touched and no booking moves on.    *)
LEMMA OfficeElsewhere ==
  ASSUME Types, InOffice, UNCHANGED <<scene, host, booking, visits>>,
         \A r \in requests' \ requests : r.op # "book"
  PROVE  InOffice'
<1>1. Directory' = Directory
  BY DEF Directory
<1> QED BY <1>1, OfficeKept

(* An officer who is moved moves every booking on its way.                  *)
LEMMA StoreHostInOffice ==
  ASSUME Types, InStep, InOffice, NEW r \in requests, StoreHost(r)
  PROVE  InOffice'
<1>1. UNCHANGED <<scene, booking, visits>> /\ r.op = "sync" /\ requests' = Rest(r)
  BY DEF StoreHost
<1>2. Directory \subseteq Directory'
  <2>1. r.found # None => r.found \in Directory
    BY <1>1 DEF StoreHost, InStep, SyncInStep, Takes
  <2> QED BY <2>1, Stored
<1>3. FormInOffice'
  BY <1>1, <1>2 DEF InOffice, FormInOffice, BookedAsShown
<1>4. ASSUME NEW q \in requests', q.op = "book"
      PROVE  q.host \in Directory' /\ q.moved
  <2>1. q \in {[p EXCEPT !.moved = TRUE] : p \in Moved(r)}
    BY <1>1, <1>4 DEF Rest, Moved
  <2>2. PICK p \in Moved(r) : q = [p EXCEPT !.moved = TRUE]
    BY <2>1
  <2>3. p \in requests /\ p \in Book /\ p.op = "book"
    BY Kinds DEF Moved, Types, AccountTypes
  <2>4. q.host = p.host /\ q.moved
    BY <2>2, <2>3 DEF Book
  <2> QED BY <1>2, <2>3, <2>4 DEF InOffice
<1>5. BookedWithinOffice'
  BY <1>1 DEF InOffice, BookedWithinOffice, SecretaryOnly, InitialRole
<1> QED BY <1>3, <1>4, <1>5 DEF InOffice

LEMMA BookStepInOffice ==
  ASSUME Types, InStep, InOffice, NEW r \in requests, BookStep(r)
  PROVE  Types' /\ InStep' /\ InOffice'
<1>1. r.op = "book"
  BY DEF BookStep, Scope, Target, Officer
<1>2. /\ r.host \in Directory /\ (SecretaryOnly /\ ~r.moved => StillThere(r))
  BY <1>1 DEF InOffice
<1>3. /\ r \in Book /\ UNCHANGED <<scene, accounts, tree, setting, pages, booking, visits>>
      /\ \/ requests' = requests \ {r}
         \/ \E q \in Book :
              /\ requests' = (requests \ {r}) \cup {q}
              /\ q.host = r.host /\ q.moved = r.moved
              /\ \/ /\ q.at = "target" /\ q.own = PlaceOf(Booker) /\ q.own # None
                    /\ r.at = "scope"
                 \/ /\ q.at = "officer" /\ q.own = r.own /\ r.at = "target"
                    /\ host[r.host].office = r.own
                 \/ /\ q.at = "insert" /\ q.own = r.own /\ r.at = "officer"
                    /\ q.office = host[r.host].office
  BY <1>2, BookRequest
<1>4. UNCHANGED <<user, host, torn, away>>
  BY <1>3 DEF accounts
<1>5. CASE requests' = requests \ {r}
  <2>1. Types'
    BY <1>3, <1>4, <1>5, Ends DEF Types, BookingTypes
  <2>2. Editing' = Editing /\ requests' \ requests = {}
    BY <1>1, <1>5 DEF Editing
  <2>3. InStep'
    BY <1>3, <2>2, NotMirroring
  <2> QED BY <1>3, <1>4, <2>1, <2>2, <2>3, OfficeElsewhere
<1>6. ASSUME NEW q \in Book, requests' = (requests \ {r}) \cup {q},
             q.host = r.host, q.moved = r.moved,
             \/ /\ q.at = "target" /\ q.own = PlaceOf(Booker) /\ q.own # None
                /\ r.at = "scope"
             \/ /\ q.at = "officer" /\ q.own = r.own /\ r.at = "target"
                /\ host[r.host].office = r.own
             \/ /\ q.at = "insert" /\ q.own = r.own /\ r.at = "officer"
                /\ q.office = host[r.host].office
      PROVE  Types' /\ InStep' /\ InOffice'
  <2>1. q \in Request /\ q.by = r.by /\ q.op = "book"
    BY <1>3 DEF Book, Request
  <2>2. Types'
    BY <1>3, <1>6, <2>1, GoesOn
  <2>3. Editing' = Editing
    BY <1>1, <1>6, <2>1 DEF Editing
  <2>4. InStep'
    BY <1>3, <1>6, <2>1, <2>3, NotMirroring
  <2>5. SecretaryOnly /\ ~q.moved => StillThere(q)
    BY <1>2, <1>6 DEF StillThere
  <2>6. Directory' = Directory
    BY <1>4 DEF Directory
  <2>7. InOffice'
    BY <1>2, <1>3, <1>4, <1>6, <2>5, <2>6, OfficeKept
  <2> QED BY <2>2, <2>4, <2>7
<1> QED BY <1>3, <1>5, <1>6

LEMMA InsertInOffice ==
  ASSUME Types, InStep, InOffice, NEW r \in requests, Insert(r)
  PROVE  InStep' /\ InOffice'
<1>1. /\ r.op = "book" /\ r.at = "insert" /\ requests' = requests \ {r} /\ booking' = Blank
      /\ visits' = {[host |-> r.host, office |-> r.office, moved |-> r.moved,
                     own |-> PlaceOf(Booker)]}
      /\ UNCHANGED <<scene, user, host, torn, away>> /\ UNCHANGED accounts
  BY DEF Insert, accounts
<1>2. Editing' = Editing /\ requests' \ requests = {}
  BY <1>1 DEF Editing
<1>3. Directory' = Directory /\ SecretaryOnly' = SecretaryOnly
  BY <1>1 DEF Directory, SecretaryOnly, InitialRole
<1>4. InStep'
  BY <1>1, <1>2, NotMirroring
<1>5. PlaceOf(Booker)' = PlaceOf(Booker)
  BY <1>1, <1>3, PlaceKept, Somebody, NullIsNothing
<1>6. FormInOffice'
  BY <1>1 DEF FormInOffice, Blank, BookedAsShown
<1>7. BookedWithinOffice'
  BY <1>1, <1>3 DEF BookedWithinOffice, InOffice, StillThere
<1>8. ASSUME NEW q \in requests', q.op = "book"
      PROVE  q.host \in Directory' /\ (SecretaryOnly' /\ ~q.moved => StillThere(q)')
  <2>1. q.host \in Directory /\ (SecretaryOnly /\ ~q.moved => StillThere(q))
    BY <1>1, <1>8 DEF InOffice
  <2> QED BY <1>1, <1>3, <1>5, <2>1 DEF StillThere
<1> QED BY <1>4, <1>6, <1>7, <1>8 DEF InOffice
-----------------------------------------------------------------------------
(* At first every account has its row, and nobody is being edited.          *)
LEMMA DirectoryStarts ==
  ASSUME Init
  PROVE  DirectoryIInv
<1> DEFINE email == OneEach(Users, Emails)
           row == OneEach(Users, Hosts)
<1>1. /\ email \in [Users -> Emails] /\ row \in [Users -> Hosts]
      /\ \A x, y \in Users : email[x] = email[y] => x = y
      /\ \A x, y \in Users : row[x] = row[y] => x = y
  BY OneEachIs
<1>2. PICK place \in [scene.staff -> scene.places] :
       /\ user = [u \in Users |-> IF u \in scene.staff
                   THEN [email |-> email[u], role |-> InitialRole] ELSE None]
       /\ host = [h \in Hosts |->
            IF \E u \in scene.staff : row[u] = h
            THEN LET u == CHOOSE v \in scene.staff : row[v] = h
                 IN [email |-> email[u], user |-> u, office |-> place[u], active |-> TRUE]
            ELSE None]
  BY DEF Init
<1> HIDE DEF email, row
<1>3. scene \in Scenes /\ scene.staff \subseteq Users /\ scene.places \subseteq Places
  BY Somebody DEF Init
<1>4. ASSUME NEW u \in scene.staff
      PROVE  user[u] = [email |-> email[u], role |-> InitialRole] /\ user[u] \in Account
             /\ user[u] # None /\ user[u].email = email[u]
  <2>1. user[u] = [email |-> email[u], role |-> InitialRole]
    BY <1>2, <1>3, <1>4
  <2>2. user[u] \in Account /\ user[u].email = email[u]
    BY <1>1, <1>3, <2>1 DEF Account, InitialRole, RoleNames
  <2> QED BY <2>1, <2>2, NullIsNothing
<1>5. Staff = scene.staff /\ user \in [Users -> Account \cup {None}]
  <2>1. \A u \in Users \ scene.staff : user[u] = None
    BY <1>2
  <2>2. \A u \in Users : user[u] \in Account \cup {None}
    BY <1>4, <2>1
  <2>3. user = [u \in Users |-> user[u]]
    BY <1>2
  <2> HIDE DEF Account
  <2> QED BY <1>3, <1>4, <2>1, <2>2, <2>3 DEF Staff
<1>6. ASSUME NEW h \in Hosts, \E u \in scene.staff : row[u] = h
      PROVE  host[h] \in HostRow /\ host[h] # None /\ host[h].user \in scene.staff
             /\ row[host[h].user] = h /\ host[h].email = email[host[h].user]
             /\ host[h].active
  <2> DEFINE u == CHOOSE v \in scene.staff : row[v] = h
  <2>1. u \in scene.staff /\ row[u] = h
    BY <1>6
  <2>2. host[h] = [email |-> email[u], user |-> u, office |-> place[u], active |-> TRUE]
    BY <1>2, <1>6
  <2> HIDE DEF u
  <2>3. place[u] \in Places
    BY <1>3, <2>1
  <2>4. host[h] \in HostRow /\ host[h].user = u /\ host[h].email = email[u] /\ host[h].active
    BY <1>1, <1>3, <2>1, <2>2, <2>3 DEF HostRow
  <2> QED BY <2>1, <2>4, NullIsNothing
<1>7. \A h \in Hosts : (~ \E u \in scene.staff : row[u] = h) => host[h] = None
  BY <1>2
<1>8. host \in [Hosts -> HostRow \cup {None}]
  <2>1. \A h \in Hosts : host[h] \in HostRow \cup {None}
    BY <1>6, <1>7
  <2>2. host = [h \in Hosts |-> host[h]]
    BY <1>2
  <2> QED BY <2>1, <2>2
<1>9. \A h \in Directory : h \in Hosts /\ host[h].user \in scene.staff
                           /\ row[host[h].user] = h /\ host[h].email = email[host[h].user]
  BY <1>6, <1>7 DEF Directory
<1>10. requests = {} /\ torn = {} /\ away = {} /\ visits = {} /\ booking = Blank
       /\ form = [a \in Admins |-> None] /\ sheet = [a \in Admins |-> None] /\ dept = Depts
  BY DEF Init
<1>11. Types
  <2>1. AccountTypes
    BY <1>5, <1>8, <1>10 DEF AccountTypes
  <2>2. PageTypes
    <3>1. setting \in [general : Texts, rules : Texts]
      BY Somebody DEF Init
    <3> QED BY <1>10, <3>1 DEF PageTypes
  <2>3. TreeTypes
    <3>1. office \in [Offices -> OfficeRow]
      BY Somebody DEF Init, OfficeRow
    <3> QED BY <1>3, <1>10, <3>1 DEF TreeTypes
  <2>4. BookingTypes /\ FormWaits
    BY <1>10 DEF BookingTypes, FormWaits, Blank, Places
  <2> QED BY <2>1, <2>2, <2>3, <2>4 DEF Types
<1>12. InStep
  <2>0. \A u \in Staff : user[u].email = email[u] /\ u \in Users
    BY <1>3, <1>4, <1>5
  <2>1. \A u, v \in Staff : user[u].email = user[v].email => u = v
    BY <1>1, <2>0
  <2>2. \A h \in Directory : /\ host[h].user \in Staff
                             /\ host[h].email = user[host[h].user].email
    BY <1>4, <1>5, <1>9
  <2>3. \A h, g \in Directory : host[h].user = host[g].user => h = g
    BY <1>9
  <2>4. RowsInStep
    BY <1>10, <2>1, <2>2, <2>3 DEF RowsInStep
  <2> QED BY <1>10, <2>4 DEF InStep
<1>13. InOffice
  BY <1>10 DEF InOffice, FormInOffice, BookedAsShown, BookedWithinOffice, Blank
<1> QED BY <1>11, <1>12, <1>13 DEF DirectoryIInv

(* Every step keeps it: what requests do,                                   *)
LEMMA RequestKeeps ==
  ASSUME DirectoryIInv, NEW r \in requests,
         \/ FindHost(r) \/ StoreHost(r) \/ FindRow(r) \/ StoreRow(r) \/ NoSuchRow(r) \/ Die(r)
         \/ Scope(r) \/ Target(r) \/ Officer(r) \/ Insert(r)
  PROVE  DirectoryIInv'
<1> USE DEF DirectoryIInv
<1>1. CASE FindHost(r)
  <2>1. UNCHANGED <<scene, host, booking, visits>> /\ \A q \in requests' \ requests : q.op # "book"
    <3>1. r \in Sync
      BY <1>1, Kinds DEF FindHost, Types, AccountTypes
    <3>2. PICK q : requests' = (requests \ {r}) \cup {q} /\ q.op = "sync"
      <4>1. \A h : [r EXCEPT !.at = "store"].op = "sync"
                   /\ [r EXCEPT !.at = "store", !.found = h].op = "sync"
        BY <3>1 DEF Sync
      <4> QED BY <1>1, <4>1 DEF FindHost, Found
    <3> QED BY <1>1, <3>2 DEF FindHost, Found, accounts
  <2> QED BY <1>1, <2>1, FindHostInStep, OfficeElsewhere
<1>2. CASE StoreHost(r)
  BY <1>2, StoreHostInStep, StoreHostInOffice
<1>3. CASE FindRow(r)
  <2>1. UNCHANGED <<scene, host, booking, visits>> /\ \A q \in requests' \ requests : q.op # "book"
    <3>1. r \in SetActive \cup Import
      BY <1>3, Kinds DEF FindRow, Types, AccountTypes
    <3>2. PICK q : requests' = (requests \ {r}) \cup {q} /\ q.op # "book"
      <4>1. \A h : [r EXCEPT !.at = "store"].op # "book"
                   /\ [r EXCEPT !.at = "store", !.found = h].op # "book"
        BY <3>1 DEF SetActive, Import
      <4> QED BY <1>3, <4>1 DEF FindRow, Found
    <3> QED BY <1>3, <3>2 DEF FindRow, Found, accounts
  <2> QED BY <1>3, <2>1, FindRowInStep, OfficeElsewhere
<1>4. CASE StoreRow(r)
  <2>1. UNCHANGED <<scene, booking, visits>> /\ requests' \ requests = {}
    BY <1>4 DEF StoreRow
  <2> QED BY <1>4, <2>1, StoreRowInStep, OfficeKept
<1>5. CASE NoSuchRow(r)
  <2>1. /\ UNCHANGED <<scene, host, booking, visits>> /\ requests' \ requests = {}
        /\ UNCHANGED accounts /\ Editing' = Editing
    BY <1>5 DEF NoSuchRow, accounts, Editing
  <2> QED BY <1>5, <2>1, NoSuchRowTypes, NotMirroring, OfficeElsewhere
<1>6. CASE Die(r)
  <2>1. UNCHANGED <<scene, host, booking, visits>> /\ requests' \ requests = {}
    BY <1>6 DEF Die
  <2> QED BY <1>6, <2>1, DieTypes, DieInStep, OfficeElsewhere
<1>7. CASE BookStep(r)
  BY <1>7, BookStepInOffice
<1>8. CASE Insert(r)
  BY <1>8, InsertTypes, InsertInOffice
<1> QED BY <1>1, <1>2, <1>3, <1>4, <1>5, <1>6, <1>7, <1>8 DEF BookStep

(* the administrators,                                                      *)
LEMMA AdminKeeps ==
  ASSUME DirectoryIInv, NEW a \in Admins,
         \/ \E u \in Users : OpenForm(a, u)
         \/ CloseForm(a) \/ SaveDetails(a) \/ SetRole(a)
         \/ (\E page \in {"general", "rules"} : OpenSheet(a, page)) \/ SaveSheet(a)
  PROVE  DirectoryIInv'
<1> USE DEF DirectoryIInv
<1>1. ASSUME UNCHANGED <<scene, accounts, requests, booking, visits>>, Types'
      PROVE  DirectoryIInv'
  <2>1. UNCHANGED <<accounts, requests>> /\ UNCHANGED <<scene, host, booking, visits>>
    BY <1>1 DEF accounts
  <2> QED BY <1>1, <2>1, Elsewhere, OfficeElsewhere
<1>2. CASE \E u \in Users : OpenForm(a, u)
  BY <1>1, <1>2, OpenFormTypes DEF OpenForm
<1>3. CASE CloseForm(a)
  BY <1>1, <1>3, CloseFormTypes DEF CloseForm
<1>4. CASE SaveDetails(a)
  <2>1. UNCHANGED <<scene, host, booking, visits>> /\ away' = away
    BY <1>4 DEF SaveDetails
  <2>2. CASE DetailsChanged(form[a])
    <3>1. Write(form[a].u, form[a].now.email, user[form[a].u].role, form[a].now.office, a)
      BY <1>4, <2>2 DEF SaveDetails
    <3>2. form[a].u \in Users /\ user[form[a].u].role \in RoleNames
          /\ form[a].now.email \in Emails /\ form[a].now.office \in Places
      <4>1. form[a] \in FormRow /\ form[a].u \in Staff
        BY <1>4 DEF SaveDetails, Types, PageTypes
      <4> QED BY <4>1 DEF Staff, Types, AccountTypes, Account, FormRow
    <3>3. InStep'
      BY <2>1, <3>1, <3>2, WriteInStep
    <3>4. \A q \in requests' \ requests : q.op # "book"
      BY <3>1 DEF Write
    <3> QED BY <1>4, <2>1, <3>3, <3>4, SaveDetailsTypes, OfficeElsewhere
  <2>3. CASE ~DetailsChanged(form[a])
    <3>1. UNCHANGED accounts /\ requests' = requests
      BY <1>4, <2>1, <2>3 DEF SaveDetails, accounts
    <3> QED BY <1>1, <1>4, <2>1, <3>1, SaveDetailsTypes
  <2> QED BY <2>2, <2>3
<1>5. CASE SetRole(a)
  <2>1. UNCHANGED <<scene, host, booking, visits>> /\ requests' \ requests = {}
    BY <1>5 DEF SetRole
  <2> QED BY <1>5, <2>1, SetRoleTypes, SetRoleInStep, OfficeElsewhere
<1>6. CASE \E page \in {"general", "rules"} : OpenSheet(a, page)
  BY <1>1, <1>6, OpenSheetTypes DEF OpenSheet
<1>7. CASE SaveSheet(a)
  BY <1>1, <1>7, SaveSheetTypes DEF SaveSheet
<1> QED BY <1>2, <1>3, <1>4, <1>5, <1>6, <1>7

(* and everybody else.                                                      *)
LEMMA OthersKeep ==
  ASSUME DirectoryIInv,
         \/ \E u \in Users, email \in Emails, place \in scene.places :
              UserCreate(u, email, "secretary", place)
         \/ \E u \in Users, active \in BOOLEAN : SetUserActive(u, active)
         \/ \E email \in Emails : ImportHosts(email)
         \/ \E d \in Depts : SetDeptActive(d)
         \/ \E o \in Offices, d \in Depts, active \in BOOLEAN : UpdateOffice(o, d, active)
         \/ BookingStep \/ Submit
         \/ UNCHANGED vars
  PROVE  DirectoryIInv'
<1> USE DEF DirectoryIInv
<1>1. ASSUME NEW u \in Users, NEW email \in Emails, NEW place \in scene.places,
             UserCreate(u, email, "secretary", place)
      PROVE  DirectoryIInv'
  <2>1. Write(u, email, "secretary", place, None) /\ UNCHANGED <<host, away>>
        /\ UNCHANGED <<scene, host, booking, visits>>
    BY <1>1 DEF UserCreate
  <2>2. place \in Places /\ "secretary" \in RoleNames
    BY Somebody DEF Types, TreeTypes, RoleNames
  <2>3. InStep'
    BY <2>1, <2>2, WriteInStep
  <2>4. \A q \in requests' \ requests : q.op # "book"
    BY <2>1 DEF Write
  <2> QED BY <1>1, <2>1, <2>3, <2>4, UserCreateTypes, OfficeElsewhere
<1>2. CASE \/ \E u \in Users, active \in BOOLEAN : SetUserActive(u, active)
           \/ \E email \in Emails : ImportHosts(email)
  <2>1. PICK q \in SetActive \cup Import :
              requests' = requests \cup {q} /\ q.at = "find" /\ q.found = None
    BY <1>2, MarkBegins
  <2>2. Types' /\ UNCHANGED <<scene, accounts, tree, setting, pages, booking, visits>>
    BY <1>2, MarkBegins
  <2>3. q.op # "sync" /\ q.op # "book" /\ MarkInStep(q)
    BY <2>1 DEF SetActive, Import, MarkInStep
  <2>4. Editing' = Editing /\ host' = host
    BY <2>1, <2>2, <2>3 DEF Editing, accounts
  <2> QED BY <2>1, <2>2, <2>3, <2>4, NotMirroring, OfficeElsewhere
<1>3. CASE (\E d \in Depts : SetDeptActive(d)) \/
           (\E o \in Offices, d \in Depts, active \in BOOLEAN : UpdateOffice(o, d, active))
  <2>1. UNCHANGED <<scene, accounts, requests, booking, visits>> /\ Types'
    BY <1>3, TreeStepTypes DEF SetDeptActive, UpdateOffice
  <2>2. UNCHANGED <<accounts, requests>> /\ UNCHANGED <<scene, host, booking, visits>>
    BY <2>1 DEF accounts
  <2> QED BY <2>1, <2>2, Elsewhere, OfficeElsewhere
<1>4. CASE BookingStep
  <2>1. Types' /\ (FormInOffice => FormInOffice')
    BY <1>4, BookingStepTypes
  <2>2. UNCHANGED <<accounts, requests>> /\ UNCHANGED <<scene, user, host, visits>>
    BY <1>4, BookingStepTypes DEF accounts
  <2>3. InStep' /\ Directory' = Directory
    BY <2>2, Elsewhere DEF Directory
  <2>4. PlaceOf(Booker)' = PlaceOf(Booker) /\ SecretaryOnly' = SecretaryOnly
    BY <2>2, <2>3, PlaceKept, Somebody, NullIsNothing DEF SecretaryOnly, InitialRole
  <2>5. InOffice'
    BY <2>1, <2>2, <2>3, <2>4 DEF InOffice, BookedWithinOffice, StillThere
  <2> QED BY <2>1, <2>3, <2>5
<1>5. CASE Submit
  <2>1. PICK q \in Book :
              /\ requests' = requests \cup {q} /\ q.host = booking.host /\ booking.host # None
              /\ SecretaryOnly => q.at = "scope"
    BY <1>5, SubmitTypes
  <2>2. Types' /\ UNCHANGED <<scene, accounts, tree, setting, pages, booking, visits>>
    BY <1>5, SubmitTypes
  <2>3. UNCHANGED <<scene, user, host, booking, visits>> /\ q.op = "book"
    BY <2>2 DEF accounts, Book
  <2>4. Editing' = Editing /\ Directory' = Directory
    BY <2>1, <2>3 DEF Editing, Directory
  <2>5. q.host \in Directory /\ (SecretaryOnly => StillThere(q))
    BY <2>1 DEF InOffice, FormInOffice, StillThere
  <2>6. InStep'
    BY <2>1, <2>2, <2>3, <2>4, NotMirroring
  <2>7. InOffice'
    BY <2>1, <2>3, <2>4, <2>5, OfficeKept
  <2> QED BY <2>2, <2>6, <2>7
<1>6. CASE UNCHANGED vars
  <2>1. UNCHANGED <<accounts, requests>> /\ UNCHANGED <<scene, host, booking, visits>>
        /\ UNCHANGED <<scene, accounts, tree, setting, requests, pages>> /\ BookingTypes'
    BY <1>6 DEF vars, accounts, tree, pages, Types, BookingTypes
  <2> QED BY <2>1, Elsewhere, OfficeElsewhere, FillTypes
<1> QED BY <1>1, <1>2, <1>3, <1>4, <1>5, <1>6
LEMMA DirectoryKeeps ==
  ASSUME DirectoryIInv, [Next]_vars
  PROVE  DirectoryIInv'
<1>1. \A a \in scene.admins : a \in Admins
  BY Somebody DEF DirectoryIInv, Types, TreeTypes
<1>2. CASE \E r \in requests :
       \/ FindHost(r) \/ StoreHost(r) \/ FindRow(r) \/ StoreRow(r) \/ NoSuchRow(r) \/ Die(r)
       \/ Scope(r) \/ Target(r) \/ Officer(r) \/ Insert(r)
  BY <1>2, RequestKeeps
<1>3. CASE \E a \in scene.admins :
         \/ \E u \in Users : OpenForm(a, u)
         \/ CloseForm(a) \/ SaveDetails(a) \/ SetRole(a)
         \/ (\E page \in {"general", "rules"} : OpenSheet(a, page)) \/ SaveSheet(a)
  BY <1>1, <1>3, AdminKeeps
<1>4. CASE \/ \E u \in Users, email \in Emails, place \in scene.places :
              UserCreate(u, email, "secretary", place)
           \/ \E u \in Users, active \in BOOLEAN : SetUserActive(u, active)
           \/ \E email \in Emails : ImportHosts(email)
           \/ \E d \in Depts : SetDeptActive(d)
           \/ \E o \in Offices, d \in Depts, active \in BOOLEAN : UpdateOffice(o, d, active)
           \/ BookingStep \/ Submit
           \/ UNCHANGED vars
  BY <1>4, OthersKeep
<1> QED BY <1>2, <1>3, <1>4 DEF Next, BookingStep

(* The inductive invariant: types in full, accounts that are not torn in    *)
(* step with their rows and requests, bookings in their office (the         *)
(* requests of services/userHostSync.ts, admin.ts and appointments.ts).     *)
THEOREM DirectoryInvariant == Spec => []DirectoryIInv
<1>1. Init => DirectoryIInv
  BY DirectoryStarts
<1>2. DirectoryIInv /\ [Next]_vars => DirectoryIInv'
  BY DirectoryKeeps
<1> QED BY <1>1, <1>2, PTL DEF Spec

(* Accounts and officers stay in step: one officer to an account however    *)
(* often it is edited, and nobody who is away is bookable, as long as the   *)
(* account's requests run one at a time and to their end.                   *)
THEOREM DirectoryStaysInStep == Spec => []DirectoryInv
<1>1. DirectoryIInv => DirectoryInv
  <2> SUFFICES ASSUME DirectoryIInv PROVE DirectoryInv
    OBVIOUS
  <2>1. TypeOK
    <3>1. \A r \in requests : r.op \in {"sync", "setActive", "import", "book"}
      BY Kinds DEF DirectoryIInv, Types, AccountTypes
    <3>2. \A h \in Directory : host[h] \in HostRow
      BY RowTyped DEF DirectoryIInv, Types
    <3>3. /\ user \in [Users -> [email : Emails, role : RoleNames] \cup {None}]
          /\ torn \cup away \subseteq Users
      BY DEF DirectoryIInv, Types, AccountTypes, Account
    <3>4. \A u, v \in Staff : user[u].email = user[v].email => u = v
      BY DEF DirectoryIInv, InStep, RowsInStep
    <3> QED BY <3>1, <3>2, <3>3, <3>4
            DEF TypeOK, DirectoryIInv, Types, TreeTypes, PageTypes, FormWaits
  <2>2. ASSUME NEW u \in Users \ torn, NEW h \in RowsOf(u), NEW g \in RowsOf(u)
        PROVE  h = g
    <3>1. u # None /\ h \in Directory /\ g \in Directory
          /\ host[h].user = u /\ host[g].user = u
      BY NullIsNothing DEF RowsOf
    <3> QED BY <3>1 DEF DirectoryIInv, InStep, RowsInStep
  <2>3. OneHostPerUser
    <3> SUFFICES ASSUME NEW u \in Users \ torn
                 PROVE  Cardinality(RowsOf(u)) <= 1
      BY DEF OneHostPerUser
    <3>1. CASE RowsOf(u) = {}
      <4>1. Cardinality({}) = 0
        BY FS_EmptySet
      <4> QED BY <3>1, <4>1
    <3>2. CASE RowsOf(u) # {}
      <4>1. PICK h : RowsOf(u) = {h}
        BY <2>2, <3>2
      <4>2. Cardinality({h}) = 1
        BY FS_Singleton
      <4> QED BY <4>1, <4>2
    <3> QED BY <3>1, <3>2
  <2>4. DeactivatedNotBookable
    <3> SUFFICES ASSUME NEW u \in away \ torn, NEW h \in RowsOf(u)
                 PROVE  ~host[h].active
      BY DEF DeactivatedNotBookable
    <3>1. u \in Users \ torn
      BY DEF DirectoryIInv, Types, AccountTypes
    <3>2. PICK g \in Directory : host[g].user = u /\ ~host[g].active
      BY DEF DirectoryIInv, InStep, RowsInStep
    <3> QED BY <2>2, <3>1, <3>2 DEF RowsOf
  <2> QED BY <2>1, <2>3, <2>4 DEF DirectoryInv
<1> QED BY <1>1, DirectoryInvariant, PTL

(* What a secretary books is in her own office if nobody moved meanwhile,   *)
(* and the officer the form holds was listed for the office it shows.       *)
THEOREM DirectoryBookedInOffice == Spec => []BookedInOffice
<1>1. DirectoryIInv => BookedInOffice
  BY DEF DirectoryIInv, InOffice, FormInOffice, BookedInOffice
<1> QED BY <1>1, DirectoryInvariant, PTL

(* An officer, and every visit booked for him, is never handed to another   *)
(* account, in any interleaving of edits, imports and requests that die     *)
(* between their two tables, unless his own account's request did or met    *)
(* another (userHostSync.ts finds by user before it finds by email).        *)
THEOREM DirectoryHostKeepsItsUser == Spec => HostKeepsItsUser
<1>1. DirectoryIInv /\ [Next]_vars =>
        \A h \in Directory : host[h].user \notin torn \cup {None} =>
          host'[h].user = host[h].user
  <2> SUFFICES ASSUME DirectoryIInv, [Next]_vars, host' # host
               PROVE  \A h \in Directory : host[h].user \notin torn \cup {None} =>
                        host'[h].user = host[h].user
    OBVIOUS
  <2>1. \E r \in requests : StoreHost(r) \/ StoreRow(r)
    <3>1. UNCHANGED vars \/ BookingStep \/ Submit => host' = host
      BY BookingStepTypes DEF vars, Submit, accounts, DirectoryIInv
    <3>2. ASSUME NEW r \in requests,
                 FindHost(r) \/ FindRow(r) \/ NoSuchRow(r) \/ Die(r) \/ BookStep(r) \/ Insert(r)
          PROVE  host' = host
      BY <3>2 DEF FindHost, FindRow, Found, NoSuchRow, Die, BookStep, Scope, Target, Officer,
                  Insert, accounts
    <3>3. ASSUME NEW a \in scene.admins,
                 \/ \E u \in Users : OpenForm(a, u)
                 \/ CloseForm(a) \/ SaveDetails(a) \/ SetRole(a)
                 \/ (\E page \in {"general", "rules"} : OpenSheet(a, page)) \/ SaveSheet(a)
          PROVE  host' = host
      BY <3>3 DEF OpenForm, CloseForm, SaveDetails, SetRole, OpenSheet, SaveSheet, accounts
    <3>4. ASSUME \/ \E u \in Users, email \in Emails, place \in scene.places :
                      UserCreate(u, email, "secretary", place)
                 \/ \E u \in Users, active \in BOOLEAN : SetUserActive(u, active)
                 \/ \E email \in Emails : ImportHosts(email)
                 \/ \E d \in Depts : SetDeptActive(d)
                 \/ \E o \in Offices, d \in Depts, active \in BOOLEAN : UpdateOffice(o, d, active)
          PROVE  host' = host
      BY <3>4 DEF UserCreate, SetUserActive, ImportHosts, Begin, SetDeptActive, UpdateOffice,
                  accounts
    <3> QED BY <3>1, <3>2, <3>3, <3>4 DEF Next, BookStep, BookingStep
  <2> QED BY <2>1, StoreHostInStep, StoreRowInStep DEF DirectoryIInv
<1> QED BY <1>1, DirectoryInvariant, PTL DEF Spec, HostKeepsItsUser

(* A page or dialog filled before a colleague's change does not undo it:    *)
(* a role changes only from a dialog where another one was chosen, and a    *)
(* setting only from a page that shows it (Admin.tsx, services/admin.ts).   *)
THEOREM DirectoryNothingStaleSaved == Spec => NothingStaleSaved
<1>1. DirectoryIInv /\ [Next]_vars =>
        \A u \in Staff : user'[u].role # user[u].role =>
          \E a \in Admins : form[a] # None /\ form[a].u = u /\ "role" \in form[a].fields
  <2> SUFFICES ASSUME DirectoryIInv, [Next]_vars, NEW u \in Staff,
                      user'[u].role # user[u].role
               PROVE  \E a \in Admins : form[a] # None /\ form[a].u = u /\ "role" \in form[a].fields
    OBVIOUS
  <2>0. user' # user /\ (\A a \in scene.admins : a \in Admins) /\ u \in Users
    BY Somebody DEF DirectoryIInv, Types, TreeTypes, Staff
  <2>1. ASSUME NEW v, NEW email, NEW place, UserCreate(v, email, "secretary", place)
        PROVE  FALSE
    <3>1. v # u /\ user' = [user EXCEPT ![v] = [email |-> email, role |-> "secretary"]]
      BY <2>1 DEF UserCreate, Write
    <3> QED BY <2>0, <3>1 DEF DirectoryIInv, Types, AccountTypes
  <2>2. ASSUME NEW a \in Admins, SaveDetails(a)
        PROVE  FALSE
    <3>1. DetailsChanged(form[a])
      BY <2>0, <2>2 DEF SaveDetails
    <3> DEFINE v == form[a].u
    <3>2. user' = [user EXCEPT ![v] = [email |-> form[a].now.email, role |-> user[v].role]]
      BY <2>2, <3>1 DEF SaveDetails, Write
    <3> HIDE DEF v
    <3> QED BY <2>0, <3>2 DEF DirectoryIInv, Types, AccountTypes
  <2>3. ASSUME NEW a \in Admins, SetRole(a)
        PROVE  form[a] # None /\ form[a].u = u /\ "role" \in form[a].fields
    BY <2>3, RoleSaved DEF SetRole, DirectoryIInv
  <2>4. \/ \E v \in Users, email \in Emails, place \in scene.places :
             UserCreate(v, email, "secretary", place)
        \/ \E a \in Admins : SaveDetails(a) \/ SetRole(a)
    <3>1. UNCHANGED vars \/ BookingStep \/ Submit => user' = user
      BY BookingStepTypes DEF vars, Submit, accounts, DirectoryIInv
    <3>2. ASSUME NEW r \in requests,
                 \/ FindHost(r) \/ StoreHost(r) \/ FindRow(r) \/ StoreRow(r) \/ NoSuchRow(r)
                 \/ Die(r) \/ BookStep(r) \/ Insert(r)
          PROVE  user' = user
      BY <3>2 DEF FindHost, StoreHost, FindRow, StoreRow, Found, NoSuchRow, Die, BookStep,
                  Scope, Target, Officer, Insert, accounts
    <3>3. ASSUME NEW a \in scene.admins,
                 \/ \E v \in Users : OpenForm(a, v)
                 \/ CloseForm(a)
                 \/ (\E page \in {"general", "rules"} : OpenSheet(a, page)) \/ SaveSheet(a)
          PROVE  user' = user
      BY <3>3 DEF OpenForm, CloseForm, OpenSheet, SaveSheet, accounts
    <3>4. ASSUME \/ \E v \in Users, active \in BOOLEAN : SetUserActive(v, active)
                 \/ \E email \in Emails : ImportHosts(email)
                 \/ \E d \in Depts : SetDeptActive(d)
                 \/ \E o \in Offices, d \in Depts, active \in BOOLEAN : UpdateOffice(o, d, active)
          PROVE  user' = user
      BY <3>4 DEF SetUserActive, ImportHosts, Begin, SetDeptActive, UpdateOffice, accounts
    <3> QED BY <2>0, <3>1, <3>2, <3>3, <3>4 DEF Next, BookStep, BookingStep
  <2> QED BY <2>1, <2>2, <2>3, <2>4
<1>2. DirectoryIInv /\ [Next]_vars =>
        \A page \in {"general", "rules"} : setting'[page] # setting[page] =>
          \E a \in Admins : sheet[a] # None /\ sheet[a].page = page
  <2> SUFFICES ASSUME DirectoryIInv, [Next]_vars, NEW page \in {"general", "rules"},
                      setting'[page] # setting[page]
               PROVE  \E a \in Admins : sheet[a] # None /\ sheet[a].page = page
    OBVIOUS
  <2>0. setting' # setting /\ (\A a \in scene.admins : a \in Admins)
    BY Somebody DEF DirectoryIInv, Types, TreeTypes
  <2>1. \E a \in Admins : SaveSheet(a)
    <3>1. UNCHANGED vars \/ BookingStep \/ Submit => setting' = setting
      BY BookingStepTypes DEF vars, Submit, DirectoryIInv
    <3>2. ASSUME NEW r \in requests,
                 \/ FindHost(r) \/ StoreHost(r) \/ FindRow(r) \/ StoreRow(r) \/ NoSuchRow(r)
                 \/ Die(r) \/ BookStep(r) \/ Insert(r)
          PROVE  setting' = setting
      BY <3>2 DEF FindHost, StoreHost, FindRow, StoreRow, Found, NoSuchRow, Die, BookStep,
                  Scope, Target, Officer, Insert
    <3>3. ASSUME NEW a \in scene.admins,
                 \/ \E v \in Users : OpenForm(a, v)
                 \/ CloseForm(a) \/ SaveDetails(a) \/ SetRole(a)
                 \/ (\E p \in {"general", "rules"} : OpenSheet(a, p))
          PROVE  setting' = setting
      BY <3>3 DEF OpenForm, CloseForm, SaveDetails, SetRole, OpenSheet
    <3>4. ASSUME \/ \E v \in Users, email \in Emails, place \in scene.places :
                      UserCreate(v, email, "secretary", place)
                 \/ \E v \in Users, active \in BOOLEAN : SetUserActive(v, active)
                 \/ \E email \in Emails : ImportHosts(email)
                 \/ \E d \in Depts : SetDeptActive(d)
                 \/ \E o \in Offices, d \in Depts, active \in BOOLEAN : UpdateOffice(o, d, active)
          PROVE  setting' = setting
      BY <3>4 DEF UserCreate, SetUserActive, ImportHosts, Begin, SetDeptActive, UpdateOffice
    <3> QED BY <2>0, <3>1, <3>2, <3>3, <3>4 DEF Next, BookStep, BookingStep
  <2> QED BY <2>1, SheetSaved DEF SaveSheet, DirectoryIInv
<1>3. /\ []DirectoryIInv /\ [][Next]_vars => RoleKept
      /\ []DirectoryIInv /\ [][Next]_vars => PolicyKept
  BY <1>1, <1>2, PTL DEF RoleKept, PolicyKept
<1> QED BY <1>3, DirectoryInvariant, PTL DEF Spec, NothingStaleSaved
=============================================================================
