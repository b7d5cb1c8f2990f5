---------------------------- MODULE PagesProofs ----------------------------
(***************************************************************************)
(* What a page at rest shows is what the tables hold.  The argument: of    *)
(* each part of a query, what is shown or has been read is right, or the   *)
(* page is going to read it again: an event is on its way, a request has   *)
(* still to send one, or the history says what was missed or struck off.   *)
(* And of a row the page has changed itself, what it shows or has read     *)
(* since is what the tables have, while nobody else has written the row.   *)
(***************************************************************************)
EXTENDS Pages, FiniteSetTheorems, SequenceTheorems, TLAPS

Names == {"summary", "onSite", "security", "incidents", "watchlist", "list", "get", "trail",
          "muster"}
Kinds == {"here", "status", "incident", "trail", "watch"}
PageNames == {"reception", "security", "appointments", "detail", "muster"}
Slot == [data : Seq(Values), fetch : Seq(Values) \cup {None}]
Total(op) == Len(Script(op))
Key(op) ==
  CASE op \in {"raise", "resolve"} -> Incidents
    [] op \in {"list", "remove"} -> Entries
    [] op = "registerWalkIn" -> WalkIns
    [] op = "checkOut" -> All
    [] OTHER -> Visits
Keyed(m) == m.op \in Ops /\ m.x \in Key(m.op)
IsRequest(r) ==
  /\ r = [op |-> r.op, x |-> r.x, own |-> r.own, done |-> r.done]
  /\ Keyed(r) /\ r.own \in BOOLEAN /\ r.done \in 1..Total(r.op)
IsChange(m) == m = [op |-> m.op, x |-> m.x, in |-> m.in] /\ Keyed(m)

Types ==
  /\ session \in Sessions /\ db \in Tables /\ struck \subseteq Visits
  /\ joined \in BOOLEAN /\ inbox \in 0..MaxInbox /\ missed \in BOOLEAN
  /\ cache \in [Queries -> Slot]
  /\ \A q \in Queries : /\ Len(cache[q].data) \in {0, Len(Parts[q])}
                        /\ Reading(q) => Len(cache[q].fetch) <= Len(Parts[q])
  /\ \A r \in requests : IsRequest(r)
  /\ \A m \in mine : IsChange(m) /\ m.in \subseteq Queries

Arrivals == {"checkIn", "registerWalkIn"}
Announced == Arrivals \cup {"checkOut", "submitPreReg", "guardScan", "raise"}

(* A change of the page's own is one its buttons offer.                     *)
Clicks(op) ==
  CASE session.page = "reception" -> op \in Arrivals \cup {"checkOut"}
    [] session.page = "security" -> op \in {"resolve", "list", "remove"}
    [] session.page = "detail" -> op \in {"approve", "resend", "deny", "cancel"}
    [] OTHER -> FALSE
RequestsOK == \A r \in requests : r.own => Clicks(r.op)

(* A value of a part that a page at rest may show, and one that shows a row *)
(* as the tables have it.                                                   *)
Right(part, value) ==
  CASE part = "here" -> value \ struck = OnSite(db.status) \ struck
    [] part = "status" -> OnSite(value) \ struck = (Rows \cap OnSite(db.status)) \ struck
    [] part = "incident" -> \A i \in Incidents : db.incident[i] = "open" => value[i] = "open"
    [] part = "trail" -> value = CurrentLocations
    [] OTHER -> TRUE
Tells(m, part, value) ==
  /\ part = Column(m.op) => value[m.x] = db[Column(m.op)][m.x]
  /\ Column(m.op) = "status" /\ part = "here" => (m.x \in value <=> db.status[m.x] = "in")

(* What is shown, or will be when the read under way is answered.           *)
Pos(q, part) == CHOOSE i \in 1..Len(Parts[q]) : Parts[q][i] = part
ComingRight(q, part) ==
  IF Reading(q)
  THEN Len(cache[q].fetch) >= Pos(q, part) => Right(part, cache[q].fetch[Pos(q, part)])
  ELSE Shows(q) /\ Right(part, cache[q].data[Pos(q, part)])
ComingTells(m, q, part) ==
  IF Reading(q)
  THEN Len(cache[q].fetch) >= Pos(q, part) => Tells(m, part, cache[q].fetch[Pos(q, part)])
  ELSE Tells(m, part, cache[q].data[Pos(q, part)])

ToTell(r) ==
  r.op \in Announced /\ r.done < Total(r.op) /\ Script(r.op)[r.done] # "read"
Told == missed \/ inbox > 0 \/ \E r \in requests : ToTell(r)
Followed == {"here", "status", "incident", "trail"}
UpToDate ==
  \A q \in Queries \ Polled, part \in Followed :
    Has(q, part) => Told \/ ComingRight(q, part)
MineOK ==
  \A m \in mine :
    /\ Clicks(m.op)
    /\ \A q \in m.in : Shows(q) /\ \A part \in Kinds \ {"trail"} :
                                     Has(q, part) => ComingTells(m, q, part)

PagesIInv == Types /\ RequestsOK /\ UpToDate /\ MineOK
-----------------------------------------------------------------------------
(* What a query reads, it reads once.                                       *)
LEMMA PartsShape ==
  ASSUME NEW q \in Names
  PROVE  /\ Parts[q] \in Seq(Kinds) /\ Len(Parts[q]) \in {1, 2}
         /\ \A i, j \in 1..Len(Parts[q]) : Parts[q][i] = Parts[q][j] => i = j
BY DEF Parts, Names, Kinds

LEMMA QueriesNamed ==
  ASSUME Types
  PROVE  Queries \subseteq Names /\ session.page \in PageNames
<1>1. session.page \in PageNames
  BY PagesAssumption DEF Types, PageNames
<1> QED BY <1>1 DEF Queries, Names, PageNames

(* The place of a part in what a query reads.                               *)
LEMMA PosIsThere ==
  ASSUME Types, NEW q \in Queries, NEW part, Has(q, part)
  PROVE  /\ Pos(q, part) \in 1..Len(Parts[q]) /\ Parts[q][Pos(q, part)] = part
         /\ \A i \in 1..Len(Parts[q]) : Parts[q][i] = part => i = Pos(q, part)
         /\ Len(Parts[q]) \in {1, 2}
<1>1. q \in Names BY QueriesNamed
<1>2. \E i \in 1..Len(Parts[q]) : Parts[q][i] = part BY DEF Has
<1>3. Pos(q, part) \in 1..Len(Parts[q]) /\ Parts[q][Pos(q, part)] = part
  BY <1>2 DEF Pos
<1> QED BY <1>1, <1>3, PartsShape

(* The steps of each handler: what is announced is announced last, and what *)
(* is not brings nobody in.                                                 *)
Values0(op) ==
  CASE Column(op) = "incident" -> {"open", "resolved"}
    [] Column(op) = "watch" -> {"listed", "removed"}
    [] OTHER -> VisitStatuses
Special == {"read", "event", "trail"}
LEMMA ScriptShape ==
  ASSUME NEW op \in Ops
  PROVE  /\ Total(op) \in 1..5
         /\ Column(op) \in {"status", "incident", "watch"}
         /\ Announces(op) <=> op \in Announced
         /\ op \in Announced => Script(op)[Total(op)] = "event"
         /\ \A n \in 1..Total(op) :
              /\ Script(op)[n] \notin Special => Script(op)[n] \in Values0(op)
              /\ Script(op)[n] = "read" => n = 1
              /\ op \notin Announced => /\ Script(op)[n] \notin {"event", "trail"}
                                        /\ Script(op)[n] \notin {"in", "open"}
<1>1. CASE op = "checkIn"
  <2>1. /\ Len(Script(op)) = 5 /\ Script(op)[1] = "read" /\ Script(op)[2] = "in"
        /\ Script(op)[3] = "event" /\ Script(op)[4] = "trail" /\ Script(op)[5] = "event"
    BY <1>1 DEF Script, Passage
  <2> QED BY <1>1, <2>1 DEF Total, Announced, Announces, Arrivals, Column,
                            Values0,
                            VisitStatuses, Special
<1>2. CASE op = "checkOut"
  <2>1. /\ Len(Script(op)) = 5 /\ Script(op)[1] = "read" /\ Script(op)[2] = "out"
        /\ Script(op)[3] = "event" /\ Script(op)[4] = "trail" /\ Script(op)[5] = "event"
    BY <1>2 DEF Script, Passage
  <2> QED BY <1>2, <2>1 DEF Total, Announced, Announces, Arrivals, Column,
                            Values0,
                            VisitStatuses, Special
<1>3. CASE op = "registerWalkIn"
  <2>1. /\ Len(Script(op)) = 3 /\ Script(op)[1] = "in" /\ Script(op)[2] = "trail"
        /\ Script(op)[3] = "event"
    BY <1>3 DEF Script, Passage
  <2> QED BY <1>3, <2>1 DEF Total, Announced, Announces, Arrivals, Column,
                            Values0,
                            VisitStatuses, Special
<1>4. CASE op \in {"submitPreReg", "guardScan"}
  <2>1. /\ Len(Script(op)) = 3 /\ Script(op)[1] = "read" /\ Script(op)[3] = "event"
        /\ Script(op)[2] \in {"prereg", "trail"}
    <3>1. CASE op = "submitPreReg" BY <3>1 DEF Script
    <3>2. CASE op = "guardScan" BY <3>2 DEF Script, Passage
    <3> QED BY <1>4, <3>1, <3>2
  <2> QED BY <1>4, <2>1 DEF Total, Announced, Announces, Arrivals, Column,
                            Values0,
                            VisitStatuses, Special
<1>5. CASE op = "raise"
  <2>1. Len(Script(op)) = 2 /\ Script(op)[1] = "open" /\ Script(op)[2] = "event"
    BY <1>5 DEF Script
  <2> QED BY <1>5, <2>1 DEF Total, Announced, Announces, Arrivals, Column,
                            Values0, Special
<1>6. CASE op = "approve"
  <2>1. /\ Len(Script(op)) = 3 /\ Script(op)[1] = "read" /\ Script(op)[2] = "approved"
        /\ Script(op)[3] = "invited"
    BY <1>6 DEF Script
  <2> QED BY <1>6, <2>1 DEF Total, Announced, Announces, Arrivals, Column,
                            Values0,
                            VisitStatuses, Special
<1>7. CASE op \in {"resend", "cancel"}
  <2>1. /\ Len(Script(op)) = 2 /\ Script(op)[1] = "read"
        /\ Script(op)[2] \in {"invited", "cancelled"}
    BY <1>7 DEF Script
  <2> QED BY <1>7, <2>1 DEF Total, Announced, Announces, Arrivals, Column,
                            Values0,
                            VisitStatuses, Special
<1>8. CASE op \in {"deny", "resolve", "list", "remove"}
  <2>1. /\ Len(Script(op)) = 1
        /\ Script(op)[1] = CASE op = "deny" -> "denied" [] op = "resolve" -> "resolved"
                             [] op = "list" -> "listed" [] OTHER -> "removed"
    BY <1>8 DEF Script
  <2> QED BY <1>8, <2>1 DEF Total, Announced, Announces, Arrivals, Column,
                            Values0,
                            VisitStatuses, Special
<1> QED BY <1>1, <1>2, <1>3, <1>4, <1>5, <1>6, <1>7, <1>8 DEF Ops

(* The rows a handler is about are rows of its column.                      *)
LEMMA KeyedIn ==
  ASSUME Types, NEW m, Keyed(m)
  PROVE  /\ Column(m.op) \in {"status", "incident", "watch"}
         /\ Column(m.op) = "status" => m.x \in All
         /\ Column(m.op) = "status" /\ m.op \notin Announced => m.x \in Visits
         /\ Column(m.op) = "incident" => m.x \in Incidents
         /\ Column(m.op) = "watch" => m.x \in Entries
BY ScriptShape DEF Keyed, Key, Column, All, Announced, Arrivals, Ops

(* Every list that has to follow the events is read again at one.           *)
LEMMA EventuallyFollowed ==
  ASSUME Types
  PROVE  /\ Polled \subseteq {"muster"} /\ OnVisitEvent \subseteq Queries
         /\ \A q \in Queries \ Polled,
              part \in Followed : Has(q, part) => q \in OnVisitEvent
<1>1. \A q \in Names \ {"watchlist", "muster"} :
        q \in {"summary", "onSite", "security", "incidents", "list", "get", "trail"}
  BY DEF Names
<1>2. ASSUME NEW part \in Followed, Has("watchlist", part) PROVE FALSE
  BY <1>2 DEF Has, Parts, Followed
<1> QED BY <1>1, <1>2, QueriesNamed DEF Polled, OnVisitEvent

(* What a query reads of the tables is right, and a sequence of values.     *)
LEMMA TablesRead ==
  ASSUME Types, NEW part \in Kinds
  PROVE  RowsOf(part) \in Values /\ Right(part, RowsOf(part))
<1>1. /\ db.status \in [All -> VisitStatuses] /\ db.trail \in [All -> Nat]
      /\ db.incident \in [Incidents -> {"none", "open", "resolved"}]
      /\ db.watch \in [Entries -> {"none", "listed", "removed"}]
  BY DEF Types, Tables
<1>2. Rows \in {Visits, All} /\ Rows \subseteq All
  BY DEF Rows, All
<1>3. CASE part = "here"
  <2>1. RowsOf(part) = OnSite(db.status) BY <1>3 DEF RowsOf
  <2>2. OnSite(db.status) \subseteq All BY <1>1 DEF OnSite
  <2> QED BY <1>3, <2>1, <2>2 DEF Values, Right
<1>4. CASE part = "status"
  <2>1. RowsOf(part) = [x \in Rows |-> db.status[x]] BY <1>4 DEF RowsOf
  <2>2. RowsOf(part) \in [Rows -> VisitStatuses \cup Nat] BY <1>1, <1>2, <2>1
  <2>3. OnSite(RowsOf(part)) = Rows \cap OnSite(db.status)
    BY <1>1, <1>2, <2>1 DEF OnSite
  <2> QED BY <1>2, <1>4, <2>2, <2>3 DEF Values, Right
<1>5. CASE part = "trail"
  <2>1. RowsOf(part) = CurrentLocations BY <1>5 DEF RowsOf
  <2>2. CurrentLocations \in [Rows -> VisitStatuses \cup Nat]
    BY <1>1, <1>2 DEF CurrentLocations
  <2> QED BY <1>2, <1>5, <2>1, <2>2 DEF Values, Right
<1>6. CASE part = "incident"
  <2>1. RowsOf(part) = db.incident BY <1>6 DEF RowsOf
  <2> QED BY <1>1, <1>6, <2>1 DEF Values, Right
<1>7. CASE part = "watch"
  <2>1. RowsOf(part) = db.watch BY <1>7 DEF RowsOf
  <2> QED BY <1>1, <1>7, <2>1 DEF Values, Right
<1> QED BY <1>3, <1>4, <1>5, <1>6, <1>7 DEF Kinds

(* ... and shows every row of the page's own changes as it is.              *)
LEMMA TablesTell ==
  ASSUME Types, NEW m, Keyed(m), Clicks(m.op), NEW part \in Kinds \ {"trail"}
  PROVE  Tells(m, part, RowsOf(part))
<1>1. db.status \in [All -> VisitStatuses]
  BY DEF Types, Tables
<1>2. Column(m.op) = "status" => m.x \in All /\ (session.page = "detail" => m.x \in Visits)
  <2>1. session.page = "detail" => m.op \in {"approve", "resend", "deny", "cancel"}
    BY DEF Clicks
  <2> QED BY <2>1, KeyedIn DEF Announced, Arrivals
<1>3. ASSUME part = Column(m.op) PROVE RowsOf(part)[m.x] = db[Column(m.op)][m.x]
  <2>1. CASE part = "status"
    <3>1. m.x \in Rows BY <1>2, <1>3, <2>1 DEF Rows
    <3> QED BY <1>3, <2>1, <3>1 DEF RowsOf
  <2>2. CASE part \in {"incident", "watch"} BY <1>3, <2>2 DEF RowsOf
  <2> QED BY <1>3, <2>1, <2>2, KeyedIn
<1>4. ASSUME Column(m.op) = "status", part = "here"
      PROVE  m.x \in RowsOf(part) <=> db.status[m.x] = "in"
  <2>1. RowsOf(part) = OnSite(db.status) BY <1>4 DEF RowsOf
  <2> QED BY <1>1, <1>2, <1>4, <2>1 DEF OnSite
<1> QED BY <1>3, <1>4 DEF Tells

-----------------------------------------------------------------------------
(* The page, its queries and its rows stay what they are.                   *)
LEMMA PageStays ==
  ASSUME session' = session
  PROVE  /\ Queries' = Queries /\ Rows' = Rows /\ Polled' = Polled
         /\ OnVisitEvent' = OnVisitEvent
         /\ \A op : Clicks(op)' = Clicks(op)
BY DEF Queries, May, Rows, Polled, OnVisitEvent, Clicks

(* While the tables stand still a value is as right as it was, and so is    *)
(* one of another part whatever is struck off.                              *)
LEMMA ValuesStay ==
  ASSUME session' = session, db' = db
  PROVE  /\ \A part, v : struck' = struck \/ part \notin {"here", "status"}
              => Right(part, v)' = Right(part, v)
         /\ \A m, part, v : Tells(m, part, v)' = Tells(m, part, v)
<1>1. ASSUME NEW part, NEW v, struck' = struck \/ part \notin {"here", "status"}
      PROVE  Right(part, v)' = Right(part, v)
  <2>1. CASE struck' = struck BY <2>1, PageStays DEF Right, CurrentLocations
  <2>2. CASE part \notin {"here", "status"} BY <2>2, PageStays DEF Right,
                              CurrentLocations
  <2> QED BY <1>1, <2>1, <2>2
<1>2. \A m, part, v : Tells(m, part, v)' = Tells(m, part, v) BY DEF Tells
<1> QED BY <1>1, <1>2

(* A query that is left alone stays as it was; one whose read starts again  *)
(* is going to be right.                                                    *)
Kept(q) == cache'[q] = cache[q]
Restarted(q) == cache'[q] = [cache[q] EXCEPT !.fetch = <<>>]
LEMMA KeptStays ==
  ASSUME session' = session, db' = db, NEW q \in Queries, Kept(q)
  PROVE  /\ Shows(q)' = Shows(q) /\ Reading(q)' = Reading(q)
         /\ \A part : struck' = struck \/ part \notin {"here", "status"}
              => ComingRight(q, part)' = ComingRight(q, part)
         /\ \A m, part : ComingTells(m, q, part)' = ComingTells(m, q, part)
<1>1. Shows(q)' = Shows(q) /\ Reading(q)' = Reading(q)
  BY PageStays DEF Shows, Reading, Kept
<1>2. ASSUME NEW part, struck' = struck \/ part \notin {"here", "status"}
      PROVE  ComingRight(q, part)' = ComingRight(q, part)
  BY <1>1, <1>2, ValuesStay DEF ComingRight, Kept, Pos
<1>3. ASSUME NEW m,
NEW part PROVE ComingTells(m, q, part)' = ComingTells(m, q, part)
  BY <1>1, ValuesStay DEF ComingTells, Kept, Pos
<1> QED BY <1>1, <1>2, <1>3

(* A read that has only begun will be right, whatever is struck off.        *)
LEMMA BegunComes ==
  ASSUME Types, session' = session, NEW q \in Queries, cache'[q].fetch = <<>>
  PROVE  /\ Reading(q)'
         /\ \A part : Has(q, part) => /\ ComingRight(q, part)'
                                      /\ \A m : ComingTells(m, q, part)'
<1>1. Reading(q)'
  <2>1. <<>> \in Seq(Values) OBVIOUS
  <2> QED BY <2>1, PagesAssumption, PageStays DEF Reading
<1>2. ASSUME NEW part, Has(q, part)
      PROVE  /\ ComingRight(q, part)' /\ \A m : ComingTells(m, q, part)'
  <2>1. Pos(q, part) \in 1..Len(Parts[q]) /\ Len(Parts[q]) \in {1, 2}
    BY <1>2, PosIsThere
  <2>2. ~(Len(cache'[q].fetch) >= Pos(q, part))
    BY <2>1
  <2>3. Pos(q, part)' = Pos(q, part) BY DEF Pos
  <2>4. ComingRight(q, part)'
    BY <1>1, <2>2, <2>3 DEF ComingRight
  <2>5. ASSUME NEW m PROVE ComingTells(m, q, part)'
    BY <1>1, <2>2, <2>3 DEF ComingTells
  <2> QED BY <2>4, <2>5
<1> QED BY <1>1, <1>2

LEMMA RestartedComes ==
  ASSUME Types, session' = session, NEW q \in Queries, Restarted(q)
  PROVE  /\ Shows(q)' = Shows(q) /\ Reading(q)'
         /\ \A part : Has(q, part) => /\ ComingRight(q, part)'
                                      /\ \A m : ComingTells(m, q, part)'
<1>1. cache[q] \in Slot BY DEF Types
<1>2. cache'[q].fetch = <<>> /\ cache'[q].data = cache[q].data
  BY <1>1 DEF Restarted, Slot
<1>3. Shows(q)' = Shows(q) BY <1>2, PageStays DEF Shows
<1> QED BY <1>2, <1>3, BegunComes

(* The types of a cache whose reads are left alone or started again.        *)
LEMMA CacheTyped ==
  ASSUME Types, session' = session, DOMAIN cache' = Queries,
         cache' = [q \in Queries |-> cache'[q]],
         \A q \in Queries : Kept(q) \/ Restarted(q)
  PROVE  /\ cache' \in [Queries' -> Slot]
         /\ \A q \in Queries' : /\ Len(cache'[q].data) \in {0, Len(Parts[q])}
                                /\ Reading(q)' => Len(cache'[q].fetch) <= Len(Parts[q])
<1>1. Queries' = Queries BY PageStays
<1>2. ASSUME NEW q \in Queries
      PROVE  /\ cache'[q] \in Slot /\ Len(cache'[q].data) \in {0, Len(Parts[q])}
             /\ Reading(q)' => Len(cache'[q].fetch) <= Len(Parts[q])
  <2>1. cache[q] \in Slot /\ <<>> \in Seq(Values) BY DEF Types
  <2>2. Len(Parts[q]) \in {1, 2} BY QueriesNamed, PartsShape
  <2>3. CASE Kept(q)
    BY <1>1, <2>1, <2>3 DEF Kept, Types, Reading
  <2>4. CASE Restarted(q)
    <3>1. cache'[q] \in Slot /\ cache'[q].data = cache[q].data /\ cache'[q].fetch = <<>>
      BY <2>1, <2>4 DEF Restarted, Slot
    <3> QED BY <2>2, <3>1 DEF Types
  <2> QED BY <1>2, <2>3, <2>4
<1> QED BY <1>1, <1>2


(* What the page has heard of its own changes goes on being shown.          *)
LEMMA MineStays ==
  ASSUME Types, MineOK, session' = session, db' = db,
         \A q \in Queries : Kept(q) \/ Restarted(q)
  PROVE  \A m \in mine :
           /\ Clicks(m.op)'
           /\ \A q \in m.in : /\ Shows(q)'
                              /\ \A part \in Kinds \ {"trail"} :
                                   Has(q, part) => ComingTells(m, q, part)'
<1> SUFFICES ASSUME NEW m \in mine
             PROVE  /\ Clicks(m.op)'
                    /\ \A q \in m.in : /\ Shows(q)'
                                       /\ \A part \in Kinds \ {"trail"} :
                                            Has(q, part) => ComingTells(m, q, part)'
  OBVIOUS
<1>1. Clicks(m.op)' BY PageStays DEF MineOK
<1>2. ASSUME NEW q \in m.in
      PROVE  /\ Shows(q)'
             /\ \A part \in Kinds \ {"trail"} : Has(q, part) => ComingTells(m, q, part)'
  <2>1. q \in Queries BY DEF Types
  <2>2. CASE Kept(q)
    BY <2>1, <2>2, KeptStays DEF MineOK
  <2>3. CASE Restarted(q)
    BY <2>1, <2>3, RestartedComes DEF MineOK
  <2> QED BY <2>1, <2>2, <2>3
<1> QED BY <1>1, <1>2

(* Reads that go on or start again leave whatever was right to come so.     *)
Unstruck ==
  struck' = struck \/ (struck' = {} /\ \A q \in StatusReads : cache'[q].fetch = <<>>)
LEMMA RightStays ==
  ASSUME Types, session' = session, db' = db, Unstruck,
         NEW q \in Queries \ Polled, Kept(q) \/ Restarted(q),
         NEW part, Has(q, part), ComingRight(q, part) \/ Restarted(q)
  PROVE  ComingRight(q, part)'
<1>1. CASE Restarted(q) BY <1>1, RestartedComes
<1>2. CASE Kept(q) /\ ComingRight(q, part) /\ (struck' = struck \/ part \notin {"here", "status"})
  BY <1>2, KeptStays
<1>3. CASE part \in {"here", "status"} /\ struck' # struck
  <2>1. q \in StatusReads BY <1>3 DEF StatusReads, ReadsOf
  <2> QED BY <1>3, <2>1, BegunComes DEF Unstruck
<1> QED BY <1>1, <1>2, <1>3

LEMMA ShowsStays ==
  ASSUME Types, session' = session, db' = db,
         \A q \in Queries : Kept(q) \/ Restarted(q)
  PROVE  \A q : Shows(q) => Shows(q)'
BY KeptStays, RestartedComes DEF Shows

(* Requests that are the same, or fewer, over tables that stand still.      *)
LEMMA RequestsStay ==
  ASSUME Types, RequestsOK, session' = session, requests' \subseteq requests
  PROVE  RequestsOK' /\ \A r \in requests' : IsRequest(r)
BY PageStays DEF RequestsOK, Types

LEMMA AgainRestarts ==
  ASSUME Types, session' = session, NEW qs, cache' = Again(qs)
  PROVE  /\ cache' \in [Queries' -> Slot]
         /\ \A q \in Queries' : /\ Len(cache'[q].data) \in {0, Len(Parts[q])}
                                /\ Reading(q)' => Len(cache'[q].fetch) <= Len(Parts[q])
         /\ \A q \in Queries : Kept(q) \/ Restarted(q)
         /\ \A q \in Queries : q \in qs /\ (Shows(q) \/ ~Reading(q)) => Restarted(q)
<1>1. \A q \in Queries :
        /\ Kept(q) \/ Restarted(q)
        /\ q \in qs /\ (Shows(q) \/ ~Reading(q)) => Restarted(q)
  BY DEF Again, Kept, Restarted
<1>2. DOMAIN cache' = Queries /\ cache' = [q \in Queries |-> cache'[q]]
  BY DEF Again
<1> QED BY <1>1, <1>2, CacheTyped

LEMMA IfIdleRestarts ==
  ASSUME Types, session' = session, NEW qs, cache' = IfIdle(qs)
  PROVE  /\ cache' \in [Queries' -> Slot]
         /\ \A q \in Queries' : /\ Len(cache'[q].data) \in {0, Len(Parts[q])}
                                /\ Reading(q)' => Len(cache'[q].fetch) <= Len(Parts[q])
         /\ \A q \in Queries : Kept(q) \/ Restarted(q)
         /\ \A q \in Queries : q \in qs /\ ~Reading(q) => Restarted(q)
<1>1. \A q \in Queries :
        /\ Kept(q) \/ Restarted(q)
        /\ q \in qs /\ ~Reading(q) => Restarted(q)
  BY DEF IfIdle, Kept, Restarted
<1>2. DOMAIN cache' = Queries /\ cache' = [q \in Queries |-> cache'[q]]
  BY DEF IfIdle
<1> QED BY <1>1, <1>2, CacheTyped

LEMMA FocusKeeps ==
  ASSUME PagesIInv, Focus
  PROVE  PagesIInv'
<1>0. Types /\ RequestsOK /\ UpToDate /\ MineOK  BY DEF PagesIInv
<1>1. /\ session' = session /\ db' = db /\ requests' = requests /\ joined' = joined
      /\ inbox' = inbox /\ mine' = mine /\ cache' = IfIdle(Queries)
      /\ missed' = (missed /\ \E q \in Queries : Reading(q)) /\ Unstruck
  BY DEF Focus, Unstrike, Unstruck
<1>2. /\ \A q \in Queries : Kept(q) \/ Restarted(q)
      /\ \A q \in Queries : ~Reading(q) => Restarted(q)
  BY <1>0, <1>1, IfIdleRestarts
<1>3. Queries' = Queries /\ Polled' = Polled BY <1>1, PageStays
<1>4. RequestsOK' /\ \A r \in requests' : IsRequest(r)
  BY <1>0, <1>1, <1>2, RequestsStay
<1>5. Types'
  BY <1>0, <1>1, <1>3, <1>4, IfIdleRestarts DEF Types, Unstruck
<1>6. UpToDate'
  <2> SUFFICES ASSUME NEW q \in Queries \ Polled, NEW part \in Followed,
  Has(q, part)
               PROVE  Told' \/ ComingRight(q, part)'
    BY <1>3 DEF UpToDate
  <2>1. Told \/ ComingRight(q, part) BY <1>0 DEF UpToDate
  <2>2. CASE ComingRight(q, part) \/ Restarted(q)
    BY <1>0, <1>1, <1>2, <2>2, RightStays
  <2>3. CASE inbox > 0 \/ \E r \in requests : ToTell(r)
    BY <1>1, <2>3 DEF Told, ToTell
  <2>4. CASE missed /\ ~Restarted(q)
    BY <1>1, <1>2, <2>4 DEF Told
  <2> QED BY <2>1, <2>2, <2>3, <2>4 DEF Told
<1>7. MineOK'
  BY <1>0, <1>1, <1>2, MineStays DEF MineOK
<1> QED BY <1>4, <1>5, <1>6, <1>7 DEF PagesIInv

LEMMA PollKeeps ==
  ASSUME PagesIInv, Poll
  PROVE  PagesIInv'
<1>0. Types /\ RequestsOK /\ UpToDate /\ MineOK  BY DEF PagesIInv
<1>1. /\ session' = session /\ db' = db /\ requests' = requests /\ joined' = joined
      /\ inbox' = inbox /\ mine' = mine /\ cache' = IfIdle(Polled) /\ missed' = missed
      /\ struck' = struck /\ Unstruck
  BY DEF Poll, Unstruck
<1>2. \A q \in Queries : Kept(q) \/ Restarted(q)
  BY <1>0, <1>1, IfIdleRestarts
<1>3. Queries' = Queries /\ Polled' = Polled BY <1>1, PageStays
<1>4. RequestsOK' /\ \A r \in requests' : IsRequest(r)
  BY <1>0, <1>1, <1>2, RequestsStay
<1>5. Types'
  BY <1>0, <1>1, <1>3, <1>4, IfIdleRestarts DEF Types, Unstruck
<1>6. UpToDate'
  <2> SUFFICES ASSUME NEW q \in Queries \ Polled, NEW part \in Followed,
  Has(q, part)
               PROVE  Told' \/ ComingRight(q, part)'
    BY <1>3 DEF UpToDate
  <2>1. Told \/ ComingRight(q, part) BY <1>0 DEF UpToDate
  <2> QED BY <1>0, <1>1, <1>2, <2>1, RightStays DEF Told, ToTell
<1>7. MineOK'
  BY <1>0, <1>1, <1>2, MineStays DEF MineOK
<1> QED BY <1>4, <1>5, <1>6, <1>7 DEF PagesIInv

(* An event on its way reaches every query that has to follow, or is missed *)
(* by one that has nothing to show yet.                                     *)
LEMMA DeliverKeeps ==
  ASSUME PagesIInv, Deliver
  PROVE  PagesIInv'
<1>0. Types /\ RequestsOK /\ UpToDate /\ MineOK  BY DEF PagesIInv
<1>1. /\ session' = session /\ db' = db /\ requests' = requests /\ joined' = joined
      /\ inbox > 0 /\ inbox' = inbox - 1 /\ mine' = mine /\ cache' = Again(OnVisitEvent)
      /\ missed' = (missed \/ \E q \in OnVisitEvent : Reading(q) /\ ~Shows(q)) /\ Unstruck
  BY DEF Deliver, Unstrike, Unstruck
<1>2. /\ \A q \in Queries : Kept(q) \/ Restarted(q)
      /\ \A q \in Queries : q \in OnVisitEvent /\ (Shows(q) \/ ~Reading(q)) => Restarted(q)
  BY <1>0, <1>1, AgainRestarts
<1>3. Queries' = Queries /\ Polled' = Polled BY <1>1, PageStays
<1>4. RequestsOK' /\ \A r \in requests' : IsRequest(r)
  BY <1>0, <1>1, <1>2, RequestsStay
<1>5. Types'
  <2>1. inbox' \in 0..MaxInbox /\ missed' \in BOOLEAN
    BY <1>0, <1>1, PagesAssumption DEF Types
  <2> QED BY <1>0, <1>1, <1>3, <1>4, <2>1, AgainRestarts DEF Types, Unstruck
<1>6. UpToDate'
  <2> SUFFICES ASSUME NEW q \in Queries \ Polled, NEW part \in Followed,
  Has(q, part)
               PROVE  Told' \/ ComingRight(q, part)'
    BY <1>3 DEF UpToDate
  <2>1. q \in OnVisitEvent BY <1>0, EventuallyFollowed
  <2>2. CASE Shows(q) \/ ~Reading(q)
    BY <1>0, <1>1, <1>2, <2>1, <2>2, RightStays
  <2>3. CASE ~(Shows(q) \/ ~Reading(q))
    BY <1>1, <2>1, <2>3 DEF Told
  <2> QED BY <2>2, <2>3
<1>7. MineOK'
  BY <1>0, <1>1, <1>2, MineStays DEF MineOK
<1> QED BY <1>4, <1>5, <1>6, <1>7 DEF PagesIInv

(* What the page does not read again after a change of its own does not     *)
(* show that change.                                                        *)
LEMMA RefreshSuffices ==
  ASSUME Types, NEW m, Keyed(m), Clicks(m.op),
         NEW q \in Queries \ Refresh(m.op),
         NEW part \in Kinds \ {"trail"}, Has(q, part)
  PROVE  \A v : Tells(m, part, v)
<1>1. q \in Names /\ session.page \in PageNames BY QueriesNamed
<1>2. CASE session.page = "reception"
  BY <1>2 DEF Queries, Refresh, Clicks, Arrivals
<1>3. CASE session.page = "security"
  <2>1. q \in {"security", "incidents", "watchlist"} /\ m.op \in {"resolve", "list", "remove"}
    BY <1>3 DEF Queries, Clicks
  <2>2. CASE m.op = "resolve"
    <3>1. q = "watchlist" BY <2>1, <2>2 DEF Refresh
    <3>2. part = "watch" BY <3>1 DEF Has, Parts
    <3> QED BY <2>2, <3>2 DEF Tells, Column
  <2>3. CASE m.op \in {"list", "remove"}
    <3>1. q \in {"security", "incidents"} BY <2>1, <2>3 DEF Refresh
    <3>2. part \in {"here", "incident"} BY <3>1 DEF Has, Parts
    <3> QED BY <2>3, <3>2 DEF Tells, Column
  <2> QED BY <2>1, <2>2, <2>3
<1>4. CASE session.page = "detail"
  <2>1. q \in {"get", "trail"} /\ m.op \in {"approve", "resend", "deny", "cancel"}
    BY <1>4 DEF Queries, Clicks
  <2>2. q = "trail" BY <2>1 DEF Refresh
  <2>3. part = "trail" BY <2>2 DEF Has, Parts
  <2> QED BY <2>3
<1> QED BY <1>1, <1>2, <1>3, <1>4 DEF PageNames, Clicks

LEMMA OnSuccessKeeps ==
  ASSUME PagesIInv, NEW r \in requests, OnSuccess(r)
  PROVE  PagesIInv'
<1>0. Types /\ RequestsOK /\ UpToDate /\ MineOK  BY DEF PagesIInv
<1>m. PICK m : m = [op |-> r.op, x |-> r.x, in |-> {q \in Queries : Shows(q)}]
  OBVIOUS
<1>1. /\ session' = session /\ db' = db /\ requests' = requests \ {r} /\ joined' = joined
      /\ inbox' = inbox /\ mine' = {m} /\ cache' = Again(Refresh(r.op)) /\ missed' = missed
      /\ r.own /\ r.done = Total(r.op) /\ Unstruck
  BY <1>m DEF OnSuccess, Total, Unstrike, Unstruck
<1>2. /\ \A q \in Queries : Kept(q) \/ Restarted(q)
      /\ \A q \in Queries : q \in Refresh(r.op) /\ (Shows(q) \/ ~Reading(q)) => Restarted(q)
  BY <1>0, <1>1, AgainRestarts
<1>3. Queries' = Queries /\ Polled' = Polled BY <1>1, PageStays
<1>4. RequestsOK' /\ \A s \in requests' : IsRequest(s)
  BY <1>0, <1>1, <1>2, RequestsStay
<1>5. Types'
  <2>1. \A n \in mine' : IsChange(n) /\ n.in \subseteq Queries'
    BY <1>0, <1>1, <1>3, <1>m DEF Types, IsRequest, IsChange, Keyed
  <2> QED BY <1>0, <1>1, <1>3, <1>4, <2>1, AgainRestarts DEF Types, Unstruck
<1>6. UpToDate'
  <2> SUFFICES ASSUME NEW q \in Queries \ Polled, NEW part \in Followed,
  Has(q, part)
               PROVE  Told' \/ ComingRight(q, part)'
    BY <1>3 DEF UpToDate
  <2>1. Told \/ ComingRight(q, part) BY <1>0 DEF UpToDate
  <2>2. CASE ComingRight(q, part)
    BY <1>0, <1>1, <1>2, <2>2, RightStays
  <2>3. CASE missed \/ inbox > 0 \/ \E s \in requests \ {r} : ToTell(s)
    BY <1>1, <2>3 DEF Told, ToTell
  <2>4. ~ToTell(r) BY <1>0, <1>1, ScriptShape DEF ToTell, Types, IsRequest,
                              Keyed
  <2> QED BY <2>1, <2>2, <2>3, <2>4 DEF Told
<1>7. MineOK'
  <2>1. Keyed(m) /\ Clicks(m.op)
    BY <1>0, <1>1, <1>m DEF RequestsOK, Types, IsRequest, Keyed
  <2>2. Clicks(m.op)'
    BY <1>1, <2>1, PageStays
  <2>3. ASSUME NEW q \in m.in
        PROVE  /\ Shows(q)'
               /\ \A part \in Kinds \ {"trail"} : Has(q, part) => ComingTells(m, q, part)'
    <3>1. q \in Queries /\ Shows(q) BY <1>m
    <3>2. Shows(q)' BY <1>0, <1>1, <1>2, <3>1, ShowsStays
    <3>3. CASE Restarted(q)
      BY <1>0, <1>1, <3>1, <3>2, <3>3, RestartedComes
    <3>4. CASE ~Restarted(q)
      <4>1. q \in Queries \ Refresh(m.op) BY <1>2, <1>m, <3>1, <3>4
      <4>2. ASSUME NEW part \in Kinds \ {"trail"},
      Has(q, part) PROVE ComingTells(m, q, part)'
        <5>1. \A v : Tells(m, part, v)
          BY <1>0, <2>1, <4>1, <4>2, RefreshSuffices
        <5>2. \A v : Tells(m, part, v)' BY <1>1, <5>1, ValuesStay
        <5> QED BY <5>2 DEF ComingTells
      <4> QED BY <3>2, <4>2
    <3> QED BY <3>3, <3>4
  <2> QED BY <1>1, <2>2, <2>3 DEF MineOK
<1> QED BY <1>4, <1>5, <1>6, <1>7 DEF PagesIInv

LEMMA SocketKeeps ==
  ASSUME PagesIInv, Connect \/ Disconnect
  PROVE  PagesIInv'
<1>0. Types /\ RequestsOK /\ UpToDate /\ MineOK  BY DEF PagesIInv
<1>1. /\ session' = session /\ db' = db /\ requests' = requests /\ joined' \in BOOLEAN
      /\ mine' = mine /\ cache' = cache /\ missed' \in BOOLEAN /\ struck' = struck
      /\ \/ inbox' = inbox /\ missed' = missed
         \/ inbox' = 0 /\ missed' = (missed \/ inbox > 0)
  BY <1>0 DEF Connect, Disconnect, Types
<1>2. \A q \in Queries : Kept(q) BY <1>1 DEF Kept
<1>3. Queries' = Queries /\ Polled' = Polled BY <1>1, PageStays
<1>4. RequestsOK' /\ \A r \in requests' : IsRequest(r)
  BY <1>0, <1>1, <1>2, RequestsStay
<1>5. Types'
  BY <1>0, <1>1, <1>3, <1>4, PagesAssumption DEF Types, Reading
<1>6. UpToDate'
  <2> SUFFICES ASSUME NEW q \in Queries \ Polled, NEW part \in Followed,
  Has(q, part)
               PROVE  Told' \/ ComingRight(q, part)'
    BY <1>3 DEF UpToDate
  <2>1. Told \/ ComingRight(q, part) BY <1>0 DEF UpToDate
  <2> QED BY <1>0, <1>1, <1>2, <2>1, RightStays DEF Told, ToTell, Unstruck
<1>7. MineOK'
  BY <1>0, <1>1, <1>2, MineStays DEF MineOK
<1> QED BY <1>4, <1>5, <1>6, <1>7 DEF PagesIInv

LEMMA DieKeeps ==
  ASSUME PagesIInv, NEW r \in requests, Die(r)
  PROVE  PagesIInv'
<1>0. Types /\ RequestsOK /\ UpToDate /\ MineOK  BY DEF PagesIInv
<1>1. /\ session' = session /\ db' = db /\ requests' = requests \ {r} /\ joined' = joined
      /\ mine' = mine /\ cache' = cache /\ missed' = TRUE /\ inbox' = inbox
      /\ struck' = struck
  BY DEF Die
<1>2. \A q \in Queries : Kept(q) BY <1>1 DEF Kept
<1>3. Queries' = Queries BY <1>1, PageStays
<1>4. RequestsOK' /\ \A s \in requests' : IsRequest(s)
  BY <1>0, <1>1, <1>2, RequestsStay
<1>5. Types'
  BY <1>0, <1>1, <1>3, <1>4 DEF Types, Reading
<1>6. UpToDate' BY <1>1 DEF UpToDate, Told
<1>7. MineOK'
  BY <1>0, <1>1, <1>2, MineStays DEF MineOK
<1> QED BY <1>4, <1>5, <1>6, <1>7 DEF PagesIInv

LEMMA RefusedKeeps ==
  ASSUME PagesIInv, NEW r \in requests, Refused(r)
  PROVE  PagesIInv'
<1>0. Types /\ RequestsOK /\ UpToDate /\ MineOK BY DEF PagesIInv
<1>1. /\ session' = session /\ db' = db /\ requests' = requests \ {r} /\ joined' = joined
      /\ mine' = mine /\ cache' = cache /\ missed' = missed /\ inbox' = inbox
      /\ struck' = struck /\ r.op = "checkIn" /\ r.done = 1
  BY DEF Refused
<1>2. \A q \in Queries : Kept(q) BY <1>1 DEF Kept
<1>3. Queries' = Queries /\ Polled' = Polled BY <1>1, PageStays
<1>4. RequestsOK' /\ \A s \in requests' : IsRequest(s)
  BY <1>0, <1>1, RequestsStay
<1>5. Types'
  BY <1>0, <1>1, <1>3, <1>4 DEF Types, Reading
<1>6. ~ToTell(r) BY <1>1 DEF ToTell, Script
<1>7. UpToDate'
  <2> SUFFICES ASSUME NEW q \in Queries \ Polled, NEW part \in Followed,
  Has(q, part)
               PROVE  Told' \/ ComingRight(q, part)'
    BY <1>3 DEF UpToDate
  <2>1. Told \/ ComingRight(q, part) BY <1>0 DEF UpToDate
  <2>2. CASE Told BY <1>1, <1>6, <2>2 DEF Told, ToTell
  <2> QED BY <1>0, <1>1, <1>2, <2>1, <2>2, RightStays DEF Unstruck
<1>8. MineOK'
  BY <1>0, <1>1, <1>2, MineStays DEF MineOK
<1> QED BY <1>4, <1>5, <1>7, <1>8 DEF PagesIInv

-----------------------------------------------------------------------------
(* A read takes the tables part by part: what it adds is right.             *)
LEMMA ReadKeeps ==
  ASSUME PagesIInv, NEW q \in Queries, Read(q)
  PROVE  PagesIInv'
<1>0. Types /\ RequestsOK /\ UpToDate /\ MineOK  BY DEF PagesIInv
<1> DEFINE f == cache[q].fetch
<1> DEFINE part0 == Parts[q][Len(f) + 1]
<1>1. /\ session' = session /\ db' = db /\ requests' = requests /\ joined' = joined
      /\ inbox' = inbox /\ mine' = mine /\ missed' = missed /\ struck' = struck
      /\ Reading(q) /\ Len(f) < Len(Parts[q])
      /\ cache' = [cache EXCEPT ![q].fetch = Append(f, RowsOf(part0))]
  BY DEF Read
<1>2. /\ cache[q] \in Slot /\ f \in Seq(Values) /\ Len(f) \in Nat
  BY <1>0, <1>1 DEF Types, Slot, Reading
<1>3. q \in Names /\ Len(Parts[q]) \in {1, 2} /\ part0 \in Kinds
  <2>1. q \in Names /\ Len(Parts[q]) \in {1, 2} /\ Parts[q] \in Seq(Kinds)
    BY <1>0, QueriesNamed, PartsShape
  <2>2. Len(f) + 1 \in 1..Len(Parts[q]) BY <1>1, <1>2, <2>1
  <2> QED BY <2>1, <2>2
<1>4. RowsOf(part0) \in Values /\ Right(part0, RowsOf(part0))
  BY <1>0, <1>3, TablesRead
<1>5. /\ cache'[q].data = cache[q].data /\ cache'[q].fetch = Append(f, RowsOf(part0))
      /\ cache'[q] \in Slot
      /\ \A k \in Queries \ {q} : Kept(k)
      /\ cache' \in [Queries -> Slot]
  <2>1. Append(f, RowsOf(part0)) \in Seq(Values) BY <1>2, <1>4
  <2> QED BY <1>0, <1>1, <1>2, <2>1 DEF Types, Slot, Kept
<1>6. /\ Len(cache'[q].fetch) = Len(f) + 1
      /\ cache'[q].fetch[Len(f) + 1] = RowsOf(part0)
      /\ \A i \in 1..Len(f) : cache'[q].fetch[i] = f[i]
  BY <1>2, <1>4, <1>5
<1>7. Queries' = Queries /\ Polled' = Polled BY <1>1, PageStays
<1>8. Shows(q)' = Shows(q) /\ Reading(q)'
  <2>1. cache'[q].fetch \in Seq(Values) BY <1>2, <1>4, <1>5
  <2> QED BY <1>5, <1>7, <2>1, PagesAssumption DEF Shows, Reading
<1>9. \A k : Shows(k) => Shows(k)'
  BY <1>1, <1>5, <1>8, KeptStays DEF Shows
<1>10. RequestsOK' /\ \A r \in requests' : IsRequest(r)
  BY <1>0, <1>1, <1>9, RequestsStay
<1>11. Types'
  <2>1. ASSUME NEW k \in Queries
        PROVE  /\ Len(cache'[k].data) \in {0, Len(Parts[k])}
               /\ Reading(k)' => Len(cache'[k].fetch) <= Len(Parts[k])
    <3>1. CASE k = q
      <4>1. Len(f) + 1 <= Len(Parts[q]) BY <1>1, <1>2, <1>3
      <4> QED BY <1>0, <1>5, <1>6, <3>1, <4>1 DEF Types
    <3>2. CASE k # q
      BY <1>0, <1>1, <1>5, <3>2, KeptStays DEF Types, Kept
    <3> QED BY <3>1, <3>2
  <2> QED BY <1>0, <1>1, <1>5, <1>7, <1>10, <2>1 DEF Types
<1>12. ASSUME NEW part, Has(q, part)
       PROVE  /\ Pos(q, part) \in 1..Len(Parts[q]) /\ Pos(q, part)' = Pos(q, part)
              /\ Pos(q, part) <= Len(f) \/ (Pos(q, part) = Len(f) + 1 /\ part = part0)
                   \/ Pos(q, part) > Len(f) + 1
  <2>1. Pos(q, part) \in 1..Len(Parts[q]) /\ Parts[q][Pos(q, part)] = part
    BY <1>0, <1>12, PosIsThere
  <2>2. Pos(q, part)' = Pos(q, part) BY DEF Pos
  <2> QED BY <1>2, <1>3, <2>1, <2>2
<1>13. UpToDate'
  <2> SUFFICES ASSUME NEW k \in Queries \ Polled, NEW part \in Followed,
  Has(k, part)
               PROVE  Told' \/ ComingRight(k, part)'
    BY <1>7 DEF UpToDate
  <2>1. Told \/ ComingRight(k, part) BY <1>0 DEF UpToDate
  <2>2. CASE Told BY <1>1, <2>2 DEF Told, ToTell
  <2>3. CASE k # q BY <1>0, <1>1, <1>5, <2>1, <2>2, <2>3, RightStays
     DEF Unstruck
  <2>4. CASE k = q /\ ComingRight(q, part)
    <3>1. CASE Pos(q, part) <= Len(f)
      <4>1. Right(part, cache'[q].fetch[Pos(q, part)])
        BY <1>1, <1>2, <1>3, <1>6, <1>12, <2>4, <3>1 DEF ComingRight
      <4> QED BY <1>1, <1>8, <1>12, <2>4, <4>1, ValuesStay DEF ComingRight
    <3>2. CASE Pos(q, part) = Len(f) + 1 /\ part = part0
      <4>1. Right(part, cache'[q].fetch[Pos(q, part)]) BY <1>4, <1>6, <3>2
      <4> QED BY <1>1, <1>8, <1>12, <2>4, <4>1, ValuesStay DEF ComingRight
    <3>3. CASE Pos(q, part) > Len(f) + 1
      <4>1. ~(Len(cache'[q].fetch) >= Pos(q, part))
        BY <1>2, <1>3, <1>6, <1>12, <2>4, <3>3
      <4> QED BY <1>8, <1>12, <2>4, <4>1 DEF ComingRight
    <3> QED BY <1>12, <2>4, <3>1, <3>2, <3>3
  <2> QED BY <2>1, <2>2, <2>3, <2>4
<1>14. MineOK'
  <2> SUFFICES ASSUME NEW m \in mine
               PROVE  /\ Clicks(m.op)'
                      /\ \A k \in m.in : /\ Shows(k)'
                                         /\ \A part \in Kinds \ {"trail"} :
                                              Has(k, part) => ComingTells(m, k, part)'
    BY <1>1 DEF MineOK
  <2>1. Keyed(m) /\ Clicks(m.op) /\ Clicks(m.op)'
    BY <1>0, <1>1, PageStays DEF MineOK, Types, IsChange
  <2>2. ASSUME NEW k \in m.in, NEW part \in Kinds \ {"trail"}, Has(k, part)
        PROVE  ComingTells(m, k, part)'
    <3>0. k \in Queries /\ ComingTells(m, k, part) BY <1>0, <2>2 DEF Types,
                              MineOK
    <3>1. CASE k # q BY <1>1, <1>5, <3>0, <3>1, KeptStays
    <3>2. CASE k = q /\ Pos(q, part) <= Len(f)
      <4>1. Tells(m, part, cache'[q].fetch[Pos(q, part)])
        BY <1>1, <1>2, <1>3, <1>6, <1>12, <2>2, <3>0, <3>2 DEF ComingTells
      <4> QED BY <1>1, <1>8, <1>12, <2>2, <3>2, <4>1, ValuesStay DEF ComingTells
    <3>3. CASE k = q /\ Pos(q, part) = Len(f) + 1 /\ part = part0
      <4>1. Tells(m, part, RowsOf(part)) BY <1>0, <2>1, TablesTell
      <4>2. Tells(m, part, cache'[q].fetch[Pos(q, part)]) BY <1>6, <3>3, <4>1
      <4> QED BY <1>1, <1>8, <1>12, <2>2, <3>3, <4>2, ValuesStay DEF ComingTells
    <3>4. CASE k = q /\ Pos(q, part) > Len(f) + 1
      <4>1. ~(Len(cache'[q].fetch) >= Pos(q, part))
        BY <1>2, <1>3, <1>6, <1>12, <2>2, <3>4
      <4> QED BY <1>8, <1>12, <2>2, <3>4, <4>1 DEF ComingTells
    <3> QED BY <1>12, <2>2, <3>1, <3>2, <3>3, <3>4
  <2>3. \A k \in m.in : Shows(k)' BY <1>0, <1>9 DEF MineOK
  <2> QED BY <2>1, <2>2, <2>3
<1> QED BY <1>10, <1>11, <1>13, <1>14 DEF PagesIInv

(* An answered read becomes what is shown.                                  *)
LEMMA AnswerKeeps ==
  ASSUME PagesIInv, NEW q \in Queries, Answer(q)
  PROVE  PagesIInv'
<1>0. Types /\ RequestsOK /\ UpToDate /\ MineOK  BY DEF PagesIInv
<1> DEFINE f == cache[q].fetch
<1>1. /\ session' = session /\ db' = db /\ requests' = requests /\ joined' = joined
      /\ inbox' = inbox /\ mine' = mine /\ missed' = missed /\ struck' = struck
      /\ Reading(q) /\ Len(f) = Len(Parts[q])
      /\ cache' = [cache EXCEPT ![q] = [data |-> f, fetch |-> None]]
  BY DEF Answer
<1>2. cache[q] \in Slot /\ f \in Seq(Values) /\ Len(Parts[q]) \in {1, 2}
  <2>1. q \in Names BY <1>0, QueriesNamed
  <2> QED BY <1>0, <1>1, <2>1, PartsShape DEF Types, Slot, Reading
<1>3. /\ cache'[q] = [data |-> f, fetch |-> None] /\ \A k \in Queries \ {q} : Kept(k)
      /\ cache' \in [Queries -> Slot]
  BY <1>0, <1>1, <1>2 DEF Types, Slot, Kept
<1>4. Queries' = Queries /\ Polled' = Polled BY <1>1, PageStays
<1>5. Shows(q)' /\ ~Reading(q)' /\ cache'[q].data = f
  <2>1. ASSUME f = <<>> PROVE FALSE
    <3>1. Len(f) = 0 BY <2>1
    <3> QED BY <1>1, <1>2, <3>1
  <2>2. f # <<>> BY <2>1
  <2> QED BY <1>3, <1>4, <2>2 DEF Shows, Reading
<1>6. \A k : Shows(k) => Shows(k)'
  BY <1>1, <1>3, <1>5, KeptStays DEF Shows
<1>7. RequestsOK' /\ \A r \in requests' : IsRequest(r)
  BY <1>0, <1>1, <1>6, RequestsStay
<1>8. Types'
  <2>1. ASSUME NEW k \in Queries
        PROVE  /\ Len(cache'[k].data) \in {0, Len(Parts[k])}
               /\ Reading(k)' => Len(cache'[k].fetch) <= Len(Parts[k])
    <3>1. CASE k = q BY <1>1, <1>5, <3>1
    <3>2. CASE k # q BY <1>0, <1>1, <1>3, <3>2, KeptStays DEF Types, Kept
    <3> QED BY <3>1, <3>2
  <2> QED BY <1>0, <1>1, <1>3, <1>4, <1>7, <2>1 DEF Types
<1>9. ASSUME NEW part, Has(q, part)
      PROVE  Len(f) >= Pos(q, part) /\ Pos(q, part)' = Pos(q, part)
  <2>1. Pos(q, part) \in 1..Len(Parts[q]) BY <1>0, <1>9, PosIsThere
  <2>2. Pos(q, part)' = Pos(q, part) BY DEF Pos
  <2> QED BY <1>1, <1>2, <2>1, <2>2
<1>10. UpToDate'
  <2> SUFFICES ASSUME NEW k \in Queries \ Polled, NEW part \in Followed,
  Has(k, part)
               PROVE  Told' \/ ComingRight(k, part)'
    BY <1>4 DEF UpToDate
  <2>1. Told \/ ComingRight(k, part) BY <1>0 DEF UpToDate
  <2>2. CASE Told BY <1>1, <2>2 DEF Told, ToTell
  <2>3. CASE k # q BY <1>0, <1>1, <1>3, <2>1, <2>2, <2>3, RightStays
     DEF Unstruck
  <2>4. CASE k = q /\ ComingRight(q, part)
    <3>1. Right(part, cache'[q].data[Pos(q, part)])
      BY <1>1, <1>5, <1>9, <2>4 DEF ComingRight
    <3> QED BY <1>1, <1>5, <1>9, <2>4, <3>1, ValuesStay DEF ComingRight
  <2> QED BY <2>1, <2>2, <2>3, <2>4
<1>11. MineOK'
  <2> SUFFICES ASSUME NEW m \in mine
               PROVE  /\ Clicks(m.op)'
                      /\ \A k \in m.in : /\ Shows(k)'
                                         /\ \A part \in Kinds \ {"trail"} :
                                              Has(k, part) => ComingTells(m, k, part)'
    BY <1>1 DEF MineOK
  <2>1. Clicks(m.op)' BY <1>0, <1>1, PageStays DEF MineOK
  <2>2. ASSUME NEW k \in m.in, NEW part \in Kinds \ {"trail"}, Has(k, part)
        PROVE  ComingTells(m, k, part)'
    <3>0. k \in Queries /\ ComingTells(m, k, part) BY <1>0, <2>2 DEF Types,
                              MineOK
    <3>1. CASE k # q BY <1>1, <1>3, <3>0, <3>1, KeptStays
    <3>2. CASE k = q
      <4>1. Tells(m, part, cache'[q].data[Pos(q, part)])
        BY <1>1, <1>5, <1>9, <2>2, <3>0, <3>2 DEF ComingTells
      <4> QED BY <1>1, <1>5, <1>9, <2>2, <3>2, <4>1, ValuesStay DEF ComingTells
    <3> QED BY <3>1, <3>2
  <2>3. \A k \in m.in : Shows(k)' BY <1>0, <1>6 DEF MineOK
  <2> QED BY <2>1, <2>2, <2>3
<1> QED BY <1>7, <1>8, <1>10, <1>11 DEF PagesIInv

LEMMA GiveUpKeeps ==
  ASSUME PagesIInv, NEW q \in Queries, GiveUp(q)
  PROVE  PagesIInv'
<1>0. Types /\ RequestsOK /\ UpToDate /\ MineOK  BY DEF PagesIInv
<1>1. /\ session' = session /\ db' = db /\ requests' = requests /\ joined' = joined
      /\ inbox' = inbox /\ mine' = {[m EXCEPT !.in = @ \ {q}] : m \in mine} /\ missed' = TRUE
      /\ struck' = struck /\ cache' = [cache EXCEPT ![q].fetch = None]
  BY DEF GiveUp
<1>2. /\ cache' \in [Queries -> Slot] /\ cache'[q].fetch = None
      /\ cache'[q].data = cache[q].data /\ \A k \in Queries \ {q} : Kept(k)
  BY <1>0, <1>1 DEF Types, Slot, Kept
<1>3. Queries' = Queries BY <1>1, PageStays
<1>4. \A k : Shows(k) => Shows(k)'
  BY <1>1, <1>2, <1>3, KeptStays DEF Shows
<1>5. RequestsOK' /\ \A r \in requests' : IsRequest(r)
  BY <1>0, <1>1, <1>4, RequestsStay
<1>6. Types'
  <2>1. ASSUME NEW k \in Queries
        PROVE  /\ Len(cache'[k].data) \in {0, Len(Parts[k])}
               /\ Reading(k)' => Len(cache'[k].fetch) <= Len(Parts[k])
    <3>1. CASE k = q BY <1>0, <1>2, <3>1 DEF Types, Reading
    <3>2. CASE k # q BY <1>0, <1>1, <1>2, <3>2, KeptStays DEF Types, Kept
    <3> QED BY <3>1, <3>2
  <2>2. \A m \in mine' : IsChange(m) /\ m.in \subseteq Queries
    BY <1>0, <1>1 DEF Types, IsChange, Keyed
  <2> QED BY <1>0, <1>1, <1>2, <1>3, <1>5, <2>1, <2>2 DEF Types
<1>7. UpToDate' BY <1>1 DEF UpToDate, Told
<1>8. MineOK'
  <2> SUFFICES ASSUME NEW n \in mine'
               PROVE  /\ Clicks(n.op)'
                      /\ \A k \in n.in : /\ Shows(k)'
                                         /\ \A part \in Kinds \ {"trail"} :
                                              Has(k, part) => ComingTells(n, k, part)'
    BY DEF MineOK
  <2>1. PICK m \in mine : n = [m EXCEPT !.in = @ \ {q}] BY <1>1
  <2>2. n.op = m.op /\ n.x = m.x /\ n.in = m.in \ {q}
    BY <1>0, <2>1 DEF Types, IsChange
  <2>3. Clicks(n.op)' BY <1>0, <1>1, <2>2, PageStays DEF MineOK
  <2>4. ASSUME NEW k \in n.in, NEW part \in Kinds \ {"trail"}, Has(k, part)
        PROVE  ComingTells(n, k, part)'
    <3>1. k \in Queries \ {q} /\ ComingTells(m, k, part)
      BY <1>0, <2>2, <2>4 DEF Types, MineOK
    <3>2. ComingTells(m, k, part)' BY <1>1, <1>2, <3>1, KeptStays
    <3> QED BY <2>2, <3>2 DEF ComingTells, Tells
  <2>5. \A k \in n.in : Shows(k)' BY <1>0, <1>4, <2>2 DEF MineOK
  <2> QED BY <2>3, <2>4, <2>5
<1> QED BY <1>5, <1>6, <1>7, <1>8 DEF PagesIInv

-----------------------------------------------------------------------------
(* What a write leaves of the tables.                                       *)
LEMMA WriteLeaves ==
  ASSUME Types, NEW r, Keyed(r), NEW value \in Values0(r.op),
         db' = [db EXCEPT ![Column(r.op)][r.x] = value]
  PROVE  /\ db' \in Tables
         /\ Column(r.op) = "status" =>
              /\ db'.status = [db.status EXCEPT ![r.x] = value]
              /\ db'.trail = db.trail /\ db'.incident = db.incident /\ db'.watch = db.watch
         /\ Column(r.op) = "incident" =>
              /\ db'.incident = [db.incident EXCEPT ![r.x] = value]
              /\ db'.trail = db.trail /\ db'.status = db.status /\ db'.watch = db.watch
         /\ Column(r.op) = "watch" =>
              /\ db'.watch = [db.watch EXCEPT ![r.x] = value]
              /\ db'.trail = db.trail /\ db'.status = db.status /\ db'.incident = db.incident
<1>1. /\ db = [status |-> db.status, trail |-> db.trail, incident |-> db.incident,
               watch |-> db.watch]
      /\ db.status \in [All -> VisitStatuses] /\ db.trail \in [All -> Nat]
      /\ db.incident \in [Incidents -> {"none", "open", "resolved"}]
      /\ db.watch \in [Entries -> {"none", "listed", "removed"}]
  BY DEF Types, Tables
<1>2. CASE Column(r.op) = "status"
  <2>1. r.x \in All /\ value \in VisitStatuses BY <1>2, KeyedIn DEF Values0
  <2>2. db' = [db EXCEPT !.status = [db.status EXCEPT ![r.x] = value]]
    BY <1>2
  <2> QED BY <1>1, <1>2, <2>1, <2>2 DEF Tables
<1>3. CASE Column(r.op) = "incident"
  <2>1. r.x \in Incidents /\ value \in {"none", "open", "resolved"}
    BY <1>3, KeyedIn DEF Values0
  <2>2. db' = [db EXCEPT !.incident = [db.incident EXCEPT ![r.x] = value]]
    BY <1>3
  <2> QED BY <1>1, <1>3, <2>1, <2>2 DEF Tables
<1>4. CASE Column(r.op) = "watch"
  <2>1. r.x \in Entries /\ value \in {"none", "listed", "removed"}
    BY <1>4, KeyedIn DEF Values0
  <2>2. db' = [db EXCEPT !.watch = [db.watch EXCEPT ![r.x] = value]]
    BY <1>4
  <2> QED BY <1>1, <1>4, <2>1, <2>2 DEF Tables
<1> QED BY <1>2, <1>3, <1>4, KeyedIn

LEMMA RecordLeaves ==
  ASSUME Types, NEW x \in All, db' = Recorded(x)
  PROVE  /\ db' \in Tables /\ db'.status = db.status
         /\ db'.incident = db.incident /\ db'.watch = db.watch
<1>1. /\ db = [status |-> db.status, trail |-> db.trail, incident |-> db.incident,
               watch |-> db.watch]
      /\ db.status \in [All -> VisitStatuses] /\ db.trail \in [All -> Nat]
      /\ db.incident \in [Incidents -> {"none", "open", "resolved"}]
      /\ db.watch \in [Entries -> {"none", "listed", "removed"}]
  BY DEF Types, Tables
<1>2. db' = db \/ db' = [db EXCEPT !.trail = [db.trail EXCEPT ![x] = @ + 1]]
  BY DEF Recorded
<1>3. CASE db' = db BY <1>3 DEF Types
<1>4. CASE db' = [db EXCEPT !.trail = [db.trail EXCEPT ![x] = @ + 1]]
  <2>1. [db.trail EXCEPT ![x] = @ + 1] \in [All -> Nat] BY <1>1
  <2> QED BY <1>1, <1>4, <2>1 DEF Tables
<1> QED BY <1>2, <1>3, <1>4

(* A row that is left as it is goes on being shown as it is.                *)
LEMMA MineLeft ==
  ASSUME Types, MineOK, session' = session, cache' = cache,
         mine' \subseteq mine,
         \A m \in mine' : db'[Column(m.op)][m.x] = db[Column(m.op)][m.x]
  PROVE  MineOK' /\ \A m \in mine' : IsChange(m) /\ m.in \subseteq Queries'
<1> SUFFICES ASSUME NEW m \in mine'
             PROVE  /\ Clicks(m.op)' /\ IsChange(m) /\ m.in \subseteq Queries'
                    /\ \A q \in m.in : /\ Shows(q)'
                                       /\ \A part \in Kinds \ {"trail"} :
                                            Has(q, part) => ComingTells(m, q, part)'
  BY DEF MineOK
<1>1. m \in mine /\ Clicks(m.op) /\ IsChange(m) /\ m.in \subseteq Queries
  BY DEF MineOK, Types
<1>2. Queries' = Queries /\ Clicks(m.op)' BY <1>1, PageStays
<1>3. \A q : Shows(q)' = Shows(q) /\ Reading(q)' = Reading(q)
  BY <1>2 DEF Shows, Reading
<1>4. \A part, v : Tells(m, part, v)' = Tells(m, part, v)
  <2>1. db'[Column(m.op)][m.x] = db[Column(m.op)][m.x] OBVIOUS
  <2>2. Column(m.op) = "status" => db'.status[m.x] = db.status[m.x]
    <3>1. Column(m.op) = "status" => db'["status"][m.x] = db["status"][m.x] BY <2>1
    <3> QED BY <3>1
  <2> QED BY <2>1, <2>2 DEF Tells
<1>5. ASSUME NEW q \in m.in, NEW part \in Kinds \ {"trail"}, Has(q, part)
      PROVE  ComingTells(m, q, part)'
  <2>1. ComingTells(m, q, part) BY <1>1, <1>5 DEF MineOK
  <2>2. Pos(q, part)' = Pos(q, part) BY DEF Pos
  <2> QED BY <1>3, <1>4, <2>1, <2>2 DEF ComingTells
<1>6. \A q \in m.in : Shows(q)' BY <1>1, <1>3 DEF MineOK
<1> QED BY <1>1, <1>2, <1>5, <1>6

(* What no event will tell of changes nothing that a page at rest has to    *)
(* show, but for the visit it may have struck off.                          *)
LEMMA RightStruck ==
  ASSUME Types, NEW r, Keyed(r), r.op \notin Announced, session' = session,
         cache' = cache,
         NEW value \in Values0(r.op) \ {"in", "open"}, Write(r, value),
         NEW q, NEW part, ComingRight(q, part)
  PROVE  ComingRight(q, part)'
<1>1. /\ db' = [db EXCEPT ![Column(r.op)][r.x] = value]
      /\ struck' = IF Column(r.op) = "status" /\ db.status[r.x] = "in"
                   THEN struck \cup {r.x} ELSE struck
  BY ScriptShape DEF Write, Keyed
<1>2. \A v : Right(part, v) => Right(part, v)'
  <2>1. CASE Column(r.op) = "status"
    <3>1. /\ db'.status = [db.status EXCEPT ![r.x] = value]
          /\ db'.trail = db.trail /\ db'.incident = db.incident
          /\ db.status \in [All -> VisitStatuses] /\ r.x \in All
      BY <1>1, <2>1, WriteLeaves, KeyedIn DEF Types, Tables
    <3>2. OnSite(db'.status) = OnSite(db.status) \ {r.x} BY <3>1 DEF OnSite
    <3>3. \/ struck' = struck \cup {r.x}
          \/ struck' = struck /\ r.x \notin OnSite(db.status)
      BY <1>1, <2>1, <3>1 DEF OnSite
    <3>4. ASSUME NEW a, NEW b, a \ struck = b \ struck,
                 b = OnSite(db.status) \/ b = Rows \cap OnSite(db.status)
          PROVE  a \ struck' = (b \ {r.x}) \ struck'
      BY <3>3, <3>4
    <3>5. part \in {"here", "status"} => \A v : Right(part, v) => Right(part, v)'
      <4>1. Rows' \cap OnSite(db'.status) = (Rows \cap OnSite(db.status)) \ {r.x}
        BY <3>2, PageStays
      <4>2. CASE part = "here" BY <3>2, <3>4, <4>2 DEF Right
      <4>3. CASE part = "status"
        <5>1. ASSUME NEW v, Right(part, v) PROVE Right(part, v)'
          <6>1. OnSite(v) \ struck = (Rows \cap OnSite(db.status)) \ struck
            BY <4>3, <5>1 DEF Right
          <6>2. OnSite(v) \ struck' = ((Rows \cap OnSite(db.status)) \ {r.x}) \ struck'
            BY <3>4, <6>1
          <6>3. OnSite(v) \ struck' = (Rows' \cap OnSite(db'.status)) \ struck'
            BY <4>1, <6>2
          <6> QED BY <4>3, <6>3 DEF Right
        <5> QED BY <5>1
      <4> QED BY <4>2, <4>3
    <3>6. part \notin {"here", "status"} => \A v : Right(part, v) => Right(part, v)'
      BY <3>1, PageStays DEF Right, CurrentLocations
    <3> QED BY <3>5, <3>6
  <2>2. CASE Column(r.op) = "incident"
    <3>1. /\ db'.incident = [db.incident EXCEPT ![r.x] = value] /\ r.x \in Incidents
          /\ db'.trail = db.trail /\ db'.status = db.status /\ value # "open"
          /\ DOMAIN db.incident = Incidents /\ struck' = struck
      BY <1>1, <2>2, WriteLeaves, KeyedIn DEF Types, Tables
    <3>2. \A i \in Incidents : db'.incident[i] = "open" => db.incident[i] = "open"
      BY <3>1
    <3> QED BY <3>1, <3>2, PageStays DEF Right, CurrentLocations
  <2>3. CASE Column(r.op) = "watch"
    <3>1. /\ db'.incident = db.incident /\ db'.trail = db.trail /\ db'.status = db.status
          /\ struck' = struck
      BY <1>1, <2>3, WriteLeaves
    <3> QED BY <3>1, PageStays DEF Right, CurrentLocations
  <2> QED BY <2>1, <2>2, <2>3, KeyedIn
<1>3. Reading(q)' = Reading(q) /\ Shows(q)' = Shows(q) /\ Pos(q, part)' = Pos(q, part)
  BY PageStays DEF Reading, Shows, Pos
<1> QED BY <1>2, <1>3 DEF ComingRight

(* One step of a request, its first or a later one.                         *)
LEMMA PerformKeeps ==
  ASSUME PagesIInv, NEW r, Keyed(r), r.own \in BOOLEAN,
         r.done \in 0..(Total(r.op) - 1),
         r = [op |-> r.op, x |-> r.x, own |-> r.own, done |-> r.done],
         r \in requests => r.done >= 1, r.own => Clicks(r.op), Perform(r)
  PROVE  PagesIInv'
<1>0. Types /\ RequestsOK /\ UpToDate /\ MineOK BY DEF PagesIInv
<1>n. PICK n : n = [r EXCEPT !.done = @ + 1] OBVIOUS
<1>s. PICK step : step = Script(r.op)[r.done + 1] OBVIOUS
<1>1. /\ session' = session /\ joined' = joined /\ cache' = cache
      /\ requests' = (requests \ {r}) \cup Advance(n)
  BY <1>n DEF Perform
<1>2. /\ n.op = r.op /\ n.x = r.x /\ n.own = r.own /\ n.done = r.done + 1
      /\ n = [op |-> n.op, x |-> n.x, own |-> n.own, done |-> n.done]
  BY <1>n
<1>3. /\ r.op \in Ops /\ Total(r.op) \in 1..5 /\ r.done + 1 \in 1..Total(r.op)
  BY ScriptShape DEF Keyed
<1>4. /\ step \notin Special => step \in Values0(r.op)
      /\ step = "read" => r.done + 1 = 1
      /\ r.op \notin Announced => step \notin {"event", "trail", "in", "open"}
      /\ r.op \in Announced /\ r.done + 1 = Total(r.op) => step = "event"
  BY <1>3, <1>s, ScriptShape
<1>5. IsRequest(n) BY <1>2, <1>3 DEF IsRequest, Keyed
<1>6. Advance(n) \subseteq {n} /\ (n.done # Total(r.op) => Advance(n) = {n})
  BY <1>2 DEF Advance, Total
<1>7. Queries' = Queries /\ Polled' = Polled BY <1>1, PageStays
<1>8. \/ step = "read" /\ UNCHANGED <<db, inbox, missed, struck, mine>>
      \/ step = "event" /\ Emit /\ UNCHANGED <<db, struck, mine>>
      \/ step = "trail" /\ db' = Recorded(r.x) /\ UNCHANGED <<inbox, missed, struck, mine>>
      \/ step \notin Special /\ Write(r, step) /\ UNCHANGED <<inbox, missed>>
  BY <1>s DEF Perform, Special
<1>9. inbox' \in 0..MaxInbox /\ missed' \in BOOLEAN
  <2>1. CASE inbox' = inbox /\ missed' = missed BY <1>0, <2>1 DEF Types
  <2>2. CASE Emit
    <3>1. \/ inbox < MaxInbox /\ inbox' = inbox + 1 /\ missed' = missed
          \/ inbox' = inbox /\ missed' = TRUE
      BY <2>2 DEF Emit
    <3>2. inbox' \in 0..MaxInbox BY <1>0, <3>1, PagesAssumption DEF Types
    <3>3. missed' \in BOOLEAN BY <1>0, <3>1 DEF Types
    <3> QED BY <3>2, <3>3
  <2> QED BY <1>8, <2>1, <2>2
<1>10. /\ db' \in Tables /\ struck' \subseteq Visits /\ mine' \subseteq mine
       /\ \A m \in mine' : db'[Column(m.op)][m.x] = db[Column(m.op)][m.x]
  <2>1. CASE UNCHANGED <<db, struck, mine>> BY <1>0, <2>1 DEF Types
  <2>2. CASE step = "trail" /\ db' = Recorded(r.x) /\ UNCHANGED <<struck, mine>>
    <3>1. r.op \in Announced BY <1>4, <2>2
    <3>2. r.op # "raise"
      <4>1. r.op = "raise" => Script(r.op)[1] = "open" /\ Script(r.op)[2] = "event"
                              /\ Total(r.op) = 2
        BY DEF Script, Total
      <4>2. r.op = "raise" => r.done + 1 = 1 \/ r.done + 1 = 2 BY <1>3, <4>1
      <4>3. Script(r.op)[r.done + 1] = "trail" BY <1>s, <2>2
      <4> QED BY <4>1, <4>2, <4>3
    <3>3. r.x \in All BY <1>0, <3>1, <3>2, KeyedIn DEF Announced, Arrivals,
                              Column
    <3>4. /\ db' \in Tables /\ db'.status = db.status
          /\ db'.incident = db.incident /\ db'.watch = db.watch
      BY <1>0, <2>2, <3>3, RecordLeaves
    <3>5. ASSUME NEW m \in mine' PROVE db'[Column(m.op)][m.x] = db[Column(m.op)][m.x]
      <4>1. Column(m.op) \in {"status", "incident", "watch"}
        BY <1>0, <2>2, <3>5, KeyedIn DEF Types, IsChange
      <4> QED BY <3>4, <4>1
    <3> QED BY <1>0, <2>2, <3>4, <3>5 DEF Types
  <2>3. CASE step \notin Special /\ Write(r, step)
    <3>1. /\ step \in Values0(r.op) /\ db' = [db EXCEPT ![Column(r.op)][r.x] = step]
          /\ mine' = {m \in mine : ~(m.x = r.x /\ Column(m.op) = Column(r.op))}
          /\ struck' = struck \/ (/\ struck' = struck \cup {r.x} /\ Column(r.op) = "status"
                                  /\ r.op \notin Announced)
      BY <1>3, <1>4, <2>3, ScriptShape DEF Write
    <3>2. db' \in Tables BY <1>0, <3>1, WriteLeaves
    <3>3. struck' \subseteq Visits BY <1>0, <3>1, KeyedIn DEF Types
    <3>4. ASSUME NEW m \in mine' PROVE db'[Column(m.op)][m.x] = db[Column(m.op)][m.x]
      <4>1. /\ m \in mine /\ Keyed(m) /\ ~(m.x = r.x /\ Column(m.op) = Column(r.op))
        BY <1>0, <3>1, <3>4 DEF Types, IsChange
      <4>2. CASE Column(r.op) = "status"
        <5>1. /\ db'.status = [db.status EXCEPT ![r.x] = step] /\ DOMAIN db.status = All
              /\ db'.incident = db.incident /\ db'.watch = db.watch
          BY <1>0, <3>1, <4>2, WriteLeaves DEF Types, Tables
        <5> QED BY <1>0, <4>1, <4>2, <5>1, KeyedIn
      <4>3. CASE Column(r.op) = "incident"
        <5>1. /\ db'.incident = [db.incident EXCEPT ![r.x] = step]
              /\ DOMAIN db.incident = Incidents
              /\ db'.status = db.status /\ db'.watch = db.watch
          BY <1>0, <3>1, <4>3, WriteLeaves DEF Types, Tables
        <5> QED BY <1>0, <4>1, <4>3, <5>1, KeyedIn
      <4>4. CASE Column(r.op) = "watch"
        <5>1. /\ db'.watch = [db.watch EXCEPT ![r.x] = step] /\ DOMAIN db.watch = Entries
              /\ db'.status = db.status /\ db'.incident = db.incident
          BY <1>0, <3>1, <4>4, WriteLeaves DEF Types, Tables
        <5> QED BY <1>0, <4>1, <4>4, <5>1, KeyedIn
      <4> QED BY <1>0, <4>2, <4>3, <4>4, KeyedIn
    <3> QED BY <3>1, <3>2, <3>3, <3>4
  <2> QED BY <1>8, <2>1, <2>2, <2>3
<1>11. MineOK' /\ \A m \in mine' : IsChange(m) /\ m.in \subseteq Queries'
  BY <1>0, <1>1, <1>10, MineLeft
<1>12. Types'
  BY <1>0, <1>1, <1>5, <1>6, <1>7, <1>9, <1>10, <1>11 DEF Types, Reading
<1>13. RequestsOK'
  <2>1. \A s \in requests' : s \in requests \/ s = n BY <1>1, <1>6
  <2> QED BY <1>0, <1>1, <1>2, <2>1, PageStays DEF RequestsOK
<1>14. UpToDate'
  <2> SUFFICES ASSUME NEW q \in Queries \ Polled, NEW part \in Followed,
  Has(q, part)
               PROVE  Told' \/ ComingRight(q, part)'
    BY <1>7 DEF UpToDate
  <2>1. Told \/ ComingRight(q, part) BY <1>0 DEF UpToDate
  <2>2. CASE step = "event"
    <3>1. Emit BY <1>8, <2>2 DEF Special
    <3>2. inbox' > 0 \/ missed' BY <1>0, <3>1 DEF Types, Emit
    <3> QED BY <3>2 DEF Told
  <2>3. CASE r.op \in Announced /\ step \notin {"event", "read"}
    <3>1. n.done < Total(r.op) /\ n.done # Total(r.op) BY <1>2, <1>3, <1>4, <2>3
    <3>2. n \in requests' BY <1>1, <1>6, <3>1
    <3>3. ToTell(n) BY <1>2, <1>s, <2>3, <3>1 DEF ToTell
    <3> QED BY <3>2, <3>3 DEF Told
  <2>4. CASE step = "read" \/ r.op \notin Announced
    <3>1. r \in requests => ~ToTell(r) BY <1>4, <2>4 DEF ToTell
    <3>2. inbox' = inbox /\ missed' = missed BY <1>4, <1>8, <2>4
    <3>3. CASE Told
      <4>1. CASE missed \/ inbox > 0 BY <3>2, <4>1 DEF Told
      <4>2. ASSUME NEW s \in requests, ToTell(s) PROVE Told'
        <5>1. s \in requests' BY <1>1, <3>1, <4>2
        <5>2. ToTell(s)' BY <4>2 DEF ToTell
        <5> QED BY <5>1, <5>2 DEF Told
      <4> QED BY <3>3, <4>1, <4>2 DEF Told
    <3>4. CASE ComingRight(q, part)
      <4>1. CASE step = "read"
        <5>1. db' = db /\ struck' = struck BY <1>8, <4>1 DEF Special
        <5> QED BY <1>0, <1>1, <3>4, <5>1, RightStays DEF Unstruck, Kept
      <4>2. CASE step # "read"
        <5>1. r.op \notin Announced /\ step \notin Special BY <1>4, <2>4,
        <4>2 DEF Special
        <5>2. Write(r, step) /\ step \in Values0(r.op) \ {"in", "open"}
          BY <1>4, <1>8, <5>1 DEF Special
        <5> QED BY <1>0, <1>1, <3>4, <5>1, <5>2, RightStruck
      <4> QED BY <4>1, <4>2
    <3> QED BY <2>1, <3>3, <3>4
  <2> QED BY <2>2, <2>3, <2>4
<1> QED BY <1>11, <1>12, <1>13, <1>14 DEF PagesIInv

LEMMA BeginKeeps ==
  ASSUME PagesIInv, NEW op \in Ops, NEW x, NEW own \in BOOLEAN,
         Begin(op, x, own),
         own => Clicks(op)
  PROVE  PagesIInv'
<1>r. PICK r : r = [op |-> op, x |-> x, own |-> own, done |-> 0] OBVIOUS
<1>1. Accepts(op, x) /\ Perform(r) BY <1>r DEF Begin
<1>2. r.op = op /\ r.x = x /\ r.own = own /\ r.done = 0 BY <1>r
<1>3. x \in Key(op) BY <1>1 DEF Accepts, Key, Ops
<1>4. r.done \in 0..(Total(r.op) - 1) BY <1>2, ScriptShape
<1>5. r \notin requests BY <1>2 DEF PagesIInv, Types, IsRequest
<1> QED BY <1>1, <1>2, <1>3, <1>4, <1>5, <1>r, PerformKeeps DEF Keyed

LEMMA ContinueKeeps ==
  ASSUME PagesIInv, NEW r \in requests, Continue(r)
  PROVE  PagesIInv'
<1>1. IsRequest(r) /\ (r.own => Clicks(r.op)) BY DEF PagesIInv, Types,
                              RequestsOK
<1>2. r.done < Total(r.op) /\ Perform(r) BY DEF Continue, Total
<1>3. r.done \in 0..(Total(r.op) - 1) /\ r.done >= 1 /\ Keyed(r) /\ r.own \in BOOLEAN
  BY <1>1, <1>2, ScriptShape DEF IsRequest, Keyed
<1> QED BY <1>1, <1>2, <1>3, PerformKeeps DEF IsRequest

(* A button's change is one its page offers.                                *)
LEMMA ClickKeeps ==
  ASSUME PagesIInv, NEW op \in Ops, NEW x, Click(op, x)
  PROVE  PagesIInv'
<1>1. Begin(op, x, TRUE) BY DEF Click
<1>2. Clicks(op)
  <2>1. CASE AssistedCheckInCard(op) \/ WalkInCard(op) \/ OnSiteNow(op, x)
    BY <2>1 DEF AssistedCheckInCard, WalkInCard, OnSiteNow, On, Clicks, Arrivals
  <2>2. CASE OpenIncidents(op, x) \/ Watchlist(op, x)
    BY <2>2 DEF OpenIncidents, Watchlist, On, Clicks
  <2>3. CASE Decisions(op, x) \/ CancelAppointment(op, x) \/ SendInvitation(op, x)
    BY <2>3 DEF Decisions, CancelAppointment, SendInvitation, On, Clicks
  <2> QED BY <2>1, <2>2, <2>3 DEF Click
<1> QED BY <1>1, <1>2, BeginKeeps

LEMMA ElsewhereKeeps ==
  ASSUME PagesIInv, NEW op \in Ops, NEW x, Elsewhere(op, x)
  PROVE  PagesIInv'
BY BeginKeeps DEF Elsewhere

LEMMA InitHolds ==
  ASSUME Init
  PROVE  PagesIInv
<1>1. PICK status \in [Visits -> {"pending", "invited"}] :
        db = [status |-> [x \in All |-> IF x \in Visits THEN status[x] ELSE "none"],
              trail |-> [x \in All |-> 0],
              incident |-> [i \in Incidents |-> "none"],
              watch |-> [e \in Entries |-> "none"]]
  BY DEF Init
<1>2. /\ session \in Sessions /\ requests = {} /\ joined = FALSE /\ inbox = 0
      /\ missed = FALSE /\ mine = {} /\ struck = {}
      /\ cache = [q \in Queries |-> [data |-> <<>>, fetch |-> <<>>]]
  BY DEF Init
<1>3. \A x \in All : db.trail[x] = 0 /\ db.status[x] \in {"pending", "invited", "none"}
  BY <1>1
<1>4. db \in Tables
  <2>1. [x \in All |-> IF x \in Visits THEN status[x] ELSE "none"] \in [All -> VisitStatuses]
    BY DEF VisitStatuses
  <2> QED BY <1>1, <2>1 DEF Tables
<1>5. <<>> \in Seq(Values) /\ Len(<<>>) = 0 OBVIOUS
<1>6. cache \in [Queries -> Slot]
  <2>1. [data |-> <<>>, fetch |-> <<>>] \in Slot BY <1>5 DEF Slot
  <2> QED BY <1>2, <2>1
<1>7. \A q \in Queries : cache[q].data = <<>> /\ cache[q].fetch = <<>> BY <1>2
<1>8. Types
  <2>1. \A q \in Queries : Parts[q] \in Seq(Kinds) \/ q \notin Names BY PartsShape
  <2>2. session.page \in PageNames BY <1>2, PagesAssumption DEF PageNames
  <2>3. Queries \subseteq Names BY <2>2 DEF Queries, Names, PageNames
  <2>4. \A q \in Queries : Len(Parts[q]) \in {1, 2} BY <2>3, PartsShape
  <2>5. inbox \in 0..MaxInbox BY <1>2, PagesAssumption
  <2>6. \A q \in Queries : Len(cache[q].data) = 0 /\ Len(cache[q].fetch) <= Len(Parts[q])
    BY <1>5, <1>7, <2>4
  <2> QED BY <1>2, <1>4, <1>6, <2>5, <2>6 DEF Types
<1>9. UpToDate
  <2> SUFFICES ASSUME NEW q \in Queries, NEW part \in Followed, Has(q, part)
               PROVE  ComingRight(q, part)
    BY DEF UpToDate
  <2>1. Reading(q) BY <1>5, <1>7, PagesAssumption DEF Reading
  <2>2. Pos(q, part) >= 1 /\ Pos(q, part) \in Nat BY <1>8, PosIsThere
  <2>3. ~(Len(cache[q].fetch) >= Pos(q, part)) BY <1>5, <1>7, <2>2
  <2> QED BY <2>1, <2>3 DEF ComingRight
<1> QED BY <1>2, <1>8, <1>9 DEF PagesIInv, RequestsOK, MineOK

(* The strengthened invariant is inductive: what a page is going to show    *)
(* is right, or it has still to be told, whatever the page, the role, the   *)
(* visits and the number of requests, events and passages.                  *)
THEOREM PagesInductive == Spec => []PagesIInv
<1>1. Init => PagesIInv BY InitHolds
<1>2. PagesIInv /\ [Next]_vars => PagesIInv'
  <2> SUFFICES ASSUME PagesIInv, [Next]_vars PROVE PagesIInv' OBVIOUS
  <2>1. ASSUME NEW op \in Ops, NEW x \in All \cup Incidents \cup Entries,
               Click(op, x) \/ Elsewhere(op, x)
        PROVE  PagesIInv'
    BY <2>1, ClickKeeps, ElsewhereKeeps
  <2>2. ASSUME NEW r \in requests,
  Continue(r) \/ Refused(r) \/ Die(r) \/ OnSuccess(r) PROVE PagesIInv'
    BY <2>2, ContinueKeeps, RefusedKeeps, DieKeeps, OnSuccessKeeps
  <2>3. ASSUME NEW q \in Queries,
  Read(q) \/ Answer(q) \/ GiveUp(q) PROVE PagesIInv'
    BY <2>3, ReadKeeps, AnswerKeeps, GiveUpKeeps
  <2>4. CASE Focus BY <2>4, FocusKeeps
  <2>5. CASE Poll BY <2>5, PollKeeps
  <2>6. CASE Connect \/ Disconnect BY <2>6, SocketKeeps
  <2>7. CASE Deliver BY <2>7, DeliverKeeps
  <2>8. CASE UNCHANGED vars
    <3>1. /\ session' = session /\ db' = db /\ requests' = requests /\ joined' = joined
          /\ inbox' = inbox /\ cache' = cache /\ missed' = missed /\ mine' = mine
          /\ struck' = struck
      BY <2>8 DEF vars
    <3>2. Types /\ RequestsOK /\ UpToDate /\ MineOK  BY DEF PagesIInv
    <3>3. \A q : Shows(q)' = Shows(q) /\ Reading(q)' = Reading(q)
      BY <3>1, PageStays DEF Shows, Reading
    <3>4. Types' BY <3>1, <3>2, <3>3, PageStays DEF Types
    <3>5. RequestsOK' BY <3>1, <3>2, <3>3, PageStays, ValuesStay DEF RequestsOK
    <3>6. \A q, part, m : /\ ComingRight(q, part)' = ComingRight(q, part)
                          /\ ComingTells(m, q, part)' = ComingTells(m, q, part)
      BY <3>1, <3>3, ValuesStay DEF ComingRight, ComingTells, Pos
    <3>7. UpToDate' BY <3>1, <3>2, <3>6, PageStays DEF UpToDate, Told, ToTell
    <3>8. MineOK' BY <3>1, <3>2, <3>3, <3>6, PageStays, ValuesStay DEF MineOK
    <3> QED BY <3>4, <3>5, <3>7, <3>8 DEF PagesIInv
  <2> QED BY <2>1, <2>2, <2>3, <2>4, <2>5, <2>6, <2>7, <2>8 DEF Next
<1> QED BY <1>1, <1>2, PTL DEF Spec

(* What every page at rest shows is what the tables hold: who is in the     *)
(* building, the open incidents, the trail.                                 *)
THEOREM PagesShowTheTables == Spec => []PagesInv
<1>1. PagesIInv => PagesInv
  <2> SUFFICES ASSUME PagesIInv PROVE PagesInv OBVIOUS
  <2>0. Types /\ UpToDate  BY DEF PagesIInv
  <2>1. TypeOK
    <3>3. \A q \in Queries : Reading(q) => Len(cache[q].fetch) \in 0..Len(Parts[q])
      <4> SUFFICES ASSUME NEW q \in Queries, Reading(q)
                   PROVE  Len(cache[q].fetch) \in 0..Len(Parts[q])
        OBVIOUS
      <4>1. cache[q].fetch \in Seq(Values) BY <2>0 DEF Types, Slot, Reading
      <4>2. Len(cache[q].fetch) \in Nat BY <4>1
      <4>3. Len(cache[q].fetch) <= Len(Parts[q]) BY <2>0 DEF Types
      <4>4. Len(Parts[q]) \in {1, 2} BY <2>0, QueriesNamed, PartsShape
      <4> QED BY <4>2, <4>3, <4>4
    <3>4. \A r \in requests : r.op \in Ops /\ r.done \in 1..Len(Script(r.op))
      BY <2>0 DEF Types, IsRequest, Keyed, Total
    <3> QED BY <2>0, <3>3, <3>4 DEF Types, TypeOK
  <2>2. ASSUME AtRest, NEW part \in Followed, NEW q \in ReadsOf(part) \ Polled
        PROVE  Right(part, Shown(q, part))
    <3>1. q \in Queries \ Polled /\ Has(q, part) /\ ~Reading(q)
      BY <2>2 DEF ReadsOf, AtRest
    <3>2. ~Told BY <2>2, <2>0 DEF AtRest, Told, Types
    <3>3. ComingRight(q, part) BY <2>0, <3>1, <3>2 DEF UpToDate
    <3> QED BY <3>1, <3>3 DEF ComingRight, Shown, Pos
  <2>3. \A part \in {"status", "incident", "trail"} : ReadsOf(part) \subseteq ReadsOf(part) \ Polled
    <3>1. \A part \in {"status", "incident", "trail"} : ~Has("muster", part)
      BY DEF Has, Parts
    <3> QED BY <2>0, <3>1, EventuallyFollowed DEF ReadsOf
  <2>4. OnSiteShown BY <2>2, <2>3 DEF OnSiteShown, Right, Followed
  <2>5. IncidentsShown BY <2>2, <2>3 DEF IncidentsShown, Right, Followed
  <2>6. TrailShown BY <2>2, <2>3 DEF TrailShown, Right, Followed, RowsOf
  <2> QED BY <2>1, <2>4, <2>5, <2>6 DEF PagesInv
<1> QED BY <1>1, PagesInductive, PTL

(* A page that was told its own change is done and has read since shows the *)
(* row it changed as the tables have it, as long as nobody writes that row. *)
THEOREM PagesShowOwnWork == Spec => []OwnWorkShown
<1>1. PagesIInv => OwnWorkShown
  <2> SUFFICES ASSUME PagesIInv, NEW m \in mine, NEW q \in m.in, ~Reading(q)
               PROVE  /\ Has(q, Column(m.op))
                           => Shown(q, Column(m.op))[m.x] = db[Column(m.op)][m.x]
                      /\ Column(m.op) = "status" /\ Has(q, "here")
                           => (m.x \in Shown(q, "here") <=> db.status[m.x] = "in")
    BY DEF OwnWorkShown
  <2>0. Types /\ MineOK BY DEF PagesIInv
  <2>1. ASSUME NEW part \in Kinds \ {"trail"}, Has(q, part)
        PROVE  Tells(m, part, Shown(q, part))
    <3>1. ComingTells(m, q, part) BY <2>0, <2>1 DEF MineOK
    <3> QED BY <3>1 DEF ComingTells, Shown, Pos
  <2>2. Column(m.op) \in Kinds \ {"trail"}
    BY <2>0, KeyedIn DEF Types, IsChange, Kinds
  <2>3. Has(q, Column(m.op)) => Tells(m, Column(m.op), Shown(q, Column(m.op))) BY <2>1, <2>2
  <2>4. Has(q, "here") => Tells(m, "here", Shown(q, "here")) BY <2>1 DEF Kinds
  <2> QED BY <2>3, <2>4 DEF Tells
<1> QED BY <1>1, PagesInductive, PTL
=============================================================================
