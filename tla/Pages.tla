------------------------------- MODULE Pages -------------------------------
(***************************************************************************)
(* One staff page open in a browser, over the cache that feeds it, the     *)
(* socket that tells it something has changed, and the requests, its own   *)
(* and everybody else's, that change it.  The server says nothing about    *)
(* what changed: an event only makes the page read again.  A request goes  *)
(* by the steps of its handler: what it checks, each write and each event, *)
(* with others' steps in between and perhaps the death of the process.     *)
(***************************************************************************)
EXTENDS Naturals, FiniteSets, Sequences, Roles

CONSTANTS
  Visits, WalkIns,     \* visits from appointments, and those a desk registers
  Incidents, Entries,  \* security incidents, watchlist entries
  Sessions,            \* [page, role, others, served]: what is open, who opened
                       \* it, and (bounds) what the others do meanwhile and
                       \* how many requests are served at once
  None,
  MaxInbox,            \* bound: events on their way
  MaxTrail             \* bound: rows of a visit's checkpoint trail

VARIABLES
  session,   \* one of Sessions; never changes
  db,        \* the tables, as far as a page shows them
  requests,  \* being served: how many steps of its script each has done
  joined,    \* is the page's socket in the dashboard room
  inbox,     \* events on their way to the page
  cache,     \* of each query: the data shown and the read under way
  missed,    \* history: an event passed the page by, or a read failed, since
             \* it last read everything afresh
  struck,    \* history: visits that a write no event tells of took off the
             \* premises since the page last read its statuses afresh
  mine       \* history: what the page was last told it changed, while nobody
             \* has changed it since

vars == <<session, db, requests, joined, inbox, cache, missed, struck, mine>>

All == Visits \cup WalkIns
May(resource, verb) == AnyRoleHasPermission({session.role}, {<<resource, verb>>})

-----------------------------------------------------------------------------
(* What each page asks for, and what each query reads, in order: "here" is  *)
(* who is checked in, read from the statuses.                               *)
Parts == [summary |-> <<"here">>, onSite |-> <<"here">>,
          security |-> <<"here", "incident">>, incidents |-> <<"incident">>,
          watchlist |-> <<"watch">>, list |-> <<"status", "trail">>,
          get |-> <<"status", "trail">>, trail |-> <<"trail">>,
          muster |-> <<"here">>]

(* A visit's own page is about a visit from an appointment.                 *)
Rows == IF session.page = "detail" THEN Visits ELSE All
OnSite(status) == {x \in DOMAIN status : status[x] = "in"}
CurrentLocations == [x \in Rows |-> db.trail[x]]  \* the latest passage of each
RowsOf(part) ==
  CASE part = "here" -> OnSite(db.status)
    [] part = "status" -> [x \in Rows |-> db.status[x]]
    [] part = "trail" -> CurrentLocations
    [] OTHER -> db[part]

Queries ==
  CASE session.page = "reception" -> {"summary", "onSite"}
    [] session.page = "security" ->
         {"security"} \cup (IF May("incident", "read") THEN {"incidents"} ELSE {})
                      \cup (IF May("watchlist", "read") THEN {"watchlist"} ELSE {})
    [] session.page = "appointments" -> {"list"}
    [] session.page = "detail" -> {"get", "trail"}
    [] session.page = "muster" -> {"muster"}

(* An event makes the page read these again; a change of its own, these.    *)
HandlerWithoutOnSite ==
  Queries \cap {"summary", "security", "incidents", "list", "get", "trail"}
OnVisitEvent ==
  Queries \cap {"summary", "onSite", "security", "incidents", "list", "get", "trail"}

Has(q, part) == \E i \in 1..Len(Parts[q]) : Parts[q][i] = part
ReadsOf(part) == {q \in Queries : Has(q, part)}

SummaryOnly(op) == Queries \cap {"summary", "security", "watchlist"}
Refresh(op) ==
  IF op \in {"list", "remove"} THEN {"watchlist"} \cap Queries
  ELSE Queries \cap {"summary", "onSite", "security", "incidents", "get"}

NeverPolled == {}
Polled == {"muster"} \cap Queries

-----------------------------------------------------------------------------
(* A passage is recorded and then announced.                                *)
Passage == <<"trail", "event">>

(* What a handler does that a page can see or another request can fall      *)
(* between, in order: it reads what it will rely on, writes a value, records*)
(* a passage, announces.  An invitation that is issued makes the visit      *)
(* invited when the letter is away, whatever it has become, and no          *)
(* decision of the office is announced.                                     *)
Script(op) ==
  CASE op = "checkIn" -> <<"read", "in", "event">> \o Passage
    [] op = "checkOut" -> <<"read", "out", "event">> \o Passage
    [] op = "registerWalkIn" -> <<"in">> \o Passage
    [] op = "submitPreReg" -> <<"read", "prereg", "event">>
    [] op = "guardScan" -> <<"read">> \o Passage
    [] op = "approve" -> <<"read", "approved", "invited">>
    [] op = "resend" -> <<"read", "invited">>
    [] op = "cancel" -> <<"read", "cancelled">>
    [] op = "deny" -> <<"denied">>
    [] op = "raise" -> <<"open", "event">>
    [] op = "resolve" -> <<"resolved">>
    [] op = "list" -> <<"listed">>
    [] op = "remove" -> <<"removed">>

Column(op) ==
  CASE op \in {"raise", "resolve"} -> "incident"
    [] op \in {"list", "remove"} -> "watch"
    [] OTHER -> "status"

(* The trail is kept only for a page that reads it, and to a bound.         *)
Recorded(x) ==
  IF ReadsOf("trail") = {} THEN db ELSE [db EXCEPT !.trail[x] = @ + 1]
Short(x) == db.trail[x] < MaxTrail

(* What a handler accepts.  To deny and to issue again look at no status;   *)
(* that no page offers them, or to cancel, for a walk-in, who is never      *)
(* anything but in or out, is all that keeps them to the appointments.      *)
Accepts(op, x) ==
  CASE op = "checkIn" ->
         x \in Visits /\ db.status[x] \in {"approved", "invited", "prereg"} /\ Short(x)
    [] op = "registerWalkIn" -> x \in WalkIns /\ db.status[x] = "none" /\ Short(x)
    [] op = "checkOut" -> x \in All /\ db.status[x] = "in" /\ Short(x)
    [] op = "submitPreReg" -> x \in Visits /\ db.status[x] \in {"approved", "invited"}
    [] op = "guardScan" -> x \in Visits /\ db.status[x] = "in" /\ Short(x)
    [] op = "approve" -> x \in Visits /\ db.status[x] = "pending"
    [] op \in {"deny", "resend"} -> x \in Visits
    [] op = "cancel" -> x \in Visits /\ db.status[x] \notin {"in", "out"}
    [] op = "raise" -> x \in Incidents /\ db.incident[x] = "none"
    [] op = "resolve" -> x \in Incidents /\ db.incident[x] = "open"
    [] op = "list" -> x \in Entries /\ db.watch[x] = "none"
    [] op = "remove" -> x \in Entries /\ db.watch[x] = "listed"

Ops == {"checkIn", "registerWalkIn", "checkOut", "submitPreReg", "guardScan", "approve",
        "resend", "deny", "cancel", "raise", "resolve", "list", "remove"}

(* A check-in looks at the visit once more, under the lock it then has.     *)
Begun(x) == db.status[x] \in {"in", "out"}

Emit == IF joined THEN inbox < MaxInbox /\ inbox' = inbox + 1 /\ UNCHANGED missed
                  ELSE missed' = TRUE /\ UNCHANGED inbox

Announces(op) == \E i \in 1..Len(Script(op)) : Script(op)[i] = "event"
Write(r, value) ==
  LET part == Column(r.op) IN
  /\ r.op = "checkIn" => ~Begun(r.x)
  /\ db' = [db EXCEPT ![part][r.x] = value]
  /\ struck' = IF part = "status" /\ db.status[r.x] = "in" /\ ~Announces(r.op)
               THEN struck \cup {r.x} ELSE struck
  /\ mine' = {m \in mine : ~(m.x = r.x /\ Column(m.op) = part)}

(* A request of somebody else is over with its last step, one of the page's *)
(* own when the page has its answer.                                        *)
Advance(r) == IF ~r.own /\ r.done = Len(Script(r.op)) THEN {} ELSE {r}

Perform(r) ==
  LET step == Script(r.op)[r.done + 1] IN
  /\ \/ step = "read" /\ UNCHANGED <<db, inbox, missed, struck, mine>>
     \/ step = "event" /\ Emit /\ UNCHANGED <<db, struck, mine>>
     \/ step = "trail" /\ db' = Recorded(r.x) /\ UNCHANGED <<inbox, missed, struck, mine>>
     \/ step \notin {"read", "event", "trail"} /\ Write(r, step) /\ UNCHANGED <<inbox, missed>>
  /\ requests' = (requests \ {r}) \cup Advance([r EXCEPT !.done = @ + 1])
  /\ UNCHANGED <<session, joined, cache>>

(* Of two alike only one is served at a time, and one of the page's own.    *)
Begin(op, x, own) ==
  /\ Cardinality(requests) < session.served
  /\ \A r \in requests : ~(r.own = own /\ (own \/ (r.op = op /\ r.x = x)))
  /\ Accepts(op, x)
  /\ Perform([op |-> op, x |-> x, own |-> own, done |-> 0])

Continue(r) == r.done < Len(Script(r.op)) /\ Perform(r)

(* Somebody else has checked the visitor in meanwhile.                      *)
Refused(r) ==
  /\ r.op = "checkIn" /\ r.done = 1 /\ Begun(r.x)
  /\ requests' = requests \ {r}
  /\ UNCHANGED <<session, db, joined, inbox, cache, missed, struck, mine>>

(* The process dies, or the answer is lost: nobody will say what was done.  *)
Die(r) ==
  /\ requests' = requests \ {r} /\ missed' = TRUE
  /\ UNCHANGED <<session, db, joined, inbox, cache, struck, mine>>

-----------------------------------------------------------------------------
(* The cache.  Reading again cancels a read under way, but not the first    *)
(* one: as long as there is no data, the page waits for the read it has.    *)
Shows(q) == q \in Queries /\ cache[q].data # <<>>
Reading(q) == q \in Queries /\ cache[q].fetch # None
Again(qs) == [q \in Queries |->
  IF q \in qs /\ (Shows(q) \/ ~Reading(q))
  THEN [cache[q] EXCEPT !.fetch = <<>>] ELSE cache[q]]
IfIdle(qs) == [q \in Queries |->
  IF q \in qs /\ ~Reading(q) THEN [cache[q] EXCEPT !.fetch = <<>>] ELSE cache[q]]

(* All that shows statuses is about to be read afresh.                      *)
StatusReads == (ReadsOf("here") \cup ReadsOf("status")) \ Polled
Unstrike == struck' = IF \A q \in StatusReads : cache'[q].fetch = <<>> THEN {} ELSE struck

Read(q) ==
  /\ Reading(q) /\ Len(cache[q].fetch) < Len(Parts[q])
  /\ cache' = [cache EXCEPT ![q].fetch = Append(@, RowsOf(Parts[q][Len(@) + 1]))]
  /\ UNCHANGED <<session, db, requests, joined, inbox, missed, struck, mine>>

Answer(q) ==
  /\ Reading(q) /\ Len(cache[q].fetch) = Len(Parts[q])
  /\ cache' = [cache EXCEPT ![q] = [data |-> @.fetch, fetch |-> None]]
  /\ UNCHANGED <<session, db, requests, joined, inbox, missed, struck, mine>>

(* The last retry of a read has failed: what was shown stays on show.       *)
GiveUp(q) ==
  /\ Reading(q)
  /\ cache' = [cache EXCEPT ![q].fetch = None]
  /\ missed' = TRUE /\ mine' = {[m EXCEPT !.in = @ \ {q}] : m \in mine}
  /\ UNCHANGED <<session, db, requests, joined, inbox, struck>>

(* Coming back to the window reads what is not being read.                  *)
Focus ==
  /\ cache' = IfIdle(Queries) /\ Unstrike
  /\ missed' = (missed /\ \E q \in Queries : Reading(q))
  /\ UNCHANGED <<session, db, requests, joined, inbox, mine>>

Poll ==
  /\ Polled # {} /\ cache' = IfIdle(Polled)
  /\ UNCHANGED <<session, db, requests, joined, inbox, missed, struck, mine>>

-----------------------------------------------------------------------------
(* The socket: the server puts it in the dashboard room by the role it sees *)
(* when it connects; events of the time before are not repeated.            *)
Subscribes == session.page # "muster"
Connect ==
  /\ Subscribes /\ ~joined
  /\ \E board \in {"reception", "security", "host"} : May("dashboard", board)
  /\ joined' = TRUE
  /\ UNCHANGED <<session, db, requests, inbox, cache, missed, struck, mine>>

Disconnect ==
  /\ joined /\ joined' = FALSE /\ inbox' = 0
  /\ missed' = (missed \/ inbox > 0)
  /\ UNCHANGED <<session, db, requests, cache, struck, mine>>

Deliver ==
  /\ inbox > 0 /\ inbox' = inbox - 1
  /\ cache' = Again(OnVisitEvent) /\ Unstrike
  /\ missed' = (missed \/ \E q \in OnVisitEvent : Reading(q) /\ ~Shows(q))
  /\ UNCHANGED <<session, db, requests, joined, mine>>

-----------------------------------------------------------------------------
(* The buttons, each shown by what the page shows and by the role.          *)
Shown(q, part) ==
  cache[q].data[CHOOSE i \in 1..Len(Parts[q]) : Parts[q][i] = part]
Lists(q, part, x, values) ==
  Shows(q) /\ x \in DOMAIN Shown(q, part) /\ Shown(q, part)[x] \in values
On(page, resource, verb) == session.page = page /\ May(resource, verb)

AssistedCheckInCard(op) == op = "checkIn" /\ On("reception", "checkin", "process")
WalkInCard(op) == op = "registerWalkIn" /\ On("reception", "checkin", "process")
OnSiteNow(op, x) ==
  /\ op = "checkOut" /\ On("reception", "checkin", "checkout")
  /\ Shows("onSite") /\ x \in Shown("onSite", "here")

OpenIncidents(op, x) ==
  /\ op = "resolve" /\ On("security", "incident", "resolve")
  /\ Lists("incidents", "incident", x, {"open"})
Watchlist(op, x) ==
  /\ On("security", "watchlist", "manage")
  /\ \/ op = "list"
     \/ op = "remove" /\ Lists("watchlist", "watch", x, {"listed"})

Decisions(op, x) ==
  /\ op \in {"approve", "deny"} /\ On("detail", "appointment", op)
  /\ Lists("get", "status", x, {"pending"})
CancelAppointment(op, x) ==
  /\ op = "cancel" /\ On("detail", "appointment", op)
  /\ Lists("get", "status", x, {"pending", "approved", "invited", "prereg"})
SendInvitation(op, x) ==
  /\ op = "resend" /\ On("detail", "invitation", op)
  /\ Lists("get", "status", x, {"approved", "invited", "prereg"})

Click(op, x) ==
  /\ \/ AssistedCheckInCard(op) \/ WalkInCard(op) \/ OnSiteNow(op, x)
     \/ OpenIncidents(op, x) \/ Watchlist(op, x)
     \/ Decisions(op, x) \/ CancelAppointment(op, x) \/ SendInvitation(op, x)
  /\ Begin(op, x, TRUE)

(* The page hears that its request is done and reads again.                 *)
OnSuccess(r) ==
  /\ r.own /\ r.done = Len(Script(r.op))
  /\ requests' = requests \ {r}
  /\ cache' = Again(Refresh(r.op)) /\ Unstrike
  /\ mine' = {[op |-> r.op, x |-> r.x, in |-> {q \in Queries : Shows(q)}]}
  /\ UNCHANGED <<session, db, joined, inbox, missed>>

(* What others do, from pages that may be as old as they like: all that     *)
(* holds them back is what the handlers check.                              *)
Elsewhere(op, x) ==
  /\ op \in session.others /\ x \in Rows \cup Incidents \cup Entries
  /\ Begin(op, x, FALSE)

-----------------------------------------------------------------------------
Init ==
  /\ session \in Sessions
  /\ \E status \in [Visits -> {"pending", "invited"}] :
       db = [status |-> [x \in All |-> IF x \in Visits THEN status[x] ELSE "none"],
             trail |-> [x \in All |-> 0],
             incident |-> [i \in Incidents |-> "none"],
             watch |-> [e \in Entries |-> "none"]]
  /\ requests = {} /\ joined = FALSE /\ inbox = 0 /\ missed = FALSE
  /\ struck = {} /\ mine = {}
  /\ cache = [q \in Queries |-> [data |-> <<>>, fetch |-> <<>>]]

Next ==
  \/ \E op \in Ops, x \in All \cup Incidents \cup Entries :
       Click(op, x) \/ Elsewhere(op, x)
  \/ \E r \in requests : Continue(r) \/ Refused(r) \/ Die(r) \/ OnSuccess(r)
  \/ \E q \in Queries : Read(q) \/ Answer(q) \/ GiveUp(q)
  \/ Focus \/ Poll \/ Connect \/ Disconnect \/ Deliver

(* The timer of an open page goes on ticking; a read that is sent is        *)
(* served, and one that is tried for ever comes back at last.               *)
Fairness ==
  /\ WF_vars(Poll)
  /\ SF_vars(Read("muster"))
  /\ SF_vars(Answer("muster"))

Spec == Init /\ [][Next]_vars /\ Fairness

-----------------------------------------------------------------------------
VisitStatuses ==
  {"none", "pending", "approved", "invited", "prereg", "in", "out", "denied", "cancelled"}
Tables == [status : [All -> VisitStatuses], trail : [All -> Nat],
           incident : [Incidents -> {"none", "open", "resolved"}],
           watch : [Entries -> {"none", "listed", "removed"}]]

(* What a query may read of the tables; a read under way is not taken for   *)
(* none, and a session opens a page there is.                               *)
Values ==
  (SUBSET All) \cup [Visits -> VisitStatuses \cup Nat] \cup [All -> VisitStatuses \cup Nat]
    \cup [Incidents -> {"none", "open", "resolved"}]
    \cup [Entries -> {"none", "listed", "removed"}]

ASSUME PagesAssumption ==
  /\ MaxInbox \in Nat /\ MaxTrail \in Nat
  /\ \A s \in Sessions : s.page \in {"reception", "security", "appointments", "detail", "muster"}
  /\ None \notin Seq(Values)

(* The variables have their types: what a query shows or has read so far is *)
(* a row set of the tables it reads, in their order.                        *)
TypeOK ==
  /\ session \in Sessions /\ db \in Tables
  /\ \A r \in requests : r.op \in Ops /\ r.done \in 1..Len(Script(r.op))
  /\ joined \in BOOLEAN /\ inbox \in 0..MaxInbox /\ missed \in BOOLEAN
  /\ struck \subseteq Visits
  /\ DOMAIN cache = Queries
  /\ \A q \in Queries :
       /\ Len(cache[q].data) \in {0, Len(Parts[q])}
       /\ Reading(q) => Len(cache[q].fetch) \in 0..Len(Parts[q])

(* A page at rest: nothing on its way to it, no read that failed, and no    *)
(* event that passed it by while its socket was away, while its first read  *)
(* was under way, or because a process died before sending it.              *)
AtRest ==
  /\ requests = {} /\ inbox = 0 /\ ~missed
  /\ \A q \in Queries : ~Reading(q)

(* Every page with a list or a count of who is in the building shows, at    *)
(* rest, exactly the visits that are checked in: reception, security, the   *)
(* appointments and a visit's own page all follow the events.  Left out are *)
(* the visits that were struck off and of which no event could tell; the    *)
(* next event, or the page's own next change, brings them right.            *)
OnSiteShown ==
  AtRest =>
    /\ \A q \in ReadsOf("here") \ Polled :
         Shown(q, "here") \ struck = OnSite(db.status) \ struck
    /\ \A q \in ReadsOf("status") :
         OnSite(Shown(q, "status")) \ struck = (Rows \cap OnSite(db.status)) \ struck

(* A security page at rest shows every open incident, whoever raised it     *)
(* (one another guard resolved may still be listed: nothing announces it).  *)
IncidentsShown ==
  AtRest => \A q \in ReadsOf("incident"), i \in Incidents :
    db.incident[i] = "open" => Shown(q, "incident")[i] = "open"

(* Where a visitor was last seen: the trail a page shows at rest is the     *)
(* trail recorded, so the location is announced after it is written.        *)
TrailShown ==
  AtRest => \A q \in ReadsOf("trail") : Shown(q, "trail") = RowsOf("trail")

(* Once a page has been told that its own change is done, and has read what *)
(* it then reads, every list of it shows that row as the tables have it,    *)
(* until somebody changes the row again: neither the list as it was before, *)
(* nor an answer begun before the change, comes back over it.               *)
OwnWorkShown ==
  \A m \in mine : \A q \in {k \in m.in : ~Reading(k)} :
    /\ Has(q, Column(m.op)) => Shown(q, Column(m.op))[m.x] = db[Column(m.op)][m.x]
    /\ Column(m.op) = "status" /\ Has(q, "here")
         => (m.x \in Shown(q, "here") <=> db.status[m.x] = "in")

(* The muster list is not told of anything: it asks again on a timer.       *)
(* Whoever is in the building comes to be on it, or leaves.                 *)
MusterCatchesUp ==
  \A x \in All :
    (session.page = "muster" /\ db.status[x] = "in")
      ~> (db.status[x] # "in" \/ (Shows("muster") /\ x \in Shown("muster", "here")))

(* What every page at rest shows is what the tables hold.                   *)
PagesInv == TypeOK /\ OnSiteShown /\ IncidentsShown /\ TrailShown
=============================================================================
