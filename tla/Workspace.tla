------------------------------ MODULE Workspace ------------------------------
(***************************************************************************)
(* The staff workspace as a whole: accounts and sessions, and under them   *)
(* the reports and the administration pages, whose every request is served *)
(* only to a session that may make it.                                     *)
(***************************************************************************)
EXTENDS Reports, Console

workspace == <<scene, access, reports, console>>

-----------------------------------------------------------------------------
(* The states the parts start in: an account for each user, some browsers   *)
(* signed in for a while, a log, a list and a staffed point.                *)
AccessInit ==
  /\ \E hired \in scene.accounts : account = [u \in Users |-> [role |-> hired[u], banned |-> FALSE]]
  /\ live = [b \in Browsers |-> scene.session[b]]
  /\ cookie = [b \in Browsers |-> None]
  /\ shown = [b \in Browsers |-> SessionOf(b)]
  /\ held = [u \in Users |-> [r \in RoleNames |-> IF account[u].role = r THEN 0 ELSE CacheAge + 1]]
  /\ ended = [b \in Browsers |-> None]

ReportsInit ==
  /\ log \in scene.logs
  /\ stations \in scene.stations
  /\ choices = {} /\ walk = None /\ reading = None
  /\ answer = None /\ exported = None /\ insights = None
  /\ report = [filter |-> [facility |-> None, origin |-> None, status |-> None, from |-> None],
               page |-> 1, size |-> CHOOSE n \in PageSizes : \A m \in PageSizes : n <= m]

ConsoleInit ==
  /\ rows \in scene.tables /\ staffing = scene.staff /\ eligible = scene.staff
  /\ desk = [b \in Browsers |->
               [list |-> [id \in Ids |-> None], editor |-> None, draft |-> Blank, query |-> {},
                page |-> 1, size |-> CHOOSE n \in Sizes : \A m \in Sizes : n <= m,
                sent |-> [update |-> None, create |-> None, setActive |-> None]]]
  /\ modal = [b \in Browsers |-> [open |-> FALSE, data |-> None, sel |-> None, keep |-> {},
                                  sent |-> None]]

Init == scene \in Scenes /\ AccessInit /\ ReportsInit /\ ConsoleInit

Next ==
  \/ AccessStep /\ Caller' = Caller /\ UNCHANGED <<reports, console>>
  \/ AccessStep /\ ReaderChanges /\ UNCHANGED console
  \/ scene.part = "reports" /\ ReportsStep /\ UNCHANGED console
  \/ scene.part = "console" /\ ConsoleStep /\ UNCHANGED reports

Spec == Init /\ [][Next]_workspace

-----------------------------------------------------------------------------
Page == [list : [Ids -> Line \cup {None}], page : Nat \ {0}, size : Sizes,
         query : Queries \cup {{}}]

TypeOK ==
  /\ AccessTypeOK
  /\ log \in [Visits -> LogRow \cup {None}]
  /\ stations \in [Users -> SUBSET Facilities] /\ choices \subseteq Facilities
  /\ reading # None => reading.at \in {"scope", "rows", "count", "days"}
  /\ report.page \in Nat \ {0} /\ report.size \in PageSizes
  /\ \A b \in Browsers :
       /\ [list |-> desk[b].list, page |-> desk[b].page, size |-> desk[b].size,
           query |-> desk[b].query] \in Page
       /\ modal[b].sel # None => modal[b].open
  /\ rows \in [Ids -> Line \cup {None}]
  /\ staffing \subseteq Users /\ eligible \subseteq Users

(* The parts' types, and every list shows what it has.                      *)
WorkspaceInv == TypeOK /\ RowsStayVisible
=============================================================================
