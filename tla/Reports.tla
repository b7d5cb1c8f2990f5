------------------------------ MODULE Reports ------------------------------
(***************************************************************************)
(* The visitor log and the visitor insights: what a member of staff may    *)
(* see of the visits, page by page, as a download and as totals.  A        *)
(* request reads its caller's scope, then the rows, then a count, each in  *)
(* a statement of its own, while visits and postings change.               *)
(***************************************************************************)
EXTENDS Access, SequencesExt

CONSTANTS
  Visits, Facilities, Times,
  Reader,          \* the browser with the report open
  ExportCap,       \* rows a download holds at most
  PageSizes

(* The rows of the log: a visit's facility, how it came about, how far it   *)
(* is, and when it is expected (or None) and was made.                      *)
Origins == {"appointment", "walk_in"}
Statuses == {"draft", "pending_approval", "approved", "invitation_sent", "pre_registered",
             "checked_in", "checked_out", "cancelled", "expired", "denied", "no_show"}
LogRow == [facility : Facilities, origin : Origins, status : Statuses,
           expected : {None} \cup Int, created : Int]

(* Visits are as many as were made, pages hold something, and nothing is    *)
(* taken for None; a scene's logs and postings are of this site.            *)
ASSUME ReportsAssumption ==
  /\ Reader \in Browsers /\ IsFiniteSet(Visits) /\ Times \subseteq Int /\ ExportCap \in Nat
  /\ PageSizes \subseteq Nat \ {0} /\ \E n \in PageSizes : \A m \in PageSizes : n <= m
  /\ None \notin LogRow /\ \A facilities \in SUBSET Facilities : facilities # None
  /\ \A s \in Scenes : /\ s.rows \subseteq LogRow
                       /\ s.logs \subseteq [Visits -> LogRow \cup {None}]
                       /\ s.stations \subseteq [Users -> SUBSET Facilities]

VARIABLES
  log,             \* of a visit: its row, or None
  stations,        \* facilities of a user's points and of the user's own row
  choices,         \* facilities the page lets its user pick
  report,          \* the page: [filter, page, size]
  reading,         \* the request being served, or None (a bound: one)
  answer, exported, insights,  \* the last answers to the present page, or None
  walk             \* history: the pages turned since the first, or None

reports == <<log, stations, choices, report, reading, answer, exported, insights, walk>>
store == <<log, stations>>
results == <<answer, exported, insights, walk>>

OccurredAt(v) == IF log[v].expected # None THEN log[v].expected ELSE log[v].created
Logged == {v \in Visits : log[v] # None}

-----------------------------------------------------------------------------
(* Scope.  None is everything: whoever may read reports is not confined.    *)
ReportScope(caller) ==
  IF AnyRoleHasPermission({caller.role}, {<<"report", "read">>}) THEN None
  ELSE stations[caller.user]

AsAsked(scope, requested) ==
  IF requested # None THEN {requested} ELSE scope
EffectiveFacilities(scope, requested) ==
  IF scope = None THEN IF requested = None THEN None ELSE {requested}
  ELSE IF requested = None THEN scope ELSE scope \cap {requested}

ReportFacilities(caller) ==
  IF ReportScope(caller) = None THEN Facilities ELSE ReportScope(caller)

InFacilities(facilities, v) == facilities = None \/ log[v].facility \in facilities

LogConditions(facilities, f) ==
  {v \in Logged : /\ InFacilities(facilities, v)
                  /\ f.from = None \/ OccurredAt(v) >= f.from
                  /\ f.origin = None \/ log[v].origin = f.origin
                  /\ f.status = None \/ log[v].status = f.status}

(* The insights' own conditions on the same visits.                         *)
InsightsWhere(facilities, f) ==
  {v \in Logged : InFacilities(facilities, v) /\ (f.from = None \/ OccurredAt(v) >= f.from)}

(* The latest first; visits of one time come in any order.                  *)
LogRowsQuery(rows) ==
  {order \in SetToSeqs(rows) :
     \A i, j \in DOMAIN order : i < j => OccurredAt(order[i]) >= OccurredAt(order[j])}

-----------------------------------------------------------------------------
(* A change to what is stored: nothing that was read is sure to be so now.  *)
Since(x) == IF x = None THEN None ELSE [x EXCEPT !.still = FALSE]
Outdated ==
  /\ answer' = Since(answer) /\ exported' = Since(exported) /\ insights' = Since(insights)
  /\ walk' = None
Stirred ==
  /\ reading' = IF reading = None THEN None
                ELSE [reading EXCEPT !.still = FALSE,
                                     !.may = @ \cup stations'[reading.caller.user]]
  /\ Outdated /\ UNCHANGED <<scene, access, choices, report>>

Register(v, row) ==
  /\ Does("register") /\ log[v] = None
  /\ log' = [log EXCEPT ![v] = row]
  /\ UNCHANGED stations /\ Stirred

Reschedule(v, t) ==
  /\ Does("reschedule") /\ v \in Logged /\ log[v].expected \notin {None, t}
  /\ log' = [log EXCEPT ![v].expected = t]
  /\ UNCHANGED stations /\ Stirred

Arrive(v) ==
  /\ Does("arrive") /\ v \in Logged /\ log[v].status = "approved"
  /\ log' = [log EXCEPT ![v].status = "checked_in"]
  /\ UNCHANGED stations /\ Stirred

Restation(u, facilities) ==
  /\ Does("restation") /\ stations[u] # facilities
  /\ stations' = [stations EXCEPT ![u] = facilities]
  /\ UNCHANGED log /\ Stirred

-----------------------------------------------------------------------------
(* The pages.                                                               *)
Caller == SessionOf(Reader)
(* Whoever asks next from the reader's browser is another, or has another   *)
(* role: what was read before was read for the one he was.                  *)
ReaderChanges ==
  /\ Caller' # Caller
  /\ reading' = Since(reading) /\ Outdated /\ UNCHANGED <<store, choices, report>>
OpOf == [log |-> "insightsLog", export |-> "exportCsv", insights |-> "insights"]

LoadChoices ==
  /\ Serves(Reader, "insightsFacilities")
  /\ choices' = ReportFacilities(Caller)
  /\ UNCHANGED <<scene, access, store, report, reading, results>>

(* The facility is chosen only when there is a choice.                      *)
Choosable(f) ==
  \/ f.facility = report.filter.facility
  \/ Cardinality(choices) > 1 /\ f.facility \in choices \cup {None}

SetFilter(f) ==
  /\ f \in scene.filters /\ f # report.filter /\ Choosable(f)
  /\ report' = [report EXCEPT !.filter = f, !.page = 1]
  /\ reading' = None /\ answer' = None /\ exported' = None /\ insights' = None
  /\ walk' = None
  /\ UNCHANGED <<scene, access, store, choices>>

(* The page size leaves the page where it is.                               *)
SetPageSize(n) ==
  /\ Does("turn") /\ answer # None /\ answer.total > 0 /\ n # report.size
  /\ report' = [report EXCEPT !.size = n]
  /\ reading' = None /\ answer' = None /\ walk' = None
  /\ UNCHANGED <<scene, access, store, choices, exported, insights>>

PageCount(total, size) == (total + size - 1) \div size

SetPage(p) ==
  /\ Does("turn") /\ answer # None /\ p \in 1..PageCount(answer.total, report.size)
  /\ p # report.page
  /\ report' = [report EXCEPT !.page = p]
  /\ reading' = None /\ answer' = None
  /\ UNCHANGED <<scene, access, store, choices, exported, insights, walk>>

Ask(kind) ==
  /\ kind \in scene.kinds /\ reading = None /\ Serves(Reader, OpOf[kind])
  /\ reading' = [kind |-> kind, input |-> report, caller |-> Caller, at |-> "scope",
                 facilities |-> None, got |-> <<>>, still |-> TRUE,
                 may |-> ReportFacilities(Caller)]
  /\ UNCHANGED <<scene, access, store, choices, report, results>>

-----------------------------------------------------------------------------
(* Serving.                                                                 *)
Offset(input) == (input.page - 1) * input.size
OffByAPage(input) == input.page * input.size
Skipped(input) == Offset(input)
Cut(order, from, n) == SubSeq(order, from + 1, IF from + n < Len(order) THEN from + n ELSE Len(order))

Counted(rows) ==
  LET Of(p(_)) == Cardinality({v \in rows : p(v)})
  IN [total |-> Cardinality(rows), walkIns |-> Of(LAMBDA v : log[v].origin = "walk_in"),
      appointments |-> Of(LAMBDA v : log[v].origin # "walk_in"),
      attended |-> Of(LAMBDA v : log[v].status \in {"checked_in", "checked_out"})]
ByDay(rows) == [t \in {OccurredAt(v) : v \in rows} |-> Cardinality({v \in rows : OccurredAt(v) = t})]
EmptyInsights == [totals |-> Counted({}), byDay |-> ByDay({})]

(* The walk through the pages goes on while they are turned in order.       *)
Walked(input, rows) ==
  IF input.page = 1 THEN [pages |-> 1, rows |-> rows]
  ELSE IF walk # None /\ input.page = walk.pages + 1
  THEN [pages |-> input.page, rows |-> walk.rows \o rows]
  ELSE walk

AnswerLog(rows, total) ==
  /\ answer' = [input |-> reading.input, still |-> reading.still, may |-> reading.may,
                rows |-> rows, total |-> total]
  /\ walk' = IF reading.still THEN Walked(reading.input, rows) ELSE None
  /\ UNCHANGED <<exported, insights>>
AnswerExport(rows) ==
  /\ exported' = [input |-> reading.input, still |-> reading.still, may |-> reading.may,
                  rows |-> rows]
  /\ UNCHANGED <<answer, insights, walk>>
AnswerInsights(totals, byDay) ==
  /\ insights' = [input |-> reading.input, still |-> reading.still,
                  totals |-> totals, byDay |-> byDay]
  /\ UNCHANGED <<answer, exported, walk>>
Answered == reading' = None /\ UNCHANGED <<scene, access, store, choices, report>>
Onward(r) == reading' = r /\ UNCHANGED <<scene, access, store, choices, report, results>>

(* Whoever is in charge of no facility is told of nothing.                  *)
ReadScope ==
  /\ reading # None /\ reading.at = "scope"
  /\ LET facilities == EffectiveFacilities(ReportScope(reading.caller),
                                           reading.input.filter.facility)
     IN \/ /\ facilities # {}
           /\ Onward([reading EXCEPT !.at = "rows", !.facilities = facilities])
        \/ /\ facilities = {} /\ Answered
           /\ CASE reading.kind = "log" -> AnswerLog(<<>>, 0)
                [] reading.kind = "export" -> AnswerExport(<<>>)
                [] OTHER -> AnswerInsights(EmptyInsights.totals, EmptyInsights.byDay)

ReadingRows(kind) == reading # None /\ reading.at = "rows" /\ reading.kind = kind
Matching == LogConditions(reading.facilities, reading.input.filter)
InsightsMatching == InsightsWhere(reading.facilities, reading.input.filter)

ReadRows ==
  /\ ReadingRows("log")
  /\ \E order \in LogRowsQuery(Matching) :
       Onward([reading EXCEPT !.at = "count",
                              !.got = Cut(order, Skipped(reading.input), reading.input.size)])
ReadCount ==
  /\ reading # None /\ reading.kind = "log" /\ reading.at = "count"
  /\ Answered /\ AnswerLog(reading.got, Cardinality(Matching))

InsightsLogExport ==
  /\ ReadingRows("export") /\ Answered
  /\ \E order \in LogRowsQuery(Matching) : AnswerExport(Cut(order, 0, ExportCap))

ReadOriginStatus ==
  /\ ReadingRows("insights")
  /\ Onward([reading EXCEPT !.at = "days", !.got = <<Counted(InsightsMatching)>>])
ReadDays ==
  /\ reading # None /\ reading.at = "days"
  /\ Answered /\ AnswerInsights(reading.got[1], ByDay(InsightsMatching))

ReportsStep ==
  \/ \E v \in Visits : \/ Arrive(v) \/ \E row \in scene.rows : Register(v, row)
                       \/ \E t \in Times : Reschedule(v, t)
  \/ \E u \in scene.users, facilities \in SUBSET Facilities : Restation(u, facilities)
  \/ LoadChoices
  \/ \E f \in scene.filters : SetFilter(f)
  \/ \E n \in PageSizes : SetPageSize(n)
  \/ \E p \in 1..Cardinality(Visits) : SetPage(p)
  \/ \E kind \in {"log", "export", "insights"} : Ask(kind)
  \/ ReadScope \/ ReadRows \/ ReadCount \/ InsightsLogExport \/ ReadOriginStatus \/ ReadDays

-----------------------------------------------------------------------------
(* A caller who may not read every report is shown, and downloads, only     *)
(* visits of facilities he was in charge of at some time since he asked,    *)
(* whatever facility the page still asks for; who may read every report     *)
(* sees every facility's.                                                   *)
ScopedRows ==
  \A x \in {answer, exported} :
    x # None => \A i \in DOMAIN x.rows : log[x.rows[i]].facility \in x.may

(* Whoever turns the pages of a log at rest, to the last, has seen every    *)
(* visit once, and the download taken meanwhile begins with the same rows   *)
(* in the same order: as far as times tell the visits apart.                *)
WalkIsTheExport ==
  LET pages == PageCount(answer.total, answer.input.size)
      download == exported.rows
  IN answer # None /\ answer.still /\ walk # None /\ walk.pages >= pages
     /\ (\A v, w \in Logged : v # w => OccurredAt(v) # OccurredAt(w))
     => /\ IsInjective(walk.rows) /\ Len(walk.rows) = answer.total
        /\ exported # None /\ exported.still /\ exported.input.filter = answer.input.filter
           => download = Cut(walk.rows, 0, ExportCap)

(* The figures of the insights are those of the log: with nothing changed   *)
(* in between the two count the same visits, every visit is of one origin   *)
(* and on one day, and no more attended than there were.                    *)
InsightsAgreeWithLog ==
  insights # None =>
    /\ insights.totals.total = insights.totals.walkIns + insights.totals.appointments
    /\ insights.totals.attended <= insights.totals.total
    /\ insights.still =>
         insights.totals.total = FoldFunction(+, 0, insights.byDay)
    /\ insights.still /\ answer # None /\ answer.still
       /\ answer.input.filter = insights.input.filter
       /\ answer.input.filter.origin = None /\ answer.input.filter.status = None
         => insights.totals.total = answer.total

(* Pages, download and totals tell one story.                               *)
ReportsAgree == WalkIsTheExport /\ InsightsAgreeWithLog
=============================================================================
