------------------------------- MODULE Kiosk -------------------------------
(***************************************************************************)
(* One tablet at a post: the check-in, check-out, checkpoint and front     *)
(* desk pages, the calls they have in flight, the timers that clear them,  *)
(* the native shell's reset, and the reusable visitor tags they hand out.  *)
(* What the server does with a visit is Desk's subject; here a request     *)
(* takes effect in one step, except the tag requests, whose statements are *)
(* modelled one by one.                                                    *)
(***************************************************************************)
EXTENDS Integers, FiniteSets, SequencesExt

CONSTANTS
  Visits, WalkIns,  \* invited visits, and the walk-ins a desk may register
  Tags,             \* numbers of the reusable tags
  Devices,          \* [shell, mode, hardware, start] the tablet may be
  None,
  MaxCalls,         \* bound: calls of the page in flight
  MaxTagCalls,      \* bound: those of them about tags
  MaxRows           \* bound: open visit_tag rows

Pages == {"check-in", "check-out", "checkpoint", "front-desk",
          "desk-in", "desk-out", "walk-in"}

(* What a shell offers its page; a plain browser has no bridge at all.      *)
Bridge == [browser |-> {}, electron |-> {"printBadge", "reset"},
           android |-> {"printBadge", "reset", "scanQr", "readNfc"}]

ASSUME KioskAssumption ==
  /\ Visits \cap WalkIns = {} /\ None \notin Visits \cup WalkIns \cup Tags
  /\ (Visits \cup WalkIns) \cap Tags = {}
  /\ Devices \subseteq [shell : DOMAIN Bridge,
                        mode : {"printed", "tag"}, hardware : BOOLEAN,
                        start : {"check-in", "check-out", "checkpoint", "front-desk"}]
  /\ MaxCalls \in Nat /\ MaxTagCalls \in Nat /\ MaxRows \in Nat

VARIABLES
  device,    \* what the tablet is; never changes
  screen,    \* the page's state
  calls,     \* requests and scans the page waits for, or no longer does
  signedIn,  \* does the browser hold a staff session
  status,    \* of each visit
  tags,      \* visit_tag rows not returned, in the order of insertion
  returned   \* history: visits whose tag was returned, as the desk was told

server == <<status, tags, returned>>
vars == <<device, screen, calls, signedIn, server>>

Offers(call) == call \in Bridge[device.shell]

Blank(page) == [page |-> page, input |-> None, visit |-> None, badge |-> None,
                error |-> FALSE, camera |-> FALSE, done |-> FALSE, tagged |-> FALSE]

Init ==
  /\ device \in Devices /\ screen = Blank(device.start) /\ calls = {}
  /\ signedIn = TRUE /\ tags = <<>> /\ returned = {}
  /\ status = [v \in Visits \cup WalkIns |-> IF v \in Visits THEN "expected" ELSE "none"]

-----------------------------------------------------------------------------
(* Of the calls of one mutation the page hears the answer to the latest, as *)
(* long as it is mounted; the tag form and the walk-in form hear them all,  *)
(* and every tap on the tag reader that is answered sends its own request.  *)
Superseded(op, cs) ==
  IF op \in {"read", "issue", "register"} THEN cs
  ELSE {IF c.op = op THEN [c EXCEPT !.heard = FALSE] ELSE c : c \in cs}
Unmounted(cs) == {[c EXCEPT !.heard = FALSE] : c \in cs}

Pending(op) == \E c \in calls : c.op = op /\ c.heard
TagOps == {"issue", "return"}
Send(op, what, tag, heard) ==
  /\ Cardinality(calls) < MaxCalls
  /\ op \in TagOps => Cardinality({c \in calls : c.op \in TagOps}) < MaxTagCalls
  /\ \E id \in 1..MaxCalls :
       /\ \A c \in calls : c.id # id
       /\ \A i \in 1..(id - 1) : \E c \in calls : c.id = i
       /\ calls' = Superseded(op, calls) \cup
            {[id |-> id, op |-> op, what |-> what, tag |-> tag, step |-> "sent",
              heard |-> heard, page |-> screen.page]}

TagMode(page) == device.mode = "tag" /\ page \in {"check-out", "desk-out"}
Credentials(page) == IF TagMode(page) THEN Tags ELSE Visits
OpOf(page) == CASE page \in {"check-in", "desk-in"} -> "lookup"
                [] page = "checkpoint" -> "guard"
                [] OTHER -> IF TagMode(page) THEN "return" ELSE "checkout"
Scans == {"check-in", "check-out", "checkpoint", "desk-in", "desk-out"}

(* The form is shown unless something has taken its place.                  *)
Form == /\ screen.page \in Scans /\ screen.badge = None /\ screen.visit = None
        /\ ~screen.camera /\ ~screen.done

(* A presented credential: a lookup clears the confirmation and remembers   *)
(* its own input; the other pages send it at once.                          *)
KeepsVisit(s, x) ==
  IF OpOf(s.page) = "lookup"
  THEN [s EXCEPT !.input = x, !.error = FALSE, !.camera = FALSE]
  ELSE [s EXCEPT !.error = FALSE, !.camera = FALSE]
Presented(s, x) ==
  IF OpOf(s.page) = "lookup"
  THEN [s EXCEPT !.input = x, !.visit = None, !.error = FALSE, !.camera = FALSE]
  ELSE [s EXCEPT !.error = FALSE, !.camera = FALSE]
Present(x) ==
  /\ screen' = Presented(screen, x)
  /\ IF x \in Tags THEN Send(OpOf(screen.page), None, x, TRUE)
     ELSE Send(OpOf(screen.page), x, None, TRUE)

Enter(x) ==
  /\ Form /\ ~Pending(OpOf(screen.page)) /\ x \in Credentials(screen.page)
  /\ Present(x) /\ UNCHANGED <<device, signedIn, server>>

Unreadable ==
  /\ Form /\ ~Pending(OpOf(screen.page))
  /\ screen' = [screen EXCEPT !.error = TRUE]
  /\ UNCHANGED <<device, calls, signedIn, server>>

(* The tag reader answers one tap: to ask for another is to have the one    *)
(* before answered with nothing.                                            *)
ReaderIdle == \A c \in calls : c.op # "read"

(* Scanning: the native reader, which is a promise, or else the camera.     *)
Native(page) == IF TagMode(page) THEN Offers("readNfc")
                ELSE Offers("scanQr") /\ device.hardware
OnScanClick ==
  /\ Form
  /\ IF Native(screen.page)
     THEN /\ TagMode(screen.page) => ReaderIdle
          /\ Send("scan", None, None, TRUE)
          /\ screen' = [screen EXCEPT !.error = FALSE]
     ELSE /\ screen' = [screen EXCEPT !.error = TagMode(screen.page),
                                      !.camera = ~TagMode(screen.page)]
          /\ UNCHANGED calls
  /\ UNCHANGED <<device, signedIn, server>>

CameraResult(v) ==
  /\ screen.camera /\ screen.badge = None /\ screen.visit = None /\ ~screen.done
  /\ Present(v) /\ UNCHANGED <<device, signedIn, server>>

CameraEnds ==  \* cancelled, or a code that is none
  /\ screen.camera /\ screen.badge = None /\ screen.visit = None /\ ~screen.done
  /\ \E e \in {screen.error, TRUE} :
       screen' = [screen EXCEPT !.camera = FALSE, !.error = e]
  /\ UNCHANGED <<device, calls, signedIn, server>>

(* The reader answers whatever the page shows by then; a flow that was left *)
(* still sends a check-out, and nobody hears what becomes of it.            *)
ScanResult(c, x) ==
  /\ c \in calls /\ c.op = "scan" /\ x \in Credentials(c.page)
  /\ LET op == OpOf(c.page)
         sent == [c EXCEPT !.op = op, !.what = IF x \in Tags THEN None ELSE x,
                           !.tag = IF x \in Tags THEN x ELSE None]
     IN /\ op \in TagOps =>
             Cardinality({k \in calls : k.op \in TagOps}) < MaxTagCalls
        /\ calls' = (IF c.heard THEN Superseded(op, calls \ {c}) ELSE calls \ {c})
                    \cup {sent}
  /\ screen' = IF c.heard THEN Presented(screen, x) ELSE screen
  /\ UNCHANGED <<device, signedIn, server>>

Awaits == {"scan", "read"}  \* what a reader answers, and no server
ScanNothing(c) ==
  /\ c \in calls /\ c.op \in Awaits /\ calls' = calls \ {c}
  /\ screen' = IF c.heard /\ c.op = "scan" THEN [screen EXCEPT !.error = TRUE]
               ELSE screen
  /\ UNCHANGED <<device, signedIn, server>>

Confirm ==
  /\ screen.visit # None /\ screen.badge = None /\ screen.input # None
  /\ ~Pending("complete") /\ Send("complete", screen.input, None, TRUE)
  /\ UNCHANGED <<device, screen, signedIn, server>>

(* The tag form under the badge: a number is sent at once, its button waits *)
(* for the answer.                                                          *)
TagForm == screen.badge # None /\ device.mode = "tag" /\ ~screen.tagged
IssueTag(t) ==
  /\ TagForm /\ ~Pending("issue")
  /\ Send("issue", screen.badge, t, TRUE)
  /\ UNCHANGED <<device, screen, signedIn, server>>

(* A tap is awaited for up to half a minute and sends the visit whose form  *)
(* awaited it, whatever the page shows by then.                             *)
ScanNfc ==
  /\ TagForm /\ Offers("readNfc") /\ ReaderIdle
  /\ Send("read", screen.badge, None, TRUE)
  /\ UNCHANGED <<device, screen, signedIn, server>>

NfcRequest(c, t) == [c EXCEPT !.op = "issue", !.tag = t]
NfcResult(c, t) ==
  /\ c \in calls /\ c.op = "read"
  /\ Cardinality({k \in calls : k.op \in TagOps}) < MaxTagCalls
  /\ calls' = (calls \ {c}) \cup {NfcRequest(c, t)}
  /\ UNCHANGED <<device, screen, signedIn, server>>

Register ==
  /\ screen.page = "walk-in" /\ ~screen.done /\ ~Pending("register")
  /\ Send("register", None, None, TRUE)
  /\ screen' = [screen EXCEPT !.error = FALSE]
  /\ UNCHANGED <<device, signedIn, server>>

-----------------------------------------------------------------------------
(* Leaving a screen.  kiosk.reset: Android loads its start page again,      *)
(* Electron drops the cookies and leaves the page as it is.                 *)
Reload == /\ screen' = Blank(device.start) /\ calls' = Unmounted(calls) \
                {c \in Unmounted(calls) : c.op \in Awaits}
          /\ UNCHANGED signedIn
(* The tag form goes with its badge.                                        *)
TagFormGone(cs) ==
  {IF c.op \in {"read", "issue"} THEN [c EXCEPT !.heard = FALSE] ELSE c : c \in cs}
Cleared(s) ==
  CASE s.page = "check-in" -> [Blank(s.page) EXCEPT !.camera = s.camera]
    [] OTHER -> [s EXCEPT !.error = FALSE, !.done = FALSE]
Reset ==
  IF device.shell = "android" /\ screen.page # "checkpoint" THEN Reload
  ELSE /\ screen' = Cleared(screen) /\ calls' = TagFormGone(calls)
       /\ signedIn' = (signedIn /\ (device.shell # "electron" \/ screen.page = "checkpoint"))

Home == screen' = Blank("front-desk") /\ calls' = Unmounted(calls) /\ UNCHANGED signedIn

NotMe ==
  /\ screen.visit # None /\ screen.badge = None
  /\ IF screen.page = "check-in" THEN Reset
     ELSE /\ screen' = [screen EXCEPT !.visit = None, !.input = None]
          /\ UNCHANGED <<calls, signedIn>>
  /\ UNCHANGED <<device, server>>

Done ==
  /\ screen.badge # None \/ screen.done
  /\ IF screen.page \in {"desk-in", "desk-out", "walk-in"} THEN Home ELSE Reset
  /\ UNCHANGED <<device, server>>

OccupiedByBadge(s) == s.badge # None \/ s.error
Occupied(s) == s.badge # None \/ s.visit # None \/ s.error \/ s.done
Timeout ==
  /\ Offers("reset") /\ screen.page \in {"check-in", "check-out"}
  /\ Occupied(screen) /\ Reset /\ UNCHANGED <<device, server>>

Pick(page) ==
  /\ screen.page = "front-desk" /\ page \in {"desk-in", "desk-out", "walk-in"}
  /\ screen' = Blank(page) /\ UNCHANGED <<device, calls, signedIn, server>>

Back ==
  /\ screen.page \in {"desk-in", "desk-out", "walk-in"} /\ Home
  /\ UNCHANGED <<device, server>>

(* The staff member signs in again; the page mounts afresh.                 *)
SignIn ==
  /\ ~signedIn /\ signedIn' = TRUE /\ screen' = Blank(screen.page)
  /\ calls' = Unmounted(calls) /\ UNCHANGED <<device, server>>

-----------------------------------------------------------------------------
(* The server.  Without a session a request is refused.                     *)
To(c, step) == calls' = (calls \ {c}) \cup {[c EXCEPT !.step = step]}
Goes(c, from, to) ==
  IF signedIn /\ status[c.what] = from
  THEN To(c, "ok") /\ status' = [status EXCEPT ![c.what] = to]
  ELSE To(c, "refused") /\ UNCHANGED status

Serve(c) ==
  /\ c \in calls /\ c.step = "sent"
  /\ \/ c.op = "lookup" /\ Goes(c, "expected", "expected")
     \/ c.op = "complete" /\ Goes(c, "expected", "in")
     \/ c.op = "checkout" /\ Goes(c, "in", "out")
     \/ c.op = "guard" /\ Goes(c, "in", "in")
  /\ UNCHANGED <<device, screen, signedIn, tags, returned>>

ServeWalkIn(c, v) ==
  /\ c \in calls /\ c.op = "register" /\ c.step = "sent" /\ status[v] = "none"
  /\ IF signedIn THEN To(c, "ok") /\ status' = [status EXCEPT ![v] = "in"]
     ELSE To(c, "refused") /\ UNCHANGED status
  /\ UNCHANGED <<device, screen, signedIn, tags, returned>>

Holds(t) == {i \in DOMAIN tags : tags[i].tag = t}
HeldBy(t, v) == {i \in Holds(t) : tags[i].visit = v}
Taken(t, v) == Holds(t)
CheckTag(c) ==
  /\ c \in calls /\ c.op = "issue" /\ c.step = "sent"
  /\ To(c, IF signedIn /\ status[c.what] = "in" /\ Taken(c.tag, c.what) = {}
           THEN "free" ELSE "refused")
  /\ UNCHANGED <<device, screen, signedIn, server>>

InsertTag(c) ==
  /\ c \in calls /\ c.op = "issue" /\ c.step = "free" /\ Len(tags) < MaxRows
  /\ tags' = Append(tags, [tag |-> c.tag, visit |-> c.what]) /\ To(c, "ok")
  /\ UNCHANGED <<device, screen, signedIn, status, returned>>

(* A return takes one row of the tag, marks it, and then checks its visitor *)
(* out if he is still in.                                                   *)
FindTag(c) ==
  /\ c \in calls /\ c.op = "return" /\ c.step = "sent"
  /\ IF ~signedIn \/ Holds(c.tag) = {} THEN To(c, "refused")
     ELSE \E i \in Holds(c.tag) :
            calls' = (calls \ {c}) \cup {[c EXCEPT !.step = "found",
                                                   !.what = tags[i].visit]}
  /\ UNCHANGED <<device, screen, signedIn, server>>

MarkTag(c) ==
  /\ c \in calls /\ c.op = "return" /\ c.step = "found" /\ To(c, "marked")
  /\ tags' = IF HeldBy(c.tag, c.what) = {} THEN tags   \* another return was first
             ELSE RemoveAt(tags, CHOOSE i \in HeldBy(c.tag, c.what) : TRUE)
  /\ UNCHANGED <<device, screen, signedIn, status, returned>>

NotOut(v) == IF status[v] = "expected" THEN "out" ELSE status[v]
AfterReturn(v) == IF status[v] = "in" THEN "out" ELSE status[v]
CheckOutHolder(c) ==
  /\ c \in calls /\ c.op = "return" /\ c.step = "marked" /\ To(c, "ok")
  /\ status' = [status EXCEPT ![c.what] = AfterReturn(c.what)]
  /\ returned' = returned \cup {c.what}
  /\ UNCHANGED <<device, screen, signedIn, tags>>

(* Another desk checks the visitor in or out meanwhile.                     *)
Elsewhere(v) ==
  /\ status[v] \in {"expected", "in"}
  /\ status' = [status EXCEPT ![v] = IF @ = "expected" THEN "in" ELSE "out"]
  /\ UNCHANGED <<device, screen, calls, signedIn, tags, returned>>

-----------------------------------------------------------------------------
(* What an answer does to the page that hears it.                           *)
Admitted(c) == c.what
Success(c) ==
  CASE c.op = "lookup" -> [screen EXCEPT !.visit = c.what]
    [] c.op = "complete" -> [screen EXCEPT !.badge = Admitted(c)]
    [] c.op = "issue" -> [screen EXCEPT !.tagged = TRUE]
    [] OTHER -> [screen EXCEPT !.done = TRUE]
Failure(c) ==
  IF c.op = "issue" THEN screen ELSE [screen EXCEPT !.error = TRUE]

Answer(c) ==
  /\ c \in calls /\ c.step \in {"ok", "refused"} /\ calls' = calls \ {c}
  /\ screen' = IF ~c.heard THEN screen
               ELSE IF c.step = "ok" THEN Success(c)
               ELSE IF c.op = "guard" THEN [screen EXCEPT !.done = TRUE]
               ELSE Failure(c)
  /\ UNCHANGED <<device, signedIn, server>>

(* The request or its answer is lost, or the server dies over it.           *)
Fail(c) ==
  /\ c \in calls /\ c.op \notin Awaits /\ calls' = calls \ {c}
  /\ screen' = IF c.heard THEN Failure(c) ELSE screen
  /\ UNCHANGED <<device, signedIn, server>>

Next ==
  \/ \E x \in Visits \cup Tags : Enter(x)
  \/ \E v \in Visits : CameraResult(v)
  \/ Unreadable \/ OnScanClick \/ CameraEnds \/ Confirm \/ Register
  \/ NotMe \/ Done \/ Timeout \/ Back \/ SignIn
  \/ ScanNfc \/ \E t \in Tags : IssueTag(t)
  \/ \E page \in Pages : Pick(page)
  \/ \E c \in calls :
       \/ \E x \in Visits \cup Tags : ScanResult(c, x)
       \/ \E t \in Tags : NfcResult(c, t)
       \/ ScanNothing(c) \/ Serve(c) \/ CheckTag(c) \/ InsertTag(c) \/ FindTag(c)
       \/ MarkTag(c) \/ CheckOutHolder(c) \/ Answer(c) \/ Fail(c)
       \/ \E v \in WalkIns : ServeWalkIn(c, v)
  \/ \E v \in Visits : Elsewhere(v)

(* The timers fire; nothing else is promised.                               *)
Spec == Init /\ [][Next]_vars /\ WF_vars(Timeout)

-----------------------------------------------------------------------------
Calls == [id : 1..MaxCalls, what : Visits \cup WalkIns \cup {None},
          op : {"scan", "read", "lookup", "complete", "checkout", "guard",
                "issue", "return", "register"},
          tag : Tags \cup {None}, heard : BOOLEAN, page : Pages,
          step : {"sent", "free", "found", "marked", "ok", "refused"}]

VisitTag == [tag : Tags, visit : Visits]

(* Types; a tag is confirmed as issued only under the badge it goes with.   *)
TypeOK ==
  /\ device \in Devices /\ signedIn \in BOOLEAN
  /\ screen \in [page : Pages, input : Visits \cup {None},
       visit : Visits \cup {None}, badge : Visits \cup {None}, error : BOOLEAN,
       camera : BOOLEAN, done : BOOLEAN, tagged : BOOLEAN]
  /\ calls \subseteq Calls
  /\ status \in [Visits \cup WalkIns -> {"none", "expected", "in", "out"}]
  /\ \A i \in DOMAIN tags :
       tags[i] \in VisitTag /\ Len(tags) <= MaxRows
  /\ returned \subseteq Visits /\ screen.tagged => screen.badge # None

(* Check in sends the visit on the confirmation screen: a late lookup, a    *)
(* scan that arrives while another visitor's details are up, a reset or a   *)
(* return to the home screen never makes it another one.  (A reset between  *)
(* a lookup and its answer leaves a Check in button that sends nothing.)    *)
ConfirmsWhatIsShown ==
  screen.visit # None => screen.input \in {screen.visit, None}

(* Nobody is shown a badge whom the server has not admitted.                *)
BadgeIsAdmitted ==
  screen.badge # None => status[screen.badge] \in {"in", "out"}

(* While the requests about tags come one after another a tag is out once,  *)
(* however often its reader is tapped and however requests fail.            *)
TagOneHolder ==
  \A i, j \in DOMAIN tags : tags[i].tag = tags[j].tag => i = j

(* "Tag issued" is said under a badge of that badge's visit only: a tap may *)
(* be answered, and a tag issued, when the badge has made place for another *)
(* or for the form, and then the page says nothing of it.                   *)
TagToldUnderItsBadge ==
  \A c \in calls : c.op \in {"read", "issue"} /\ c.heard => c.what = screen.badge

(* A visitor whose tag the desk was told is returned is out of the building. *)
ReturnedIsOut == \A v \in returned : status[v] = "out"

Emptied(s) == s.badge = None /\ s.visit = None /\ ~s.error /\ ~s.done

(* On a kiosk the unattended pages come back to the empty form, over and    *)
(* over, whatever is answered late and whoever walks away.                  *)
ScreenClears ==
  Offers("reset") /\ screen.page \in {"check-in", "check-out"} => []<>Emptied(screen)

(* Badges and tags answer for visits as the server has them.                *)
KioskInv ==
  TypeOK /\ BadgeIsAdmitted /\ TagOneHolder /\ ReturnedIsOut /\ TagToldUnderItsBadge
=============================================================================
