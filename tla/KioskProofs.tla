----------------------------- MODULE KioskProofs -----------------------------
(***************************************************************************)
(* What the kiosk shows goes with what it sends, and what it has been told *)
(* goes with what the server has.  The argument: a page hears only calls   *)
(* it made itself, the latest lookup is for the input it remembers and a   *)
(* tag is asked for under the badge it goes with; and a visit that has     *)
(* been checked in stays so or is out, so that every answer under way      *)
(* about it stays true however late it is heard.                           *)
(***************************************************************************)
EXTENDS Kiosk, FiniteSetTheorems, SequenceTheorems, TLAPS

(* A call names a visit and a tag where they are needed; a scan is never    *)
(* served.                                                                  *)
Fitting ==
  {c \in Calls :
     /\ c.op \in {"lookup", "complete", "read", "issue"} => c.what \in Visits
     /\ c.op = "issue" => c.tag \in Tags
     /\ c.step \in {"found", "marked"} => c.what \in Visits
     /\ c.op \in Awaits => c.step = "sent"}

(* What the page knows of a call whose answer it is going to hear.          *)
Expected(c) ==
  c.heard =>
    /\ c.page = screen.page /\ c.page # "front-desk"
    /\ c.op = "lookup" => screen.input \in {c.what, None}
    /\ c.op \in {"read", "issue"} => screen.badge = c.what
    /\ c.op = "complete" => screen.badge = None
OneComplete ==
  \A c,
  d \in calls : c.op = "complete" /\ d.op = "complete" /\ c.heard /\ d.heard => c = d

Screens == [page : Pages, input : Visits \cup {None},
            visit : Visits \cup {None}, badge : Visits \cup {None},
            error : BOOLEAN,
            camera : BOOLEAN, done : BOOLEAN, tagged : BOOLEAN]
PageInv ==
  /\ device \in Devices /\ signedIn \in BOOLEAN /\ screen \in Screens
  /\ screen.page = "front-desk" => screen = Blank("front-desk")
  /\ screen.tagged => screen.badge # None
  /\ ConfirmsWhatIsShown
  /\ calls \subseteq Fitting /\ \A c \in calls : Expected(c)
  /\ OneComplete

(* What stays true of a call under way, as its visit stays in or is out.    *)
Arrived(v) == status[v] \in {"in", "out"}
Warranted(c) ==
  /\ c.op = "complete" /\ c.step = "ok" => Arrived(c.what)
  /\ c.op = "issue" /\ c.step = "free" => Arrived(c.what)
  /\ c.op = "return" /\ c.step \in {"found", "marked"} => Arrived(c.what)
ServerInv ==
  /\ status \in [Visits \cup WalkIns -> {"none", "expected", "in", "out"}]
  /\ tags \in Seq(VisitTag) /\ Len(tags) <= MaxRows
  /\ \A i \in DOMAIN tags : Arrived(tags[i].visit)
  /\ \A c \in calls : Warranted(c)
  /\ returned \subseteq Visits /\ ReturnedIsOut
  /\ BadgeIsAdmitted

KioskIInv == PageInv /\ ServerInv

(* While tags are asked for one at a time, a number found free stays free.  *)
OneTagCall == \A c, d \in calls : c.op \in TagOps /\ d.op \in TagOps => c = d
FreeIsFree == \A c \in calls : c.op = "issue" /\ c.step = "free" => Holds(c.tag) = {}
TagInv == OneTagCall /\ FreeIsFree /\ TagOneHolder
-----------------------------------------------------------------------------
(* Calls.                                                                   *)

(* Steps of the page turn a deaf ear to a call but change nothing else.     *)
Muted(d, c) == d = c \/ d = [c EXCEPT !.heard = FALSE]

(* A muted call is as fitting and as warranted, and no more is expected.    *)
LEMMA MutedKeeps ==
  ASSUME NEW c \in Fitting, NEW d, Muted(d, c)
  PROVE  /\ d \in Fitting
         /\ d.op = c.op /\ d.what = c.what /\ d.step = c.step /\ d.tag = c.tag
         /\ d.page = c.page /\ (d.heard => d = c)
         /\ Warranted(c) => Warranted(d)
         /\ Expected(c) => Expected(d)
<1>1. /\ d \in Calls /\ d.op = c.op /\ d.what = c.what /\ d.step = c.step
      /\ d.tag = c.tag /\ d.page = c.page /\ (d.heard => d = c)
  BY DEF Muted, Fitting, Calls
<1>2. d \in Fitting
  BY <1>1 DEF Fitting
<1>3. Warranted(c) => Warranted(d)
  BY <1>1 DEF Warranted
<1>4. Expected(c) => Expected(d)
  BY <1>1 DEF Expected
<1> QED
  BY <1>1, <1>2, <1>3, <1>4

(* What is left of the calls when one supersedes them, when the page goes   *)
(* and when the tag form goes: the same calls, some of them muted.          *)
LEMMA SupersededMutes ==
  ASSUME NEW op, NEW cs \in SUBSET Fitting, NEW d \in Superseded(op, cs)
  PROVE  /\ \E c \in cs : Muted(d, c)
         /\ op = "complete" /\ d.op = op => ~d.heard
         /\ op = "lookup" /\ d.op = op => ~d.heard
<1>1. CASE op \in {"read", "issue", "register"}
  BY <1>1 DEF Superseded, Muted
<1>2. CASE op \notin {"read", "issue", "register"}
  <2>1. PICK c \in cs : d = IF c.op = op THEN [c EXCEPT !.heard = FALSE] ELSE c
    BY <1>2 DEF Superseded
  <2>2. Muted(d, c)
    BY <2>1 DEF Muted
  <2>3. c \in Calls
    BY DEF Fitting
  <2>4. d.op = op => ~d.heard
    <3>1. CASE c.op = op
      BY <3>1, <2>1, <2>3 DEF Calls
    <3>2. CASE c.op # op
      BY <3>2, <2>1, <2>3 DEF Calls
    <3> QED
      BY <3>1, <3>2
  <2> QED
    BY <2>2, <2>4
<1> QED
  BY <1>1, <1>2

LEMMA UnmountedMutes ==
  ASSUME NEW cs \in SUBSET Fitting, NEW d \in Unmounted(cs)
  PROVE  (\E c \in cs : Muted(d, c)) /\ ~d.heard
<1>1. PICK c \in cs : d = [c EXCEPT !.heard = FALSE]
  BY DEF Unmounted
<1>2. c \in Calls
  BY DEF Fitting
<1> QED
  BY <1>1, <1>2 DEF Muted, Calls

LEMMA TagFormGoneMutes ==
  ASSUME NEW cs \in SUBSET Fitting, NEW d \in TagFormGone(cs)
  PROVE  (\E c \in cs : Muted(d, c)) /\ (d.op \in {"read", "issue"} => ~d.heard)
<1>1. PICK c \in cs :
        d = IF c.op \in {"read", "issue"} THEN [c EXCEPT !.heard = FALSE] ELSE c
  BY DEF TagFormGone
<1>2. c \in Calls
  BY DEF Fitting
<1>3. CASE c.op \in {"read", "issue"}
  BY <1>1, <1>2, <1>3 DEF Muted, Calls
<1>4. CASE c.op \notin {"read", "issue"}
  BY <1>1, <1>2, <1>4 DEF Muted, Calls
<1> QED
  BY <1>3, <1>4

(* The call a page sends, and what it makes of the calls.                   *)
SentCall(id, op, what, tag, heard) ==
  [id |-> id, op |-> op, what |-> what, tag |-> tag, step |-> "sent",
   heard |-> heard, page |-> screen.page]

LEMMA SendsOne ==
  ASSUME NEW op, NEW what, NEW tag, NEW heard, Send(op, what, tag, heard)
  PROVE  \E id \in 1..MaxCalls :
           calls' = Superseded(op, calls) \cup {SentCall(id, op, what, tag, heard)}
BY DEF Send, SentCall

LEMMA SentCallFits ==
  ASSUME PageInv, NEW id \in 1..MaxCalls,
         NEW what \in Visits \cup WalkIns \cup {None},
         NEW tag \in Tags \cup {None}, NEW heard \in BOOLEAN,
         NEW op \in {"scan", "read", "lookup", "complete", "checkout", "guard",
                     "issue", "return", "register"},
         op \in {"lookup", "complete", "read", "issue"} => what \in Visits,
         op = "issue" => tag \in Tags
  PROVE  /\ SentCall(id, op, what, tag, heard) \in Fitting
         /\ Warranted(SentCall(id, op, what, tag, heard))
<1>1. screen.page \in Pages
  BY DEF PageInv, Screens
<1> DEFINE c == SentCall(id, op, what, tag, heard)
<1>2. /\ c \in Calls /\ c.op = op /\ c.what = what /\ c.step = "sent"
      /\ c.tag = tag
  BY <1>1 DEF SentCall, Calls
<1> QED
  BY <1>2 DEF Fitting, Warranted

(* What a credential is on a page, and what it is sent with.                *)
LEMMA CredentialsFit ==
  ASSUME NEW page \in Pages, NEW x \in Visits \cup Tags
  PROVE  /\ OpOf(page) \in {"lookup", "guard", "return", "checkout"}
         /\ OpOf(page) = "lookup" <=> page \in {"check-in", "desk-in"}
         /\ x \in Credentials(page) /\ OpOf(page) # "return" => x \in Visits
         /\ x \in Tags <=> x \notin Visits
<1>1. Visits \cap Tags = {}
  BY KioskAssumption
<1> QED
  BY <1>1 DEF OpOf, TagMode, Credentials, Pages
-----------------------------------------------------------------------------
(* Moves of the page.                                                       *)
Derived ==
  \A d \in calls' : \/ \E c \in calls : Muted(d, c)
                    \/ d \in Fitting /\ d.step = "sent"

LEMMA DerivedFits ==
  ASSUME calls \subseteq Fitting, Derived
  PROVE  calls' \subseteq Fitting
BY MutedKeeps DEF Derived

(* The server's side is not touched by what the page does.                  *)
LEMMA PageMoveKeepsServer ==
  ASSUME ServerInv, calls \subseteq Fitting, Derived, UNCHANGED server,
         screen'.badge \in {screen.badge, None}
  PROVE  ServerInv'
<1>1. UNCHANGED <<status, tags, returned>>
  BY DEF server
<1>2. ASSUME NEW d \in calls' PROVE Warranted(d)'
  <2>1. Warranted(d)
    <3>1. CASE \E c \in calls : Muted(d, c)
      BY <3>1, MutedKeeps DEF ServerInv
    <3>2. CASE d \in Fitting /\ d.step = "sent"
      BY <3>2 DEF Warranted
    <3> QED
      BY <3>1, <3>2 DEF Derived
  <2> QED
    BY <2>1, <1>1 DEF Warranted, Arrived
<1>3. BadgeIsAdmitted'
  BY <1>1 DEF ServerInv, BadgeIsAdmitted
<1>4. (\A i \in DOMAIN tags : Arrived(tags[i].visit))'
  BY <1>1 DEF ServerInv, Arrived
<1>5. ReturnedIsOut'
  BY <1>1 DEF ServerInv, ReturnedIsOut
<1> QED
  BY <1>1, <1>2, <1>3, <1>4, <1>5 DEF ServerInv

(* A blank page hears nothing.                                              *)
LEMMA BlankIsAScreen ==
  ASSUME NEW p \in Pages
  PROVE  /\ Blank(p) \in Screens /\ Blank(p).page = p /\ Blank(p).visit = None
         /\ Blank(p).badge = None /\ ~Blank(p).tagged /\ Blank(p).input = None
BY DEF Blank, Screens

Silent == \A d \in calls' : (\E c \in calls : Muted(d, c)) /\ ~d.heard

LEMMA PageLeft ==
  ASSUME KioskIInv, NEW p \in Pages, screen' = Blank(p), Silent,
         UNCHANGED <<device, server>>, signedIn' \in BOOLEAN
  PROVE  KioskIInv'
<1>1. Derived
  BY DEF Silent, Derived
<1>2. /\ screen' \in Screens /\ screen'.page = p /\ screen'.visit = None
      /\ screen'.badge = None /\ ~screen'.tagged
  BY BlankIsAScreen
<1>3. ServerInv'
  BY <1>1, <1>2, PageMoveKeepsServer DEF KioskIInv, PageInv
<1>4. calls' \subseteq Fitting
  BY <1>1, DerivedFits DEF KioskIInv, PageInv
<1>5. (\A c \in calls : Expected(c))' /\ OneComplete'
  BY DEF Silent, Expected, OneComplete
<1>6. ConfirmsWhatIsShown'
  BY <1>2 DEF ConfirmsWhatIsShown
<1>7. (screen.page = "front-desk" => screen = Blank("front-desk"))'
  BY <1>2 DEF Blank
<1>8. device' \in Devices
  BY DEF KioskIInv, PageInv
<1> QED
  BY <1>2, <1>3, <1>4, <1>5, <1>6, <1>7, <1>8 DEF KioskIInv, PageInv

LEMMA UnmountedIsSilent ==
  ASSUME KioskIInv, NEW cs \in SUBSET Unmounted(calls), calls' = cs
  PROVE  Silent
BY UnmountedMutes DEF Silent, KioskIInv, PageInv

LEMMA Homes ==
  ASSUME KioskIInv, Home, UNCHANGED <<device, server>>
  PROVE  KioskIInv'
<1>1. Silent
  BY UnmountedIsSilent DEF Home
<1>2. "front-desk" \in Pages /\ signedIn' \in BOOLEAN
  BY DEF Pages, Home, KioskIInv, PageInv
<1> QED
  BY <1>1, <1>2, PageLeft DEF Home

LEMMA StartIsAPage ==
  ASSUME PageInv
  PROVE  device.start \in Pages
<1>1. device \in [shell : DOMAIN Bridge, mode : {"printed", "tag"}, hardware : BOOLEAN,
                  start : {"check-in", "check-out", "checkpoint", "front-desk"}]
  BY KioskAssumption DEF PageInv
<1> QED
  BY <1>1 DEF Pages

LEMMA Reloads ==
  ASSUME KioskIInv, Reload, UNCHANGED <<device, server>>
  PROVE  KioskIInv'
<1>1. Silent
  BY UnmountedIsSilent DEF Reload
<1>2. device.start \in Pages /\ signedIn' \in BOOLEAN
  BY StartIsAPage DEF Reload, KioskIInv, PageInv
<1> QED
  BY <1>1, <1>2, PageLeft DEF Reload

(* Another screen on the same page, with the calls as they were or muted.   *)
LEMMA SamePage ==
  ASSUME KioskIInv, Derived, UNCHANGED <<device, server>>,
         signedIn' \in BOOLEAN,
         screen' \in Screens, screen'.page = screen.page,
         screen.page = "front-desk" => screen' = screen,
         screen'.tagged => screen'.badge # None,
         ConfirmsWhatIsShown', screen'.badge \in {screen.badge, None},
         (\A c \in calls : Expected(c))', OneComplete'
  PROVE  KioskIInv'
<1>1. ServerInv'
  BY PageMoveKeepsServer DEF KioskIInv, PageInv
<1>2. calls' \subseteq Fitting
  BY DerivedFits DEF KioskIInv, PageInv
<1>3. device' \in Devices
  BY DEF KioskIInv, PageInv
<1> QED
  BY <1>1, <1>2, <1>3 DEF KioskIInv, PageInv
(* The screen as it was, as far as calls go.                                *)
SameShown ==
  /\ screen'.page = screen.page /\ screen'.input = screen.input
  /\ screen'.visit = screen.visit /\ screen'.badge = screen.badge
  /\ screen'.tagged = screen.tagged

LEMMA SameShownKeeps ==
  ASSUME KioskIInv, SameShown
  PROVE  /\ ConfirmsWhatIsShown' /\ (screen'.tagged => screen'.badge # None)
         /\ \A c \in Fitting : Expected(c) => Expected(c)'
<1>1. ConfirmsWhatIsShown' /\ (screen'.tagged => screen'.badge # None)
  BY DEF SameShown, ConfirmsWhatIsShown, KioskIInv, PageInv
<1>2. ASSUME NEW c \in Fitting, Expected(c) PROVE Expected(c)'
  BY <1>2 DEF SameShown, Expected
<1> QED
  BY <1>1, <1>2

(* Nothing but errors, cameras and the like, and fewer or muted calls.      *)
LEMMA Fidgets ==
  ASSUME KioskIInv, SameShown, screen' \in Screens,
         screen.page = "front-desk" => screen' = screen,
         \A d \in calls' : \E c \in calls : Muted(d, c),
         UNCHANGED <<device, server>>, signedIn' \in BOOLEAN
  PROVE  KioskIInv'
<1>1. Derived
  BY DEF Derived
<1>2. (\A c \in calls : Expected(c))'
  <2>1. ASSUME NEW d \in calls' PROVE Expected(d)'
    <3>1. PICK c \in calls : Muted(d, c)
      OBVIOUS
    <3>2. c \in Fitting /\ Expected(c)
      BY DEF KioskIInv, PageInv
    <3>3. d \in Fitting /\ Expected(d)
      BY <3>1, <3>2, MutedKeeps
    <3> QED
      BY <3>3, SameShownKeeps
  <2> QED
    BY <2>1
<1>3. OneComplete'
  <2>1. ASSUME NEW c \in calls', NEW d \in calls', c.op = "complete",
  d.op = "complete",
               c.heard, d.heard
        PROVE  c = d
    <3>1. PICK c1 \in calls, d1 \in calls : Muted(c, c1) /\ Muted(d, d1)
      OBVIOUS
    <3>2. c = c1 /\ d = d1
      BY <2>1, <3>1, MutedKeeps DEF KioskIInv, PageInv
    <3> QED
      BY <2>1, <3>2 DEF KioskIInv, PageInv, OneComplete
  <2> QED
    BY <2>1 DEF OneComplete
<1>4. /\ screen'.page = screen.page /\ screen'.badge \in {screen.badge, None}
  BY DEF SameShown
<1> QED
  BY <1>1, <1>2, <1>3, <1>4, SameShownKeeps, SamePage

(* A reset that leaves the page where it is.                                *)
LEMMA Resets ==
  ASSUME KioskIInv, Reset, UNCHANGED <<device, server>>,
         screen.page # "front-desk"
  PROVE  KioskIInv'
<1>1. CASE device.shell = "android" /\ screen.page # "checkpoint"
  BY <1>1, Reloads DEF Reset
<1>2. CASE ~(device.shell = "android" /\ screen.page # "checkpoint")
  <2>1. screen' = Cleared(screen) /\ calls' = TagFormGone(calls) /\ signedIn' \in BOOLEAN
    BY <1>2 DEF Reset, KioskIInv, PageInv
  <2>2. \A d \in calls' : (\E c \in calls : Muted(d, c)) /\ (d.op \in {"read", "issue"} => ~d.heard)
    BY <2>1, TagFormGoneMutes DEF KioskIInv, PageInv
  <2>3. CASE screen.page # "check-in"
    <3>1. screen' = [screen EXCEPT !.error = FALSE, !.done = FALSE]
      BY <2>1, <2>3 DEF Cleared
    <3>2. SameShown /\ screen' \in Screens
      BY <3>1 DEF SameShown, Screens, KioskIInv, PageInv
    <3> QED
      BY <2>1, <2>2, <3>2, Fidgets
  <2>4. CASE screen.page = "check-in"
    <3>1. screen' = [Blank("check-in") EXCEPT !.camera = screen.camera]
      BY <2>1, <2>4 DEF Cleared
    <3>2. /\ screen' \in Screens /\ screen'.page = screen.page /\ screen'.visit = None
          /\ screen'.badge = None /\ ~screen'.tagged /\ screen'.input = None
      BY <3>1, <2>4 DEF Blank, Screens, KioskIInv, PageInv
    <3>3. Derived
      BY <2>2 DEF Derived
    <3>4. ASSUME NEW d \in calls' PROVE Expected(d)' /\ (d.heard => d \in calls)
      <4>1. PICK c \in calls : Muted(d, c)
        BY <2>2
      <4>2. c \in Fitting /\ Expected(c)
        BY DEF KioskIInv, PageInv
      <4>3. d.heard => d = c
        BY <4>1, <4>2, MutedKeeps
      <4>4. d.op \in {"read", "issue"} => ~d.heard
        BY <2>2
      <4> QED
        BY <4>2, <4>3, <4>4, <3>2 DEF Expected
    <3>5. OneComplete'
      BY <3>4 DEF OneComplete, KioskIInv, PageInv
    <3>6. ConfirmsWhatIsShown'
      BY <3>2 DEF ConfirmsWhatIsShown
    <3> QED
      BY <2>1, <3>2, <3>3, <3>4, <3>5, <3>6, SamePage
  <2> QED
    BY <2>3, <2>4
<1> QED
  BY <1>1, <1>2

(* A page sends a call: the latest of its kind is the one it hears.         *)
LEMMA Sends ==
  ASSUME KioskIInv, NEW op, NEW cs \in SUBSET calls, NEW s \in Fitting,
         calls' = Superseded(op, cs) \cup {s}, s.op = op, s.step = "sent",
         Expected(s)',
         UNCHANGED <<device, signedIn, server>>,
         screen' \in Screens, screen'.page = screen.page,
         screen.page # "front-desk",
         screen'.badge = screen.badge, screen'.tagged = screen.tagged,
         \/ screen'.visit = screen.visit /\ screen'.input = screen.input
         \/ op = "lookup" /\ screen'.visit = None
  PROVE  KioskIInv'
<1>1. cs \in SUBSET Fitting /\ calls \subseteq Fitting
  BY DEF KioskIInv, PageInv
<1>2. ASSUME NEW d \in Superseded(op, cs)
      PROVE  /\ \E c \in cs : Muted(d, c) /\ (d.heard => d = c)
             /\ op = "complete" /\ d.op = op => ~d.heard
             /\ op = "lookup" /\ d.op = op => ~d.heard
  BY <1>1, SupersededMutes, MutedKeeps
<1>3. Derived
  BY <1>2 DEF Derived
<1>4. ASSUME NEW d \in Superseded(op, cs) PROVE Expected(d)' /\ (d.heard => d \in calls)
  <2>1. PICK c \in cs : Muted(d, c) /\ (d.heard => d = c)
    BY <1>2
  <2>2. Expected(c)
    BY DEF KioskIInv, PageInv
  <2>3. op = "lookup" /\ d.op = op => ~d.heard
    BY <1>2
  <2> QED
    BY <2>1, <2>2, <2>3 DEF Expected
<1>5. (\A c \in calls : Expected(c))'
  BY <1>4
<1>6. OneComplete'
  <2>1. ASSUME NEW c \in calls', NEW d \in calls', c.op = "complete",
  d.op = "complete",
               c.heard, d.heard
        PROVE  c = d
    <3>1. CASE op = "complete"
      BY <2>1, <3>1, <1>2
    <3>2. CASE op # "complete"
      BY <2>1, <3>2, <1>4 DEF OneComplete, KioskIInv, PageInv
    <3> QED
      BY <3>1, <3>2
  <2> QED
    BY <2>1 DEF OneComplete
<1>7. ConfirmsWhatIsShown' /\ (screen'.tagged => screen'.badge # None)
  BY DEF ConfirmsWhatIsShown, KioskIInv, PageInv
<1>8. signedIn' \in BOOLEAN
  BY DEF KioskIInv, PageInv
<1> QED
  BY <1>3, <1>5, <1>6, <1>7, <1>8, SamePage
-----------------------------------------------------------------------------
(* One lemma per action of the page.                                        *)

(* The forms are not on the front desk.                                     *)
LEMMA PresentedIsAScreen ==
  ASSUME PageInv, NEW x, OpOf(screen.page) = "lookup" => x \in Visits
  PROVE  /\ Presented(screen, x) \in Screens
         /\ Presented(screen, x).page = screen.page
         /\ Presented(screen, x).badge = screen.badge
         /\ Presented(screen, x).tagged = screen.tagged
         /\ IF OpOf(screen.page) = "lookup"
            THEN Presented(screen, x).visit = None /\ Presented(screen, x).input = x
            ELSE /\ Presented(screen, x).visit = screen.visit
                 /\ Presented(screen, x).input = screen.input
<1>1. screen \in Screens
  BY DEF PageInv
<1>2. CASE OpOf(screen.page) = "lookup"
  <2>1. Presented(screen, x) = [screen EXCEPT !.input = x, !.visit = None, !.error = FALSE,
                                              !.camera = FALSE]
    BY <1>2 DEF Presented
  <2> QED
    BY <1>1, <1>2, <2>1 DEF Screens
<1>3. CASE OpOf(screen.page) # "lookup"
  <2>1. Presented(screen, x) = [screen EXCEPT !.error = FALSE, !.camera = FALSE]
    BY <1>3 DEF Presented
  <2> QED
    BY <1>1, <1>3, <2>1 DEF Screens
<1> QED
  BY <1>2, <1>3

LEMMA PresentKeeps ==
  ASSUME KioskIInv, NEW x \in Visits \cup Tags, Present(x),
         OpOf(screen.page) # "return" => x \in Visits,
         screen.page # "front-desk", UNCHANGED <<device, signedIn, server>>
  PROVE  KioskIInv'
<1> DEFINE op == OpOf(screen.page)
           what == IF x \in Tags THEN None ELSE x
           tag == IF x \in Tags THEN x ELSE None
<1>1. screen.page \in Pages
  BY DEF KioskIInv, PageInv, Screens
<1>2. /\ op \in {"lookup", "guard", "return", "checkout"}
      /\ x \in Tags <=> x \notin Visits
  BY <1>1, CredentialsFit
<1>3. Send(op, what, tag, TRUE) /\ screen' = Presented(screen, x)
  BY DEF Present
<1>4. PICK id \in 1..MaxCalls :
        calls' = Superseded(op, calls) \cup {SentCall(id, op, what, tag, TRUE)}
  BY <1>3, SendsOne
<1>5. what \in Visits \cup WalkIns \cup {None} /\ tag \in Tags \cup {None}
  OBVIOUS
<1>6. op = "lookup" => what = x /\ what \in Visits
  BY <1>2
<1>7. SentCall(id, op, what, tag, TRUE) \in Fitting
  BY <1>2, <1>5, <1>6, SentCallFits DEF KioskIInv
<1>8. PICK s \in Fitting :
        /\ s = SentCall(id, op, what, tag, TRUE)
        /\ s.op = op /\ s.what = what /\ s.page = screen.page /\ s.step = "sent"
  BY <1>7 DEF SentCall
<1>9. /\ screen' \in Screens /\ screen'.page = screen.page
      /\ screen'.badge = screen.badge /\ screen'.tagged = screen.tagged
      /\ IF op = "lookup" THEN screen'.visit = None /\ screen'.input = x
         ELSE screen'.visit = screen.visit /\ screen'.input = screen.input
  BY <1>3, PresentedIsAScreen DEF KioskIInv
<1>10. Expected(s)'
  <2>1. op = "lookup" => screen'.input \in {s.what, None}
    BY <1>6, <1>8, <1>9
  <2> QED
    BY <2>1, <1>2, <1>8, <1>9 DEF Expected
<1>11. calls' = Superseded(op, calls) \cup {s}
  BY <1>4, <1>8
<1> HIDE DEF op, what, tag
<1> QED
  BY <1>8, <1>9, <1>10, <1>11, Sends

LEMMA EnterKeeps ==
  ASSUME KioskIInv, NEW x \in Visits \cup Tags, Enter(x)
  PROVE  KioskIInv'
<1>1. screen.page \in Scans /\ screen.page \in Pages /\ screen.page # "front-desk"
  BY DEF Enter, Form, Scans, Pages
<1>2. OpOf(screen.page) # "return" => x \in Visits
  BY <1>1, CredentialsFit DEF Enter
<1> QED
  BY <1>1, <1>2, PresentKeeps DEF Enter

LEMMA CameraResultKeeps ==
  ASSUME KioskIInv, NEW v \in Visits, CameraResult(v)
  PROVE  KioskIInv'
<1>1. screen.page # "front-desk"
  BY DEF CameraResult, Blank, KioskIInv, PageInv
<1> QED
  BY <1>1, PresentKeeps DEF CameraResult

LEMMA UnreadableKeeps ==
  ASSUME KioskIInv, Unreadable
  PROVE  KioskIInv'
<1>1. screen' = [screen EXCEPT !.error = TRUE]
  BY DEF Unreadable
<1>2. SameShown /\ screen' \in Screens
  BY <1>1 DEF SameShown, Screens, KioskIInv, PageInv
<1>3. screen.page # "front-desk"
  BY DEF Unreadable, Form, Scans
<1> QED
  BY <1>2, <1>3, Fidgets DEF Unreadable, Muted, KioskIInv, PageInv

LEMMA CameraEndsKeeps ==
  ASSUME KioskIInv, CameraEnds
  PROVE  KioskIInv'
<1>1. PICK e \in {screen.error, TRUE} : screen' = [screen EXCEPT !.camera = FALSE, !.error = e]
  BY DEF CameraEnds
<1>2. SameShown /\ screen' \in Screens
  BY <1>1 DEF SameShown, Screens, KioskIInv, PageInv
<1>3. screen.page # "front-desk"
  BY DEF CameraEnds, Blank, KioskIInv, PageInv
<1> QED
  BY <1>2, <1>3, Fidgets DEF CameraEnds, Muted, KioskIInv, PageInv

(* A call that is not about what the screen shows.                          *)
LEMMA PlainSend ==
  ASSUME KioskIInv, NEW op \in {"scan", "register"}, Send(op, None, None, TRUE),
         SameShown, screen' \in Screens, screen.page # "front-desk",
         UNCHANGED <<device, signedIn, server>>
  PROVE  KioskIInv'
<1>1. PICK id \in 1..MaxCalls :
        calls' = Superseded(op, calls) \cup {SentCall(id, op, None, None, TRUE)}
  BY SendsOne
<1>2. SentCall(id, op, None, None, TRUE) \in Fitting
  BY SentCallFits DEF KioskIInv
<1>3. PICK s \in Fitting :
        /\ s = SentCall(id, op, None, None, TRUE)
        /\ s.op = op /\ s.page = screen.page /\ s.step = "sent"
  BY <1>2 DEF SentCall
<1>4. Expected(s)'
  BY <1>3 DEF Expected, SameShown
<1>5. calls' = Superseded(op, calls) \cup {s}
  BY <1>1, <1>3
<1> QED
  BY <1>3, <1>4, <1>5, Sends DEF SameShown

LEMMA OnScanClickKeeps ==
  ASSUME KioskIInv, OnScanClick
  PROVE  KioskIInv'
<1>1. screen.page # "front-desk"
  BY DEF OnScanClick, Form, Scans
<1>2. CASE Native(screen.page)
  <2>1. Send("scan", None, None, TRUE) /\ screen' = [screen EXCEPT !.error = FALSE]
    BY <1>2 DEF OnScanClick
  <2>2. SameShown /\ screen' \in Screens
    BY <2>1 DEF SameShown, Screens, KioskIInv, PageInv
  <2> QED
    BY <1>1, <2>1, <2>2, PlainSend DEF OnScanClick
<1>3. CASE ~Native(screen.page)
  <2>1. /\ screen' = [screen EXCEPT !.error = TagMode(screen.page), !.camera = ~TagMode(screen.page)]
        /\ UNCHANGED calls
    BY <1>3 DEF OnScanClick
  <2>2. TagMode(screen.page) \in BOOLEAN
    BY DEF TagMode
  <2>3. SameShown /\ screen' \in Screens
    BY <2>1, <2>2 DEF SameShown, Screens, KioskIInv, PageInv
  <2> QED
    BY <1>1, <2>1, <2>3, Fidgets DEF OnScanClick, Muted, KioskIInv, PageInv
<1> QED
  BY <1>2, <1>3

LEMMA RegisterKeeps ==
  ASSUME KioskIInv, Register
  PROVE  KioskIInv'
<1>1. screen' = [screen EXCEPT !.error = FALSE]
  BY DEF Register
<1>2. SameShown /\ screen' \in Screens
  BY <1>1 DEF SameShown, Screens, KioskIInv, PageInv
<1> QED
  BY <1>2, PlainSend DEF Register
(* What a scan becomes: the request its flow was for.                       *)
Scanned(c, x) == [c EXCEPT !.op = OpOf(c.page), !.what = IF x \in Tags THEN None ELSE x,
                           !.tag = IF x \in Tags THEN x ELSE None]

LEMMA ScannedFits ==
  ASSUME NEW c \in Fitting, c.op = "scan", NEW x \in Visits \cup Tags,
         x \in Credentials(c.page)
  PROVE  /\ Scanned(c, x) \in Fitting /\ Scanned(c, x).step = "sent"
         /\ Scanned(c, x).op = OpOf(c.page) /\ Scanned(c, x).page = c.page
         /\ Scanned(c, x).heard = c.heard /\ Scanned(c, x).tag = (IF x \in Tags THEN x ELSE None)
         /\ OpOf(c.page) # "return" => x \in Visits
         /\ OpOf(c.page) = "lookup" => Scanned(c, x).what = x
         /\ OpOf(c.page) \in {"lookup", "guard", "return", "checkout"}
<1>1. c \in Calls /\ c.step = "sent" /\ c.page \in Pages
  BY DEF Fitting, Calls, Awaits
<1>2. /\ OpOf(c.page) \in {"lookup", "guard", "return", "checkout"}
      /\ OpOf(c.page) # "return" => x \in Visits
      /\ x \in Tags <=> x \notin Visits
  BY <1>1, CredentialsFit
<1> DEFINE op == OpOf(c.page)
           what == IF x \in Tags THEN None ELSE x
           tag == IF x \in Tags THEN x ELSE None
<1>3. Scanned(c, x) = [c EXCEPT !.op = op, !.what = what, !.tag = tag]
  BY DEF Scanned
<1>4. what \in Visits \cup {None} /\ tag \in Tags \cup {None} /\ (op = "lookup" => what = x)
  BY <1>2
<1>5. op \in {"lookup", "guard", "return", "checkout"} /\ (op = "lookup" => what \in Visits)
  BY <1>2, <1>4
<1>6. tag = (IF x \in Tags THEN x ELSE None)
  OBVIOUS
<1>7. op = OpOf(c.page)
  OBVIOUS
<1> HIDE DEF op, what, tag
<1>8. /\ Scanned(c, x) \in Calls /\ Scanned(c, x).step = "sent"
      /\ Scanned(c, x).op = op /\ Scanned(c, x).page = c.page
      /\ Scanned(c, x).heard = c.heard /\ Scanned(c, x).tag = tag /\ Scanned(c, x).what = what
  BY <1>1, <1>3, <1>4, <1>5 DEF Calls
<1>9. Scanned(c, x) \in Fitting
  BY <1>5, <1>8 DEF Fitting
<1> QED
  BY <1>2, <1>4, <1>6, <1>7, <1>8, <1>9

LEMMA ScanResultKeeps ==
  ASSUME KioskIInv, NEW c \in calls, NEW x \in Visits \cup Tags,
         ScanResult(c, x)
  PROVE  KioskIInv'
<1>1. c \in Fitting /\ c.op = "scan" /\ x \in Credentials(c.page) /\ Expected(c)
  BY DEF ScanResult, KioskIInv, PageInv
<1>2. PICK s \in Fitting :
        /\ s = Scanned(c, x) /\ s.step = "sent" /\ s.op = OpOf(c.page) /\ s.page = c.page
        /\ s.heard = c.heard /\ (OpOf(c.page) # "return" => x \in Visits)
        /\ OpOf(c.page) = "lookup" => s.what = x
        /\ OpOf(c.page) \in {"lookup", "guard", "return", "checkout"}
  BY <1>1, ScannedFits
<1>3. /\ calls' = (IF c.heard THEN Superseded(OpOf(c.page), calls \ {c}) ELSE calls \ {c}) \cup {s}
      /\ screen' = IF c.heard THEN Presented(screen, x) ELSE screen
      /\ UNCHANGED <<device, signedIn, server>>
  BY <1>2 DEF ScanResult, Scanned
<1>4. CASE c.heard
  <2>1. c.page = screen.page /\ screen.page # "front-desk"
    BY <1>1, <1>4 DEF Expected
  <2>2. /\ screen' \in Screens /\ screen'.page = screen.page
        /\ screen'.badge = screen.badge /\ screen'.tagged = screen.tagged
        /\ IF OpOf(c.page) = "lookup" THEN screen'.visit = None /\ screen'.input = x
           ELSE screen'.visit = screen.visit /\ screen'.input = screen.input
    BY <1>2, <1>3, <1>4, <2>1, PresentedIsAScreen DEF KioskIInv
  <2>3. Expected(s)'
    <3>1. s.op = "lookup" => screen'.input \in {s.what, None}
      BY <1>2, <2>2
    <3> QED
      BY <3>1, <1>2, <2>1, <2>2 DEF Expected
  <2>4. calls' = Superseded(s.op, calls \ {c}) \cup {s} /\ calls \ {c} \in SUBSET calls
    BY <1>2, <1>3, <1>4
  <2> QED
    BY <1>2, <1>3, <2>1, <2>2, <2>3, <2>4, Sends
<1>5. CASE ~c.heard
  <2>1. calls' = (calls \ {c}) \cup {s} /\ screen' = screen
    BY <1>3, <1>5
  <2>2. Derived
    BY <1>2, <2>1 DEF Derived, Muted
  <2>3. (\A k \in calls : Expected(k))'
    BY <1>2, <1>5, <2>1 DEF Expected, KioskIInv, PageInv
  <2>4. OneComplete' /\ ConfirmsWhatIsShown'
    BY <1>2, <1>5, <2>1 DEF OneComplete, ConfirmsWhatIsShown, KioskIInv, PageInv
  <2>5. /\ screen' \in Screens /\ signedIn' \in BOOLEAN /\ (screen'.tagged => screen'.badge # None)
        /\ screen'.badge = screen.badge /\ screen'.page = screen.page
    BY <1>3, <2>1 DEF KioskIInv, PageInv
  <2> QED
    BY <1>3, <2>1, <2>2, <2>3, <2>4, <2>5, SamePage
<1> QED
  BY <1>4, <1>5

LEMMA ScanNothingKeeps ==
  ASSUME KioskIInv, NEW c \in calls, ScanNothing(c)
  PROVE  KioskIInv'
<1>1. /\ calls' = calls \ {c} /\ UNCHANGED <<device, signedIn, server>>
      /\ \/ c.heard /\ screen' = [screen EXCEPT !.error = TRUE]
         \/ screen' = screen
  BY DEF ScanNothing
<1>2. SameShown /\ screen' \in Screens
  BY <1>1 DEF SameShown, Screens, KioskIInv, PageInv
<1>3. screen.page = "front-desk" => screen' = screen
  BY <1>1 DEF Expected, KioskIInv, PageInv
<1> QED
  BY <1>1, <1>2, <1>3, Fidgets DEF Muted, KioskIInv, PageInv

LEMMA ConfirmKeeps ==
  ASSUME KioskIInv, Confirm
  PROVE  KioskIInv'
<1>1. /\ Send("complete", screen.input, None, TRUE) /\ screen' = screen
      /\ screen.visit # None /\ screen.badge = None /\ screen.input # None
      /\ UNCHANGED <<device, signedIn, server>>
  BY DEF Confirm
<1>2. PICK id \in 1..MaxCalls :
        calls' = Superseded("complete", calls) \cup {SentCall(id, "complete", screen.input, None, TRUE)}
  BY <1>1, SendsOne
<1>3. screen.input \in Visits /\ screen.page # "front-desk" /\ screen \in Screens
  BY <1>1 DEF KioskIInv, PageInv, Screens, Blank
<1>4. SentCall(id, "complete", screen.input, None, TRUE) \in Fitting
  BY <1>3, SentCallFits DEF KioskIInv
<1>5. PICK s \in Fitting :
        /\ s = SentCall(id, "complete", screen.input, None, TRUE)
        /\ s.op = "complete" /\ s.page = screen.page /\ s.step = "sent"
  BY <1>4 DEF SentCall
<1>6. Expected(s)'
  BY <1>1, <1>3, <1>5 DEF Expected
<1>7. calls' = Superseded("complete", calls) \cup {s}
  BY <1>2, <1>5
<1> QED
  BY <1>1, <1>3, <1>5, <1>6, <1>7, Sends

(* A call for the badge on the screen: of a number that was typed, or a tap *)
(* to be awaited.                                                           *)
LEMMA SendForTheBadge ==
  ASSUME KioskIInv, NEW op \in {"read", "issue"}, NEW tag \in Tags \cup {None},
         op = "issue" => tag \in Tags, Send(op, screen.badge, tag, TRUE),
         screen.badge # None, UNCHANGED <<device, screen, signedIn, server>>
  PROVE  KioskIInv'
<1>1. PICK id \in 1..MaxCalls :
        calls' = Superseded(op, calls) \cup {SentCall(id, op, screen.badge, tag, TRUE)}
  BY SendsOne
<1>2. screen.badge \in Visits /\ screen.page # "front-desk" /\ screen \in Screens
  BY DEF KioskIInv, PageInv, Screens, Blank
<1>3. SentCall(id, op, screen.badge, tag, TRUE) \in Fitting
  BY <1>2, SentCallFits DEF KioskIInv
<1>4. PICK s \in Fitting :
        /\ s = SentCall(id, op, screen.badge, tag, TRUE) /\ s.what = screen.badge
        /\ s.op = op /\ s.page = screen.page /\ s.step = "sent"
  BY <1>3 DEF SentCall
<1>5. Expected(s)'
  BY <1>2, <1>4 DEF Expected
<1>6. calls' = Superseded(op, calls) \cup {s}
  BY <1>1, <1>4
<1> QED
  BY <1>2, <1>4, <1>5, <1>6, Sends

LEMMA IssueTagKeeps ==
  ASSUME KioskIInv, NEW t \in Tags, IssueTag(t)
  PROVE  KioskIInv'
BY SendForTheBadge DEF IssueTag, TagForm

LEMMA ScanNfcKeeps ==
  ASSUME KioskIInv, ScanNfc
  PROVE  KioskIInv'
BY SendForTheBadge DEF ScanNfc, TagForm

(* The tap awaited is the request it was awaited for.                       *)
LEMMA NfcRequestFits ==
  ASSUME NEW c \in Fitting, c.op = "read", NEW t \in Tags
  PROVE  /\ NfcRequest(c, t) \in Fitting /\ NfcRequest(c, t).op = "issue"
         /\ NfcRequest(c, t).step = "sent" /\ NfcRequest(c, t).what = c.what
         /\ NfcRequest(c, t).heard = c.heard /\ NfcRequest(c, t).page = c.page
<1>1. c \in Calls /\ c.step = "sent" /\ c.what \in Visits
  BY DEF Fitting, Awaits
<1>2. /\ NfcRequest(c, t) \in Calls /\ NfcRequest(c, t).op = "issue"
      /\ NfcRequest(c, t).step = "sent" /\ NfcRequest(c, t).what = c.what
      /\ NfcRequest(c, t).heard = c.heard /\ NfcRequest(c, t).page = c.page
      /\ NfcRequest(c, t).tag = t
  BY <1>1 DEF NfcRequest, Calls
<1> QED
  BY <1>1, <1>2 DEF Fitting, Awaits

LEMMA NfcResultKeeps ==
  ASSUME KioskIInv, NEW c \in calls, NEW t \in Tags, NfcResult(c, t)
  PROVE  KioskIInv'
<1>1. c \in Fitting /\ c.op = "read" /\ Expected(c)
  BY DEF NfcResult, KioskIInv, PageInv
<1>2. PICK s \in Fitting :
        /\ s = NfcRequest(c, t) /\ s.op = "issue" /\ s.step = "sent"
        /\ s.what = c.what /\ s.heard = c.heard /\ s.page = c.page
  BY <1>1, NfcRequestFits
<1>3. /\ calls' = (calls \ {c}) \cup {s}
      /\ UNCHANGED <<device, screen, signedIn, server>>
  BY <1>2 DEF NfcResult
<1>4. Derived
  BY <1>2, <1>3 DEF Derived, Muted
<1>5. (\A k \in calls : Expected(k))'
  BY <1>1, <1>2, <1>3 DEF Expected, KioskIInv, PageInv
<1>6. OneComplete' /\ ConfirmsWhatIsShown'
  BY <1>2, <1>3 DEF OneComplete, ConfirmsWhatIsShown, KioskIInv, PageInv
<1>7. /\ screen' \in Screens /\ signedIn' \in BOOLEAN
      /\ (screen'.tagged => screen'.badge # None)
  BY <1>3 DEF KioskIInv, PageInv
<1> QED
  BY <1>3, <1>4, <1>5, <1>6, <1>7, SamePage

LEMMA LeavingKeeps ==
  ASSUME KioskIInv, NotMe \/ Done \/ Timeout
  PROVE  KioskIInv'
<1>1. screen.page # "front-desk"
  BY DEF NotMe, Done, Timeout, Occupied, Blank, KioskIInv, PageInv
<1>2. ASSUME NotMe, screen.page # "check-in" PROVE KioskIInv'
  <2>1. screen' = [screen EXCEPT !.visit = None, !.input = None]
    BY <1>2 DEF NotMe
  <2>2. /\ screen' \in Screens /\ screen'.page = screen.page /\ screen'.visit = None
        /\ screen'.input = None /\ screen'.badge = screen.badge /\ screen'.tagged = screen.tagged
    BY <2>1 DEF Screens, KioskIInv, PageInv
  <2>3. UNCHANGED <<device, calls, signedIn, server>>
    BY <1>2 DEF NotMe
  <2>4. (\A c \in calls : Expected(c))' /\ OneComplete'
    BY <2>2, <2>3 DEF Expected, OneComplete, KioskIInv, PageInv
  <2>5. Derived /\ ConfirmsWhatIsShown' /\ signedIn' \in BOOLEAN
        /\ (screen'.tagged => screen'.badge # None)
    BY <2>2, <2>3 DEF Derived, Muted, ConfirmsWhatIsShown, KioskIInv, PageInv
  <2> QED
    BY <1>1, <2>2, <2>3, <2>4, <2>5, SamePage
<1>3. CASE Home /\ UNCHANGED <<device, server>>
  BY <1>3, Homes
<1>4. CASE Reset /\ UNCHANGED <<device, server>>
  BY <1>1, <1>4, Resets
<1> QED
  BY <1>2, <1>3, <1>4 DEF NotMe, Done, Timeout

LEMMA GoingKeeps ==
  ASSUME KioskIInv, Back \/ SignIn \/ \E page \in Pages : Pick(page)
  PROVE  KioskIInv'
<1>1. CASE Back
  BY <1>1, Homes DEF Back
<1>2. CASE SignIn
  <2>1. Silent
    BY <1>2, UnmountedIsSilent DEF SignIn
  <2>2. screen.page \in Pages
    BY DEF KioskIInv, PageInv, Screens
  <2> QED
    BY <1>2, <2>1, <2>2, PageLeft DEF SignIn
<1>3. CASE \E page \in Pages : Pick(page)
  <2>1. PICK page \in Pages : Pick(page)
    BY <1>3
  <2>2. Silent
    BY <2>1 DEF Pick, Silent, Muted, Expected, KioskIInv, PageInv
  <2>3. signedIn' \in BOOLEAN
    BY <2>1 DEF Pick, KioskIInv, PageInv
  <2> QED
    BY <2>1, <2>2, <2>3, PageLeft DEF Pick
<1> QED
  BY <1>1, <1>2, <1>3
-----------------------------------------------------------------------------
(* One lemma per action of the server and per answer.                       *)

(* A call goes on: of what the page knows of it nothing changes.            *)
LEMMA GoesOn ==
  ASSUME PageInv, NEW c \in calls, NEW d \in Fitting,
         d.op = c.op, d.heard = c.heard, d.page = c.page,
         c.op # "return" => d.what = c.what,
         calls' = (calls \ {c}) \cup {d}, UNCHANGED <<device, screen, signedIn>>
  PROVE  PageInv'
<1>1. calls' \subseteq Fitting
  BY DEF PageInv
<1>2. (\A e \in calls : Expected(e))'
  <2>1. Expected(d)'
    BY DEF Expected, PageInv
  <2>2. ASSUME NEW e \in calls PROVE Expected(e)'
    BY DEF Expected, PageInv
  <2> QED
    BY <2>1, <2>2
<1>3. OneComplete'
  BY DEF OneComplete, PageInv
<1>4. ConfirmsWhatIsShown'
  BY DEF ConfirmsWhatIsShown, PageInv
<1> QED
  BY <1>1, <1>2, <1>3, <1>4 DEF PageInv

LEMMA SteppedFits ==
  ASSUME NEW c \in Fitting,
         NEW step \in {"free", "found", "marked", "ok", "refused"},
         c.op # "scan", c.op # "read",
         step \in {"found", "marked"} => c.what \in Visits
  PROVE  /\ [c EXCEPT !.step = step] \in Fitting /\ [c EXCEPT !.step = step].op = c.op
         /\ [c EXCEPT !.step = step].heard = c.heard /\ [c EXCEPT !.step = step].page = c.page
         /\ [c EXCEPT !.step = step].what = c.what /\ [c EXCEPT !.step = step].step = step
         /\ [c EXCEPT !.step = step].tag = c.tag
<1>1. c \in Calls
  BY DEF Fitting
<1> QED
  BY <1>1 DEF Fitting, Calls, Awaits

(* Whoever is in stays so or is out, and who is out stays out.              *)
Forward ==
  /\ status' \in [Visits \cup WalkIns -> {"none", "expected", "in", "out"}]
  /\ \A v \in Visits : /\ Arrived(v) => Arrived(v)'
                       /\ status[v] = "out" => status'[v] = "out"

LEMMA ForwardKeeps ==
  ASSUME PageInv, ServerInv, Forward
  PROVE  /\ \A c \in Fitting : Warranted(c) => Warranted(c)'
         /\ \A i \in DOMAIN tags : status'[tags[i].visit] \in {"in", "out"}
         /\ \A v \in returned : status'[v] = "out"
         /\ screen' = screen => BadgeIsAdmitted'
<1>1. ASSUME NEW c \in Fitting, Warranted(c) PROVE Warranted(c)'
  BY <1>1 DEF Warranted, Forward, Fitting
<1>2. ASSUME NEW i \in DOMAIN tags PROVE status'[tags[i].visit] \in {"in", "out"}
  <2>1. tags[i] \in VisitTag
    BY ElementOfSeq, LenProperties DEF ServerInv
  <2>2. tags[i].visit \in Visits /\ Arrived(tags[i].visit)
    BY <2>1 DEF ServerInv, VisitTag
  <2>3. PICK v \in Visits : v = tags[i].visit
    BY <2>2
  <2> QED
    BY <2>2, <2>3 DEF Forward, Arrived
<1>3. ASSUME NEW v \in returned PROVE status'[v] = "out"
  BY DEF ServerInv, ReturnedIsOut, Forward
<1>4. ASSUME screen' = screen PROVE BadgeIsAdmitted'
  <2>1. ASSUME screen.badge # None PROVE status'[screen.badge] \in {"in", "out"}
    <3>1. screen.badge \in Visits /\ Arrived(screen.badge)
      BY <2>1 DEF PageInv, Screens, ServerInv, BadgeIsAdmitted, Arrived
    <3>2. PICK v \in Visits : v = screen.badge
      BY <3>1
    <3> QED
      BY <3>1, <3>2 DEF Forward, Arrived
  <2> QED
    BY <1>4, <2>1 DEF BadgeIsAdmitted
<1> QED
  BY <1>1, <1>2, <1>3, <1>4
(* The server's side after one call has gone on, or after none.             *)
LEMMA ServerMoves ==
  ASSUME KioskIInv, Forward, screen' = screen, returned' = returned,
         \A d \in calls' : d \in calls \/ Warranted(d)',
         tags' \in Seq(VisitTag), Len(tags') <= MaxRows,
         (\A i \in DOMAIN tags : Arrived(tags[i].visit))'
  PROVE  ServerInv'
<1>1. PageInv /\ ServerInv /\ calls \subseteq Fitting
  BY DEF KioskIInv, PageInv
<1>2. (\A c \in calls : Warranted(c))'
  BY <1>1, ForwardKeeps DEF ServerInv
<1>3. ReturnedIsOut' /\ BadgeIsAdmitted' /\ returned' \subseteq Visits
  BY <1>1, ForwardKeeps DEF ServerInv, ReturnedIsOut
<1>4. status' \in [Visits \cup WalkIns -> {"none", "expected", "in", "out"}]
  BY DEF Forward
<1> QED
  BY <1>2, <1>3, <1>4 DEF ServerInv

LEMMA StatusKept ==
  ASSUME ServerInv, UNCHANGED status
  PROVE  Forward
BY DEF Forward, ServerInv, Arrived

LEMMA StatusSet ==
  ASSUME ServerInv, NEW v, NEW to \in {"expected", "in", "out"},
         status' = [status EXCEPT ![v] = to],
         v \in Visits => \/ status[v] = "in" \/ status[v] = "none" \/ to = "out"
                         \/ status[v] = "expected",
         v \in Visits /\ status[v] = "in" => to # "expected",
         v \in Visits /\ status[v] = "out" => to = "out"
  PROVE  Forward
BY DEF Forward, ServerInv, Arrived

(* The rows of the tags as they were.                                       *)
LEMMA TagsKept ==
  ASSUME KioskIInv, Forward, UNCHANGED tags
  PROVE  /\ tags' \in Seq(VisitTag) /\ Len(tags') <= MaxRows
         /\ (\A i \in DOMAIN tags : Arrived(tags[i].visit))'
<1>1. \A i \in DOMAIN tags : status'[tags[i].visit] \in {"in", "out"}
  BY ForwardKeeps DEF KioskIInv
<1>2. (\A i \in DOMAIN tags : Arrived(tags[i].visit))'
  BY <1>1 DEF Arrived
<1> QED
  BY <1>2 DEF KioskIInv, ServerInv

LEMMA GoesKeeps ==
  ASSUME KioskIInv, NEW c \in calls,
         c.op \in {"lookup", "complete", "checkout", "guard"},
         NEW from, NEW to, Goes(c, from, to),
         <<from, to>> \in {<<"expected", "expected">>, <<"expected", "in">>, <<"in", "out">>,
                           <<"in", "in">>},
         c.op = "complete" => to = "in",
         UNCHANGED <<device, screen, signedIn, tags, returned>>
  PROVE  KioskIInv'
<1>1. PageInv /\ ServerInv /\ c \in Fitting
  BY DEF KioskIInv, PageInv
<1>2. CASE signedIn /\ status[c.what] = from
  <2>1. calls' = (calls \ {c}) \cup {[c EXCEPT !.step = "ok"]}
        /\ status' = [status EXCEPT ![c.what] = to]
    BY <1>2 DEF Goes, To
  <2>2. PICK d \in Fitting : /\ d = [c EXCEPT !.step = "ok"] /\ d.op = c.op /\ d.heard = c.heard
                             /\ d.page = c.page /\ d.what = c.what /\ d.step = "ok"
    BY <1>1, SteppedFits
  <2>3. PageInv'
    BY <1>1, <2>1, <2>2, GoesOn
  <2>4. to \in {"expected", "in", "out"} /\ (from = "in" => to # "expected") /\ from # "out"
        /\ from \in {"in", "expected"}
    OBVIOUS
  <2>5. Forward
    BY <1>1, <1>2, <2>1, <2>4, StatusSet
  <2>6. Warranted(d)'
    <3>1. c.op = "complete" => status'[c.what] = "in"
      BY <1>1, <2>1 DEF Fitting, ServerInv
    <3> QED
      BY <2>2, <3>1 DEF Warranted, Arrived
  <2>7. ServerInv'
    BY <2>1, <2>2, <2>5, <2>6, ServerMoves, TagsKept
  <2> QED
    BY <2>3, <2>7 DEF KioskIInv
<1>3. CASE ~(signedIn /\ status[c.what] = from)
  <2>1. calls' = (calls \ {c}) \cup {[c EXCEPT !.step = "refused"]} /\ UNCHANGED status
    BY <1>3 DEF Goes, To
  <2>2. PICK d \in Fitting : /\ d = [c EXCEPT !.step = "refused"] /\ d.op = c.op
                             /\ d.heard = c.heard /\ d.page = c.page /\ d.what = c.what
                             /\ d.step = "refused"
    BY <1>1, SteppedFits
  <2>3. PageInv'
    BY <1>1, <2>1, <2>2, GoesOn
  <2>4. Forward /\ Warranted(d)'
    BY <1>1, <2>1, <2>2, StatusKept DEF Warranted
  <2>5. ServerInv'
    BY <2>1, <2>2, <2>4, ServerMoves, TagsKept
  <2> QED
    BY <2>3, <2>5 DEF KioskIInv
<1> QED
  BY <1>2, <1>3

LEMMA ServeKeeps ==
  ASSUME KioskIInv, NEW c \in calls, Serve(c)
  PROVE  KioskIInv'
<1>1. CASE c.op = "lookup" /\ Goes(c, "expected", "expected")
  BY <1>1, GoesKeeps DEF Serve
<1>2. CASE c.op = "complete" /\ Goes(c, "expected", "in")
  BY <1>2, GoesKeeps DEF Serve
<1>3. CASE c.op = "checkout" /\ Goes(c, "in", "out")
  BY <1>3, GoesKeeps DEF Serve
<1>4. CASE c.op = "guard" /\ Goes(c, "in", "in")
  BY <1>4, GoesKeeps DEF Serve
<1> QED
  BY <1>1, <1>2, <1>3, <1>4 DEF Serve

(* A call that goes on and leaves the visits alone.                         *)
LEMMA StepsOn ==
  ASSUME KioskIInv, NEW c \in calls, c.op # "scan", c.op # "read",
         NEW step \in {"free", "found", "marked", "ok", "refused"}, To(c, step),
         step \in {"found", "marked"} => c.what \in Visits,
         Forward, UNCHANGED <<device, screen, signedIn, returned>>,
         Warranted([c EXCEPT !.step = step])',
         tags' \in Seq(VisitTag), Len(tags') <= MaxRows,
         (\A i \in DOMAIN tags : Arrived(tags[i].visit))'
  PROVE  KioskIInv'
<1>1. PageInv /\ ServerInv /\ c \in Fitting
  BY DEF KioskIInv, PageInv
<1>2. calls' = (calls \ {c}) \cup {[c EXCEPT !.step = step]}
  BY DEF To
<1>3. PICK d \in Fitting : /\ d = [c EXCEPT !.step = step] /\ d.op = c.op
                           /\ d.heard = c.heard /\ d.page = c.page /\ d.what = c.what
  BY <1>1, SteppedFits
<1>4. PageInv'
  BY <1>1, <1>2, <1>3, GoesOn
<1>5. ServerInv'
  BY <1>2, <1>3, ServerMoves
<1> QED
  BY <1>4, <1>5 DEF KioskIInv

LEMMA ServeWalkInKeeps ==
  ASSUME KioskIInv, NEW c \in calls, NEW v \in WalkIns, ServeWalkIn(c, v)
  PROVE  KioskIInv'
<1>1. c \in Fitting /\ ServerInv /\ c.op = "register"
  BY DEF KioskIInv, PageInv, ServeWalkIn
<1>2. PICK step \in {"ok", "refused"} : To(c, step)
  BY DEF ServeWalkIn
<1>3. Forward
  <2>1. CASE UNCHANGED status
    BY <1>1, <2>1, StatusKept
  <2>2. CASE status' = [status EXCEPT ![v] = "in"]
    BY <1>1, <2>2, StatusSet DEF ServeWalkIn
  <2> QED
    BY <2>1, <2>2 DEF ServeWalkIn
<1>4. Warranted([c EXCEPT !.step = step])'
  BY <1>1, <1>2, SteppedFits DEF Warranted
<1> QED
  BY <1>1, <1>2, <1>3, <1>4, StepsOn, TagsKept DEF ServeWalkIn

LEMMA ElsewhereKeeps ==
  ASSUME KioskIInv, NEW v \in Visits, Elsewhere(v)
  PROVE  KioskIInv'
<1>1. PageInv /\ ServerInv
  BY DEF KioskIInv
<1>2. PICK to \in {"in", "out"} : status' = [status EXCEPT ![v] = to] /\ (status[v] = "in" => to = "out")
  BY DEF Elsewhere
<1>3. Forward
  BY <1>1, <1>2, StatusSet DEF Elsewhere
<1>4. UNCHANGED <<device, screen, calls, signedIn, tags, returned>>
  BY DEF Elsewhere
<1>5. ServerInv'
  BY <1>3, <1>4, ServerMoves, TagsKept
<1>6. PageInv'
  BY <1>1, <1>4 DEF PageInv, Expected, OneComplete, ConfirmsWhatIsShown
<1> QED
  BY <1>5, <1>6 DEF KioskIInv
LEMMA CheckTagKeeps ==
  ASSUME KioskIInv, NEW c \in calls, CheckTag(c)
  PROVE  KioskIInv'
<1>1. /\ c \in Fitting /\ ServerInv /\ c.op = "issue" /\ c.what \in Visits
      /\ UNCHANGED <<device, screen, signedIn, status, tags, returned>>
  BY DEF KioskIInv, PageInv, CheckTag, Fitting, server
<1>2. PICK step \in {"free", "refused"} : To(c, step) /\ (step = "free" => status[c.what] = "in")
  BY DEF CheckTag
<1>3. Forward
  BY <1>1, StatusKept
<1>4. Warranted([c EXCEPT !.step = step])'
  BY <1>1, <1>2, SteppedFits DEF Warranted, Arrived
<1> QED
  BY <1>1, <1>2, <1>3, <1>4, StepsOn, TagsKept

LEMMA InsertTagKeeps ==
  ASSUME KioskIInv, NEW c \in calls, InsertTag(c)
  PROVE  KioskIInv'
<1>1. /\ c \in Fitting /\ ServerInv /\ c.op = "issue" /\ c.what \in Visits
      /\ c.step = "free" /\ To(c, "ok") /\ Len(tags) < MaxRows
      /\ UNCHANGED <<device, screen, signedIn, status, returned>>
  BY DEF KioskIInv, PageInv, InsertTag, Fitting
<1>2. Forward
  BY <1>1, StatusKept
<1>3. Warranted([c EXCEPT !.step = "ok"])'
  BY <1>1, SteppedFits DEF Warranted
<1>4. PICK row : /\ row = [tag |-> c.tag, visit |-> c.what] /\ tags' = Append(tags, row)
                 /\ row.visit = c.what
  BY DEF InsertTag
<1>5. Arrived(c.what)
  BY <1>1 DEF Warranted, KioskIInv, ServerInv
<1>6. QED
  <2>1. CASE row \in VisitTag
    <3>1. /\ tags' \in Seq(VisitTag) /\ Len(tags') = Len(tags) + 1
          /\ \A i \in 1..Len(tags) : tags'[i] = tags[i]
          /\ tags'[Len(tags) + 1] = row
      BY <1>1, <1>4, <2>1, AppendProperties DEF ServerInv
    <3>2. Len(tags) \in Nat /\ DOMAIN tags = 1..Len(tags) /\ DOMAIN tags' = 1..Len(tags')
      BY <1>1, <3>1, LenProperties DEF ServerInv
    <3>3. Len(tags') <= MaxRows
      BY <1>1, <3>1, <3>2, KioskAssumption
    <3>4. (\A i \in DOMAIN tags : Arrived(tags[i].visit))'
      <4>1. ASSUME NEW i \in DOMAIN tags' PROVE status'[tags'[i].visit] \in {"in", "out"}
        <5>1. CASE i = Len(tags) + 1
          BY <1>1, <1>4, <1>5, <3>1, <5>1 DEF Arrived
        <5>2. CASE i \in 1..Len(tags)
          BY <1>1, <3>1, <3>2, <5>2 DEF Arrived, ServerInv
        <5> QED
          BY <3>1, <3>2, <5>1, <5>2
      <4> QED
        BY <4>1 DEF Arrived
    <3> QED
      BY <1>1, <1>2, <1>3, <3>1, <3>3, <3>4, StepsOn
  <2>2. row \in VisitTag
    BY <1>1, <1>4 DEF VisitTag, Calls, Fitting
  <2> QED
    BY <2>1, <2>2

(* A sequence without one of its elements.                                  *)
LEMMA RemoveAtKeeps ==
  ASSUME NEW S, NEW s \in Seq(S), NEW k \in 1..Len(s)
  PROVE  /\ RemoveAt(s, k) \in Seq(S) /\ Len(RemoveAt(s, k)) = Len(s) - 1
         /\ \A i \in 1..Len(s) - 1 : RemoveAt(s, k)[i] = s[IF i < k THEN i ELSE i + 1]
<1>1. Len(s) \in Nat /\ k \in Int /\ 1 <= k /\ k <= Len(s)
  BY LenProperties
<1>2. \A i \in 1..Len(s) : s[i] \in S
  BY ElementOfSeq
<1> DEFINE a == SubSeq(s, 1, k - 1)
           b == SubSeq(s, k + 1, Len(s))
<1>3. /\ a \in Seq(S) /\ Len(a) = k - 1
      /\ \A i \in 1..k - 1 : a[i] = s[i]
  <2>1. k - 1 \in Int /\ 1 \in Int /\ \A i \in 1..k - 1 : s[i] \in S
    BY <1>1, <1>2
  <2>2. /\ a \in Seq(S) /\ Len(a) = IF 1 <= k - 1 THEN k - 1 - 1 + 1 ELSE 0
        /\ \A i \in 1..k - 1 - 1 + 1 : a[i] = s[1 + i - 1]
    BY <2>1, SubSeqProperties
  <2>3. \A i \in 1..k - 1 : i \in 1..k - 1 - 1 + 1 /\ 1 + i - 1 = i
    BY <1>1
  <2> HIDE DEF a
  <2> QED
    BY <1>1, <2>2, <2>3
<1>4. /\ b \in Seq(S) /\ Len(b) = Len(s) - k
      /\ \A i \in 1..Len(s) - k : b[i] = s[k + i]
  <2>1. k + 1 \in Int /\ Len(s) \in Int /\ \A i \in k + 1..Len(s) : s[i] \in S
    BY <1>1, <1>2
  <2>2. /\ b \in Seq(S) /\ Len(b) = IF k + 1 <= Len(s) THEN Len(s) - (k + 1) + 1 ELSE 0
        /\ \A i \in 1..Len(s) - (k + 1) + 1 : b[i] = s[(k + 1) + i - 1]
    BY <2>1, SubSeqProperties
  <2>3. \A i \in 1..Len(s) - k : i \in 1..Len(s) - (k + 1) + 1 /\ (k + 1) + i - 1 = k + i
    BY <1>1
  <2> HIDE DEF b
  <2> QED
    BY <1>1, <2>2, <2>3
<1>5. RemoveAt(s, k) = a \o b
  BY DEF RemoveAt
<1> HIDE DEF a, b
<1>6. /\ a \o b \in Seq(S) /\ Len(a \o b) = Len(a) + Len(b)
      /\ \A i \in 1..Len(a) + Len(b) : (a \o b)[i] = IF i <= Len(a) THEN a[i] ELSE b[i - Len(a)]
  BY <1>3, <1>4, ConcatProperties
<1>7. Len(a) + Len(b) = Len(s) - 1
  BY <1>1, <1>3, <1>4
<1>8. ASSUME NEW i \in 1..Len(s) - 1 PROVE (a \o b)[i] = s[IF i < k THEN i ELSE i + 1]
  <2>1. CASE i < k
    <3>1. i \in 1..k - 1 /\ i <= Len(a) /\ i \in 1..Len(a) + Len(b)
      BY <1>1, <1>3, <1>7, <2>1
    <3> QED
      BY <1>3, <1>6, <2>1, <3>1
  <2>2. CASE ~(i < k)
    <3>1. ~(i <= Len(a)) /\ i - Len(a) \in 1..Len(s) - k /\ i \in 1..Len(a) + Len(b)
          /\ k + (i - Len(a)) = i + 1
      BY <1>1, <1>3, <1>7, <2>2
    <3> QED
      BY <1>4, <1>6, <2>2, <3>1
  <2> QED
    BY <2>1, <2>2
<1> QED
  BY <1>5, <1>6, <1>7, <1>8

LEMMA FindTagKeeps ==
  ASSUME KioskIInv, NEW c \in calls, FindTag(c)
  PROVE  KioskIInv'
<1>1. /\ c \in Fitting /\ PageInv /\ ServerInv /\ c.op = "return"
      /\ UNCHANGED <<device, screen, signedIn, status, tags, returned>>
  BY DEF KioskIInv, PageInv, FindTag, server
<1>2. Forward
  BY <1>1, StatusKept
<1>3. CASE To(c, "refused")
  <2>1. Warranted([c EXCEPT !.step = "refused"])'
    BY <1>1, SteppedFits DEF Warranted
  <2> QED
    BY <1>1, <1>2, <1>3, <2>1, StepsOn, TagsKept
<1>4. CASE \E i \in Holds(c.tag) :
             calls' = (calls \ {c}) \cup {[c EXCEPT !.step = "found", !.what = tags[i].visit]}
  <2>1. PICK i \in DOMAIN tags :
          calls' = (calls \ {c}) \cup {[c EXCEPT !.step = "found", !.what = tags[i].visit]}
    BY <1>4 DEF Holds
  <2>2. tags[i] \in VisitTag
    BY <1>1, ElementOfSeq, LenProperties DEF ServerInv
  <2>3. PICK v \in Visits : v = tags[i].visit /\ Arrived(v)
    BY <1>1, <2>2 DEF ServerInv, VisitTag
  <2>4. PICK d \in Fitting : /\ d = [c EXCEPT !.step = "found", !.what = v]
                             /\ d.op = c.op /\ d.heard = c.heard /\ d.page = c.page /\ d.what = v
                             /\ d.step = "found"
    <3>1. c \in Calls
      BY DEF Fitting, KioskIInv, PageInv
    <3> DEFINE d == [c EXCEPT !.step = "found", !.what = v]
    <3>2. /\ d \in Calls /\ d.op = c.op /\ d.heard = c.heard /\ d.page = c.page /\ d.what = v
          /\ d.step = "found"
      BY <3>1 DEF Calls
    <3>3. d \in Fitting
      BY <1>1, <3>2 DEF Fitting, Awaits
    <3> QED
      BY <3>2, <3>3
  <2>5. calls' = (calls \ {c}) \cup {d}
    BY <2>1, <2>3, <2>4
  <2>6. PageInv'
    BY <1>1, <2>4, <2>5, GoesOn
  <2>7. Warranted(d)'
    BY <1>1, <2>3, <2>4 DEF Warranted, Arrived
  <2>8. ServerInv'
    BY <1>1, <1>2, <2>5, <2>7, ServerMoves, TagsKept
  <2> QED
    BY <2>6, <2>8 DEF KioskIInv
<1> QED
  BY <1>3, <1>4 DEF FindTag

LEMMA MarkTagKeeps ==
  ASSUME KioskIInv, NEW c \in calls, MarkTag(c)
  PROVE  KioskIInv'
<1>1. /\ c \in Fitting /\ ServerInv /\ c.op = "return" /\ c.step = "found" /\ c.what \in Visits
      /\ To(c, "marked") /\ UNCHANGED <<device, screen, signedIn, status, returned>>
  BY DEF KioskIInv, PageInv, MarkTag, Fitting
<1>2. Forward
  BY <1>1, StatusKept
<1>3. Warranted([c EXCEPT !.step = "marked"])'
  <2>1. Arrived(c.what)
    BY <1>1 DEF KioskIInv, ServerInv, Warranted
  <2> QED
    BY <1>1, <2>1, SteppedFits DEF Warranted, Arrived
<1>4. CASE HeldBy(c.tag, c.what) = {}
  BY <1>1, <1>2, <1>3, <1>4, StepsOn, TagsKept DEF MarkTag
<1>5. CASE HeldBy(c.tag, c.what) # {}
  <2>1. PICK k \in HeldBy(c.tag, c.what) : tags' = RemoveAt(tags, k)
    BY <1>5 DEF MarkTag
  <2>2. tags \in Seq(VisitTag) /\ k \in 1..Len(tags) /\ DOMAIN tags = 1..Len(tags) /\ Len(tags) \in Nat
    BY <1>1, LenProperties DEF ServerInv, HeldBy, Holds
  <2>3. /\ tags' \in Seq(VisitTag) /\ Len(tags') = Len(tags) - 1
        /\ \A i \in 1..Len(tags) - 1 : tags'[i] = tags[IF i < k THEN i ELSE i + 1]
    BY <2>1, <2>2, RemoveAtKeeps
  <2>4. Len(tags') <= MaxRows
    BY <1>1, <2>2, <2>3, KioskAssumption DEF ServerInv
  <2>5. (\A i \in DOMAIN tags : Arrived(tags[i].visit))'
    <3>1. ASSUME NEW i \in DOMAIN tags' PROVE status'[tags'[i].visit] \in {"in", "out"}
      <4>1. i \in 1..Len(tags) - 1
        BY <2>3, LenProperties
      <4>2. (IF i < k THEN i ELSE i + 1) \in 1..Len(tags)
        BY <2>2, <4>1
      <4>3. PICK j \in DOMAIN tags : tags'[i] = tags[j]
        BY <2>2, <2>3, <4>1, <4>2
      <4> QED
        BY <1>1, <4>3 DEF ServerInv, Arrived
    <3> QED
      BY <3>1 DEF Arrived
  <2> QED
    BY <1>1, <1>2, <1>3, <2>3, <2>4, <2>5, StepsOn
<1> QED
  BY <1>4, <1>5

LEMMA CheckOutHolderKeeps ==
  ASSUME KioskIInv, NEW c \in calls, CheckOutHolder(c)
  PROVE  KioskIInv'
<1>1. /\ c \in Fitting /\ PageInv /\ ServerInv /\ c.op = "return" /\ c.step = "marked"
      /\ c.what \in Visits /\ To(c, "ok") /\ UNCHANGED <<device, screen, signedIn, tags>>
      /\ status' = [status EXCEPT ![c.what] = AfterReturn(c.what)]
      /\ returned' = returned \cup {c.what}
  BY DEF KioskIInv, PageInv, CheckOutHolder, Fitting
<1>2. AfterReturn(c.what) = "out"
  BY <1>1 DEF AfterReturn, Warranted, Arrived, KioskIInv, ServerInv
<1>3. Forward /\ status'[c.what] = "out"
  <2>1. status' = [status EXCEPT ![c.what] = "out"]
    BY <1>1, <1>2
  <2>2. Forward
    BY <1>1, <2>1, StatusSet
  <2> QED
    BY <1>1, <2>1, <2>2 DEF ServerInv
<1>4. PICK d \in Fitting : /\ d = [c EXCEPT !.step = "ok"] /\ d.op = c.op /\ d.heard = c.heard
                           /\ d.page = c.page /\ d.what = c.what /\ d.step = "ok"
  BY <1>1, SteppedFits
<1>5. calls' = (calls \ {c}) \cup {d}
  BY <1>1, <1>4 DEF To
<1>6. PageInv'
  BY <1>1, <1>4, <1>5, GoesOn
<1>7. (\A e \in calls : Warranted(e))'
  <2>1. Warranted(d)'
    BY <1>1, <1>4 DEF Warranted
  <2> QED
    BY <1>1, <1>3, <1>5, <2>1, ForwardKeeps DEF PageInv, ServerInv
<1>8. ReturnedIsOut' /\ BadgeIsAdmitted' /\ returned' \subseteq Visits
  BY <1>1, <1>3, ForwardKeeps DEF ServerInv, ReturnedIsOut
<1>9. ServerInv'
  BY <1>3, <1>7, <1>8, TagsKept, <1>1 DEF ServerInv, Forward
<1> QED
  BY <1>6, <1>9 DEF KioskIInv
(* Of the answers only that of a check-in puts up a badge, and its visitor  *)
(* has been let in.                                                         *)
LEMMA BadgeAnswered ==
  ASSUME KioskIInv, NEW c \in calls, c.op = "complete", c.step = "ok", c.heard,
         calls' = calls \ {c}, screen' = [screen EXCEPT !.badge = c.what],
         UNCHANGED <<device, signedIn, server>>
  PROVE  KioskIInv'
<1>1. /\ c \in Fitting /\ PageInv /\ ServerInv /\ c.what \in Visits /\ c.what # None
      /\ screen.badge = None /\ screen.page # "front-desk" /\ Arrived(c.what)
      /\ UNCHANGED <<status, tags, returned>>
  BY KioskAssumption DEF KioskIInv, PageInv, ServerInv, Fitting, Expected,
                         Warranted, server
<1>2. /\ screen'.badge = c.what /\ screen'.page = screen.page /\ screen'.visit = screen.visit
      /\ screen'.input = screen.input
  BY <1>1 DEF Screens, PageInv
<1>3. (\A e \in calls : Expected(e))'
  <2>1. ASSUME NEW e \in calls, e # c PROVE Expected(e)'
    <3>1. e.op = "complete" => ~e.heard
      BY <1>1, <2>1 DEF OneComplete, PageInv
    <3>2. e.op \in {"read", "issue"} => ~e.heard
      <4>1. e \in Fitting /\ Expected(e)
        BY <1>1 DEF PageInv
      <4> QED
        BY <1>1, <4>1, KioskAssumption DEF Expected, Fitting
    <3>3. Expected(e)
      BY <1>1 DEF PageInv
    <3> QED
      BY <1>2, <3>1, <3>2, <3>3 DEF Expected
  <2> QED
    BY <2>1
<1>4. OneComplete' /\ ConfirmsWhatIsShown' /\ calls' \subseteq Fitting
  BY <1>1, <1>2 DEF OneComplete, ConfirmsWhatIsShown, PageInv
<1>5. screen' \in Screens
  BY <1>1 DEF Screens, PageInv
<1>6. PageInv'
  BY <1>1, <1>2, <1>3, <1>4, <1>5 DEF PageInv
<1>7. BadgeIsAdmitted'
  BY <1>1, <1>2 DEF BadgeIsAdmitted, Arrived
<1>8. (\A e \in calls : Warranted(e))' /\ ReturnedIsOut'
      /\ (\A i \in DOMAIN tags : Arrived(tags[i].visit))'
  BY <1>1 DEF Warranted, Arrived, ReturnedIsOut, ServerInv
<1>9. ServerInv'
  BY <1>1, <1>7, <1>8 DEF ServerInv
<1> QED
  BY <1>6, <1>9 DEF KioskIInv

(* An answer that changes no badge: another screen on the same page.        *)
LEMMA PlainAnswer ==
  ASSUME KioskIInv, NEW c \in calls, calls' = calls \ {c},
         UNCHANGED <<device, signedIn, server>>,
         screen' \in Screens, screen'.page = screen.page,
         screen'.input = screen.input,
         screen'.badge = screen.badge,
         screen.page = "front-desk" => screen' = screen,
         screen'.tagged => screen'.badge # None,
         screen'.visit # None => screen'.input \in {screen'.visit, None}
  PROVE  KioskIInv'
<1>1. Derived
  BY DEF Derived, Muted
<1>2. (\A e \in calls : Expected(e))' /\ OneComplete'
  BY DEF Expected, OneComplete, KioskIInv, PageInv
<1>3. ConfirmsWhatIsShown' /\ signedIn' \in BOOLEAN
  BY DEF ConfirmsWhatIsShown, KioskIInv, PageInv
<1> QED
  BY <1>1, <1>2, <1>3, SamePage

LEMMA AnswerKeeps ==
  ASSUME KioskIInv, NEW c \in calls, Answer(c)
  PROVE  KioskIInv'
<1>1. /\ c \in Fitting /\ screen \in Screens /\ Expected(c)
      /\ calls' = calls \ {c} /\ UNCHANGED <<device, signedIn, server>>
      /\ screen.tagged => screen.badge # None
      /\ screen.visit # None => screen.input \in {screen.visit, None}
  BY DEF KioskIInv, PageInv, Answer, ConfirmsWhatIsShown
<1>2. CASE ~c.heard
  <2>1. screen' = screen
    BY <1>2 DEF Answer
  <2> QED
    BY <1>1, <2>1, PlainAnswer
<1>3. CASE c.heard
  <2>1. screen.page # "front-desk"
    BY <1>1, <1>3 DEF Expected
  <2>2. CASE screen' = [screen EXCEPT !.done = TRUE] \/ screen' = [screen EXCEPT !.error = TRUE]
             \/ screen' = screen
    <3>1. /\ screen' \in Screens /\ screen'.page = screen.page /\ screen'.input = screen.input
          /\ screen'.badge = screen.badge /\ screen'.visit = screen.visit
          /\ screen'.tagged = screen.tagged
      BY <1>1, <2>2 DEF Screens
    <3> QED
      BY <1>1, <2>1, <3>1, PlainAnswer
  <2>3. CASE c.op = "lookup" /\ screen' = [screen EXCEPT !.visit = c.what]
    <3>1. c.what \in Visits /\ screen.input \in {c.what, None}
      BY <1>1, <1>3, <2>3 DEF Fitting, Expected
    <3>2. /\ screen' \in Screens /\ screen'.page = screen.page /\ screen'.input = screen.input
          /\ screen'.badge = screen.badge /\ screen'.visit = c.what
          /\ screen'.tagged = screen.tagged
      BY <1>1, <2>3, <3>1 DEF Screens
    <3> QED
      BY <1>1, <2>1, <3>1, <3>2, PlainAnswer
  <2>4. CASE c.op = "complete" /\ c.step = "ok" /\ screen' = [screen EXCEPT !.badge = c.what]
    BY <1>1, <1>3, <2>4, BadgeAnswered
  <2>5. CASE c.op = "issue" /\ screen' = [screen EXCEPT !.tagged = TRUE]
    <3>1. screen.badge # None
      BY <1>1, <1>3, <2>5, KioskAssumption DEF Fitting, Expected
    <3>2. /\ screen' \in Screens /\ screen'.page = screen.page /\ screen'.input = screen.input
          /\ screen'.badge = screen.badge /\ screen'.visit = screen.visit
      BY <1>1, <2>5 DEF Screens
    <3> QED
      BY <1>1, <2>1, <3>1, <3>2, PlainAnswer
  <2> QED
    BY <1>3, <2>2, <2>3, <2>4, <2>5 DEF Answer, Success, Failure, Admitted
<1> QED
  BY <1>2, <1>3

LEMMA FailKeeps ==
  ASSUME KioskIInv, NEW c \in calls, Fail(c)
  PROVE  KioskIInv'
<1>1. /\ c \in Fitting /\ screen \in Screens /\ Expected(c)
      /\ calls' = calls \ {c} /\ UNCHANGED <<device, signedIn, server>>
      /\ screen.tagged => screen.badge # None
      /\ screen.visit # None => screen.input \in {screen.visit, None}
  BY DEF KioskIInv, PageInv, Fail, ConfirmsWhatIsShown
<1>2. screen' = screen \/ (c.heard /\ screen' = [screen EXCEPT !.error = TRUE])
  <2>1. CASE c.heard
    BY <2>1 DEF Fail, Failure
  <2>2. CASE ~c.heard
    BY <2>2 DEF Fail
  <2> QED
    BY <2>1, <2>2
<1>3. /\ screen' \in Screens /\ screen'.page = screen.page /\ screen'.input = screen.input
      /\ screen'.badge = screen.badge /\ screen'.visit = screen.visit
      /\ screen'.tagged = screen.tagged
  BY <1>1, <1>2 DEF Screens
<1>4. screen.page = "front-desk" => screen' = screen
  BY <1>1, <1>2 DEF Expected
<1> QED
  BY <1>1, <1>3, <1>4, PlainAnswer

-----------------------------------------------------------------------------
LEMMA KioskStarts ==
  ASSUME Init
  PROVE  KioskIInv
<1>1. device.start \in Pages
  BY KioskAssumption DEF Init, Pages
<1>2. screen = Blank(device.start) /\ device \in Devices /\ signedIn = TRUE /\ calls = {}
  BY DEF Init
<1>3. PageInv
  <2>1. screen \in Screens /\ screen.visit = None /\ ~screen.tagged /\ screen.page = device.start
    BY <1>1, <1>2, BlankIsAScreen
  <2> QED
    BY <1>2, <2>1 DEF PageInv, ConfirmsWhatIsShown, OneComplete
<1>4. ServerInv
  <2>1. screen.badge = None
    BY <1>1, <1>2, BlankIsAScreen
  <2>2. status \in [Visits \cup WalkIns -> {"none", "expected", "in", "out"}]
    BY DEF Init
  <2>3. tags \in Seq(VisitTag) /\ Len(tags) = 0 /\ DOMAIN tags = {}
    BY DEF Init
  <2>4. returned = {} /\ MaxRows \in Nat
    BY KioskAssumption DEF Init
  <2> QED
    BY <1>2, <2>1, <2>2, <2>3, <2>4 DEF ServerInv, BadgeIsAdmitted,
                              ReturnedIsOut
<1> QED
  BY <1>3, <1>4 DEF KioskIInv

(* Every step of the kiosk keeps what it knows in step with the server.     *)
LEMMA KioskInductive ==
  ASSUME KioskIInv, [Next]_vars
  PROVE  KioskIInv'
<1>1. ASSUME NEW x \in Visits \cup Tags, Enter(x) PROVE KioskIInv'
  BY <1>1, EnterKeeps
<1>2. ASSUME NEW v \in Visits, CameraResult(v) PROVE KioskIInv'
  BY <1>2, CameraResultKeeps
<1>3. CASE Unreadable
  BY <1>3, UnreadableKeeps
<1>4. CASE OnScanClick
  BY <1>4, OnScanClickKeeps
<1>5. CASE CameraEnds
  BY <1>5, CameraEndsKeeps
<1>6. CASE Confirm
  BY <1>6, ConfirmKeeps
<1>7. CASE Register
  BY <1>7, RegisterKeeps
<1>8. CASE NotMe \/ Done \/ Timeout
  BY <1>8, LeavingKeeps
<1>9. CASE Back \/ SignIn \/ \E page \in Pages : Pick(page)
  BY <1>9, GoingKeeps
<1>10. ASSUME NEW t \in Tags, IssueTag(t) PROVE KioskIInv'
  BY <1>10, IssueTagKeeps
<1>11. ASSUME NEW c \in calls, NEW x \in Visits \cup Tags,
ScanResult(c, x) PROVE KioskIInv'
  BY <1>11, ScanResultKeeps
<1>12. ASSUME NEW c \in calls, ScanNothing(c) PROVE KioskIInv'
  BY <1>12, ScanNothingKeeps
<1>13. ASSUME NEW c \in calls, Serve(c) PROVE KioskIInv'
  BY <1>13, ServeKeeps
<1>14. ASSUME NEW c \in calls, CheckTag(c) PROVE KioskIInv'
  BY <1>14, CheckTagKeeps
<1>15. ASSUME NEW c \in calls, InsertTag(c) PROVE KioskIInv'
  BY <1>15, InsertTagKeeps
<1>16. ASSUME NEW c \in calls, FindTag(c) PROVE KioskIInv'
  BY <1>16, FindTagKeeps
<1>17. ASSUME NEW c \in calls, MarkTag(c) PROVE KioskIInv'
  BY <1>17, MarkTagKeeps
<1>18. ASSUME NEW c \in calls, CheckOutHolder(c) PROVE KioskIInv'
  BY <1>18, CheckOutHolderKeeps
<1>19. ASSUME NEW c \in calls, Answer(c) PROVE KioskIInv'
  BY <1>19, AnswerKeeps
<1>20. ASSUME NEW c \in calls, Fail(c) PROVE KioskIInv'
  BY <1>20, FailKeeps
<1>21. ASSUME NEW c \in calls, NEW v \in WalkIns,
ServeWalkIn(c, v) PROVE KioskIInv'
  BY <1>21, ServeWalkInKeeps
<1>22. ASSUME NEW v \in Visits, Elsewhere(v) PROVE KioskIInv'
  BY <1>22, ElsewhereKeeps
<1>24. CASE ScanNfc
  BY <1>24, ScanNfcKeeps
<1>25. ASSUME NEW c \in calls, NEW t \in Tags, NfcResult(c, t) PROVE KioskIInv'
  BY <1>25, NfcResultKeeps
<1>23. CASE UNCHANGED vars
  <2>1. SameShown /\ UNCHANGED <<device, screen, calls, signedIn, server>>
    BY <1>23 DEF vars, SameShown
  <2> QED
    BY <2>1, Fidgets DEF Muted, KioskIInv, PageInv
<1> QED
  BY <1>1, <1>2, <1>3, <1>4, <1>5, <1>6, <1>7, <1>8, <1>9, <1>10, <1>11,
     <1>12, <1>13, <1>14,
     <1>15, <1>16, <1>17, <1>18, <1>19, <1>20, <1>21, <1>22, <1>23, <1>24,
     <1>25 DEF Next

(* The kiosk's invariant holds in every behaviour, whatever the tablet, the *)
(* number of calls in flight and the order of their answers.                *)
THEOREM KioskInvariant == Spec => []KioskIInv
BY KioskStarts, KioskInductive, PTL DEF Spec

(* Check in sends the visit on the confirmation screen (ConfirmsWhatIsShown *)
(* of the run), for any number of visits, calls and screens.                *)
THEOREM KioskConfirmsWhatIsShown == Spec => []ConfirmsWhatIsShown
<1>1. KioskIInv => ConfirmsWhatIsShown
  BY DEF KioskIInv, PageInv
<1> QED
  BY <1>1, KioskInvariant, PTL

(* Whoever is told that a tag was issued is told under the badge it was     *)
(* issued for (TagToldUnderItsBadge of the run): no late check-in, reset or *)
(* reading of a card puts another's badge over the answer.  Not that the    *)
(* tag is issued while its badge is up: scanNfc sends the visit it was      *)
(* started for half a minute later, under whatever the page shows then.     *)
THEOREM KioskTellsUnderTheBadge == Spec => []TagToldUnderItsBadge
<1>1. KioskIInv => TagToldUnderItsBadge
  BY DEF KioskIInv, PageInv, Expected, TagToldUnderItsBadge
<1> QED
  BY <1>1, KioskInvariant, PTL
-----------------------------------------------------------------------------
(* One request about tags at a time.                                        *)

(* When a tag may be asked about there is no other request about one.       *)
LEMMA NoOtherTagCall ==
  ASSUME OneTagCall, MaxTagCalls = 1,
         Cardinality({c \in calls : c.op \in TagOps}) < MaxTagCalls
  PROVE  \A c \in calls : c.op \notin TagOps
<1> DEFINE S == {c \in calls : c.op \in TagOps}
<1>1. S = {} \/ \E c : S = {c}
  BY DEF OneTagCall
<1>2. CASE \E c : S = {c}
  <2>1. Cardinality(S) = 1
    BY <1>2, FS_Singleton
  <2> QED
    BY <2>1
<1> QED
  BY <1>1, <1>2

(* While the rows are as they were a muted call finds what it found.        *)
LEMMA TagsAlone ==
  ASSUME KioskIInv, TagInv, UNCHANGED tags, Derived, OneTagCall'
  PROVE  TagInv'
<1>1. ASSUME NEW d \in calls', d.op = "issue",
d.step = "free" PROVE Holds(d.tag)' = {}
  <2>1. PICK c \in calls : Muted(d, c)
    BY <1>1 DEF Derived
  <2>2. c.op = "issue" /\ c.step = "free" /\ d.tag = c.tag
    BY <1>1, <2>1, MutedKeeps DEF KioskIInv, PageInv
  <2>3. Holds(c.tag) = {}
    BY <2>2 DEF TagInv, FreeIsFree
  <2> QED
    BY <2>2, <2>3 DEF Holds
<1>2. FreeIsFree'
  BY <1>1 DEF FreeIsFree
<1>3. TagOneHolder'
  BY DEF TagInv, TagOneHolder
<1> QED
  BY <1>2, <1>3 DEF TagInv

(* The ways the page changes its calls: fewer, muted, or one more.          *)
LEMMA FewerCalls ==
  ASSUME KioskIInv, TagInv, calls' \subseteq calls, UNCHANGED tags
  PROVE  TagInv'
<1>1. Derived
  BY DEF Derived, Muted
<1>2. OneTagCall'
  BY DEF OneTagCall, TagInv
<1> QED
  BY <1>1, <1>2, TagsAlone

LEMMA UnmountedOnes ==
  ASSUME KioskIInv, TagInv, calls' \subseteq Unmounted(calls), UNCHANGED tags
  PROVE  TagInv'
<1>1. calls \in SUBSET Fitting
  BY DEF KioskIInv, PageInv
<1>2. Derived
  BY <1>1, UnmountedMutes DEF Derived
<1>3. ASSUME NEW d \in calls', NEW e \in calls', d.op \in TagOps,
e.op \in TagOps PROVE d = e
  <2>1. PICK c \in calls,
  k \in calls : d = [c EXCEPT !.heard = FALSE] /\ e = [k EXCEPT !.heard = FALSE]
    BY DEF Unmounted
  <2>2. c.op = d.op /\ k.op = e.op
    BY <1>1, <2>1 DEF Fitting, Calls
  <2>3. c = k
    BY <1>3, <2>2 DEF OneTagCall, TagInv
  <2> QED
    BY <2>1, <2>3
<1> QED
  BY <1>2, <1>3, TagsAlone DEF OneTagCall

LEMMA TagFormGoneOnes ==
  ASSUME KioskIInv, TagInv, calls' = TagFormGone(calls), UNCHANGED tags
  PROVE  TagInv'
<1>1. calls \in SUBSET Fitting
  BY DEF KioskIInv, PageInv
<1>2. Derived
  BY <1>1, TagFormGoneMutes DEF Derived
<1>3. ASSUME NEW d \in calls', NEW e \in calls', d.op \in TagOps,
e.op \in TagOps PROVE d = e
  <2>1. PICK c \in calls, k \in calls :
          /\ d = IF c.op \in {"read", "issue"} THEN [c EXCEPT !.heard = FALSE] ELSE c
          /\ e = IF k.op \in {"read", "issue"} THEN [k EXCEPT !.heard = FALSE] ELSE k
    BY DEF TagFormGone
  <2>2. Muted(d, c) /\ Muted(e, k)
    BY <2>1 DEF Muted
  <2>3. c.op = d.op /\ k.op = e.op
    BY <1>1, <2>2, MutedKeeps
  <2>4. c = k
    BY <1>3, <2>3 DEF OneTagCall, TagInv
  <2> QED
    BY <2>1, <2>4
<1> QED
  BY <1>2, <1>3, TagsAlone DEF OneTagCall

LEMMA OneMoreCall ==
  ASSUME KioskIInv, TagInv, MaxTagCalls = 1, NEW op, NEW cs \in SUBSET calls,
         NEW s \in Fitting,
         calls' = Superseded(op, cs) \cup {s}, s.op = op, s.step = "sent",
         UNCHANGED tags,
         op \in TagOps => Cardinality({c \in calls : c.op \in TagOps}) < MaxTagCalls
  PROVE  TagInv'
<1>1. cs \in SUBSET Fitting /\ calls \subseteq Fitting
  BY DEF KioskIInv, PageInv
<1>2. ASSUME NEW d \in Superseded(op, cs), d.op \in TagOps
      PROVE  d \in calls /\ op \notin TagOps
  <2>1. PICK c \in cs : Muted(d, c)
    BY <1>1, SupersededMutes
  <2>2. c.op = d.op
    BY <1>1, <2>1, MutedKeeps
  <2>3. op \notin TagOps
    BY <1>2, <2>2, NoOtherTagCall DEF TagInv
  <2>4. PICK k \in cs : d = k \/ (op \notin {"read", "issue", "register"} /\ k.op = op
                                  /\ d = [k EXCEPT !.heard = FALSE])
    BY DEF Superseded
  <2>5. d = k
    BY <1>1, <1>2, <2>3, <2>4 DEF Fitting, Calls
  <2> QED
    BY <2>3, <2>5
<1>3. OneTagCall'
  BY <1>2 DEF OneTagCall, TagInv
<1>4. Derived
  <2>1. ASSUME NEW d \in Superseded(op, cs) PROVE \E c \in calls : Muted(d, c)
    BY <1>1, SupersededMutes
  <2> QED
    BY <2>1 DEF Derived
<1> QED
  BY <1>3, <1>4, TagsAlone

LEMMA SendOnes ==
  ASSUME KioskIInv, TagInv, MaxTagCalls = 1, NEW op, NEW what, NEW tag,
         Send(op, what, tag, TRUE),
         UNCHANGED tags, KioskIInv'
  PROVE  TagInv'
<1>1. PICK id \in 1..MaxCalls :
        calls' = Superseded(op, calls) \cup {SentCall(id, op, what, tag, TRUE)}
  BY SendsOne
<1>2. PICK s \in Fitting : s = SentCall(id, op, what, tag, TRUE) /\ s.op = op /\ s.step = "sent"
  BY <1>1 DEF KioskIInv, PageInv, SentCall
<1>3. op \in TagOps => Cardinality({c \in calls : c.op \in TagOps}) < MaxTagCalls
  BY DEF Send
<1>4. calls' = Superseded(op, calls) \cup {s}
  BY <1>1, <1>2
<1> QED
  BY <1>2, <1>3, <1>4, OneMoreCall
(* The page's steps.                                                        *)
LEMMA PageStepsOneTag ==
  ASSUME KioskIInv, TagInv, MaxTagCalls = 1, KioskIInv',
         \/ \E x \in Visits \cup Tags : Enter(x)
         \/ \E v \in Visits : CameraResult(v)
         \/ Unreadable \/ OnScanClick \/ CameraEnds \/ Confirm \/ Register
         \/ NotMe \/ Done \/ Timeout \/ Back \/ SignIn
         \/ ScanNfc \/ \E t \in Tags : IssueTag(t)
         \/ \E page \in Pages : Pick(page)
  PROVE  TagInv'
<1>1. ASSUME NEW x, Present(x), UNCHANGED server PROVE TagInv'
  BY <1>1, SendOnes DEF Present, server
<1>2. CASE Unreadable \/ CameraEnds \/ \E page \in Pages : Pick(page)
  BY <1>2, FewerCalls DEF Unreadable, CameraEnds, Pick, server
<1>3. CASE OnScanClick
  BY <1>3, FewerCalls, SendOnes DEF OnScanClick, server
<1>4. CASE Confirm \/ Register \/ ScanNfc \/ \E t \in Tags : IssueTag(t)
  BY <1>4, SendOnes DEF Confirm, Register, ScanNfc, IssueTag, server
<1>5. ASSUME Home, UNCHANGED server PROVE TagInv'
  BY <1>5, UnmountedOnes DEF Home, server
<1>6. ASSUME Reset, UNCHANGED server PROVE TagInv'
  BY <1>6, UnmountedOnes, TagFormGoneOnes DEF Reset, Reload, server
<1>7. CASE NotMe
  BY <1>6, <1>7, FewerCalls DEF NotMe, server
<1>8. CASE Done \/ Timeout \/ Back
  BY <1>5, <1>6, <1>8 DEF Done, Timeout, Back
<1>9. CASE SignIn
  BY <1>9, UnmountedOnes DEF SignIn, server
<1> QED
  BY <1>1, <1>2, <1>3, <1>4, <1>7, <1>8, <1>9 DEF Enter, CameraResult

LEMMA ScanResultOneTag ==
  ASSUME KioskIInv, TagInv, MaxTagCalls = 1, NEW c \in calls,
         NEW x \in Visits \cup Tags,
         ScanResult(c, x)
  PROVE  TagInv'
<1>1. c \in Fitting /\ c.op = "scan" /\ x \in Credentials(c.page)
  BY DEF ScanResult, KioskIInv, PageInv
<1>2. PICK s \in Fitting : s = Scanned(c, x) /\ s.step = "sent" /\ s.op = OpOf(c.page)
  BY <1>1, ScannedFits
<1>3. /\ calls' = (IF c.heard THEN Superseded(s.op, calls \ {c}) ELSE calls \ {c}) \cup {s}
      /\ s.op \in TagOps => Cardinality({k \in calls : k.op \in TagOps}) < MaxTagCalls
      /\ UNCHANGED tags
  BY <1>2 DEF ScanResult, Scanned, server
<1>4. CASE c.heard
  <2>1. calls \ {c} \in SUBSET calls /\ calls' = Superseded(s.op, calls \ {c}) \cup {s}
    BY <1>3, <1>4
  <2> QED
    BY <1>2, <1>3, <2>1, OneMoreCall
<1>5. CASE ~c.heard
  <2>1. calls' = (calls \ {c}) \cup {s}
    BY <1>3, <1>5
  <2>2. Derived
    BY <1>2, <2>1 DEF Derived, Muted
  <2>3. s.op \in TagOps => \A k \in calls : k.op \notin TagOps
    BY <1>3, NoOtherTagCall DEF TagInv
  <2>4. OneTagCall'
    BY <2>1, <2>3 DEF OneTagCall, TagInv
  <2> QED
    BY <1>3, <2>2, <2>4, TagsAlone
<1> QED
  BY <1>4, <1>5

LEMMA NfcResultOneTag ==
  ASSUME KioskIInv, TagInv, MaxTagCalls = 1, NEW c \in calls, NEW t \in Tags,
         NfcResult(c, t)
  PROVE  TagInv'
<1>1. c \in Fitting /\ c.op = "read"
  BY DEF NfcResult, KioskIInv, PageInv
<1>2. PICK s \in Fitting : s = NfcRequest(c, t) /\ s.step = "sent"
  BY <1>1, NfcRequestFits
<1>3. /\ calls' = (calls \ {c}) \cup {s} /\ UNCHANGED tags
      /\ \A k \in calls : k.op \notin TagOps
  BY <1>2, NoOtherTagCall DEF NfcResult, server, TagInv
<1>4. Derived
  BY <1>2, <1>3 DEF Derived, Muted
<1>5. OneTagCall'
  BY <1>3 DEF OneTagCall
<1> QED
  BY <1>3, <1>4, <1>5, TagsAlone

(* The server's steps: one call goes on.                                    *)
LEMMA OneGoesOn ==
  ASSUME TagInv, NEW c \in calls, NEW d, d.op = c.op,
         calls' = (calls \ {c}) \cup {d}
  PROVE  OneTagCall' /\ (c.op \in TagOps => \A e \in calls' : e.op \in TagOps => e = d)
BY DEF OneTagCall, TagInv

LEMMA ServerStepsOneTag ==
  ASSUME KioskIInv, TagInv, NEW c \in calls,
         \/ Serve(c) \/ CheckTag(c) \/ FindTag(c) \/ CheckOutHolder(c)
         \/ \E v \in WalkIns : ServeWalkIn(c, v)
  PROVE  TagInv'
<1>1. c \in Fitting /\ c \in Calls /\ UNCHANGED tags
  BY DEF Serve, CheckTag, FindTag, CheckOutHolder, ServeWalkIn, server,
         KioskIInv, PageInv, Fitting
<1>2. PICK d : /\ calls' = (calls \ {c}) \cup {d} /\ d.op = c.op /\ d.tag = c.tag
               /\ d.op = "issue" /\ d.step = "free" => Holds(d.tag) = {}
  <2>1. CASE CheckTag(c)
    <3>1. PICK step \in {"free", "refused"} :
            To(c, step) /\ (step = "free" => Holds(c.tag) = {})
      BY <2>1 DEF CheckTag, Taken
    <3>2. [c EXCEPT !.step = step].op = c.op /\ [c EXCEPT !.step = step].tag = c.tag
          /\ [c EXCEPT !.step = step].step = step
      BY <1>1 DEF Calls
    <3> QED
      BY <3>1, <3>2 DEF To
  <2>2. CASE FindTag(c)
    <3>1. CASE To(c, "refused")
      <4>1. [c EXCEPT !.step = "refused"].op = c.op /\ [c EXCEPT !.step = "refused"].tag = c.tag
        BY <1>1 DEF Calls
      <4> QED
        BY <2>2, <3>1, <4>1 DEF To, FindTag
    <3>2. CASE ~To(c, "refused")
      <4>1. PICK i \in Holds(c.tag) :
              calls' = (calls \ {c}) \cup {[c EXCEPT !.step = "found", !.what = tags[i].visit]}
        BY <2>2, <3>2 DEF FindTag
      <4>2. /\ [c EXCEPT !.step = "found", !.what = tags[i].visit].op = c.op
            /\ [c EXCEPT !.step = "found", !.what = tags[i].visit].tag = c.tag
        BY <1>1 DEF Calls
      <4> QED
        BY <2>2, <4>1, <4>2 DEF FindTag
    <3> QED
      BY <3>1, <3>2
  <2>3. CASE Serve(c) \/ CheckOutHolder(c) \/ \E v \in WalkIns : ServeWalkIn(c, v)
    <3>1. c.op # "issue" /\ \E step \in {"ok", "refused"} : To(c, step)
      BY <2>3 DEF Serve, CheckOutHolder, ServeWalkIn, Goes
    <3>2. PICK step \in {"ok", "refused"} : To(c, step)
      BY <3>1
    <3>3. [c EXCEPT !.step = step].op = c.op /\ [c EXCEPT !.step = step].tag = c.tag
      BY <1>1 DEF Calls
    <3> QED
      BY <3>1, <3>2, <3>3 DEF To
  <2> QED
    BY <2>1, <2>2, <2>3
<1>3. OneTagCall'
  BY <1>2, OneGoesOn
<1>4. FreeIsFree' /\ TagOneHolder'
  BY <1>1, <1>2 DEF FreeIsFree, TagOneHolder, TagInv, Holds
<1> QED
  BY <1>3, <1>4 DEF TagInv

LEMMA InsertTagOneTag ==
  ASSUME KioskIInv, TagInv, NEW c \in calls, InsertTag(c)
  PROVE  TagInv'
<1>1. /\ c \in Fitting /\ c \in Calls /\ c.op = "issue" /\ c.step = "free" /\ To(c, "ok")
      /\ Holds(c.tag) = {} /\ tags \in Seq(VisitTag) /\ c.what \in Visits /\ c.tag \in Tags
  BY DEF InsertTag, KioskIInv, PageInv, ServerInv, Fitting, TagInv, FreeIsFree
<1>2. PICK row \in VisitTag : row = [tag |-> c.tag, visit |-> c.what] /\ row.tag = c.tag
                              /\ tags' = Append(tags, row)
  BY <1>1 DEF InsertTag, VisitTag
<1>3. /\ Len(tags') = Len(tags) + 1 /\ tags' \in Seq(VisitTag)
      /\ \A i \in 1..Len(tags) : tags'[i] = tags[i]
      /\ tags'[Len(tags) + 1] = row
  BY <1>1, <1>2, AppendProperties
<1>4. Len(tags) \in Nat /\ DOMAIN tags = 1..Len(tags) /\ DOMAIN tags' = 1..Len(tags) + 1
  BY <1>1, <1>3, LenProperties
<1>5. TagOneHolder'
  <2>1. ASSUME NEW i \in DOMAIN tags', NEW j \in DOMAIN tags',
  tags'[i].tag = tags'[j].tag, i < j
        PROVE  FALSE
    <3>1. i \in 1..Len(tags)
      BY <1>4, <2>1
    <3>2. CASE j \in 1..Len(tags)
      BY <1>3, <1>4, <2>1, <3>1, <3>2 DEF TagInv, TagOneHolder
    <3>3. CASE j = Len(tags) + 1
      BY <1>1, <1>2, <1>3, <1>4, <2>1, <3>1, <3>3 DEF Holds
    <3> QED
      BY <1>4, <3>2, <3>3
  <2>2. \A i, j \in DOMAIN tags' : i # j => i < j \/ j < i
    BY <1>4
  <2> QED
    BY <2>1, <2>2 DEF TagOneHolder
<1>6. PICK d : /\ calls' = (calls \ {c}) \cup {d} /\ d.op = c.op /\ d.step = "ok"
  <2>1. [c EXCEPT !.step = "ok"].op = c.op /\ [c EXCEPT !.step = "ok"].step = "ok"
    BY <1>1 DEF Calls
  <2> QED
    BY <1>1, <2>1 DEF To
<1>7. OneTagCall' /\ \A e \in calls' : e.op \in TagOps => e = d
  BY <1>1, <1>6, OneGoesOn DEF TagOps
<1>8. FreeIsFree'
  BY <1>6, <1>7 DEF FreeIsFree, TagOps
<1> QED
  BY <1>5, <1>7, <1>8 DEF TagInv

LEMMA MarkTagOneTag ==
  ASSUME KioskIInv, TagInv, NEW c \in calls, MarkTag(c)
  PROVE  TagInv'
<1>1. /\ c \in Fitting /\ c \in Calls /\ c.op = "return" /\ c.step = "found" /\ To(c, "marked")
      /\ tags \in Seq(VisitTag)
  BY DEF MarkTag, KioskIInv, PageInv, ServerInv, Fitting
<1>2. PICK d : /\ calls' = (calls \ {c}) \cup {d} /\ d.op = c.op /\ d.step = "marked"
  <2>1. [c EXCEPT !.step = "marked"].op = c.op /\ [c EXCEPT !.step = "marked"].step = "marked"
    BY <1>1 DEF Calls
  <2> QED
    BY <1>1, <2>1 DEF To
<1>3. OneTagCall' /\ \A e \in calls' : e.op \in TagOps => e = d
  BY <1>1, <1>2, OneGoesOn DEF TagOps
<1>4. FreeIsFree'
  BY <1>1, <1>2, <1>3 DEF FreeIsFree, TagOps
<1>5. TagOneHolder'
  <2>1. CASE tags' = tags
    BY <2>1 DEF TagOneHolder, TagInv
  <2>2. CASE tags' # tags
    <3>1. PICK k \in HeldBy(c.tag, c.what) : tags' = RemoveAt(tags, k)
      BY <2>2 DEF MarkTag
    <3>2. k \in 1..Len(tags) /\ DOMAIN tags = 1..Len(tags) /\ Len(tags) \in Nat
      BY <1>1, <3>1, LenProperties DEF HeldBy, Holds
    <3>3. /\ tags' \in Seq(VisitTag) /\ Len(tags') = Len(tags) - 1
          /\ \A i \in 1..Len(tags) - 1 : tags'[i] = tags[IF i < k THEN i ELSE i + 1]
      BY <1>1, <3>1, <3>2, RemoveAtKeeps
    <3>4. DOMAIN tags' = 1..Len(tags) - 1
      BY <3>3, LenProperties
    <3>5. ASSUME NEW i \in DOMAIN tags', NEW j \in DOMAIN tags',
    tags'[i].tag = tags'[j].tag
          PROVE  i = j
      <4> DEFINE before(n) == IF n < k THEN n ELSE n + 1
      <4>1. before(i) \in DOMAIN tags /\ before(j) \in DOMAIN tags
        BY <3>2, <3>4
      <4>2. tags'[i] = tags[before(i)] /\ tags'[j] = tags[before(j)]
        BY <3>3, <3>4
      <4>3. before(i) = before(j) => i = j
        BY <3>2, <3>4
      <4> HIDE DEF before
      <4> QED
        BY <3>5, <4>1, <4>2, <4>3 DEF TagInv, TagOneHolder
    <3> QED
      BY <3>5 DEF TagOneHolder
  <2> QED
    BY <2>1, <2>2
<1> QED
  BY <1>3, <1>4, <1>5 DEF TagInv

LEMMA TagInductive ==
  ASSUME KioskIInv, TagInv, MaxTagCalls = 1, [Next]_vars
  PROVE  TagInv'
<1>1. KioskIInv'
  BY KioskInductive
<1>2. ASSUME NEW c \in calls, NEW x \in Visits \cup Tags,
ScanResult(c, x) PROVE TagInv'
  BY <1>2, ScanResultOneTag
<1>3. ASSUME NEW c \in calls,
             \/ Serve(c) \/ CheckTag(c) \/ FindTag(c) \/ CheckOutHolder(c)
             \/ \E v \in WalkIns : ServeWalkIn(c, v)
      PROVE  TagInv'
  BY <1>3, ServerStepsOneTag
<1>4. ASSUME NEW c \in calls, InsertTag(c) PROVE TagInv'
  BY <1>4, InsertTagOneTag
<1>5. ASSUME NEW c \in calls, MarkTag(c) PROVE TagInv'
  BY <1>5, MarkTagOneTag
<1>6. ASSUME NEW c \in calls,
ScanNothing(c) \/ Answer(c) \/ Fail(c) PROVE TagInv'
  BY <1>6, FewerCalls DEF ScanNothing, Answer, Fail, server
<1>7. CASE UNCHANGED vars \/ \E v \in Visits : Elsewhere(v)
  BY <1>7, FewerCalls DEF vars, server, Elsewhere
<1>8. ASSUME NEW c \in calls, NEW t \in Tags, NfcResult(c, t) PROVE TagInv'
  BY <1>8, NfcResultOneTag
<1> QED
  BY <1>1, <1>2, <1>3, <1>4, <1>5, <1>6, <1>7, <1>8, PageStepsOneTag DEF Next

(* Badges and tags answer for visits as the server has them (KioskInv of    *)
(* the run), when requests about tags come one after another; with several  *)
(* at a time the two checks of one number may both find it free, and of the *)
(* five parts all but TagOneHolder still hold.                              *)
THEOREM KioskAnswersForVisits ==
  ASSUME MaxTagCalls = 1
  PROVE  Spec => []KioskInv
<1>1. Init => TagInv
  BY DEF Init, TagInv, OneTagCall, FreeIsFree, TagOneHolder
<1>2. KioskIInv /\ TagInv /\ [Next]_vars => TagInv'
  BY TagInductive
<1>3. KioskIInv /\ TagInv => KioskInv
  <2>1. KioskIInv => TypeOK
    <3>1. ASSUME ServerInv, NEW i \in DOMAIN tags PROVE tags[i] \in VisitTag
      BY <3>1, ElementOfSeq, LenProperties DEF ServerInv
    <3> QED
      BY <3>1 DEF KioskIInv, PageInv, ServerInv, TypeOK, Screens, Fitting
  <2>2. KioskIInv => TagToldUnderItsBadge
    BY DEF KioskIInv, PageInv, Expected, TagToldUnderItsBadge
  <2> QED
    BY <2>1, <2>2 DEF KioskIInv, ServerInv, TagInv, KioskInv
<1> QED
  BY <1>1, <1>2, <1>3, KioskInvariant, PTL DEF Spec
=============================================================================
