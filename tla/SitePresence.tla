---------------------------- MODULE SitePresence ----------------------------
(***************************************************************************)
(* What the site may rely on, without tables, requests or crashes: a visit *)
(* begins once and ends once, an entry hands out a pass, and nobody has    *)
(* left as long as one of his passes is live or his entry is not signed    *)
(* out.  Passes are numbered by the entry they were handed out for.        *)
(***************************************************************************)
CONSTANTS Visits, Passes, NoVisit

VARIABLES stage,    \* where each visit is
          holder,   \* the visit each pass was handed out for
          live,     \* passes that open something
          inside    \* passes whose entry is not signed out

pvars == <<stage, holder, live, inside>>

PresenceTypeOK ==
  /\ stage \in [Visits -> {"outside", "on site", "left"}]
  /\ holder \in [Passes -> Visits \cup {NoVisit}]
  /\ live \subseteq Passes /\ inside \subseteq Passes

PresenceInit ==
  /\ stage = [v \in Visits |-> "outside"]
  /\ holder = [p \in Passes |-> NoVisit]
  /\ live = {} /\ inside = {}

Enter(v, p, granted) ==
  /\ stage[v] = "outside"
  /\ holder[p] = NoVisit
  /\ stage' = [stage EXCEPT ![v] = "on site"]
  /\ holder' = [holder EXCEPT ![p] = v]
  /\ live' = IF granted THEN live \cup {p} ELSE live
  /\ inside' = inside \cup {p}

Lapse == /\ live' \subseteq live
         /\ UNCHANGED <<stage, holder, inside>>

SignOut == /\ inside' \subseteq inside
           /\ UNCHANGED <<stage, holder, live>>

Exit(v) ==
  /\ stage[v] = "on site"
  /\ \A p \in Passes : holder[p] = v => p \notin live /\ p \notin inside
  /\ stage' = [stage EXCEPT ![v] = "left"]
  /\ UNCHANGED <<holder, live, inside>>

PresenceNext ==
  \/ \E v \in Visits, p \in Passes, g \in BOOLEAN : Enter(v, p, g)
  \/ Lapse \/ SignOut
  \/ \E v \in Visits : Exit(v)

PresenceSpec == PresenceInit /\ [][PresenceNext]_pvars
=============================================================================
