----------------------------- MODULE MCScheduling -----------------------------
(* Values of the calendar's constants for TLC: h1 and h2 share an office,   *)
(* the others have none.                                                    *)
EXTENDS Scheduling, TLC

CONSTANTS h1, h2, h3, h4, o1
MCHosts  == {h1, h2, h3, h4}
MCRooms  == {o1}
MCRoomOf == (h1 :> o1) @@ (h2 :> o1) @@ (h3 :> NoRoom) @@ (h4 :> NoRoom)
Symmetry == Permutations(Bookings) \cup Permutations(People)
              \cup Permutations({h1, h2}) \cup Permutations({h3, h4})
=============================================================================
