------------------------------- MODULE MCDesk -------------------------------
(* Values of the desk's constants for TLC: every dated visit is due at 1.   *)
EXTENDS Desk, TLC

MCArrival   == [v \in Visits |-> 1]
MCDeparture == [v \in Visits |-> 1]
Symmetry    == Permutations(Invitations) \cup Permutations(Admissions)
                 \cup Permutations(Clients)
=============================================================================
