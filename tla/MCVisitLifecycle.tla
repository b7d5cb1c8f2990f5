-------------------------- MODULE MCVisitLifecycle --------------------------
(* Values of the lifecycle's constants for TLC: every dated visit is due    *)
(* from 1 to 1.                                                             *)
EXTENDS VisitLifecycle, TLC

MCArrival   == [v \in Visits |-> 1]
MCDeparture == [v \in Visits |-> 1]
Symmetry    == Permutations(Invitations) \cup Permutations(Admissions)
                 \cup Permutations(Clients)
=============================================================================
