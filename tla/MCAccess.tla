------------------------------ MODULE MCAccess ------------------------------
(* Access for TLC.                                                         *)
EXTENDS Access, TLC

\* Two zones that share no exit node; one has a router the other has not.
MCZone == {[cons |-> {"r1"}, allow |-> {"x1"}], [cons |-> {"r1", "r2"}, allow |-> {"x2"}]}

\* IDs and goroutines are interchangeable.
Symmetry == Permutations(Zones) \cup Permutations(Requests)
=============================================================================
