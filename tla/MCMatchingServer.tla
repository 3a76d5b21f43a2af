-------------------------- MODULE MCMatchingServer --------------------------
(***************************************************************************)
(* Instances of MatchingServer for TLC.                                     *)
(***************************************************************************)
EXTENDS MatchingServer, TLC

CONSTANTS c1, p1, p2, d1, m1

OneClient == {c1}
TwoPlaces == {p1, p2}
OneCancel == {d1}
OneMalformed == {m1}
None == {}
PlaceSymmetry == Permutations(TwoPlaces)

\* A client connects and then neither reads nor leaves.
StalledNext == Next /\ UNCHANGED <<got, conn>>
StalledSpec == Init /\ [][StalledNext]_vars /\ Fairness
=============================================================================
