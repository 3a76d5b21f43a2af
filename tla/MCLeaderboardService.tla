------------------------ MODULE MCLeaderboardService ------------------------
(***************************************************************************)
(* Instances of LeaderboardService for TLC.                                 *)
(***************************************************************************)
EXTENDS LeaderboardService, TLC

CONSTANTS a, b, consumer, post

\* Scores of 1.304 and 1.303, which differ only before they are formatted,
\* and of a run without a success.
FirstOfA == [sub |-> a, tps |-> 326, p99 |-> 250000, rate |-> 100]
SecondOfA == [sub |-> a, tps |-> 5, p99 |-> 1, rate |-> 0]
OnlyOfB == [sub |-> b, tps |-> 1303, p99 |-> 1000000, rate |-> 100]

SomeResults == {FirstOfA, SecondOfA, OnlyOfB}
SomeTelemetry == <<SecondOfA, Nothing, OnlyOfB>>
DebugPost == post :> FirstOfA
=============================================================================
