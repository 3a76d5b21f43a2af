----------------------- MODULE MCBenchmarkController -----------------------
(***************************************************************************)
(* Instances of BenchmarkController for TLC.                                *)
(***************************************************************************)
EXTENDS BenchmarkController, TLC

CONSTANTS r1, r2, s1

OneRun == {r1}
TwoRuns == {r1, r2}
SecondRun == {r2}
NoRuns == {}
SameSubmission == (r1 :> s1) @@ (r2 :> s1)
=============================================================================
