------------------------ MODULE MCTestRunSummaries ------------------------
(* Instances of TestRunSummaries for TLC. *)
EXTENDS TestRunSummaries, TLC

CONSTANTS d1, d2, decline, review

\* A summary with nothing to count writes a row that no decision needs.
Outcomes3 == (d1 :> decline) @@ (d2 :> review)

Everything == {d1, d2}
Nothing == {}

JobSymmetry == Permutations(Jobs)
============================================================================
