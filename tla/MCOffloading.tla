---------------------------- MODULE MCOffloading ----------------------------
(* Instances of Offloading for TLC. *)
EXTENDS Offloading, TLC

CONSTANTS j1, j2

\* Three, two and one rules; pages of four end within the second decision.
ThreeTwoOne == {[decision |-> d, rule |-> r] : d \in 1 .. 3, r \in 1 .. 3}
  \ {[decision |-> 2, rule |-> 3], [decision |-> 3, rule |-> 2], [decision |-> 3, rule |-> 3]}

\* The first rule of the second decision was stored without an evaluation.
MostEvaluated == ThreeTwoOne \ {[decision |-> 2, rule |-> 1]}

Symmetry == Permutations(Jobs)
==============================================================================
