--------------------------- MODULE MCMatchReviews ---------------------------
(* Instances of MatchReviews for TLC. *)
EXTENDS MatchReviews, TLC

ReviewSymmetry == Permutations(Entities) \cup Permutations(Objects) \cup Permutations(Requests)
=============================================================================
