-------------------------- MODULE MCRecommendations --------------------------
(* Instances of Recommendations for TLC. *)
EXTENDS Recommendations, TLC

Symmetry == Permutations(Coupons) \cup Permutations(Fixtures)
===============================================================================
