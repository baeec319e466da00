----------------------------- MODULE MCLlmBudget -----------------------------
(* Instances of LlmBudget for TLC. *)
EXTENDS LlmBudget, TLC

Symmetry == Permutations(Advisors) \cup Permutations(Summarised)
===============================================================================
