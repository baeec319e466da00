------------------------------ MODULE MCEtlQueue ------------------------------
(* Instances of EtlQueue for TLC. *)
EXTENDS EtlQueue, TLC

Symmetry == Permutations(Matches) \cup Permutations(Leagues)
===============================================================================
