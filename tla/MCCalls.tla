------------------------------- MODULE MCCalls -------------------------------
(* Instances of RuntimeCalls for TLC. *)
EXTENDS RuntimeCalls

\* Addresses are interchangeable: no action compares them.
Symmetry == Permutations(Tasks) \cup Permutations(Regions)
=============================================================================
