------------------------------ MODULE MCRuntime ------------------------------
(* Instances of Runtime for TLC. *)
EXTENDS RuntimeInvariant

\* Addresses are interchangeable: no action compares them.
Symmetry == Permutations(Tasks) \cup Permutations(Regions)
=============================================================================
