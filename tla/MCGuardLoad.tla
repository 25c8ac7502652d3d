---------------------------- MODULE MCGuardLoad -----------------------------
(* Instances of GuardLoad for TLC. *)
EXTENDS GuardLoad, TLC

\* Executables are interchangeable: no action names one, and Policies is closed under permutation.
Symmetry == Permutations(Paths)
=============================================================================
