------------------------ MODULE MCDispatcherSupervisor ------------------------
(* Instances of DispatcherSupervisor.  Process identifiers and helpers are     *)
(* interchangeable, so the safety run reduces by their permutations.           *)
EXTENDS DispatcherSupervisor, TLC

Symmetry == Permutations(Pids) \cup Permutations(Helpers)
===============================================================================
