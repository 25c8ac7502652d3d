-------------------------- MODULE MCGuardLifecycle --------------------------
(* Instances of GuardLifecycle for TLC.                                     *)
EXTENDS GuardLifecycle
=============================================================================
