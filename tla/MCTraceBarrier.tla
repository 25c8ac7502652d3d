--------------------------- MODULE MCTraceBarrier ---------------------------
(* Model-checking instance of TraceBarrier. *)
EXTENDS TraceBarrier, TLC

\* The threads are interchangeable: no action or invariant names one.
Symmetry == Permutations(Waiters)
=============================================================================
