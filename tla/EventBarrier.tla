---------------------------- MODULE EventBarrier ----------------------------
(***************************************************************************)
(* What Hints::barrier promises its callers, with no sentinels, flushes or  *)
(* counters: a waiter that passes knows that every event logged before it   *)
(* began has been accounted for, that is, processed by the consumer or      *)
(* reported lost.  A waiter may fail at any time.  TraceBarrier implements  *)
(* this promise and DnsAttribution builds the route decisions on it.        *)
(***************************************************************************)
EXTENDS Naturals

CONSTANTS Waiters   \* the dispatcher's worker threads

VARIABLES
    logged,         \* how many events have been logged
    accounted,      \* the logged events, by number, processed or reported lost
    waiter,         \* [Waiters -> "idle", "waiting", "passed" or "failed"]
    need            \* [Waiters -> the events logged when the barrier began]

vars == <<logged, accounted, waiter, need>>

Init ==
    /\ logged = 0
    /\ accounted = {}
    /\ waiter = [w \in Waiters |-> "idle"]
    /\ need = [w \in Waiters |-> 0]

Log ==
    /\ logged' = logged + 1
    /\ UNCHANGED <<accounted, waiter, need>>

\* The consumer processes events, or a loss is reported, one or several at once.
Account ==
    /\ \E S \in SUBSET (1..logged) : accounted' = accounted \cup S
    /\ UNCHANGED <<logged, waiter, need>>

Begin(w) ==
    /\ waiter[w] = "idle"
    /\ waiter' = [waiter EXCEPT ![w] = "waiting"]
    /\ need' = [need EXCEPT ![w] = logged]
    /\ UNCHANGED <<logged, accounted>>

Pass(w) ==
    /\ waiter[w] = "waiting"
    /\ 1..need[w] \subseteq accounted
    /\ waiter' = [waiter EXCEPT ![w] = "passed"]
    /\ UNCHANGED <<logged, accounted, need>>

Fail(w) ==
    /\ waiter[w] = "waiting"
    /\ waiter' = [waiter EXCEPT ![w] = "failed"]
    /\ UNCHANGED <<logged, accounted, need>>

Return(w) ==
    /\ waiter[w] \in {"passed", "failed"}
    /\ waiter' = [waiter EXCEPT ![w] = "idle"]
    /\ UNCHANGED <<logged, accounted, need>>

Next ==
    \/ Log
    \/ Account
    \/ \E w \in Waiters : Begin(w) \/ Pass(w) \/ Fail(w) \/ Return(w)

Spec == Init /\ [][Next]_vars
=============================================================================
