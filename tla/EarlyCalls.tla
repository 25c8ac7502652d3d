----------------------------- MODULE EarlyCalls -----------------------------
(***************************************************************************)
(* What settling the resolver guard promises: GUARD_SETTLED is set only      *)
(* after every unix_bind and vfs_rename call that began before the           *)
(* completion programs attached has ended.  Such calls only ever end.        *)
(* Drain implements this; ResolverGuard builds its caches on it.             *)
(***************************************************************************)
VARIABLES
    early,          \* the tasks inside a call that began before the programs attached
    settled         \* GUARD_SETTLED

Init == settled = FALSE

End ==
    /\ \E S \in SUBSET early : early' = early \ S
    /\ UNCHANGED settled

Settle ==
    /\ early = {}
    /\ settled' = TRUE
    /\ UNCHANGED early

Next == End \/ Settle

Spec == Init /\ [][Next]_<<early, settled>>
=============================================================================
