----------------------------- MODULE GuardLoad ------------------------------
(***************************************************************************)
(* The BPF loader (bpf-loader.cpp, pin-removal.h) and the pin directories   *)
(* it leaves behind.  A load pins maps and then links, one by one, into a   *)
(* staging directory and publishes it with one rename.  A pinned link       *)
(* enforces the policy of its generation even after the loader died, so an  *)
(* interrupted load leaves an attached generation that the next load keeps  *)
(* until its own is published.  There are two staging names, so that the    *)
(* replacement can attach beside what it replaces.                          *)
(*                                                                          *)
(* The controller runs one loader at a time, under its state lock.  A       *)
(* generation is always blocked here: hold_interrupted and the initial      *)
(* configuration only ever write the blocked state, and ready is set on a   *)
(* published generation (GuardLifecycle).                                   *)
(***************************************************************************)
EXTENDS Naturals

CONSTANTS
    Paths,          \* executables
    Policies,       \* the sets of executables a load may be asked to enrol
    NLinks,         \* size of the link set
    MaxTrouble      \* bound: deaths and failed steps

ASSUME SizeAssumption == NLinks \in Nat \ {0} /\ MaxTrouble \in Nat
ASSUME PolicyAssumption == Policies \subseteq SUBSET Paths

VARIABLES
    exists,     \* [Names -> the directory is there]
    maps,       \* [Names -> every map is pinned in it]
    links,      \* [Names -> the links pinned in it, by their place in the pin order]
    policy,     \* [Names -> the executables its policy maps hold]
    recorded,   \* whose identities guard-birth.json holds: a directory, "gone" or "none"
    claimed,    \* the journal holds the identities of the published directory
    pc,         \* the next step of the loader
    mine,       \* its staging directory
    stale,      \* the interrupted generation it replaces, as a set
    want,       \* the policy it was asked to load
    held,       \* history: [Links -> the executables it covered when the loader began]
    trouble     \* deaths and failed steps so far

pinVars == <<exists, maps, links, policy>>
controllerVars == <<recorded, claimed>>
loaderVars == <<pc, mine, stale, want>>
vars == <<exists, maps, links, policy, recorded, claimed, pc, mine, stale, want, held, trouble>>

Staging == {"_new", "_next"}
Names == Staging \cup {"dir"}
Links == 1..NLinks

Init ==
    /\ exists = [n \in Names |-> FALSE]
    /\ maps = [n \in Names |-> FALSE]
    /\ links = [n \in Names |-> {}]
    /\ policy = [n \in Names |-> {}]
    /\ recorded = "none" /\ claimed = FALSE
    /\ pc = "idle" /\ mine = "_new" /\ stale = {} /\ want = {}
    /\ held = [i \in Links |-> {}]
    /\ trouble = 0

-----------------------------------------------------------------------------
(* Directories.                                                             *)

\* verify_owner(): the exact map and link set.
Whole(n) == exists[n] /\ maps[n] /\ links[n] = Links

\* inspect_generation(..., partial): links only on a whole map set, and a prefix of the pin order.
Inspectable(n) ==
    /\ links[n] # {} => maps[n]
    /\ \A i \in links[n] : 1..i \subseteq links[n]

\* The executables that the link i refuses or marks, in whatever generation it is attached.
Covered(i) == {p \in Paths : \E n \in Names : i \in links[n] /\ p \in policy[n]}

\* Mutant of RemoveNext: maps go before links.
RemoveNextMapsFirst(n) ==
    \/ /\ maps[n]
       /\ maps' = [maps EXCEPT ![n] = FALSE]
       /\ UNCHANGED <<exists, links, policy>>
    \/ /\ ~maps[n] /\ links[n] # {}
       /\ \E i \in links[n] :
             /\ \A j \in links[n] : j <= i
             /\ links' = [links EXCEPT ![n] = @ \ {i}]
       /\ UNCHANGED <<exists, maps, policy>>
    \/ /\ ~maps[n] /\ links[n] = {}
       /\ exists' = [exists EXCEPT ![n] = FALSE]
       /\ UNCHANGED <<maps, links, policy>>

\* remove_pins() and discard_staging(), one unlink at a time: links in reverse pin order, then the
\* maps, then the directory.
RemoveNext(n) ==
    \/ /\ links[n] # {}
       /\ \E i \in links[n] :
             /\ \A j \in links[n] : j <= i
             /\ links' = [links EXCEPT ![n] = @ \ {i}]
       /\ UNCHANGED <<exists, maps, policy>>
    \/ /\ links[n] = {} /\ maps[n]
       /\ maps' = [maps EXCEPT ![n] = FALSE]
       /\ UNCHANGED <<exists, links, policy>>
    \/ /\ links[n] = {} /\ ~maps[n]
       /\ exists' = [exists EXCEPT ![n] = FALSE]
       /\ UNCHANGED <<maps, links, policy>>

-----------------------------------------------------------------------------
(* load: what an earlier load left is inspected and one staging name freed. *)

Left == {n \in Staging : exists[n]}
Other(n) == IF n = "_new" THEN "_next" ELSE "_new"

\* Mutants of CoveredBy: the policies are not compared; equally long prefixes do not cover each other.
CoveredByLinks(a, b) ==
    links[a] = {} \/ (links[a] \subseteq links[b] /\ maps[b])
CoveredByLonger(a, b) ==
    links[a] = {} \/ (links[a] \subseteq links[b] /\ links[a] # links[b] /\ maps[b] /\ policy[a] \subseteq policy[b])

\* covered_generation(): b provides what a protects.  For prefixes, fewer links are a subset.
CoveredBy(a, b) ==
    links[a] = {} \/ (links[a] \subseteq links[b] /\ maps[b] /\ policy[a] \subseteq policy[b])

\* The staging name that the load uses: a free one, or the first whose generation is covered.
Usable == {n \in Staging : exists[n] => Left = Staging /\ CoveredBy(n, Other(n))}
StagingName == IF "_new" \in Usable THEN "_new" ELSE "_next"

\* load() up to its first change, called with no published guard: the controller forgets an old
\* birth record; the loader inspects, and refuses what it cannot tell or free.
Load(P) ==
    /\ pc = "idle"
    /\ ~exists["dir"] /\ ~claimed
    /\ recorded' = "none"
    /\ held' = [i \in Links |-> Covered(i)]
    /\ IF (\A n \in Left : Inspectable(n)) /\ Usable # {}
       THEN pc' = "stage" /\ mine' = StagingName /\ stale' = Left \ {StagingName} /\ want' = P
       ELSE UNCHANGED loaderVars
    /\ UNCHANGED <<pinVars, claimed, trouble>>

\* The covered generation of two makes room.
FreeCovered ==
    /\ pc = "stage" /\ exists[mine]
    /\ RemoveNext(mine)
    /\ UNCHANGED <<controllerVars, loaderVars, held, trouble>>

\* The object is loaded, its maps hold the blocked configuration and the policy: mkdir.
MakeStaging ==
    /\ pc = "stage" /\ ~exists[mine]
    /\ exists' = [exists EXCEPT ![mine] = TRUE]
    /\ policy' = [policy EXCEPT ![mine] = want]
    /\ pc' = "pin"
    /\ UNCHANGED <<maps, links, controllerVars, mine, stale, want, held, trouble>>

PinMaps ==
    /\ pc = "pin" /\ ~maps[mine]
    /\ maps' = [maps EXCEPT ![mine] = TRUE]
    /\ UNCHANGED <<exists, links, policy, controllerVars, loaderVars, held, trouble>>

\* Attach and pin the next link of the pin order.
PinLink ==
    /\ pc = "pin" /\ maps[mine]
    /\ \E i \in Links \ links[mine] :
          /\ \A j \in Links \ links[mine] : i <= j
          /\ links' = [links EXCEPT ![mine] = @ \cup {i}]
    /\ UNCHANGED <<exists, maps, policy, controllerVars, loaderVars, held, trouble>>

\* verify_owner, verify_context and drain passed; write_birth_record (O_EXCL).
RecordBirth ==
    /\ pc = "pin" /\ Whole(mine)
    /\ recorded = "none"
    /\ recorded' = mine
    /\ pc' = "publish"
    /\ UNCHANGED <<pinVars, claimed, mine, stale, want, held, trouble>>

\* rename(staging, dir)
Publish ==
    /\ pc = "publish"
    /\ exists' = [exists EXCEPT !["dir"] = TRUE, ![mine] = FALSE]
    /\ maps' = [maps EXCEPT !["dir"] = maps[mine], ![mine] = FALSE]
    /\ links' = [links EXCEPT !["dir"] = links[mine], ![mine] = {}]
    /\ policy' = [policy EXCEPT !["dir"] = policy[mine]]
    /\ recorded' = IF recorded = mine THEN "dir" ELSE recorded
    /\ pc' = "replace"
    /\ UNCHANGED <<claimed, mine, stale, want, held, trouble>>

\* The published generation protects; what it replaced is detached.
DropStale ==
    /\ pc = "replace"
    /\ \E n \in stale : exists[n] /\ RemoveNext(n)
    /\ UNCHANGED <<controllerVars, loaderVars, held, trouble>>

LoadEnds ==
    /\ pc = "replace" /\ \A n \in stale : ~exists[n]
    /\ pc' = "idle"
    /\ UNCHANGED <<pinVars, controllerVars, mine, stale, want, held, trouble>>

\* An exception after mkdir: only this attempt is removed.
Unwind ==
    /\ pc = "unwind" /\ exists[mine]
    /\ RemoveNext(mine)
    /\ UNCHANGED <<controllerVars, loaderVars, held, trouble>>

UnwindEnds ==
    /\ pc = "unwind" /\ ~exists[mine]
    /\ recorded' = IF recorded = mine THEN "gone" ELSE recorded
    /\ pc' = "idle"
    /\ UNCHANGED <<pinVars, claimed, mine, stale, want, held, trouble>>

-----------------------------------------------------------------------------
(* _claim_birth and settle; discard.                                        *)

\* Only a whole directory with the recorded identities is adopted.
Claim ==
    /\ pc = "idle" /\ ~claimed
    /\ Whole("dir") /\ recorded = "dir"
    /\ held' = [i \in Links |-> Covered(i)]
    /\ pc' = "settle"
    /\ UNCHANGED <<pinVars, controllerVars, mine, stale, want, trouble>>

\* settle(): interrupted generations beside it are inspected and detached.
Settle ==
    /\ pc = "settle"
    /\ \E n \in Left :
          /\ n = "_next" => ~exists["_new"]
          /\ Inspectable(n)
          /\ RemoveNext(n)
    /\ UNCHANGED <<controllerVars, loaderVars, held, trouble>>

\* Mutant of Adopt: the journal adopts before the generations beside it are gone.
AdoptUnsettled ==
    /\ pc = "settle"
    /\ claimed' = TRUE
    /\ pc' = "forget"
    /\ UNCHANGED <<pinVars, recorded, mine, stale, want, held, trouble>>

\* The journal holds the identities.
Adopt ==
    /\ pc = "settle" /\ Left = {}
    /\ claimed' = TRUE
    /\ pc' = "forget"
    /\ UNCHANGED <<pinVars, recorded, mine, stale, want, held, trouble>>

\* _forget_birth()
ForgetBirth ==
    /\ pc = "forget"
    /\ recorded' = "none"
    /\ pc' = "idle"
    /\ UNCHANGED <<pinVars, claimed, mine, stale, want, held, trouble>>

\* disable: discard verifies each remaining pin against the journaled identities.
Discard ==
    /\ pc = "idle" /\ claimed
    /\ held' = [i \in Links |-> {}]
    /\ pc' = "remove"
    /\ UNCHANGED <<pinVars, controllerVars, mine, stale, want, trouble>>

RemovePins ==
    /\ pc = "remove" /\ exists["dir"]
    /\ RemoveNext("dir")
    /\ UNCHANGED <<controllerVars, loaderVars, held, trouble>>

\* The journal forgets the pins once they are gone.
Discarded ==
    /\ pc = "remove" /\ ~exists["dir"]
    /\ claimed' = FALSE
    /\ recorded' = IF recorded = "dir" THEN "gone" ELSE recorded
    /\ pc' = "idle"
    /\ UNCHANGED <<pinVars, mine, stale, want, held, trouble>>

-----------------------------------------------------------------------------
\* A step between mkdir and the rename fails.  Elsewhere a failed step ends the loader and undoes
\* nothing, which is Kill.
Fail ==
    /\ trouble < MaxTrouble
    /\ trouble' = trouble + 1
    /\ pc \in {"pin", "publish"}
    /\ pc' = "unwind"
    /\ UNCHANGED <<pinVars, controllerVars, mine, stale, want, held>>

\* The loader is killed; what it pinned stays attached.
Kill ==
    /\ trouble < MaxTrouble
    /\ trouble' = trouble + 1
    /\ pc # "idle"
    /\ pc' = "idle"
    /\ UNCHANGED <<pinVars, controllerVars, mine, stale, want, held>>

Step ==
    \/ FreeCovered \/ MakeStaging \/ PinMaps \/ PinLink \/ RecordBirth \/ Publish
    \/ DropStale \/ LoadEnds \/ Unwind \/ UnwindEnds
    \/ Settle \/ Adopt \/ ForgetBirth \/ RemovePins \/ Discarded

Next ==
    \/ Step
    \/ \E P \in Policies : Load(P)
    \/ Claim \/ Discard \/ Fail \/ Kill

Spec == Init /\ [][Next]_vars

\* A loader runs to its end; the controller's activation is retried.
Fairness ==
    /\ WF_vars(Step)
    /\ WF_vars(Claim)
    /\ \A P \in Policies : WF_vars(Load(P))

FairSpec == Spec /\ Fairness

-----------------------------------------------------------------------------
(* Properties.                                                              *)

TypeOK ==
    /\ exists \in [Names -> BOOLEAN]
    /\ maps \in [Names -> BOOLEAN]
    /\ links \in [Names -> SUBSET Links]
    /\ policy \in [Names -> SUBSET Paths]
    /\ \A n \in Names : ~exists[n] => ~maps[n] /\ links[n] = {}
    /\ recorded \in Names \cup {"gone", "none"}
    /\ claimed \in BOOLEAN
    /\ pc \in {"idle", "stage", "pin", "publish", "replace", "unwind", "settle", "forget", "remove"}
    /\ mine \in Staging /\ stale \subseteq Staging \ {mine}
    /\ want \in SUBSET Paths
    /\ held \in [Links -> SUBSET Paths]
    /\ trouble \in Nat

\* load, discard_staging and covered_generation: whatever a hook already enforced when a load or a
\* settle began stays enforced by some generation through every step, death and failure of it, until
\* a complete generation that does not enrol the executable is published.
ProtectionHeld ==
    \A i \in Links : \A p \in held[i] :
        p \in Covered(i) \/ (Whole("dir") /\ p \notin policy["dir"])

\* inspect_generation: no interruption of a load or of a removal leaves a directory that the next
\* load or settle refuses to recognise as its own.
Recognisable == \A n \in Staging : Inspectable(n)

\* write_birth_record before the rename: a guard published by a load that then died can be told
\* from a foreign one, so the next claim completes it (_claim_birth).
PublishedIsRecorded == exists["dir"] /\ ~claimed => Whole("dir") /\ recorded = "dir"

\* Wherever a load or a removal dies, what it leaves can be settled or claimed by the next one.
Claimable == Recognisable /\ PublishedIsRecorded

\* settle before the journal adopts: while the journal owns the guard no other generation is
\* attached, so that disable, which removes only the journaled pins, leaves nothing attached.
ClaimedAlone == claimed => \A n \in Staging : ~exists[n] /\ links[n] = {}

\* Loads of one policy never refuse each other: however many were killed and wherever, the retried
\* activation ends with an adopted guard (covered_generation, settle).
LoadCompletes ==
    \A P \in Policies :
        [](\A n \in Names : exists[n] => policy[n] = P) => (~claimed ~> claimed)
=============================================================================
