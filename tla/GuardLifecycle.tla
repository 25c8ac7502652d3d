--------------------------- MODULE GuardLifecycle ---------------------------
(***************************************************************************)
(* The Linux controller (controller.py): the commands guard, activate,     *)
(* check, include add/remove and disable, each a sequence of durable steps *)
(* under one state lock, over the journal, settings.json, the loader's     *)
(* birth record, the pinned BPF guard and the owned network.  The process  *)
(* may die between any two steps, the machine may reboot, any command it   *)
(* runs may fail, and the tunnel may disappear underneath it.              *)
(*                                                                         *)
(* "run" is the command that holds the lock: pc names its next step.  An   *)
(* update of the journal and the save after it are one step.               *)
(***************************************************************************)
EXTENDS OwnedNetwork, FiniteSets

CONSTANTS
    Paths,                    \* executables that can be enrolled
    Peers,                    \* size of the peer pool; 1 means no failover
    FAILURES_BEFORE_SWITCH,
    MaxCommands,              \* bound: commands a person issues
    MaxCrashes,               \* bound: deaths and reboots
    MaxFaults                 \* bound: failed steps and lost tunnels

ASSUME PoolAssumption == Peers \in Nat \ {0} /\ FAILURES_BEFORE_SWITCH \in Nat \ {0}
ASSUME BudgetAssumption == {MaxCommands, MaxCrashes, MaxFaults} \subseteq Nat

VARIABLES
    journal,    \* controller.json
    settings,   \* the policy of settings.json
    birth,      \* identity in guard-birth.json, 0 when absent
    kernel,     \* the pinned guard
    run,        \* the command in progress
    served,     \* history: this network lifetime has been ready
    budget      \* what is left of the bounds

vars == <<network, journal, settings, birth, kernel, run, served, budget>>

NoJournal == [state |-> "absent", policy |-> {}, pins |-> 0, pending |-> <<>>,
              started |-> FALSE, active |-> 1, peer |-> 0, failures |-> 0]
NoGuard == [pins |-> 0, whole |-> FALSE, state |-> "blocked", paths |-> {}]
Idle == [op |-> "idle", pc |-> "idle", path |-> {}, onError |-> "raise", wasReady |-> FALSE,
         held |-> FALSE, peer |-> 0, back |-> "none", then |-> "none", incomplete |-> FALSE]

Init ==
    /\ NetworkInit
    /\ journal = NoJournal
    /\ settings \in SUBSET Paths
    /\ birth = 0
    /\ kernel = NoGuard
    /\ run = Idle
    /\ served = FALSE
    /\ budget = [commands |-> MaxCommands, crashes |-> MaxCrashes, faults |-> MaxFaults]

Spend(what) ==
    /\ budget[what] > 0
    /\ budget' = [budget EXCEPT ![what] = @ - 1]

----------------------------------------------------------------------------
(* Control.                                                                 *)

At(pc) == run.pc = pc
Goto(pc) == run' = [run EXCEPT !.pc = pc]
Finish == run' = Idle

\* An exception: the innermost handler degrades, or the command just fails.
Raise == IF run.onError = "degrade" THEN Goto("degrade") ELSE Finish

\* kernel.exists(), _observed() and _block().
Exists == kernel.pins # 0
Observed(policy) ==
    /\ Exists /\ kernel.whole
    /\ kernel.pins = journal.pins
    /\ policy => kernel.paths = journal.policy
Blocked == kernel' = [kernel EXCEPT !.state = "blocked"]
Save(j) == journal' = j

Pending == journal.pending # <<>>
NewPolicy == journal.pending[1]
Retired == journal.state \in {"absent", "disabled", "disabling"}

\* _edit(): the request already matches the policy.
NoChange == (run.op = "add") = (run.path \subseteq journal.policy)

----------------------------------------------------------------------------
(* Commands take the lock.                                                  *)

Command(op) ==
    /\ At("idle")
    /\ Spend("commands")
    /\ run' = [Idle EXCEPT !.op = op, !.pc = IF op = "disable" THEN "disable" ELSE "guard"]
    /\ UNCHANGED <<network, journal, settings, birth, kernel, served>>

\* include_add and include_remove.  A request that changes nothing while the
\* journal is ready goes straight to _ready.
Include(op, p) ==
    LET ready == journal.state = "ready"
        same  == (op = "add") = (p \in journal.policy)
        start == [Idle EXCEPT !.op = op, !.path = {p}, !.wasReady = ready]
    IN /\ At("idle")
       /\ Spend("commands")
       /\ run' = IF ready /\ ~Pending /\ same
                 THEN [start EXCEPT !.onError = "degrade",
                                    !.pc = IF settings = journal.policy THEN "ready" ELSE "degrade"]
                 ELSE [start EXCEPT !.pc = "guard"]
       /\ UNCHANGED <<network, journal, settings, birth, kernel, served>>

\* check(): the health loop's periodic verification.
Check ==
    /\ At("idle")
    /\ ~Retired
    /\ run' = [Idle EXCEPT !.op = "check", !.onError = "degrade",
                 !.pc = IF Pending \/ journal.peer # 0 \/ ~journal.started \/ settings # journal.policy
                        THEN "degrade" ELSE "ready"]
    /\ UNCHANGED <<network, journal, settings, birth, kernel, served, budget>>

\* _needs_activation(): what a check cannot recover.
NeedsActivation ==
    \/ Pending \/ journal.peer # 0
    \/ journal.pins = 0 \/ ~journal.started
    \/ receipt # NoReceipt /\ ~Complete

\* watch(): start-up activates unless the journal is ready or retired; the
\* loop activates after a check degraded what only activation recovers.
Activates ==
    /\ At("idle")
    /\ run' = [Idle EXCEPT !.op = "activate", !.pc = "guard"]
    /\ UNCHANGED <<network, journal, settings, birth, kernel, served, budget>>
WatchStarts == ~Retired /\ (journal.state # "ready" \/ Pending) /\ Activates
WatchActivates == journal.state = "degraded" /\ NeedsActivation /\ Activates

----------------------------------------------------------------------------
(* _guard(): establish the blocked guard, finish what was interrupted.      *)

\* A known guard is blocked before anything that can fail.
GuardEnter ==
    /\ At("guard")
    /\ IF journal.state = "disabling" THEN Raise /\ UNCHANGED kernel
       ELSE IF journal.state = "disabled" /\ run.op # "activate" THEN Finish /\ UNCHANGED kernel
       ELSE IF journal.pins # 0 /\ ~Observed(FALSE) THEN Raise /\ UNCHANGED kernel
       ELSE Goto("inputs") /\ IF journal.pins # 0 THEN Blocked ELSE UNCHANGED kernel
    /\ UNCHANGED <<network, journal, settings, birth, served, budget>>

\* A new lifetime journals "loading" first.  Its allocation avoids whatever is
\* live, so a leftover of an earlier lifetime is not one of its resources.
NewLifetime ==
    /\ At("inputs")
    /\ journal.state \in {"absent", "disabled"}
    /\ IF Exists \/ receipt # NoReceipt \/ ~NamesFree
       THEN Raise /\ UNCHANGED <<journal, live, unrecorded>>
       ELSE /\ Save([NoJournal EXCEPT !.state = "loading", !.policy = settings])
            /\ live' = {} /\ unrecorded' = "none"
            /\ Goto("load")
    /\ UNCHANGED <<receipt, fenced, tunnel, bound, settings, birth, kernel, served, budget>>

OldLifetime ==
    /\ At("inputs")
    /\ journal.state \notin {"absent", "disabled"}
    /\ IF ~Pending /\ settings # journal.policy THEN Raise ELSE Goto("load")
    /\ UNCHANGED <<network, journal, settings, birth, kernel, served, budget>>

\* Mutant of Forgotten: a record left by a killed load is kept.
ForgottenNever == birth
\* _forget_birth(): a stale birth record is forgotten before a new load.
Forgotten == 0
ForgetBirth ==
    /\ At("load")
    /\ birth' = IF journal.pins = 0 /\ ~Exists THEN Forgotten ELSE birth
    /\ Goto(IF journal.pins # 0 THEN "resume" ELSE IF Exists THEN "claim" ELSE "record")
    /\ UNCHANGED <<network, journal, settings, kernel, served, budget>>

\* bpf-loader load: identities recorded (O_EXCL), then published by a rename.
RecordBirth ==
    /\ At("record")
    /\ IF birth = 0
       THEN birth' = 1 /\ Goto("publish")
       ELSE UNCHANGED birth /\ Raise
    /\ UNCHANGED <<network, journal, settings, kernel, served, budget>>

PublishGuard ==
    /\ At("publish")
    /\ kernel' = [pins |-> birth, whole |-> TRUE, state |-> "blocked", paths |-> journal.policy]
    /\ Goto("claim")
    /\ UNCHANGED <<network, journal, settings, birth, served, budget>>

\* _claim_birth(): only pins the record names are adopted.
ClaimBirth ==
    /\ At("claim")
    /\ IF /\ birth # 0 /\ birth = kernel.pins /\ kernel.whole
          /\ kernel.state = "blocked" /\ kernel.paths = journal.policy
       THEN Save([journal EXCEPT !.pins = kernel.pins]) /\ Goto("forget")
       ELSE UNCHANGED journal /\ Raise
    /\ UNCHANGED <<network, settings, birth, kernel, served, budget>>

ClaimForgets ==
    /\ At("forget")
    /\ birth' = Forgotten
    /\ Goto(IF run.op = "disable" THEN "disableBlock" ELSE "resume")
    /\ UNCHANGED <<network, journal, settings, kernel, served, budget>>

\* _recover_edit(): kernel, then settings.json, then the journal.
RecoverKernel ==
    /\ At("recover") /\ Pending
    /\ IF /\ settings \in {journal.policy, NewPolicy}
          /\ Observed(FALSE) /\ kernel.paths \in {journal.policy, NewPolicy}
       THEN /\ kernel' = [kernel EXCEPT !.state = "blocked", !.paths = NewPolicy]
            /\ Goto("recoverDisk")
       ELSE Raise /\ UNCHANGED kernel
    /\ UNCHANGED <<network, journal, settings, birth, served, budget>>

RecoverDisk ==
    /\ At("recoverDisk")
    /\ settings' = NewPolicy
    /\ Goto("recoverSave")
    /\ UNCHANGED <<network, journal, birth, kernel, served, budget>>

\* Mutant of Committed: the transaction ends without its policy.
CommittedWithoutPolicy == [journal EXCEPT !.pending = <<>>, !.state = "blocked"]
Committed == [journal EXCEPT !.policy = NewPolicy, !.pending = <<>>, !.state = "blocked"]
RecoverSave ==
    /\ At("recoverSave")
    /\ Save(Committed)
    /\ IF run.op = "disable" THEN Goto("disableClaim")
       ELSE IF run.onError = "raise" THEN Goto("guarded")
       ELSE IF run.wasReady THEN Goto("ready") ELSE Finish
    /\ UNCHANGED <<network, settings, birth, kernel, served, budget>>

RecoverNothing ==
    /\ At("recover") /\ ~Pending
    /\ Goto("guarded")
    /\ UNCHANGED <<network, journal, settings, birth, kernel, served, budget>>

\* The end of _guard, and what its caller does next.
Guarded ==
    /\ At("guarded")
    /\ IF Observed(TRUE)
       THEN /\ Blocked
            /\ Save([journal EXCEPT !.state = "blocked"])
            /\ IF run.op = "guard" THEN Finish
               ELSE IF run.op = "activate" THEN run' = [run EXCEPT !.pc = "started", !.onError = "degrade"]
               ELSE Goto("edit")
       ELSE Raise /\ UNCHANGED <<journal, kernel>>
    /\ UNCHANGED <<network, settings, birth, served, budget>>

\* _edit(): the intent is durable before the kernel changes.
Edit ==
    /\ At("edit")
    /\ IF NoChange
       THEN /\ IF run.wasReady THEN Goto("ready") ELSE Finish
            /\ UNCHANGED journal
       ELSE /\ Save([journal EXCEPT !.pending =
                       <<IF run.op = "add" THEN journal.policy \cup run.path ELSE journal.policy \ run.path>>])
            /\ run' = [run EXCEPT !.pc = "recover", !.onError = "degrade"]
    /\ UNCHANGED <<network, settings, birth, kernel, served, budget>>

\* _degrade(): block if the guard is still the journaled one, then say so.
DegradeBlock ==
    /\ At("degrade")
    /\ IF Observed(~Pending) THEN Blocked ELSE UNCHANGED kernel
    /\ Goto("degradeSave")
    /\ UNCHANGED <<network, journal, settings, birth, served, budget>>

DegradeSave ==
    /\ At("degradeSave")
    /\ Save([journal EXCEPT !.state = "degraded"])
    /\ Finish
    /\ UNCHANGED <<network, settings, birth, kernel, served, budget>>

----------------------------------------------------------------------------
(* activate() past the guard: settle an interrupted acquisition, prepare.   *)

\* Mutant of Interrupted: a missing resource looks like an unfinished acquisition.
InterruptedOrMissing == receipt # NoReceipt /\ (~Complete \/ Missing # {})
\* incomplete(): some required resource was never recorded.
Interrupted == receipt # NoReceipt /\ ~Complete

\* A started network has a receipt; one that never became complete is rolled
\* back; an unjournaled receipt is empty.
Started ==
    /\ At("started")
    /\ IF journal.started
       THEN /\ UNCHANGED network
            /\ IF receipt = NoReceipt THEN Raise
               ELSE IF ~Interrupted THEN Goto("preparing")
               ELSE IF unrecorded # "none" \/ Changed(journal.active) THEN Raise
               ELSE Goto("release")
       ELSE IF receipt > 0 THEN Raise /\ UNCHANGED network
       ELSE Goto("preparing") /\ IF receipt = 0 THEN DiscardReceipt ELSE UNCHANGED network
    /\ UNCHANGED <<journal, settings, birth, kernel, served, budget>>

\* Network.disable(): one record at a time, last acquired first.
Release ==
    /\ At("release")
    /\ IF receipt > 0
       THEN RemoveTop /\ UNCHANGED run
       ELSE /\ UNCHANGED network
            /\ Goto(IF run.op = "disable" THEN "discard" ELSE "unstart")
    /\ UNCHANGED <<journal, settings, birth, kernel, served, budget>>

\* After a rollback the journal forgets the acquisition before the receipt goes.
Unstart ==
    /\ At("unstart")
    /\ Save([journal EXCEPT !.started = FALSE])
    /\ Goto("discard")
    /\ UNCHANGED <<network, settings, birth, kernel, served, budget>>

Discard ==
    /\ At("discard")
    /\ DiscardReceipt
    /\ Goto(IF run.op = "disable" THEN "unpin" ELSE "preparing")
    /\ UNCHANGED <<journal, settings, birth, kernel, served, budget>>

Preparing ==
    /\ At("preparing")
    /\ Save([journal EXCEPT !.state = "preparing"])
    /\ Goto(IF receipt = NoReceipt THEN "prepare" ELSE "ready")
    /\ UNCHANGED <<network, settings, birth, kernel, served, budget>>

\* prepare(): preflight, then the empty receipt, then the journal, then births.
Prepare ==
    /\ At("prepare")
    /\ IF NamesFree
       THEN PublishReceipt /\ Goto("journalStart")
       ELSE UNCHANGED network /\ Raise
    /\ UNCHANGED <<journal, settings, birth, kernel, served, budget>>

JournalStart ==
    /\ At("journalStart")
    /\ Save([journal EXCEPT !.started = TRUE])
    /\ run' = [run EXCEPT !.pc = "create", !.peer = journal.active, !.back = "ready"]
    /\ UNCHANGED <<network, settings, birth, kernel, served, budget>>

\* Births, shared by prepare, repair_missing and switch_peer.  What vanished
\* again before its readback is an error, as is a route without its interface.
CreateResource ==
    /\ At("create")
    /\ Create(NextBirth)
    /\ Goto("capture")
    /\ UNCHANGED <<journal, settings, birth, kernel, served, budget>>

CreateRoute ==
    /\ At("route")
    /\ IF "interface" \in live
       THEN Create("preferred") /\ Goto("capture")
       ELSE Raise /\ UNCHANGED network
    /\ UNCHANGED <<journal, settings, birth, kernel, served, budget>>

CaptureResource ==
    /\ At("capture")
    /\ IF unrecorded = "none"
       THEN Raise /\ UNCHANGED network
       ELSE /\ Capture(run.peer)
            /\ Goto(IF unrecorded = "interface" THEN "configure"
                    ELSE IF unrecorded = "preferred" THEN run.back ELSE "create")
    /\ UNCHANGED <<journal, settings, birth, kernel, served, budget>>

ConfigureInterface ==
    /\ At("configure")
    /\ IF "interface" \in live
       THEN Configure(run.peer) /\ Goto("route")
       ELSE Raise /\ UNCHANGED network
    /\ UNCHANGED <<journal, settings, birth, kernel, served, budget>>

----------------------------------------------------------------------------
(* _ready(): verify, repair, probe, and only then let new sockets through.  *)

Ready ==
    /\ At("ready")
    /\ IF Observed(TRUE)
       THEN LET held == kernel.state = "ready" /\ journal.state = "ready" IN
            /\ run' = [run EXCEPT !.pc = "health", !.held = held]
            /\ IF held THEN UNCHANGED kernel ELSE Blocked
       ELSE Raise /\ UNCHANGED kernel
    /\ UNCHANGED <<network, journal, settings, birth, served, budget>>

\* Missing tunnel resources are repaired under a blocked guard.
Health ==
    /\ At("health")
    /\ IF HealthReady(journal.active) THEN Goto("probe") /\ UNCHANGED kernel
       ELSE IF Changed(journal.active) \/ receipt <= 0 \/ ~Observed(TRUE) THEN Raise /\ UNCHANGED kernel
       ELSE /\ Blocked
            /\ run' = [run EXCEPT !.pc = "repair", !.held = FALSE, !.peer = journal.active, !.back = "probe"]
    /\ UNCHANGED <<network, journal, settings, birth, served, budget>>

\* repair_missing(): drop a half-configured interface or a fenced route that
\* an interrupted repair left, then fence what is missing and recreate it.
Repair ==
    /\ At("repair")
    /\ IF HealthReady(run.peer) THEN Goto(run.back) /\ UNCHANGED network
       ELSE IF Changed(run.peer) \/ ~Complete \/ ~AnchorsLive THEN Raise /\ UNCHANGED network
       ELSE IF "interface" \in live /\ tunnel # run.peer THEN Delete(Replaceable) /\ UNCHANGED run
       ELSE IF fenced /\ "preferred" \in live THEN Delete({"preferred"}) /\ UNCHANGED run
       ELSE Fence /\ Goto(IF "interface" \in live THEN "route" ELSE "create")
    /\ UNCHANGED <<journal, settings, birth, kernel, served, budget>>

\* The peer has no usable underlay: a switch commits anyway once the target is
\* bound, a repair counts it against the peer, without a pool it is an error.
UnderlayUnavailable ==
    /\ At("repair")
    /\ Complete /\ AnchorsLive /\ ~Changed(run.peer) /\ Missing # {}
    /\ "interface" \in live => tunnel = run.peer
    /\ Spend("faults")
    /\ IF run.back = "commitPeer" THEN Goto("commitPeer")
       ELSE IF Peers > 1 THEN run' = [run EXCEPT !.pc = "failedProbe", !.incomplete = TRUE]
       ELSE Raise
    /\ UNCHANGED <<network, journal, settings, birth, kernel, served>>

\* probe(), the second health(), set_state and its readback.
ProbeAnswers ==
    /\ At("probe")
    /\ IF HealthReady(journal.active) /\ Observed(TRUE) /\ (run.held => kernel.state = "ready")
       THEN /\ kernel' = [kernel EXCEPT !.state = "ready"]
            /\ served' = TRUE
            /\ Goto("saveReady")
       ELSE Raise /\ UNCHANGED <<kernel, served>>
    /\ UNCHANGED <<network, journal, settings, birth, budget>>

SaveReady ==
    /\ At("saveReady")
    /\ Save([journal EXCEPT !.state = "ready", !.failures = 0])
    /\ Finish
    /\ UNCHANGED <<network, settings, birth, kernel, served, budget>>

ProbeUnavailable ==
    /\ At("probe")
    /\ Spend("faults")
    /\ IF Peers > 1 THEN run' = [run EXCEPT !.pc = "failedProbe", !.incomplete = FALSE] ELSE Raise
    /\ UNCHANGED <<network, journal, settings, birth, kernel, served>>

----------------------------------------------------------------------------
(* Peer failover.                                                           *)

Failures == IF journal.failures < FAILURES_BEFORE_SWITCH THEN journal.failures + 1
            ELSE FAILURES_BEFORE_SWITCH

\* _failed_probe(): count the failure; after enough of them, and once the
\* switch interval has passed, journal the intent to move to another peer.
\* Whether the interval has passed and which peers pass preflight is free.
FailedProbe ==
    LET counted  == [journal EXCEPT !.failures = Failures, !.state = "degraded"]
        safe     == \/ HealthReady(journal.active)
                    \/ run.incomplete /\ AnchorsLive /\ Missing \subseteq Replaceable
    IN /\ At("failedProbe")
       /\ IF Pending \/ ~Observed(TRUE)
          THEN Raise /\ UNCHANGED <<journal, kernel>>
          ELSE /\ Blocked
               /\ IF Changed(journal.active) \/ ~safe
                  THEN Raise /\ UNCHANGED journal
                  ELSE \/ Save(counted) /\ Finish
                       \/ /\ Failures >= FAILURES_BEFORE_SWITCH
                          /\ \E p \in 1..Peers \ {journal.active} :
                               Save([counted EXCEPT !.peer = p, !.failures = 0])
                          /\ run' = [run EXCEPT !.pc = "resume", !.then = "idle"]
       /\ UNCHANGED <<network, settings, birth, served, budget>>

\* _resume_peer_change(), from _guard or right after the intent was journaled.
ResumePeer ==
    /\ At("resume") /\ journal.peer # 0
    /\ IF ~Pending /\ Observed(TRUE) /\ receipt # NoReceipt /\ journal.started
       THEN /\ Blocked
            /\ run' = [run EXCEPT !.pc = "switch", !.peer = journal.peer, !.back = "commitPeer",
                                  !.then = IF @ = "idle" THEN @ ELSE "recover"]
       ELSE Raise /\ UNCHANGED kernel
    /\ UNCHANGED <<network, journal, settings, birth, served, budget>>

ResumeNothing ==
    /\ At("resume") /\ journal.peer = 0
    /\ Goto("recover")
    /\ UNCHANGED <<network, journal, settings, birth, kernel, served, budget>>

\* switch_peer(): the anchors stay; only the tunnel is deleted, and the nft
\* record is rebound to the target before the replacement is born.
SwitchPeer ==
    /\ At("switch")
    /\ IF \/ "nft" \notin Recorded \/ bound \notin {journal.active, run.peer}
          \/ Changed(bound) \/ ~AnchorsLive \/ ~Complete
       THEN Raise /\ UNCHANGED network
       ELSE IF bound = run.peer /\ HealthReady(run.peer) THEN Goto("commitPeer") /\ UNCHANGED network
       ELSE IF "preferred" \in live THEN Delete({"preferred"}) /\ UNCHANGED run
       ELSE IF "interface" \in live THEN Delete({"interface"}) /\ UNCHANGED run
       ELSE Rebind(run.peer) /\ Goto("repair")
    /\ UNCHANGED <<journal, settings, birth, kernel, served, budget>>

CommitPeer ==
    /\ At("commitPeer")
    /\ Save([journal EXCEPT !.active = journal.peer, !.peer = 0, !.state = "degraded"])
    /\ IF run.then = "idle" THEN Finish ELSE Goto(run.then)
    /\ UNCHANGED <<network, settings, birth, kernel, served, budget>>

----------------------------------------------------------------------------
(* disable(): release the network under a blocked guard, then the pins.     *)

Disable ==
    /\ At("disable")
    /\ IF journal.state \in {"absent", "disabled"} THEN Finish
       ELSE Goto(IF Pending THEN "recover" ELSE "disableClaim")
    /\ UNCHANGED <<network, journal, settings, birth, kernel, served, budget>>

DisableClaim ==
    /\ At("disableClaim")
    /\ Goto(IF journal.pins = 0 /\ Exists THEN "claim" ELSE "disableBlock")
    /\ UNCHANGED <<network, journal, settings, birth, kernel, served, budget>>

\* Only a removal that was already under way may find the guard incomplete.
Removing == journal.state = "disabling" /\ receipt = NoReceipt
DisableBlock ==
    /\ At("disableBlock")
    /\ IF Removing
       THEN Goto("disabling") /\ UNCHANGED kernel
       ELSE IF Observed(TRUE)
       THEN Goto("disabling") /\ Blocked
       ELSE Raise /\ UNCHANGED kernel
    /\ UNCHANGED <<network, journal, settings, birth, served, budget>>

\* Mutant of Disabling: the pins go before the network.
DisablingSkipsCleanup ==
    /\ At("disabling")
    /\ Save([journal EXCEPT !.state = "disabling"])
    /\ Goto("unpin")
    /\ UNCHANGED <<network, settings, birth, kernel, served, budget>>
Disabling ==
    /\ At("disabling")
    /\ Save([journal EXCEPT !.state = "disabling"])
    /\ Goto(IF receipt # NoReceipt THEN "cleanup" ELSE "unpin")
    /\ UNCHANGED <<network, settings, birth, kernel, served, budget>>

\* A pending switch is cancelled against its old-or-target binding.
Cleanup ==
    /\ At("cleanup")
    /\ IF journal.peer # 0
       THEN IF "nft" \in Recorded /\ bound \in {journal.active, journal.peer} /\ ~Changed(bound)
            THEN Goto("release") ELSE Raise
       ELSE IF receipt > 0 /\ Changed(journal.active) THEN Raise ELSE Goto("release")
    /\ UNCHANGED <<network, journal, settings, birth, kernel, served, budget>>

\* discard: pins go one by one; each must be the journaled one.
Unpin ==
    /\ At("unpin")
    /\ IF Exists
       THEN IF kernel.pins = journal.pins
            THEN /\ kernel' = IF kernel.whole THEN [kernel EXCEPT !.whole = FALSE] ELSE NoGuard
                 /\ UNCHANGED run
            ELSE Raise /\ UNCHANGED kernel
       ELSE Goto("disabled") /\ UNCHANGED kernel
    /\ UNCHANGED <<network, journal, settings, birth, served, budget>>

Disabled ==
    /\ At("disabled")
    /\ Save([journal EXCEPT !.state = "disabled", !.pins = 0, !.pending = <<>>, !.peer = 0])
    /\ served' = FALSE
    /\ Finish
    /\ UNCHANGED <<network, settings, birth, kernel, budget>>

----------------------------------------------------------------------------
(* What the controller does not choose.                                     *)

\* A command, a file operation or a verification fails before its effect.
\* A failed block inside _degrade is swallowed, a failed save there is not.
StepFails ==
    /\ ~At("idle")
    /\ Spend("faults")
    /\ IF At("degrade") THEN Goto("degradeSave") ELSE IF At("degradeSave") THEN Finish ELSE Raise
    /\ UNCHANGED <<network, journal, settings, birth, kernel, served>>

\* The process dies: the lock goes with it, everything durable stays.
Crash ==
    /\ ~At("idle")
    /\ Spend("crashes")
    /\ Finish
    /\ UNCHANGED <<network, journal, settings, birth, kernel, served>>

\* /run, bpffs and the kernel's network start empty; /etc persists.
Reboot ==
    /\ Spend("crashes")
    /\ receipt' = NoReceipt /\ live' = {} /\ unrecorded' = "none"
    /\ fenced' = FALSE /\ tunnel' = 0 /\ bound' = 0
    /\ journal' = NoJournal /\ birth' = 0 /\ kernel' = NoGuard
    /\ run' = Idle /\ served' = FALSE
    /\ UNCHANGED settings

\* The interface is deleted, or only its preferred route.
TunnelLost ==
    /\ Spend("faults")
    /\ \E gone \in {{"preferred"}, Replaceable} : gone \subseteq live /\ Delete(gone)
    /\ UNCHANGED <<journal, settings, birth, kernel, run, served>>

\* The steps of the command in progress.
Step ==
    \/ GuardEnter \/ NewLifetime \/ OldLifetime \/ ForgetBirth \/ RecordBirth \/ PublishGuard
    \/ ClaimBirth \/ ClaimForgets \/ RecoverKernel \/ RecoverDisk \/ RecoverSave \/ RecoverNothing
    \/ Guarded \/ Edit \/ DegradeBlock \/ DegradeSave
    \/ Started \/ Release \/ Unstart \/ Discard \/ Preparing \/ Prepare \/ JournalStart
    \/ CreateResource \/ CreateRoute \/ CaptureResource \/ ConfigureInterface
    \/ Ready \/ Health \/ Repair \/ ProbeAnswers \/ SaveReady
    \/ FailedProbe \/ ResumePeer \/ ResumeNothing \/ SwitchPeer \/ CommitPeer
    \/ Disable \/ DisableClaim \/ DisableBlock \/ Disabling \/ Cleanup \/ Unpin \/ Disabled

Next ==
    \/ Step
    \/ \E op \in {"guard", "activate", "disable"} : Command(op)
    \/ \E op \in {"add", "remove"}, p \in Paths : Include(op, p)
    \/ Check \/ WatchStarts \/ WatchActivates
    \/ UnderlayUnavailable \/ ProbeUnavailable
    \/ StepFails \/ Crash \/ Reboot \/ TunnelLost

Spec == Init /\ [][Next]_vars

\* A person who asked to disable keeps asking.
RetryDisable ==
    /\ At("idle")
    /\ journal.state = "disabling"
    /\ run' = [Idle EXCEPT !.op = "disable", !.pc = "disable"]
    /\ UNCHANGED <<network, journal, settings, birth, kernel, served, budget>>

\* A command runs to its end; the health loop comes round again.  Crashes and
\* faults are bounded, so this asks what happens once they cease.
FairSpec ==
    /\ Init /\ [][Next \/ RetryDisable]_vars
    /\ WF_vars(Step)
    /\ SF_vars(Check) /\ SF_vars(WatchActivates) /\ SF_vars(RetryDisable)

----------------------------------------------------------------------------
(* Properties.                                                              *)

States == {"absent", "loading", "blocked", "preparing", "ready", "degraded", "disabling", "disabled"}
Pcs == {"idle", "guard", "inputs", "load", "record", "publish", "claim", "forget", "resume", "recover",
        "recoverDisk", "recoverSave", "guarded", "edit", "degrade", "degradeSave", "started", "release",
        "unstart", "discard", "preparing", "prepare", "journalStart", "create", "capture", "configure",
        "route", "ready", "health", "repair", "probe", "saveReady", "failedProbe", "switch", "commitPeer",
        "disable", "disableClaim", "disableBlock", "disabling", "cleanup", "unpin", "disabled"}
Journals ==
    [state : States, policy : SUBSET Paths, pins : {0, 1}, pending : {<<>>} \cup {<<p>> : p \in SUBSET Paths},
     started : BOOLEAN, active : 1..Peers, peer : 0..Peers, failures : 0..FAILURES_BEFORE_SWITCH]
Guards == [pins : {0, 1}, whole : BOOLEAN, state : {"blocked", "ready"}, paths : SUBSET Paths]
Runs ==
    [op : {"idle", "guard", "activate", "disable", "add", "remove", "check"}, pc : Pcs, path : SUBSET Paths,
     onError : {"raise", "degrade"}, wasReady : BOOLEAN, held : BOOLEAN, peer : 0..Peers,
     back : {"none", "ready", "probe", "commitPeer"}, then : {"none", "idle", "recover"}, incomplete : BOOLEAN]

TypeOK ==
    /\ receipt \in NoReceipt..Len(Order)
    /\ live \subseteq Resources
    /\ unrecorded \in live \cup {"none"}
    /\ fenced \in BOOLEAN
    /\ tunnel \in 0..Peers /\ bound \in 0..Peers
    /\ journal \in Journals
    /\ settings \subseteq Paths
    /\ birth \in {0, 1}
    /\ kernel \in Guards
    /\ run \in Runs
    /\ served \in BOOLEAN

\* set_state('ready') in _ready(): whatever interrupted what, a guard that lets
\* selected sockets through is the journaled one, enforces exactly the policy of
\* the journal and of settings.json, has no edit or peer switch half done, and
\* stands on a completely recorded network whose anchors are live and whose
\* firewall record is bound to the peer in use.
ReadyBacked ==
    kernel.state = "ready" =>
        /\ kernel.whole /\ kernel.pins = journal.pins
        /\ kernel.paths = journal.policy /\ settings = journal.policy
        /\ ~Pending /\ journal.peer = 0
        /\ journal.state \notin {"absent", "loading", "disabling", "disabled"}
        /\ journal.started /\ Complete /\ AnchorsLive
        /\ bound = journal.active

\* _edit and _recover_edit: outside a transaction kernel, journal and
\* settings.json agree; inside one the guard is blocked, each is old or new, and
\* settings.json is never ahead of the kernel.
EditAtomic ==
    journal.pins # 0 /\ journal.state # "disabling" =>
        IF Pending
        THEN /\ kernel.state = "blocked"
             /\ kernel.paths \in {journal.policy, NewPolicy}
             /\ settings \in {journal.policy, NewPolicy}
             /\ settings = NewPolicy => kernel.paths = NewPolicy
        ELSE kernel.paths = journal.policy /\ settings = journal.policy

\* disable() and _guard(): while any network resource is recorded the whole
\* journaled guard is pinned; the pins are the last thing to go.
GuardOutlivesNetwork ==
    receipt > 0 => kernel.whole /\ kernel.pins = journal.pins /\ journal.pins # 0

\* The guard and the network stand together, however either was interrupted.
Backed == TypeOK /\ ReadyBacked /\ GuardOutlivesNetwork

\* rollback_interrupted(), repair_missing() and switch_peer(): once selected
\* sockets have been marked under a network, only an explicit disable removes
\* its firewall, rule or fallback route, and never under a guard that lets new
\* sockets through.  (A reboot takes the guard and the network together.)
AnchorStep ==
    (live \cap Anchors) \ live' # {} /\ journal'.state # "absent" =>
        /\ kernel.state = "blocked"
        /\ served /\ served' => journal.state = "disabling"
AnchorsKept == [][AnchorStep]_vars

\* watch(): a lifetime that is not retired, and whose interrupted acquisition
\* left nothing unrecorded, is eventually ready again, wherever it was killed.
\* disable(): "a removal interrupted after any unpin resumes" (its comment):
\* retried, a disable that met no unrecorded birth and no pending switch
\* completes, wherever it was interrupted.
Recoverable == ~Retired /\ unrecorded = "none"
Removable == journal.state = "disabling" /\ unrecorded = "none"
Recovers ==
    /\ Recoverable ~> (kernel.state = "ready" \/ ~Recoverable)
    /\ Removable /\ journal.peer = 0 ~> ~Removable

\* A retried disable completes with a pending switch too, which an explicit
\* disable "can cancel" (docs/linux.md).
DisableCompletes == Removable ~> ~Removable

\* docs/linux.md, "Unproved runtime ownership also stops cleanup": disable()
\* does not complete while a birth that no record names is still live.
UnprovedStopsCleanup == journal.state = "disabled" => unrecorded = "none"
=============================================================================
