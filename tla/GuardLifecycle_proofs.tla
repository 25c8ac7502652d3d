------------------------ MODULE GuardLifecycle_proofs ------------------------
(***************************************************************************)
(* What the Linux controller keeps however it is interrupted, for any set  *)
(* of executables, any pool of peers and any number of commands, crashes   *)
(* and faults.                                                             *)
(*                                                                         *)
(* Every durable step is taken under the state lock, so the argument is    *)
(* about one program: which facts hold at each of its steps (the           *)
(* invariants over run.pc), and that nothing durable depends on more than  *)
(* what survives its death (JournalInv).                                   *)
(***************************************************************************)
EXTENDS GuardLifecycle, TLAPS

\* The steps at which the guard may be letting sockets through.
Open == {"idle", "guard", "ready", "health", "probe", "saveReady", "failedProbe", "degrade", "degradeSave",
         "disable", "disableClaim", "disableBlock"}
\* The steps of a disable, and those that only a disable takes.
DisablePcs == {"disable", "recover", "recoverDisk", "recoverSave", "disableClaim", "claim", "forget",
               "disableBlock", "disabling", "cleanup", "release", "discard", "unpin", "disabled"}
OnlyDisable == {"disable", "disableClaim", "disableBlock", "disabling", "cleanup", "unpin", "disabled"}
\* The steps that bring resources into being.
Building == {"create", "capture", "configure", "route"}
\* The steps between the end of _guard and a change of the network, and those of _ready.
Past == {"guarded", "edit", "started", "release", "unstart", "discard", "preparing", "prepare", "journalStart",
         "ready", "health", "probe", "saveReady"}

\* The whole journaled guard is pinned.
GuardHeld == kernel.whole /\ kernel.pins = journal.pins /\ journal.pins # 0

\* What the durable state says by itself.
JournalInv ==
    /\ journal.pins = 0 => ~Pending
    /\ journal.pins = 0 /\ journal.state \notin {"absent", "disabled"} => settings = journal.policy
    /\ journal.state \in {"absent", "disabled"} => journal.pins = 0 /\ ~served
    /\ journal.state = "disabling" => journal.pins # 0 /\ ~Pending
    /\ journal.state = "ready" => journal.peer = 0
    /\ journal.state = "loading" => ~journal.started
    /\ receipt > 0 => journal.started
    /\ served => Complete \/ journal.state = "disabling"
    /\ kernel.state = "ready" => kernel.pins # 0

\* A change of anything but the journal's state finds the guard blocked.
BlockInv == run.pc \notin Open => kernel.state = "blocked"

\* Which command takes which steps, and what its errors do.
OpAt(pc) ==
    /\ run.op = "disable" => run.onError = "raise" /\ pc \in DisablePcs
    /\ pc \in OnlyDisable => run.op = "disable"
    /\ pc \in {"guard", "inputs"} => run.onError = "raise"
    /\ journal.state \in {"absent", "disabled"} => pc \in {"idle", "guard", "inputs", "disable"}
    /\ journal.state = "disabling" => pc \in {"idle", "guard"} \/ run.op = "disable"

\* Loading and claiming, and the steps of an edit.
EditAt(pc) ==
    /\ pc \in {"record", "publish", "claim"} => journal.pins = 0
    /\ pc = "forget" => journal.pins # 0 /\ ~Pending
    /\ pc \in {"recoverDisk", "recoverSave"} => Pending /\ kernel.paths = NewPolicy
    /\ pc = "recover" /\ run.op = "disable" => Pending
    /\ pc = "recoverSave" => settings = NewPolicy
    /\ pc \in OnlyDisable \ {"disable"} => ~Pending
    /\ pc \in Past => ~Pending

\* Removal: the pins go only when no receipt is left.
DisableAt(pc) ==
    /\ pc \in {"cleanup", "unpin", "disabled"} => journal.state = "disabling"
    /\ pc \in {"release", "discard"} /\ run.op = "disable" => journal.state = "disabling"
    /\ pc \in {"unpin", "disabled"} => receipt = NoReceipt
    /\ pc = "disabling" => journal.pins # 0

\* Acquisition, repair and rollback stand on a guard that is held.
NetAt(pc) ==
    /\ pc \in Building => GuardHeld /\ journal.started /\ receipt >= 0
    /\ pc \in {"edit", "started", "unstart", "preparing", "prepare", "journalStart", "repair", "switch",
                   "commitPeer"} => GuardHeld
    /\ pc \in {"release", "discard"} /\ run.op # "disable" => GuardHeld /\ ~Complete
    /\ pc = "prepare" => receipt = NoReceipt
    /\ pc = "journalStart" => receipt = 0
    /\ pc \in {"prepare", "journalStart"} => journal.state = "preparing"
    /\ pc = "unstart" => receipt <= 0

\* Where a peer switch is pending, and where a birth returns to.
PeerAt(pc) ==
    /\ pc \in Past \cup {"recover", "recoverDisk", "recoverSave", "failedProbe"} /\ run.op # "disable"
          => journal.peer = 0
    /\ pc \in Building \cup {"repair"} =>
          /\ run.back \in {"ready", "probe", "commitPeer"}
          /\ run.back # "commitPeer" => journal.peer = 0 /\ ~Pending
    /\ pc \in {"switch", "commitPeer"} => run.back = "commitPeer"
    /\ pc \in Building \cup {"repair", "switch", "commitPeer"} /\ run.back = "commitPeer"
          => journal.peer # 0 /\ run.then \in {"idle", "recover"}

\* The facts of a step, which hold of the next step to be taken.
Fits(pc) == OpAt(pc) /\ EditAt(pc) /\ DisableAt(pc) /\ NetAt(pc) /\ PeerAt(pc)

DataInv == ReadyBacked /\ EditAtomic /\ GuardOutlivesNetwork /\ JournalInv
PcInv == BlockInv /\ Fits(run.pc)
IInv == TypeOK /\ DataInv /\ PcInv

-----------------------------------------------------------------------------
(* Records and the resources' order.                                       *)

\* There are peers, and a switch takes at least one failure.
LEMMA PeersNat == Peers \in Nat \ {0} /\ FAILURES_BEFORE_SWITCH \in Nat \ {0}
BY PoolAssumption, Zenon

\* The five owned resources, in the order in which they are acquired.
LEMMA OrderFacts ==
    /\ Len(Order) = 5 /\ Resources = {"fallback", "rule", "nft", "interface", "preferred"}
    /\ \A i \in 1..5 : Order[i] \in Resources
BY DEF Order, Resources

\* The state between commands is one of the controller's states.
LEMMA IdleFacts ==
    /\ Idle \in Runs /\ Idle.pc = "idle" /\ Idle.op = "idle" /\ Idle.onError = "raise"
BY PeersNat DEF Idle, Runs, Pcs

\* A jump changes nothing of the command but its next step.
LEMMA GotoFacts ==
    ASSUME run \in Runs, NEW pc \in Pcs, Goto(pc)
    PROVE  /\ run' \in Runs /\ run'.pc = pc /\ run'.op = run.op /\ run'.onError = run.onError
           /\ run'.back = run.back /\ run'.then = run.then
BY ZenonT(120) DEF Goto, Runs

\* An error ends the command or goes to its handler.
LEMMA RaiseFacts ==
    ASSUME run \in Runs, Raise
    PROVE  /\ run' \in Runs
           /\ \/ run'.pc = "idle" /\ run'.op = "idle"
              \/ run'.pc = "degrade" /\ run'.op = run.op /\ run.onError = "degrade"
<1>1. CASE run.onError = "degrade"
  BY <1>1, GotoFacts, ZenonT(120) DEF Raise, Pcs
<1>2. CASE run.onError # "degrade"
  BY <1>2, IdleFacts, Zenon DEF Raise, Finish
<1>3. QED
  BY <1>1, <1>2, Zenon

\* Blocking the guard changes nothing else of it.
LEMMA BlockedFacts ==
    ASSUME kernel \in Guards, Blocked
    PROVE  /\ kernel' \in Guards /\ kernel'.state = "blocked" /\ kernel'.pins = kernel.pins
           /\ kernel'.whole = kernel.whole /\ kernel'.paths = kernel.paths
BY Zenon DEF Blocked, Guards

-----------------------------------------------------------------------------
(* Steps that leave the durable state and the network alone, but may block *)
(* the guard.                                                              *)

Kept == UNCHANGED <<network, journal, settings, served>> /\ birth' \in {0, 1} /\ (UNCHANGED kernel \/ Blocked)

\* What holds of the files and the kernel survives a step that at most blocks the guard.
LEMMA KeptData ==
    ASSUME TypeOK, DataInv, Kept
    PROVE  /\ DataInv' /\ kernel' \in Guards
           /\ kernel'.state \in {kernel.state, "blocked"} /\ kernel'.pins = kernel.pins
           /\ kernel'.whole = kernel.whole /\ kernel'.paths = kernel.paths
<1>1. /\ kernel' \in Guards
      /\ kernel'.state \in {kernel.state, "blocked"} /\ kernel'.pins = kernel.pins
      /\ kernel'.whole = kernel.whole /\ kernel'.paths = kernel.paths
  BY BlockedFacts, Zenon DEF Kept, TypeOK
<1>2. kernel'.state = kernel.state \/ kernel'.state = "blocked"
  BY <1>1, Zenon
<1>3. UNCHANGED <<receipt, live, bound, journal, settings, served>>
  BY Zenon DEF Kept, network
<1>4. ReadyBacked'
  BY <1>1, <1>2, <1>3, Zenon DEF DataInv, ReadyBacked, Pending, Complete, AnchorsLive
<1>5. EditAtomic'
  BY <1>1, <1>2, <1>3, Zenon DEF DataInv, EditAtomic, Pending, NewPolicy
<1>6. GuardOutlivesNetwork' /\ JournalInv'
  BY <1>1, <1>2, <1>3, ZenonT(120) DEF DataInv, GuardOutlivesNetwork, JournalInv, Pending, Complete
<1>7. QED
  BY <1>1, <1>4, <1>5, <1>6, ZenonT(120) DEF DataInv

\* Such a step keeps IInv if it goes where its facts hold.
LEMMA KeptStep ==
    ASSUME IInv, Kept, run' \in Runs, PcInv'
    PROVE  IInv'
BY KeptData, Zenon DEF IInv, TypeOK, Kept, network

\* The command goes on to another step.
Moves(pc) ==
    /\ run' \in Runs /\ run'.pc = pc /\ run'.op = run.op /\ run'.onError = run.onError
    /\ run'.back = run.back /\ run'.then = run.then

\* So it does when it notes on the way whether the guard was held, or the probe incomplete.
LEMMA NoteMoves ==
    ASSUME run \in Runs, NEW pc \in Pcs, NEW b \in BOOLEAN,
           run' = [run EXCEPT !.pc = pc, !.held = b] \/ run' = [run EXCEPT !.pc = pc, !.incomplete = b]
    PROVE  Moves(pc)
<1>1. CASE run' = [run EXCEPT !.pc = pc, !.held = b]
  BY <1>1, ZenonT(120) DEF Runs, Moves
<1>2. CASE run' = [run EXCEPT !.pc = pc, !.incomplete = b]
  BY <1>2, ZenonT(120) DEF Runs, Moves
<1>3. QED
  BY <1>1, <1>2, Zenon

\* It keeps IInv if the facts of that step hold.
LEMMA MoveKeeps ==
    ASSUME IInv, Kept, NEW pc, Moves(pc), Fits(pc), pc \notin Open => kernel'.state = "blocked"
    PROVE  IInv'
<1>1. /\ UNCHANGED <<receipt, journal, settings>>
      /\ kernel'.pins = kernel.pins /\ kernel'.whole = kernel.whole /\ kernel'.paths = kernel.paths
  BY KeptData, ZenonT(120) DEF IInv, Kept, network
<1>2. OpAt(run.pc)' /\ EditAt(run.pc)' /\ DisableAt(run.pc)'
  BY <1>1, SMTT(120) DEF Moves, Fits, OpAt, EditAt, DisableAt, Pending, NewPolicy
<1>3. NetAt(run.pc)' /\ PeerAt(run.pc)'
  BY <1>1 DEF Moves, Fits, NetAt, PeerAt, GuardHeld, Complete, Pending
<1>4. PcInv'
  BY <1>2, <1>3, Zenon DEF PcInv, Fits, BlockInv, Moves
<1>5. QED
  BY <1>4, KeptStep, Zenon DEF Moves

\* A step that only moves on is right when the facts of the next step hold.
LEMMA GotoKeeps ==
    ASSUME IInv, Kept, NEW pc \in Pcs, Goto(pc), Fits(pc), pc \notin Open => kernel'.state = "blocked"
    PROVE  IInv'
BY MoveKeeps, GotoFacts, Zenon DEF IInv, TypeOK, Moves

\* Nothing is asked of an idle controller.
LEMMA IdleFits ==
    ASSUME run'.pc = "idle", run'.op = "idle"
    PROVE  PcInv'
BY Zenon DEF PcInv, Fits, OpAt, BlockInv, EditAt, DisableAt, NetAt, PeerAt, Open, OnlyDisable, Past, Building

\* What the facts of a step depend on.
LEMMA SameFits ==
    ASSUME PcInv, UNCHANGED <<run, journal, settings, kernel, receipt>>
    PROVE  PcInv'
<1>1. OpAt(run.pc)' /\ EditAt(run.pc)' /\ DisableAt(run.pc)'
  BY ZenonT(120) DEF PcInv, Fits, OpAt, EditAt, DisableAt, Pending, NewPolicy
<1>2. NetAt(run.pc)' /\ PeerAt(run.pc)'
  BY DEF PcInv, Fits, NetAt, PeerAt, GuardHeld, Complete, Pending
<1>3. QED
  BY <1>1, <1>2, ZenonT(120) DEF PcInv, BlockInv, Fits

\* The end of a command keeps it.
LEMMA FinishKeeps ==
    ASSUME IInv, Kept, Finish
    PROVE  IInv'
<1>1. run' \in Runs /\ run'.pc = "idle" /\ run'.op = "idle"
  BY IdleFacts, Zenon DEF Finish
<1>2. PcInv'
  BY <1>1, IdleFits, Zenon
<1>3. QED
  BY <1>1, <1>2, KeptStep, Zenon

\* So does an error: a handler that degrades is never entered by a disable, and not
\* before a lifetime has begun.
LEMMA RaiseKeeps ==
    ASSUME IInv, Kept, Raise, run.pc # "idle"
    PROVE  IInv'
<1>1. run' \in Runs
  BY RaiseFacts, Zenon DEF IInv, TypeOK
<1>2. \/ run'.pc = "idle" /\ run'.op = "idle"
      \/ run'.pc = "degrade" /\ run'.op = run.op /\ run.onError = "degrade"
  BY RaiseFacts, Zenon DEF IInv, TypeOK
<1>3. OpAt(run.pc)'
  BY <1>2, ZenonT(120) DEF IInv, PcInv, Fits, OpAt, OnlyDisable, Kept
<1>4. PcInv'
  BY <1>2, <1>3, ZenonT(120) DEF PcInv, Fits, BlockInv, EditAt, DisableAt, NetAt, PeerAt, Open, OnlyDisable, Past,
     Building
<1>5. QED
  BY <1>1, <1>4, KeptStep, ZenonT(120)
\* Steps of _guard that only move on.
LEMMA GuardMoves ==
    ASSUME IInv,
           \/ GuardEnter \/ OldLifetime \/ ForgetBirth \/ RecordBirth \/ ClaimForgets \/ RecoverNothing
           \/ ResumeNothing \/ DegradeBlock
    PROVE  IInv'
<1>1. TypeOK /\ DataInv /\ PcInv
  BY Zenon DEF IInv
<1>2. CASE GuardEnter
  <2>1. Kept /\ run.pc = "guard"
    BY <1>1, <1>2, Zenon DEF GuardEnter, Kept, At, TypeOK
  <2>2. CASE Raise \/ Finish
    BY <2>1, <2>2, RaiseKeeps, FinishKeeps, ZenonT(120)
  <2>3. CASE Goto("inputs") /\ journal.state # "disabling" /\ (journal.pins = 0 \/ Blocked)
    <3>1. Fits("inputs")
      BY <1>1, <2>1, <2>3, ZenonT(120) DEF PcInv, Fits, OpAt, EditAt, DisableAt, NetAt, PeerAt, OnlyDisable,
         DisablePcs, Past,
         Building
    <3>2. kernel'.state = "blocked"
      BY <1>1, <2>1, <2>3, KeptData, BlockedFacts, ZenonT(120) DEF DataInv, ReadyBacked, JournalInv, TypeOK, Guards
    <3>3. QED
      BY <2>1, <2>3, <3>1, <3>2, GotoKeeps, ZenonT(120) DEF Pcs
  <2>4. QED
    BY <1>2, <2>2, <2>3, Zenon DEF GuardEnter
<1>3. CASE OldLifetime
  <2>1. /\ Kept /\ run.pc = "inputs" /\ journal.state \notin {"absent", "disabled"} /\ UNCHANGED kernel
        /\ Raise \/ Goto("load")
    BY <1>1, <1>3, Zenon DEF OldLifetime, Kept, At, TypeOK
  <2>2. Fits("load") /\ kernel'.state = "blocked"
    BY <1>1, <2>1, ZenonT(120) DEF PcInv, BlockInv, Fits, OpAt, EditAt, DisableAt, NetAt, PeerAt, Open, OnlyDisable,
       DisablePcs,
       Past, Building
  <2>3. QED
    BY <2>1, <2>2, RaiseKeeps, GotoKeeps, ZenonT(120) DEF Pcs
<1>4. CASE ForgetBirth
  <2>1. Kept /\ run.pc = "load" /\ UNCHANGED kernel
    BY <1>1, <1>4, Zenon DEF ForgetBirth, Forgotten, Kept, At, TypeOK
  <2>2. PICK pc \in {"resume", "claim", "record"} : Goto(pc) /\ (pc # "resume" => journal.pins = 0)
    BY <1>4, Zenon DEF ForgetBirth
  <2>3. Fits(pc) /\ kernel'.state = "blocked"
    BY <1>1, <2>1, <2>2, ZenonT(120) DEF PcInv, BlockInv, Fits, OpAt, EditAt, DisableAt, NetAt, PeerAt, Open, OnlyDisable,
       DisablePcs, Past, Building
  <2>4. QED
    BY <2>1, <2>2, <2>3, GotoKeeps, ZenonT(120) DEF Pcs
<1>5. CASE RecordBirth
  <2>1. Kept /\ run.pc = "record" /\ UNCHANGED kernel /\ (Raise \/ Goto("publish"))
    BY <1>1, <1>5, Zenon DEF RecordBirth, Kept, At, TypeOK
  <2>2. Fits("publish") /\ kernel'.state = "blocked"
    BY <1>1, <2>1, ZenonT(120) DEF PcInv, BlockInv, Fits, OpAt, EditAt, DisableAt, NetAt, PeerAt, Open, OnlyDisable,
       DisablePcs,
       Past, Building
  <2>3. QED
    BY <2>1, <2>2, RaiseKeeps, GotoKeeps, ZenonT(120) DEF Pcs
<1>6. CASE ClaimForgets
  <2>1. Kept /\ run.pc = "forget" /\ UNCHANGED kernel
    BY <1>1, <1>6, Zenon DEF ClaimForgets, Forgotten, Kept, At, TypeOK
  <2>2. PICK pc \in {"disableBlock", "resume"} : Goto(pc) /\ (pc = "disableBlock" <=> run.op = "disable")
    BY <1>6, Zenon DEF ClaimForgets
  <2>3. Fits(pc) /\ kernel'.state = "blocked"
    BY <1>1, <2>1, <2>2, ZenonT(120) DEF PcInv, BlockInv, Fits, OpAt, EditAt, DisableAt, NetAt, PeerAt, Open, OnlyDisable,
       DisablePcs, Past, Building
  <2>4. QED
    BY <2>1, <2>2, <2>3, GotoKeeps, ZenonT(120) DEF Pcs
<1>7. CASE RecoverNothing
  <2>1. Kept /\ run.pc = "recover" /\ ~Pending /\ UNCHANGED kernel /\ Goto("guarded")
    BY <1>1, <1>7, Zenon DEF RecoverNothing, Kept, At, TypeOK
  <2>2. Fits("guarded") /\ kernel'.state = "blocked"
    BY <1>1, <2>1, ZenonT(120) DEF PcInv, BlockInv, Fits, OpAt, EditAt, DisableAt, NetAt, PeerAt, Open, OnlyDisable,
       DisablePcs,
       Past, Building
  <2>3. QED
    BY <2>1, <2>2, GotoKeeps, ZenonT(120) DEF Pcs
<1>8. CASE ResumeNothing
  <2>1. Kept /\ run.pc = "resume" /\ journal.peer = 0 /\ UNCHANGED kernel /\ Goto("recover")
    BY <1>1, <1>8, ZenonT(120) DEF ResumeNothing, Kept, At, TypeOK
  <2>2. Fits("recover") /\ kernel'.state = "blocked"
    BY <1>1, <2>1, ZenonT(120) DEF PcInv, BlockInv, Fits, OpAt, EditAt, DisableAt, NetAt, PeerAt, Open, OnlyDisable,
       DisablePcs,
       Past, Building
  <2>3. QED
    BY <2>1, <2>2, GotoKeeps, ZenonT(120) DEF Pcs
<1>9. CASE DegradeBlock
  <2>1. Kept /\ run.pc = "degrade" /\ Goto("degradeSave")
    BY <1>1, <1>9, Zenon DEF DegradeBlock, Kept, At, TypeOK
  <2>2. Fits("degradeSave")
    BY <1>1, <2>1, Zenon DEF PcInv, Fits, OpAt, EditAt, DisableAt, NetAt, PeerAt, OnlyDisable, DisablePcs, Past, Building
  <2>3. QED
    BY <2>1, <2>2, GotoKeeps, ZenonT(120) DEF Pcs, Open
<1>10. QED
  BY <1>2, <1>3, <1>4, <1>5, <1>6, <1>7, <1>8, <1>9, ZenonT(120)

\* Steps of disable() that only move on.
LEMMA DisableMoves ==
    ASSUME IInv, Disable \/ DisableClaim \/ DisableBlock \/ Cleanup
    PROVE  IInv'
<1>1. TypeOK /\ DataInv /\ PcInv
  BY Zenon DEF IInv
<1>2. CASE Disable
  <2>1. Kept /\ run.pc = "disable" /\ UNCHANGED kernel
    BY <1>1, <1>2, Zenon DEF Disable, Kept, At, TypeOK
  <2>2. CASE Finish
    BY <2>1, <2>2, FinishKeeps, Zenon
  <2>3. CASE \E pc \in {"recover", "disableClaim"} :
               Goto(pc) /\ (Pending <=> pc = "recover") /\ journal.state \notin {"absent", "disabled"}
    <3>1. PICK pc \in {"recover", "disableClaim"} :
            Goto(pc) /\ (Pending <=> pc = "recover") /\ journal.state \notin {"absent", "disabled"}
      BY <2>3, Zenon
    <3>2. Fits(pc) /\ (Pending => kernel.state # "ready")
      BY <1>1, <2>1, <3>1, ZenonT(120) DEF PcInv, DataInv, ReadyBacked, Fits, OpAt, EditAt, DisableAt, NetAt, PeerAt,
         OnlyDisable,
         DisablePcs, Past, Building
    <3>3. pc \notin Open => kernel'.state = "blocked"
      BY <1>1, <2>1, <3>1, <3>2, ZenonT(120) DEF Open, TypeOK, Guards
    <3>4. QED
      BY <2>1, <3>1, <3>2, <3>3, GotoKeeps, ZenonT(120) DEF Pcs
  <2>4. QED
    BY <1>2, <2>2, <2>3, Zenon DEF Disable
<1>3. CASE DisableClaim
  <2>1. Kept /\ run.pc = "disableClaim" /\ UNCHANGED kernel
    BY <1>1, <1>3, Zenon DEF DisableClaim, Kept, At, TypeOK
  <2>2. PICK pc \in {"claim", "disableBlock"} :
          Goto(pc) /\ (pc = "claim" => journal.pins = 0 /\ kernel.pins # 0)
    BY <1>3, Zenon DEF DisableClaim, Exists
  <2>3. Fits(pc)
    BY <1>1, <2>1, <2>2, ZenonT(120) DEF PcInv, Fits, OpAt, EditAt, DisableAt, NetAt, PeerAt, OnlyDisable,
       DisablePcs, Past,
       Building
  <2>4. pc \notin Open => kernel'.state = "blocked"
    BY <1>1, <2>1, <2>2, Zenon DEF Open, DataInv, ReadyBacked, TypeOK, Guards
  <2>5. QED
    BY <2>1, <2>2, <2>3, <2>4, GotoKeeps, ZenonT(120) DEF Pcs
<1>4. CASE DisableBlock
  <2>1. Kept /\ run.pc = "disableBlock"
    BY <1>1, <1>4, Zenon DEF DisableBlock, Kept, At, TypeOK
  <2>2. CASE Raise
    BY <2>1, <2>2, RaiseKeeps, Zenon
  <2>3. CASE Goto("disabling") /\ (journal.state = "disabling" \/ (Blocked /\ Observed(TRUE)))
    <3>1. journal.pins # 0
      BY <1>1, <2>3, Zenon DEF DataInv, JournalInv, Observed, Exists
    <3>2. Fits("disabling")
      BY <1>1, <2>1, <3>1, Zenon DEF PcInv, Fits, OpAt, EditAt, DisableAt, NetAt, PeerAt, OnlyDisable, DisablePcs, Past,
         Building
    <3>3. kernel'.state = "blocked"
      BY <1>1, <2>1, <2>3, KeptData, BlockedFacts, ZenonT(120) DEF DataInv, ReadyBacked, TypeOK, Guards
    <3>4. QED
      BY <2>1, <2>3, <3>2, <3>3, GotoKeeps, ZenonT(120) DEF Pcs
  <2>4. QED
    BY <1>4, <2>2, <2>3, Zenon DEF DisableBlock, Removing
<1>5. CASE Cleanup
  <2>1. Kept /\ run.pc = "cleanup" /\ UNCHANGED kernel /\ (Raise \/ Goto("release"))
    BY <1>1, <1>5, Zenon DEF Cleanup, Kept, At, TypeOK
  <2>2. Fits("release") /\ kernel'.state = "blocked"
    BY <1>1, <2>1, Zenon DEF PcInv, BlockInv, Fits, OpAt, EditAt, DisableAt, NetAt, PeerAt, Open, OnlyDisable, DisablePcs,
       Past, Building
  <2>3. QED
    BY <2>1, <2>2, RaiseKeeps, GotoKeeps, ZenonT(120) DEF Pcs
<1>6. QED
  BY <1>2, <1>3, <1>4, <1>5, Zenon
\* A command starts with nothing in hand.
LEMMA CommandsStart ==
    ASSUME IInv,
           \/ \E op \in {"guard", "activate", "disable"} : Command(op)
           \/ \E op \in {"add", "remove"}, p \in Paths : Include(op, p)
           \/ Check \/ WatchStarts \/ WatchActivates \/ RetryDisable
    PROVE  IInv'
<1>1. TypeOK /\ DataInv /\ PcInv
  BY Zenon DEF IInv
<1>2. CASE \E op \in {"guard", "activate", "disable"} : Command(op)
  <2>1. PICK op \in {"guard", "activate", "disable"} : Command(op)
    BY <1>2, Zenon
  <2>2. Kept
    BY <1>1, <2>1, Zenon DEF Command, Kept, TypeOK
  <2>3. /\ run' \in Runs /\ run'.op = op /\ run'.onError = "raise"
        /\ run'.pc = IF op = "disable" THEN "disable" ELSE "guard"
    <3> DEFINE first == IF op = "disable" THEN "disable" ELSE "guard"
    <3>1. first \in Pcs /\ op \in {"idle", "guard", "activate", "disable", "add", "remove", "check"}
      BY ZenonT(120) DEF Pcs
    <3>2. run' = [Idle EXCEPT !.op = op, !.pc = first]
      BY <2>1, Zenon DEF Command
    <3> HIDE DEF first
    <3>3. run' \in Runs
      BY <3>1, <3>2, IdleFacts, ZenonT(120) DEF Runs
    <3>4. run'.op = op /\ run'.onError = "raise" /\ run'.pc = first
      BY <3>2, IdleFacts, Zenon DEF Runs
    <3>5. QED
      BY <3>3, <3>4, Zenon DEF first
  <2>4. PcInv'
    BY <2>3, ZenonT(120) DEF PcInv, BlockInv, Fits, OpAt, EditAt, DisableAt, NetAt, PeerAt, Open, OnlyDisable,
       DisablePcs, Past,
       Building
  <2>5. QED
    BY <2>2, <2>3, <2>4, KeptStep, ZenonT(120)
<1>3. CASE \E op \in {"add", "remove"}, p \in Paths : Include(op, p)
  <2>1. PICK op \in {"add", "remove"}, p \in Paths : Include(op, p)
    BY <1>3, Zenon
  <2>2. Kept /\ UNCHANGED journal
    BY <1>1, <2>1, Zenon DEF Include, Kept, TypeOK
  <2>3. /\ run' \in Runs /\ run'.op = op
        /\ \/ run'.pc = "guard" /\ run'.onError = "raise"
           \/ run'.pc \in {"ready", "degrade"} /\ journal.state = "ready" /\ ~Pending
    <3> DEFINE ready == journal.state = "ready"
               same == (op = "add") = (p \in journal.policy)
               start == [Idle EXCEPT !.op = op, !.path = {p}, !.wasReady = ready]
               next == IF settings = journal.policy THEN "ready" ELSE "degrade"
    <3>1. start \in Runs /\ start.op = op /\ start.onError = "raise"
      BY IdleFacts, ZenonT(120) DEF Runs
    <3>2. \/ run' = [start EXCEPT !.pc = "guard"]
          \/ run' = [start EXCEPT !.onError = "degrade", !.pc = next] /\ journal.state = "ready" /\ ~Pending
      BY <2>1, Zenon DEF Include
    <3> HIDE DEF start
    <3>3. CASE run' = [start EXCEPT !.pc = "guard"]
      BY <3>1, <3>3 DEF Runs, Pcs
    <3>4. CASE run' = [start EXCEPT !.onError = "degrade", !.pc = next] /\ journal.state = "ready" /\ ~Pending
      <4>1. start.op \in {"add", "remove"} /\ next \in Pcs /\ "degrade" \in {"raise", "degrade"}
        BY <3>1, ZenonT(120) DEF Pcs
      <4>2. run' \in Runs
        BY <3>1, <3>4, <4>1, ZenonT(120) DEF Runs
      <4>3. run'.op = start.op /\ run'.pc = next
        BY <3>1, <3>4, Zenon DEF Runs
      <4>4. QED
        BY <3>1, <3>4, <4>2, <4>3, Zenon
    <3>5. QED
      BY <3>2, <3>3, <3>4, ZenonT(120)
  <2>4. PcInv'
    BY <1>1, <2>2, <2>3, ZenonT(120) DEF PcInv, DataInv, JournalInv, Pending, BlockInv, Fits, OpAt, EditAt, DisableAt,
       NetAt,
       PeerAt, Open, OnlyDisable, DisablePcs, Past, Building
  <2>5. QED
    BY <2>2, <2>3, <2>4, KeptStep, Zenon
<1>4. CASE Check
  <2>1. Kept /\ UNCHANGED journal /\ ~Retired
    BY <1>1, <1>4, Zenon DEF Check, Kept, TypeOK
  <2>2. /\ run' \in Runs /\ run'.op = "check" /\ run'.onError = "degrade"
        /\ run'.pc \in {"ready", "degrade"} /\ (run'.pc = "ready" => ~Pending /\ journal.peer = 0)
    <3> DEFINE pc == IF Pending \/ journal.peer # 0 \/ ~journal.started \/ settings # journal.policy
                     THEN "degrade" ELSE "ready"
    <3>1. pc \in Pcs /\ pc \in {"ready", "degrade"} /\ (pc = "ready" => ~Pending /\ journal.peer = 0)
      BY ZenonT(120) DEF Pcs
    <3>2. run' = [Idle EXCEPT !.op = "check", !.onError = "degrade", !.pc = pc]
      BY <1>4, Zenon DEF Check
    <3> HIDE DEF pc
    <3>3. run' \in Runs /\ run'.op = "check" /\ run'.onError = "degrade" /\ run'.pc = pc
      BY <3>1, <3>2, IdleFacts, ZenonT(120) DEF Runs
    <3>4. QED
      BY <3>1, <3>3, Zenon
  <2>3. PcInv'
    BY <1>1, <2>1, <2>2, ZenonT(120) DEF PcInv, Retired, Pending, BlockInv, Fits, OpAt, EditAt, DisableAt, NetAt,
       PeerAt, Open, OnlyDisable, DisablePcs, Past, Building
  <2>4. QED
    BY <2>1, <2>2, <2>3, KeptStep, Zenon
<1>5. CASE WatchStarts \/ WatchActivates \/ RetryDisable
  <2>1. Kept
    BY <1>1, <1>5, Zenon DEF WatchStarts, WatchActivates, Activates, RetryDisable, Kept, TypeOK
  <2>2. /\ run' \in Runs /\ run'.onError = "raise"
        /\ <<run'.op, run'.pc>> \in {<<"activate", "guard">>, <<"disable", "disable">>}
    <3>1. \/ run' = [Idle EXCEPT !.op = "activate", !.pc = "guard"]
          \/ run' = [Idle EXCEPT !.op = "disable", !.pc = "disable"]
      BY <1>5, Zenon DEF WatchStarts, WatchActivates, Activates, RetryDisable
    <3>2. /\ {"guard", "disable"} \subseteq Pcs
          /\ {"activate", "disable"} \subseteq {"idle", "guard", "activate", "disable", "add", "remove", "check"}
      BY ZenonT(120) DEF Pcs
    <3>3. run' \in Runs
      BY <3>1, <3>2, IdleFacts, ZenonT(120) DEF Runs
    <3>4. QED
      BY <3>1, <3>3, IdleFacts, ZenonT(120) DEF Runs
  <2>3. PcInv'
    BY <2>2, ZenonT(120) DEF PcInv, BlockInv, Fits, OpAt, EditAt, DisableAt, NetAt, PeerAt, Open, OnlyDisable,
       DisablePcs, Past,
       Building
  <2>4. QED
    BY <2>1, <2>2, <2>3, KeptStep, ZenonT(120)
<1>6. QED
  BY <1>2, <1>3, <1>4, <1>5, ZenonT(120)

\* What the command in progress may meet, and its death.
LEMMA FailuresKeep ==
    ASSUME IInv, StepFails \/ Crash \/ UnderlayUnavailable \/ ProbeUnavailable
    PROVE  IInv'
<1>1. TypeOK /\ DataInv /\ PcInv
  BY Zenon DEF IInv
<1>2. CASE StepFails
  <2>1. Kept /\ UNCHANGED kernel /\ run.pc # "idle"
    BY <1>1, <1>2, Zenon DEF StepFails, Kept, At, TypeOK
  <2>2. CASE run.pc = "degrade"
    <3>1. Goto("degradeSave")
      BY <1>2, <2>2, Zenon DEF StepFails, At
    <3>2. Fits("degradeSave")
      BY <1>1, <2>2, ZenonT(120) DEF PcInv, Fits, OpAt, EditAt, DisableAt, NetAt, PeerAt, OnlyDisable, DisablePcs,
         Past, Building
    <3>3. QED
      BY <2>1, <3>1, <3>2, GotoKeeps, ZenonT(120) DEF Pcs, Open
  <2>3. CASE run.pc # "degrade"
    BY <1>2, <2>1, <2>3, RaiseKeeps, FinishKeeps, Zenon DEF StepFails, At
  <2>4. QED
    BY <2>2, <2>3, ZenonT(120)
<1>3. CASE Crash
  BY <1>1, <1>3, FinishKeeps, Zenon DEF Crash, Kept, TypeOK
<1>4. CASE UnderlayUnavailable
  <2>1. Kept /\ UNCHANGED kernel /\ run.pc = "repair"
    BY <1>1, <1>4, Zenon DEF UnderlayUnavailable, Kept, At, TypeOK
  <2>2. CASE run.back = "commitPeer"
    <3>1. Goto("commitPeer")
      BY <1>4, <2>2, Zenon DEF UnderlayUnavailable
    <3>2. Fits("commitPeer") /\ kernel'.state = "blocked"
      BY <1>1, <2>1, <2>2, Zenon DEF PcInv, BlockInv, Fits, OpAt, EditAt, DisableAt, NetAt, PeerAt, Open, OnlyDisable,
         DisablePcs, Past, Building
    <3>3. QED
      BY <2>1, <3>1, <3>2, GotoKeeps, ZenonT(120) DEF Pcs
  <2>3. CASE run' = [run EXCEPT !.pc = "failedProbe", !.incomplete = TRUE] /\ run.back # "commitPeer"
    <3>1. Moves("failedProbe")
      BY <1>1, <2>3, NoteMoves, ZenonT(120) DEF TypeOK, Pcs
    <3>2. Fits("failedProbe")
      BY <1>1, <2>1, <2>3, ZenonT(120) DEF PcInv, Fits, OpAt, EditAt, DisableAt, NetAt, PeerAt, OnlyDisable,
         DisablePcs, Past,
         Building
    <3>3. QED
      BY <2>1, <3>1, <3>2, MoveKeeps, Zenon DEF Open
  <2>4. QED
    BY <1>4, <2>1, <2>2, <2>3, RaiseKeeps, ZenonT(120) DEF UnderlayUnavailable
<1>5. CASE ProbeUnavailable
  <2>1. Kept /\ run.pc = "probe"
    BY <1>1, <1>5, Zenon DEF ProbeUnavailable, Kept, At, TypeOK
  <2>2. CASE run' = [run EXCEPT !.pc = "failedProbe", !.incomplete = FALSE]
    <3>1. Moves("failedProbe")
      BY <1>1, <2>2, NoteMoves, ZenonT(120) DEF TypeOK, Pcs
    <3>2. Fits("failedProbe")
      BY <1>1, <2>1, ZenonT(120) DEF PcInv, Fits, OpAt, EditAt, DisableAt, NetAt, PeerAt, OnlyDisable, DisablePcs,
         Past, Building
    <3>3. QED
      BY <2>1, <3>1, <3>2, MoveKeeps, ZenonT(120) DEF Open
  <2>3. QED
    BY <1>5, <2>1, <2>2, RaiseKeeps, Zenon DEF ProbeUnavailable
<1>6. QED
  BY <1>2, <1>3, <1>4, <1>5, SMTT(120)

\* _ready() up to its repair, and a resumed switch up to its first change.
LEMMA ReadyMoves ==
    ASSUME IInv, Ready \/ Health \/ ResumePeer
    PROVE  IInv'
<1>1. TypeOK /\ DataInv /\ PcInv
  BY Zenon DEF IInv
<1>2. CASE Ready
  <2>1. Kept /\ run.pc = "ready"
    BY <1>1, <1>2, ZenonT(120) DEF Ready, Kept, At, TypeOK
  <2>2. Raise \/ \E held \in BOOLEAN : run' = [run EXCEPT !.pc = "health", !.held = held]
    BY <1>2, Zenon DEF Ready
  <2>3. ASSUME NEW held \in BOOLEAN, run' = [run EXCEPT !.pc = "health", !.held = held]
        PROVE  IInv'
    <3>1. Moves("health")
      BY <1>1, <2>3, NoteMoves, ZenonT(120) DEF TypeOK, Pcs
    <3>2. Fits("health")
      BY <1>1, <2>1, Zenon DEF PcInv, Fits, OpAt, EditAt, DisableAt, NetAt, PeerAt, OnlyDisable, DisablePcs, Past,
         Building
    <3>3. QED
      BY <2>1, <3>1, <3>2, MoveKeeps, ZenonT(120) DEF Open
  <2>4. QED
    BY <2>1, <2>2, <2>3, RaiseKeeps, ZenonT(120)
<1>3. CASE Health
  <2>1. Kept /\ run.pc = "health"
    BY <1>1, <1>3, Zenon DEF Health, Kept, At, TypeOK
  <2>2. CASE Goto("probe")
    <3>1. Fits("probe")
      BY <1>1, <2>1, Zenon DEF PcInv, Fits, OpAt, EditAt, DisableAt, NetAt, PeerAt, OnlyDisable, DisablePcs, Past,
         Building
    <3>2. QED
      BY <2>1, <2>2, <3>1, GotoKeeps, ZenonT(120) DEF Pcs, Open
  <2>3. CASE /\ Blocked /\ Observed(TRUE)
             /\ run' = [run EXCEPT !.pc = "repair", !.held = FALSE, !.peer = journal.active, !.back = "probe"]
    <3>1. /\ journal.active \in 0..Peers /\ "repair" \in Pcs /\ FALSE \in BOOLEAN
          /\ "probe" \in {"none", "ready", "probe", "commitPeer"}
      BY <1>1, PeersNat DEF TypeOK, Journals, Pcs
    <3>2. run' \in Runs
      BY <1>1, <2>3, <3>1, ZenonT(120) DEF TypeOK, Runs
    <3>3. run'.pc = "repair" /\ run'.op = run.op /\ run'.back = "probe"
      BY <1>1, <2>3, Zenon DEF TypeOK, Runs
    <3>4. kernel'.state = "blocked" /\ GuardHeld' /\ UNCHANGED journal
      BY <1>1, <2>1, <2>3, BlockedFacts, ZenonT(120) DEF TypeOK, Kept, Observed, Exists, GuardHeld
    <3>5. PcInv'
      BY <1>1, <2>1, <3>3, <3>4, ZenonT(120) DEF PcInv, Pending, BlockInv, Fits, OpAt, EditAt, DisableAt, NetAt,
         PeerAt, Open,
         OnlyDisable, DisablePcs, Past, Building
    <3>6. QED
      BY <2>1, <3>2, <3>5, KeptStep, ZenonT(120)
  <2>4. QED
    BY <1>3, <2>1, <2>2, <2>3, RaiseKeeps, ZenonT(120) DEF Health
<1>4. CASE ResumePeer
  <2>1. Kept /\ run.pc = "resume" /\ journal.peer # 0
    BY <1>1, <1>4, Zenon DEF ResumePeer, Kept, At, TypeOK
  <2>2. CASE /\ ~Pending /\ Observed(TRUE) /\ Blocked
             /\ run' = [run EXCEPT !.pc = "switch", !.peer = journal.peer, !.back = "commitPeer",
                                   !.then = IF @ = "idle" THEN @ ELSE "recover"]
    <3> DEFINE back == IF run.then = "idle" THEN run.then ELSE "recover"
    <3>1. /\ journal.peer \in 0..Peers /\ "switch" \in Pcs /\ back \in {"idle", "recover"}
          /\ "commitPeer" \in {"none", "ready", "probe", "commitPeer"}
      BY <1>1, ZenonT(120) DEF TypeOK, Journals, Pcs
    <3>2. run' = [run EXCEPT !.pc = "switch", !.peer = journal.peer, !.back = "commitPeer", !.then = back]
      BY <2>2, Zenon
    <3> HIDE DEF back
    <3>3. back \in {"none", "idle", "recover"}
      BY <3>1, Zenon
    <3>4. run' \in Runs
      BY <1>1, <3>1, <3>2, <3>3, ZenonT(120) DEF TypeOK, Runs
    <3>5. /\ run'.pc = "switch" /\ run'.op = run.op /\ run'.back = "commitPeer"
          /\ run'.then \in {"idle", "recover"}
      BY <1>1, <3>1, <3>2, ZenonT(120) DEF TypeOK, Runs
    <3>6. kernel'.state = "blocked" /\ GuardHeld' /\ UNCHANGED journal
      BY <1>1, <2>1, <2>2, BlockedFacts, ZenonT(120) DEF TypeOK, Kept, Observed, Exists, GuardHeld
    <3>7. PcInv'
      BY <1>1, <2>1, <2>2, <3>5, <3>6, ZenonT(120) DEF PcInv, Pending, BlockInv, Fits, OpAt, EditAt, DisableAt,
         NetAt, PeerAt,
         Open, OnlyDisable, DisablePcs, Past, Building
    <3>8. QED
      BY <2>1, <3>4, <3>7, KeptStep, ZenonT(120)
  <2>3. QED
    BY <1>4, <2>1, <2>2, RaiseKeeps, Zenon DEF ResumePeer
<1>5. QED
  BY <1>2, <1>3, <1>4
-----------------------------------------------------------------------------
(* Steps that save the journal, and those that change the guard's maps.    *)

\* The journal's state and its failure count change, nothing else.
LEMMA StateSaved ==
    ASSUME TypeOK, DataInv, UNCHANGED <<network, settings, served, birth>>, UNCHANGED kernel \/ Blocked,
           NEW st \in {"blocked", "preparing", "ready", "degraded"}, NEW n \in 0..FAILURES_BEFORE_SWITCH,
           journal' = [journal EXCEPT !.state = st, !.failures = n],
           journal.state \notin {"absent", "disabled", "disabling"}, st = "ready" => journal.peer = 0,
           run' \in Runs
    PROVE  /\ TypeOK' /\ DataInv' /\ UNCHANGED receipt
           /\ journal'.state = st /\ journal'.policy = journal.policy /\ journal'.pins = journal.pins
           /\ journal'.pending = journal.pending /\ journal'.started = journal.started
           /\ journal'.active = journal.active /\ journal'.peer = journal.peer
           /\ kernel'.pins = kernel.pins /\ kernel'.whole = kernel.whole
           /\ Blocked => kernel'.state = "blocked"
<1>1. st \in States
  BY Zenon DEF States
<1>2. journal' \in Journals
  BY <1>1, Zenon DEF TypeOK, Journals
<1>3. /\ journal'.state = st /\ journal'.policy = journal.policy /\ journal'.pins = journal.pins
      /\ journal'.pending = journal.pending /\ journal'.started = journal.started
      /\ journal'.active = journal.active /\ journal'.peer = journal.peer
  BY Zenon DEF TypeOK, Journals
<1>4. /\ kernel' \in Guards /\ kernel'.pins = kernel.pins /\ kernel'.whole = kernel.whole
      /\ kernel'.paths = kernel.paths /\ (kernel'.state = kernel.state \/ kernel'.state = "blocked")
      /\ Blocked => kernel'.state = "blocked"
  BY BlockedFacts, Zenon DEF TypeOK
<1>5. UNCHANGED <<receipt, live, unrecorded, fenced, tunnel, bound>>
  BY Zenon DEF network
<1>6. TypeOK'
  BY <1>2, <1>4, <1>5, Zenon DEF TypeOK
<1>7. ReadyBacked' /\ GuardOutlivesNetwork' /\ JournalInv'
  BY <1>3, <1>4, <1>5, ZenonT(120) DEF DataInv, ReadyBacked, EditAtomic, GuardOutlivesNetwork, JournalInv, Pending,
     NewPolicy,
     Complete, AnchorsLive
<1>8. EditAtomic'
  BY <1>3, <1>4, <1>5, ZenonT(120) DEF DataInv, EditAtomic, Pending, NewPolicy
<1>9. QED
  BY <1>3, <1>4, <1>5, <1>6, <1>7, <1>8, ZenonT(120) DEF DataInv

\* _guard's end, _degrade, activate()'s "preparing" and _ready's end.
LEMMA StatesKeep ==
    ASSUME IInv, Guarded \/ DegradeSave \/ Preparing \/ SaveReady
    PROVE  IInv'
<1>1. TypeOK /\ DataInv /\ PcInv
  BY DEF IInv
<1>2. journal.failures \in 0..FAILURES_BEFORE_SWITCH /\ 0 \in 0..FAILURES_BEFORE_SWITCH
  BY <1>1, PeersNat DEF TypeOK, Journals
<1>3. ASSUME NEW st, journal' = [journal EXCEPT !.state = st]
      PROVE  journal' = [journal EXCEPT !.state = st, !.failures = journal.failures]
  BY <1>1, <1>3, Zenon DEF TypeOK, Journals
<1>4. CASE Guarded
  <2>1. /\ run.pc = "guarded" /\ UNCHANGED <<network, settings, served, birth>>
        /\ run.op # "disable" /\ journal.state \notin {"absent", "disabled", "disabling"}
    BY <1>1, <1>4, Zenon DEF Guarded, At, PcInv, Fits, OpAt, DisablePcs
  <2>2. CASE Raise /\ UNCHANGED <<journal, kernel>>
    BY <1>1, <2>1, <2>2, RaiseKeeps, ZenonT(120) DEF Kept, TypeOK
  <2>3. CASE /\ Observed(TRUE) /\ Blocked /\ journal' = [journal EXCEPT !.state = "blocked"]
             /\ \/ Finish \/ Goto("edit")
                \/ run' = [run EXCEPT !.pc = "started", !.onError = "degrade"]
    <3>1. /\ run' \in Runs
          /\ \/ run'.pc = "idle" /\ run'.op = "idle"
             \/ run'.pc \in {"edit", "started"} /\ run'.op = run.op
      <4>1. CASE Finish
        BY <4>1, IdleFacts, Zenon DEF Finish
      <4>2. CASE Goto("edit")
        BY <1>1, <4>2, GotoFacts, ZenonT(120) DEF TypeOK, Pcs
      <4>3. CASE run' = [run EXCEPT !.pc = "started", !.onError = "degrade"]
        <5>1. "started" \in Pcs /\ "degrade" \in {"raise", "degrade"}
          BY ZenonT(120) DEF Pcs
        <5>2. run' \in Runs
          BY <1>1, <4>3, <5>1, Zenon DEF TypeOK, Runs
        <5>3. QED
          BY <1>1, <4>3, <5>2 DEF TypeOK, Runs
      <4>4. QED
        BY <2>3, <4>1, <4>2, <4>3, ZenonT(120)
    <3>2. journal' = [journal EXCEPT !.state = "blocked", !.failures = journal.failures]
      BY <1>3, <2>3, Zenon
    <3>3. /\ TypeOK' /\ DataInv' /\ UNCHANGED receipt
          /\ journal'.state = "blocked" /\ journal'.pins = journal.pins /\ journal'.pending = journal.pending
          /\ journal'.started = journal.started /\ journal'.peer = journal.peer
          /\ kernel'.pins = kernel.pins /\ kernel'.whole = kernel.whole /\ kernel'.state = "blocked"
      BY <1>1, <1>2, <2>1, <2>3, <3>1, <3>2, StateSaved, ZenonT(120)
    <3>4. GuardHeld'
      BY <2>3, <3>3, Zenon DEF Observed, Exists, GuardHeld
    <3>5. PcInv'
      BY <1>1, <2>1, <3>1, <3>3, <3>4, ZenonT(120) DEF PcInv, BlockInv, Fits, OpAt, EditAt, DisableAt, NetAt, PeerAt,
         Pending,
         OnlyDisable, DisablePcs, Past, Building
    <3>6. QED
      BY <3>3, <3>5, Zenon DEF IInv
  <2>4. QED
    BY <1>4, <2>2, <2>3, Zenon DEF Guarded, Save
<1>5. CASE DegradeSave
  <2>1. /\ run.pc = "degradeSave" /\ UNCHANGED <<network, settings, served, birth, kernel>> /\ Finish
        /\ journal' = [journal EXCEPT !.state = "degraded"]
        /\ journal.state \notin {"absent", "disabled", "disabling"}
    BY <1>1, <1>5, Zenon DEF DegradeSave, Save, At, PcInv, Fits, OpAt, DisablePcs
  <2>2. run' \in Runs /\ run'.pc = "idle" /\ run'.op = "idle"
    BY <2>1, IdleFacts, Zenon DEF Finish
  <2>3. journal' = [journal EXCEPT !.state = "degraded", !.failures = journal.failures]
    BY <1>3, <2>1, Zenon
  <2>4. TypeOK' /\ DataInv' /\ journal'.state = "degraded"
    BY <1>1, <1>2, <2>1, <2>2, <2>3, StateSaved, ZenonT(120)
  <2>5. PcInv'
    BY <2>2, IdleFits, Zenon
  <2>6. QED
    BY <2>4, <2>5, Zenon DEF IInv
<1>6. CASE Preparing
  <2>1. /\ run.pc = "preparing" /\ UNCHANGED <<network, settings, served, birth, kernel>>
        /\ journal' = [journal EXCEPT !.state = "preparing"]
        /\ Goto(IF receipt = NoReceipt THEN "prepare" ELSE "ready")
        /\ run.op # "disable" /\ journal.state \notin {"absent", "disabled", "disabling"}
    BY <1>1, <1>6, ZenonT(120) DEF Preparing, Save, At, PcInv, Fits, OpAt, DisablePcs
  <2>2. /\ run' \in Runs /\ run'.op = run.op
        /\ run'.pc = IF receipt = NoReceipt THEN "prepare" ELSE "ready"
    BY <1>1, <2>1, GotoFacts DEF TypeOK, Pcs
  <2>3. journal' = [journal EXCEPT !.state = "preparing", !.failures = journal.failures]
    BY <1>3, <2>1, Zenon
  <2>4. /\ TypeOK' /\ DataInv' /\ UNCHANGED receipt
        /\ journal'.state = "preparing" /\ journal'.pins = journal.pins /\ journal'.pending = journal.pending
        /\ journal'.started = journal.started /\ journal'.peer = journal.peer
    BY <1>1, <1>2, <2>1, <2>2, <2>3, StateSaved, ZenonT(120)
  <2>5. PcInv'
    BY <1>1, <2>1, <2>2, <2>4, SMTT(120) DEF PcInv, BlockInv, Fits, OpAt, EditAt, DisableAt, NetAt, PeerAt, Pending,
       NewPolicy,
       GuardHeld, Complete, Open, OnlyDisable, DisablePcs, Past, Building
  <2>6. QED
    BY <2>4, <2>5, Zenon DEF IInv
<1>7. CASE SaveReady
  <2>1. /\ run.pc = "saveReady" /\ UNCHANGED <<network, settings, served, birth, kernel>> /\ Finish
        /\ journal' = [journal EXCEPT !.state = "ready", !.failures = 0]
        /\ journal.state \notin {"absent", "disabled", "disabling"} /\ journal.peer = 0
    BY <1>1, <1>7, Zenon DEF SaveReady, Save, At, PcInv, Fits, OpAt, PeerAt, Past, DisablePcs
  <2>2. run' \in Runs /\ run'.pc = "idle" /\ run'.op = "idle"
    BY <2>1, IdleFacts, Zenon DEF Finish
  <2>3. TypeOK' /\ DataInv' /\ journal'.state = "ready"
    BY <1>1, <1>2, <2>1, <2>2, StateSaved, ZenonT(120)
  <2>4. PcInv'
    BY <2>2, IdleFits, SMTT(120)
  <2>5. QED
    BY <2>3, <2>4, Zenon DEF IInv
<1>8. QED
  BY <1>4, <1>5, <1>6, <1>7
\* _edit() and _recover_edit(): intent, kernel, settings.json, journal.
LEMMA EditsKeep ==
    ASSUME IInv, Edit \/ RecoverKernel \/ RecoverDisk \/ RecoverSave
    PROVE  IInv'
<1>1. TypeOK /\ DataInv /\ PcInv
  BY Zenon DEF IInv
<1>2. Pending => NewPolicy \in SUBSET Paths
  BY <1>1, SMTT(120) DEF TypeOK, Journals, Pending, NewPolicy
<1>3. CASE Edit
  <2>1. /\ run.pc = "edit" /\ UNCHANGED <<network, settings, served, birth, kernel>>
        /\ run.op # "disable" /\ journal.state \notin {"absent", "disabled", "disabling"}
    BY <1>1, <1>3, Zenon DEF Edit, At, PcInv, Fits, OpAt, DisablePcs
  <2>2. CASE UNCHANGED journal /\ (Goto("ready") \/ Finish)
    <3>1. Kept
      BY <1>1, <2>1, <2>2, ZenonT(120) DEF Kept, TypeOK
    <3>2. Fits("ready")
      BY <1>1, <2>1, ZenonT(120) DEF PcInv, Fits, OpAt, EditAt, DisableAt, NetAt, PeerAt, OnlyDisable, DisablePcs,
         Past, Building
    <3>3. QED
      BY <2>2, <3>1, <3>2, GotoKeeps, FinishKeeps, ZenonT(120) DEF Pcs, Open
  <2>3. ASSUME NEW new \in SUBSET Paths, journal' = [journal EXCEPT !.pending = <<new>>],
               run' = [run EXCEPT !.pc = "recover", !.onError = "degrade"]
        PROVE  IInv'
    <3>1. "recover" \in Pcs /\ "degrade" \in {"raise", "degrade"}
      BY ZenonT(120) DEF Pcs
    <3>2. run' \in Runs
      BY <1>1, <2>3, <3>1, ZenonT(120) DEF TypeOK, Runs
    <3>3. run'.pc = "recover" /\ run'.op = run.op
      BY <1>1, <2>3, Zenon DEF TypeOK, Runs
    <3>4. /\ journal' \in Journals /\ journal'.state = journal.state /\ journal'.policy = journal.policy
          /\ journal'.pins = journal.pins /\ journal'.started = journal.started /\ journal'.peer = journal.peer
          /\ Pending' /\ NewPolicy' = new
      BY <1>1, <2>3, Zenon DEF TypeOK, Journals, Pending, NewPolicy
    <3>5. UNCHANGED <<receipt, live, unrecorded, fenced, tunnel, bound>>
      BY <2>1, Zenon DEF network
    <3>6. TypeOK'
      BY <1>1, <2>1, <3>2, <3>4, <3>5, ZenonT(120) DEF TypeOK
    <3>7. kernel.state = "blocked" /\ GuardHeld /\ ~Pending /\ journal.peer = 0
      BY <1>1, <2>1, Zenon DEF PcInv, BlockInv, Open, Fits, NetAt, EditAt, PeerAt, Past
    <3>8. DataInv'
      BY <1>1, <2>1, <3>4, <3>5, <3>7, ZenonT(120) DEF DataInv, ReadyBacked, EditAtomic, GuardOutlivesNetwork, JournalInv,
         Complete, GuardHeld
    <3>9. PcInv'
      BY <2>1, <3>3, <3>4, <3>7, ZenonT(120) DEF PcInv, BlockInv, Fits, OpAt, EditAt, DisableAt, NetAt, PeerAt, Open,
         OnlyDisable, DisablePcs, Past, Building
    <3>10. QED
      BY <3>6, <3>8, <3>9, ZenonT(120) DEF IInv
  <2>4. run.path \subseteq Paths /\ journal.policy \subseteq Paths
    BY <1>1, Zenon DEF TypeOK, Runs, Journals
  <2>5. journal.policy \cup run.path \in SUBSET Paths /\ journal.policy \ run.path \in SUBSET Paths
    BY <2>4, Zenon
  <2>6. QED
    BY <1>3, <2>2, <2>3, <2>5, Zenon DEF Edit, Save
<1>4. CASE RecoverKernel
  <2>1. /\ run.pc = "recover" /\ Pending /\ UNCHANGED <<network, journal, settings, served, birth>>
        /\ kernel.state = "blocked" /\ journal.state \notin {"absent", "disabled", "disabling"}
    BY <1>1, <1>4, Zenon DEF RecoverKernel, At, PcInv, BlockInv, Open, Fits, OpAt, DataInv, JournalInv
  <2>2. CASE Raise /\ UNCHANGED kernel
    BY <1>1, <2>1, <2>2, RaiseKeeps, ZenonT(120) DEF Kept, TypeOK
  <2>3. CASE /\ settings \in {journal.policy, NewPolicy} /\ Goto("recoverDisk")
             /\ kernel' = [kernel EXCEPT !.state = "blocked", !.paths = NewPolicy]
    <3>1. /\ kernel' \in Guards /\ kernel'.state = "blocked" /\ kernel'.paths = NewPolicy
          /\ kernel'.pins = kernel.pins /\ kernel'.whole = kernel.whole
      BY <1>1, <1>2, <2>1, <2>3, ZenonT(120) DEF TypeOK, Guards
    <3>2. run' \in Runs /\ run'.pc = "recoverDisk" /\ run'.op = run.op /\ run'.onError = run.onError
      BY <1>1, <2>3, GotoFacts, ZenonT(120) DEF TypeOK, Pcs
    <3>3. UNCHANGED <<receipt, live, unrecorded, fenced, tunnel, bound>>
      BY <2>1, Zenon DEF network
    <3>4. TypeOK'
      BY <1>1, <2>1, <3>1, <3>2, <3>3, ZenonT(120) DEF TypeOK
    <3>5. DataInv'
      BY <1>1, <2>1, <2>3, <3>1, <3>3, ZenonT(120) DEF DataInv, ReadyBacked, EditAtomic, GuardOutlivesNetwork,
         JournalInv,
         Pending, NewPolicy, Complete, AnchorsLive
    <3>6. PcInv'
      BY <1>1, <2>1, <3>1, <3>2, SMTT(120) DEF PcInv, BlockInv, Fits, OpAt, EditAt, DisableAt, NetAt, PeerAt, Pending,
         NewPolicy, GuardHeld, Complete, Open, OnlyDisable, DisablePcs, Past, Building
    <3>7. QED
      BY <3>4, <3>5, <3>6, ZenonT(120) DEF IInv
  <2>4. QED
    BY <1>4, <2>2, <2>3, ZenonT(120) DEF RecoverKernel
<1>5. CASE RecoverDisk
  <2>1. /\ run.pc = "recoverDisk" /\ settings' = NewPolicy /\ Goto("recoverSave")
        /\ UNCHANGED <<network, journal, birth, kernel, served>>
    BY <1>5, Zenon DEF RecoverDisk, At
  <2>2. /\ Pending /\ kernel.paths = NewPolicy /\ kernel.state = "blocked"
        /\ journal.state \notin {"absent", "disabled", "disabling"}
    BY <1>1, <2>1, ZenonT(120) DEF PcInv, BlockInv, Open, Fits, OpAt, EditAt, DataInv, JournalInv
  <2>3. run' \in Runs /\ run'.pc = "recoverSave" /\ run'.op = run.op /\ run'.onError = run.onError
    BY <1>1, <2>1, GotoFacts, ZenonT(120) DEF TypeOK, Pcs
  <2>4. UNCHANGED <<receipt, live, unrecorded, fenced, tunnel, bound>>
    BY <2>1, Zenon DEF network
  <2>5. TypeOK'
    BY <1>1, <1>2, <2>1, <2>2, <2>3, <2>4, Zenon DEF TypeOK
  <2>6. DataInv'
    BY <1>1, <2>1, <2>2, <2>4, ZenonT(120) DEF DataInv, ReadyBacked, EditAtomic, GuardOutlivesNetwork, JournalInv,
       Pending,
       NewPolicy, Complete, AnchorsLive
  <2>7. PcInv'
    BY <1>1, <2>1, <2>2, <2>3, ZenonT(120) DEF PcInv, BlockInv, Fits, OpAt, EditAt, DisableAt, NetAt, PeerAt,
       Pending, NewPolicy,
       GuardHeld, Complete, Open, OnlyDisable, DisablePcs, Past, Building
  <2>8. QED
    BY <2>5, <2>6, <2>7 DEF IInv
<1>6. CASE RecoverSave
  <2>1. /\ run.pc = "recoverSave" /\ journal' = Committed
        /\ UNCHANGED <<network, settings, birth, kernel, served>>
    BY <1>6, Zenon DEF RecoverSave, At, Save
  <2>2. /\ Pending /\ kernel.paths = NewPolicy /\ settings = NewPolicy /\ kernel.state = "blocked"
        /\ journal.state \notin {"absent", "disabled", "disabling"}
    BY <1>1, <2>1, Zenon DEF PcInv, BlockInv, Open, Fits, OpAt, EditAt, DataInv, JournalInv
  <2>3. "blocked" \in States /\ <<>> \in {<<>>} \cup {<<p>> : p \in SUBSET Paths}
    BY Zenon DEF States
  <2>4. journal' \in Journals
    BY <1>1, <1>2, <2>1, <2>2, <2>3, Zenon DEF TypeOK, Journals, Committed
  <2>5. /\ journal'.state = "blocked" /\ journal'.policy = NewPolicy /\ journal'.pins = journal.pins
        /\ journal'.pending = <<>> /\ journal'.started = journal.started /\ journal'.peer = journal.peer
    BY <1>1, <2>1, ZenonT(120) DEF TypeOK, Journals, Committed
  <2>6. /\ run' \in Runs
        /\ \/ run'.pc = "idle" /\ run'.op = "idle"
           \/ run'.op = run.op /\ run'.onError = run.onError /\ run.op = "disable" /\ run'.pc = "disableClaim"
           \/ run'.op = run.op /\ run.op # "disable" /\ run'.pc \in {"guarded", "ready"}
    <3>1. CASE Finish
      BY <3>1, IdleFacts, Zenon DEF Finish
    <3>2. CASE run.op = "disable" /\ Goto("disableClaim")
      BY <1>1, <3>2, GotoFacts, ZenonT(120) DEF TypeOK, Pcs
    <3>3. CASE run.op # "disable" /\ (Goto("guarded") \/ Goto("ready"))
      BY <1>1, <3>3, GotoFacts, ZenonT(120) DEF TypeOK, Pcs
    <3>4. QED
      BY <1>6, <3>1, <3>2, <3>3, ZenonT(120) DEF RecoverSave
  <2>7. UNCHANGED <<receipt, live, unrecorded, fenced, tunnel, bound>>
    BY <2>1, Zenon DEF network
  <2>8. TypeOK'
    BY <1>1, <2>1, <2>4, <2>6, <2>7, Zenon DEF TypeOK
  <2>9. DataInv'
    BY <1>1, <2>1, <2>2, <2>5, <2>7, ZenonT(120) DEF DataInv, ReadyBacked, EditAtomic, GuardOutlivesNetwork,
       JournalInv, Pending,
       NewPolicy, Complete, AnchorsLive
  <2>10. PcInv'
    <3>1. CASE run'.pc = "idle" /\ run'.op = "idle"
      BY <3>1, IdleFits, Zenon
    <3>2. CASE run'.op = run.op /\ run'.onError = run.onError /\ run.op = "disable" /\ run'.pc = "disableClaim"
      BY <1>1, <2>1, <2>5, <3>2, ZenonT(120) DEF PcInv, BlockInv, Fits, OpAt, EditAt, DisableAt, NetAt, PeerAt, Pending,
         Open, OnlyDisable, DisablePcs, Past, Building
    <3>3. CASE run'.op = run.op /\ run.op # "disable" /\ run'.pc \in {"guarded", "ready"}
      <4>1. journal'.peer = 0 /\ kernel'.state = "blocked" /\ ~Pending'
        BY <1>1, <2>1, <2>2, <2>5, <3>3, Zenon DEF PcInv, Fits, PeerAt, Pending
      <4>2. QED
        BY <2>5, <3>3, <4>1, Zenon DEF PcInv, BlockInv, Fits, OpAt, EditAt, DisableAt, NetAt, PeerAt, OnlyDisable, Past,
           Building
    <3>4. QED
      BY <2>6, <3>1, <3>2, <3>3, ZenonT(120)
  <2>11. QED
    BY <2>8, <2>9, <2>10 DEF IInv
<1>7. QED
  BY <1>3, <1>4, <1>5, <1>6

\* _failed_probe() and the end of a switch.
LEMMA PeersKeep ==
    ASSUME IInv, FailedProbe \/ CommitPeer
    PROVE  IInv'
<1>1. TypeOK /\ DataInv /\ PcInv
  BY Zenon DEF IInv
<1>2. CASE FailedProbe
  <2> DEFINE counted == [journal EXCEPT !.failures = Failures, !.state = "degraded"]
  <2>1. /\ run.pc = "failedProbe" /\ UNCHANGED <<network, settings, served, birth>>
        /\ run.op # "disable" /\ journal.state \notin {"absent", "disabled", "disabling"}
    BY <1>1, <1>2, ZenonT(120) DEF FailedProbe, At, PcInv, Fits, OpAt, DisablePcs
  <2>2. Failures \in 0..FAILURES_BEFORE_SWITCH /\ "degraded" \in States /\ 0 \in 0..FAILURES_BEFORE_SWITCH
    BY <1>1, PeersNat, SMTT(120) DEF TypeOK, Journals, Failures, States
  <2>3. CASE Raise /\ UNCHANGED journal /\ (UNCHANGED kernel \/ Blocked)
    BY <1>1, <2>1, <2>3, RaiseKeeps, Zenon DEF Kept, TypeOK
  <2>4. CASE Blocked /\ journal' = counted /\ Finish
    <3>1. run' \in Runs /\ run'.pc = "idle" /\ run'.op = "idle"
      BY <2>4, IdleFacts, Zenon DEF Finish
    <3>2. journal' = [journal EXCEPT !.state = "degraded", !.failures = Failures]
      BY <1>1, <2>4, Zenon DEF TypeOK, Journals
    <3>3. TypeOK' /\ DataInv' /\ journal'.state = "degraded"
      BY <1>1, <2>1, <2>2, <2>4, <3>1, <3>2, StateSaved, ZenonT(120)
    <3>4. PcInv'
      BY <3>1, IdleFits, Zenon
    <3>5. QED
      BY <3>3, <3>4, Zenon DEF IInv
  <2>5. ASSUME Blocked, NEW p \in 1..Peers, journal' = [counted EXCEPT !.peer = p, !.failures = 0],
               run' = [run EXCEPT !.pc = "resume", !.then = "idle"]
        PROVE  IInv'
    <3>1. "resume" \in Pcs /\ "idle" \in {"none", "idle", "recover"} /\ p \in 0..Peers
      BY PeersNat DEF Pcs
    <3>2. run' \in Runs
      BY <1>1, <2>5, <3>1, ZenonT(120) DEF TypeOK, Runs
    <3>3. run'.pc = "resume" /\ run'.op = run.op
      BY <1>1, <2>5, Zenon DEF TypeOK, Runs
    <3>4. counted \in Journals
      BY <1>1, <2>2, Zenon DEF TypeOK, Journals
    <3>5. journal' \in Journals
      BY <2>2, <2>5, <3>1, <3>4, ZenonT(120) DEF Journals
    <3>6. /\ journal'.state = "degraded" /\ journal'.policy = journal.policy /\ journal'.pins = journal.pins
          /\ journal'.pending = journal.pending /\ journal'.started = journal.started
      BY <1>1, <2>5, Zenon DEF TypeOK, Journals
    <3>7. /\ kernel' \in Guards /\ kernel'.state = "blocked" /\ kernel'.pins = kernel.pins
          /\ kernel'.whole = kernel.whole /\ kernel'.paths = kernel.paths
      BY <1>1, <2>5, BlockedFacts, ZenonT(120) DEF TypeOK
    <3>8. UNCHANGED <<receipt, live, unrecorded, fenced, tunnel, bound>>
      BY <2>1, Zenon DEF network
    <3>9. TypeOK'
      BY <1>1, <2>1, <3>2, <3>5, <3>7, <3>8, ZenonT(120) DEF TypeOK
    <3>10. DataInv'
      BY <1>1, <2>1, <3>6, <3>7, <3>8, ZenonT(120) DEF DataInv, ReadyBacked, EditAtomic, GuardOutlivesNetwork,
         JournalInv,
         Pending, NewPolicy, Complete, AnchorsLive
    <3>11. PcInv'
      BY <1>1, <2>1, <3>3, <3>6, <3>7, <3>8, Zenon DEF PcInv, BlockInv, Fits, OpAt, EditAt, DisableAt, NetAt, PeerAt,
         Pending, NewPolicy, GuardHeld, Complete, Open, OnlyDisable, DisablePcs, Past, Building
    <3>12. QED
      BY <3>9, <3>10, <3>11, ZenonT(120) DEF IInv
  <2>6. QED
    BY <1>2, <2>3, <2>4, <2>5, Zenon DEF FailedProbe, Save
<1>3. CASE CommitPeer
  <2>1. /\ run.pc = "commitPeer" /\ UNCHANGED <<network, settings, birth, kernel, served>>
        /\ journal' = [journal EXCEPT !.active = journal.peer, !.peer = 0, !.state = "degraded"]
        /\ run.op # "disable" /\ journal.state \notin {"absent", "disabled", "disabling"}
    BY <1>1, <1>3, ZenonT(120) DEF CommitPeer, Save, At, PcInv, Fits, OpAt, DisablePcs
  <2>2. journal.peer \in 1..Peers /\ 0 \in 0..Peers /\ "degraded" \in States /\ run.then \in {"idle", "recover"}
    BY <1>1, <2>1, PeersNat, SMTT(120) DEF TypeOK, Journals, States, PcInv, Fits, PeerAt
  <2>3. journal' \in Journals
    BY <1>1, <2>1, <2>2, ZenonT(120) DEF TypeOK, Journals
  <2>4. /\ journal'.state = "degraded" /\ journal'.policy = journal.policy /\ journal'.pins = journal.pins
        /\ journal'.pending = journal.pending /\ journal'.started = journal.started /\ journal'.peer = 0
    BY <1>1, <2>1, Zenon DEF TypeOK, Journals
  <2>5. /\ run' \in Runs
        /\ \/ run'.pc = "idle" /\ run'.op = "idle"
           \/ run'.pc = "recover" /\ run'.op = run.op
    <3>1. CASE Finish
      BY <3>1, IdleFacts, Zenon DEF Finish
    <3>2. CASE Goto("recover")
      BY <1>1, <3>2, GotoFacts, ZenonT(120) DEF TypeOK, Pcs
    <3>3. QED
      BY <1>3, <2>2, <3>1, <3>2, ZenonT(120) DEF CommitPeer
  <2>6. UNCHANGED <<receipt, live, unrecorded, fenced, tunnel, bound>> /\ kernel.state = "blocked"
    BY <1>1, <2>1, Zenon DEF network, PcInv, BlockInv, Open
  <2>7. TypeOK'
    BY <1>1, <2>1, <2>3, <2>5, <2>6, ZenonT(120) DEF TypeOK
  <2>8. DataInv'
    BY <1>1, <2>1, <2>4, <2>6, ZenonT(120) DEF DataInv, ReadyBacked, EditAtomic, GuardOutlivesNetwork, JournalInv,
       Pending,
       NewPolicy, Complete, AnchorsLive
  <2>9. PcInv'
    BY <1>1, <2>1, <2>4, <2>5, <2>6, ZenonT(120) DEF PcInv, BlockInv, Fits, OpAt, EditAt, DisableAt, NetAt, PeerAt,
       Pending,
       NewPolicy, GuardHeld, Complete, Open, OnlyDisable, DisablePcs, Past, Building
  <2>10. QED
    BY <2>7, <2>8, <2>9, ZenonT(120) DEF IInv
<1>4. QED
  BY <1>2, <1>3, Zenon
\* An absent journal claims no pins, no edit and no network.
LEMMA NoJournalFacts ==
    /\ NoJournal \in Journals /\ NoJournal.state = "absent" /\ NoJournal.pins = 0 /\ NoJournal.pending = <<>>
    /\ NoJournal.started = FALSE /\ NoJournal.peer = 0
BY PeersNat DEF NoJournal, Journals, States

\* A lifetime begins: the journal says "loading", the loader publishes, the
\* controller claims what the birth record names.
LEMMA LoadsKeep ==
    ASSUME IInv, NewLifetime \/ PublishGuard \/ ClaimBirth
    PROVE  IInv'
<1>1. TypeOK /\ DataInv /\ PcInv
  BY DEF IInv
<1>2. CASE NewLifetime
  <2>1. /\ run.pc = "inputs" /\ UNCHANGED <<receipt, fenced, tunnel, bound, settings, birth, kernel, served>>
        /\ run.op # "disable" /\ kernel.state = "blocked" /\ journal.state \in {"absent", "disabled"}
    BY <1>1, <1>2, Zenon DEF NewLifetime, At, PcInv, BlockInv, Open, Fits, OpAt, DisablePcs
  <2>2. CASE Raise /\ UNCHANGED <<journal, live, unrecorded>>
    BY <1>1, <2>1, <2>2, RaiseKeeps, Zenon DEF Kept, network, TypeOK
  <2>3. CASE /\ receipt = NoReceipt /\ live' = {} /\ unrecorded' = "none" /\ Goto("load")
             /\ journal' = [NoJournal EXCEPT !.state = "loading", !.policy = settings]
    <3>1. /\ journal' \in Journals /\ journal'.state = "loading" /\ journal'.policy = settings
          /\ journal'.pins = 0 /\ journal'.pending = <<>> /\ journal'.started = FALSE /\ journal'.peer = 0
      <4>1. "loading" \in States /\ settings \in SUBSET Paths
        BY <1>1, Zenon DEF TypeOK, States
      <4>2. journal' \in Journals
        BY <2>3, <4>1, NoJournalFacts, Zenon DEF Journals
      <4>3. QED
        BY <2>3, <4>2, NoJournalFacts, Zenon DEF Journals
    <3>2. run' \in Runs /\ run'.pc = "load" /\ run'.op = run.op
      BY <1>1, <2>3, GotoFacts, ZenonT(120) DEF TypeOK, Pcs
    <3>3. TypeOK'
      BY <1>1, <2>1, <2>3, <3>1, <3>2, ZenonT(120) DEF TypeOK
    <3>4. DataInv'
      BY <1>1, <2>1, <2>3, <3>1, ZenonT(120) DEF DataInv, ReadyBacked, EditAtomic, GuardOutlivesNetwork, JournalInv,
         Pending,
         NewPolicy, Complete, AnchorsLive, NoReceipt
    <3>5. PcInv'
      BY <2>1, <3>1, <3>2, ZenonT(120) DEF PcInv, BlockInv, Fits, OpAt, EditAt, DisableAt, NetAt, PeerAt, Pending,
         NewPolicy,
         GuardHeld, Complete, Open, OnlyDisable, DisablePcs, Past, Building
    <3>6. QED
      BY <3>3, <3>4, <3>5, Zenon DEF IInv
  <2>4. QED
    BY <1>2, <2>2, <2>3, Zenon DEF NewLifetime, Save
<1>3. CASE PublishGuard
  <2>1. /\ run.pc = "publish" /\ UNCHANGED <<network, journal, settings, birth, served>> /\ Goto("claim")
        /\ kernel' = [pins |-> birth, whole |-> TRUE, state |-> "blocked", paths |-> journal.policy]
    BY <1>3, Zenon DEF PublishGuard, At
  <2>2. kernel' \in Guards /\ kernel'.state = "blocked" /\ kernel'.paths = journal.policy
    BY <1>1, <2>1, Zenon DEF TypeOK, Guards, Journals
  <2>3. journal.pins = 0 /\ ~(receipt > 0)
    BY <1>1, <2>1, Zenon DEF PcInv, Fits, EditAt, DataInv, GuardOutlivesNetwork
  <2>4. run' \in Runs /\ run'.pc = "claim" /\ run'.op = run.op /\ run'.onError = run.onError
    BY <1>1, <2>1, GotoFacts, ZenonT(120) DEF TypeOK, Pcs
  <2>5. UNCHANGED <<receipt, live, unrecorded, fenced, tunnel, bound>>
    BY <2>1, Zenon DEF network
  <2>6. TypeOK'
    BY <1>1, <2>1, <2>2, <2>4, <2>5, ZenonT(120) DEF TypeOK
  <2>7. DataInv'
    BY <1>1, <2>1, <2>2, <2>3, <2>5, ZenonT(120) DEF DataInv, ReadyBacked, EditAtomic, GuardOutlivesNetwork,
       JournalInv, Pending,
       NewPolicy, Complete, AnchorsLive
  <2>8. PcInv'
    BY <1>1, <2>1, <2>2, <2>3, <2>4, ZenonT(120) DEF PcInv, BlockInv, Fits, OpAt, EditAt, DisableAt, NetAt, PeerAt,
       Pending,
       NewPolicy, GuardHeld, Complete, Open, OnlyDisable, DisablePcs, Past, Building
  <2>9. QED
    BY <2>6, <2>7, <2>8 DEF IInv
<1>4. CASE ClaimBirth
  <2>1. run.pc = "claim" /\ UNCHANGED <<network, settings, birth, kernel, served>>
    BY <1>4, Zenon DEF ClaimBirth, At
  <2>2. CASE UNCHANGED journal /\ Raise
    BY <1>1, <2>1, <2>2, RaiseKeeps, ZenonT(120) DEF Kept, TypeOK
  <2>3. CASE /\ kernel.pins # 0 /\ kernel.whole /\ kernel.state = "blocked" /\ kernel.paths = journal.policy
             /\ journal' = [journal EXCEPT !.pins = kernel.pins] /\ Goto("forget")
    <3>1. /\ journal.pins = 0 /\ ~(receipt > 0) /\ ~Pending /\ settings = journal.policy
          /\ journal.state \notin {"absent", "disabled", "disabling"}
      BY <1>1, <2>1, Zenon DEF PcInv, Fits, OpAt, EditAt, DataInv, GuardOutlivesNetwork, JournalInv
    <3>2. /\ journal' \in Journals /\ journal'.state = journal.state /\ journal'.policy = journal.policy
          /\ journal'.pins = kernel.pins /\ journal'.pending = journal.pending
          /\ journal'.started = journal.started /\ journal'.peer = journal.peer
      BY <1>1, <2>3, Zenon DEF TypeOK, Journals, Guards
    <3>3. run' \in Runs /\ run'.pc = "forget" /\ run'.op = run.op /\ run'.onError = run.onError
      BY <1>1, <2>3, GotoFacts, ZenonT(120) DEF TypeOK, Pcs
    <3>4. UNCHANGED <<receipt, live, unrecorded, fenced, tunnel, bound>>
      BY <2>1, Zenon DEF network
    <3>5. TypeOK'
      BY <1>1, <2>1, <3>2, <3>3, <3>4, ZenonT(120) DEF TypeOK
    <3>6. DataInv'
      BY <1>1, <2>1, <2>3, <3>1, <3>2, <3>4, ZenonT(120) DEF DataInv, ReadyBacked, EditAtomic, GuardOutlivesNetwork,
         JournalInv,
         Pending, NewPolicy, Complete, AnchorsLive
    <3>7. PcInv'
      BY <1>1, <2>1, <2>3, <3>1, <3>2, <3>3 DEF PcInv, BlockInv, Fits, OpAt, EditAt, DisableAt, NetAt, PeerAt,
         Pending, NewPolicy, GuardHeld, Complete, Open, OnlyDisable, DisablePcs, Past, Building
    <3>8. QED
      BY <3>5, <3>6, <3>7 DEF IInv
  <2>4. QED
    BY <1>4, <2>2, <2>3, Zenon DEF ClaimBirth, Save
<1>5. QED
  BY <1>2, <1>3, <1>4

\* The journal forgets an acquisition, or is told of one.
LEMMA StartsKeep ==
    ASSUME IInv, Unstart \/ JournalStart
    PROVE  IInv'
<1>1. TypeOK /\ DataInv /\ PcInv
  BY DEF IInv
<1>2. CASE Unstart
  <2>1. /\ run.pc = "unstart" /\ UNCHANGED <<network, settings, birth, kernel, served>> /\ Goto("discard")
        /\ journal' = [journal EXCEPT !.started = FALSE]
    BY <1>2, Zenon DEF Unstart, At, Save
  <2>2. /\ journal' \in Journals /\ journal'.state = journal.state /\ journal'.policy = journal.policy
        /\ journal'.pins = journal.pins /\ journal'.pending = journal.pending
        /\ journal'.started = FALSE /\ journal'.peer = journal.peer
    BY <1>1, <2>1, Zenon DEF TypeOK, Journals
  <2>3. run' \in Runs /\ run'.pc = "discard" /\ run'.op = run.op
    BY <1>1, <2>1, GotoFacts, ZenonT(120) DEF TypeOK, Pcs
  <2>4. UNCHANGED <<receipt, live, unrecorded, fenced, tunnel, bound>>
    BY <2>1, Zenon DEF network
  <2>5. /\ kernel.state = "blocked" /\ receipt <= 0 /\ receipt # Len(Order) /\ GuardHeld /\ ~Pending
        /\ run.op # "disable" /\ journal.peer = 0
    BY <1>1, <2>1, OrderFacts DEF TypeOK, PcInv, BlockInv, Open, Fits, OpAt, NetAt, EditAt, PeerAt, DisablePcs, Past
  <2>6. TypeOK'
    BY <1>1, <2>1, <2>2, <2>3, <2>4, ZenonT(120) DEF TypeOK
  <2>7. DataInv'
    BY <1>1, <2>1, <2>2, <2>4, <2>5, SMTT(120) DEF DataInv, ReadyBacked, EditAtomic, GuardOutlivesNetwork,
       JournalInv, Pending,
       NewPolicy, Complete, AnchorsLive, NoReceipt, TypeOK
  <2>8. PcInv'
    BY <1>1, <2>1, <2>2, <2>3, <2>4, <2>5, ZenonT(120) DEF PcInv, BlockInv, Fits, OpAt, EditAt, DisableAt, NetAt, PeerAt,
       Pending, NewPolicy, GuardHeld, Complete, Open, OnlyDisable, DisablePcs, Past, Building
  <2>9. QED
    BY <2>6, <2>7, <2>8 DEF IInv
<1>3. CASE JournalStart
  <2>1. /\ run.pc = "journalStart" /\ UNCHANGED <<network, settings, birth, kernel, served>>
        /\ journal' = [journal EXCEPT !.started = TRUE]
        /\ run' = [run EXCEPT !.pc = "create", !.peer = journal.active, !.back = "ready"]
    BY <1>3, Zenon DEF JournalStart, At, Save
  <2>2. /\ journal' \in Journals /\ journal'.state = journal.state /\ journal'.policy = journal.policy
        /\ journal'.pins = journal.pins /\ journal'.pending = journal.pending
        /\ journal'.active = journal.active /\ journal'.started = TRUE /\ journal'.peer = journal.peer
    BY <1>1, <2>1, ZenonT(120) DEF TypeOK, Journals
  <2>3. /\ journal.active \in 0..Peers /\ "create" \in Pcs
        /\ "ready" \in {"none", "ready", "probe", "commitPeer"}
    BY <1>1, PeersNat DEF TypeOK, Journals, Pcs
  <2>4. run' \in Runs
    BY <1>1, <2>1, <2>3, ZenonT(120) DEF TypeOK, Runs
  <2>5. run'.pc = "create" /\ run'.op = run.op /\ run'.back = "ready"
    BY <1>1, <2>1, ZenonT(120) DEF TypeOK, Runs
  <2>6. UNCHANGED <<receipt, live, unrecorded, fenced, tunnel, bound>>
    BY <2>1, Zenon DEF network
  <2>7. /\ kernel.state = "blocked" /\ receipt = 0 /\ GuardHeld /\ ~Pending
        /\ run.op # "disable" /\ journal.peer = 0 /\ journal.state = "preparing"
    BY <1>1, <2>1, Zenon DEF PcInv, BlockInv, Open, Fits, OpAt, NetAt, EditAt, PeerAt, DisablePcs, Past
  <2>8. TypeOK'
    BY <1>1, <2>1, <2>2, <2>4, <2>6, ZenonT(120) DEF TypeOK
  <2>9. DataInv'
    BY <1>1, <2>1, <2>2, <2>6, <2>7, ZenonT(120) DEF DataInv, ReadyBacked, EditAtomic, GuardOutlivesNetwork,
       JournalInv, Pending,
       NewPolicy, Complete, AnchorsLive
  <2>10. PcInv'
    BY <1>1, <2>1, <2>2, <2>5, <2>6, <2>7, SMTT(120) DEF PcInv, BlockInv, Fits, OpAt, EditAt, DisableAt, NetAt, PeerAt,
       Pending, NewPolicy, GuardHeld, Complete, Open, OnlyDisable, DisablePcs, Past, Building
  <2>11. QED
    BY <2>8, <2>9, <2>10 DEF IInv
<1>4. QED
  BY <1>2, <1>3

\* disable(): "disabling" is journaled before anything goes, the pins go last.
LEMMA RemovalsKeep ==
    ASSUME IInv, Disabling \/ Unpin \/ Disabled
    PROVE  IInv'
<1>1. TypeOK /\ DataInv /\ PcInv
  BY DEF IInv
<1>2. CASE Disabling
  <2>1. /\ run.pc = "disabling" /\ UNCHANGED <<network, settings, birth, kernel, served>>
        /\ journal' = [journal EXCEPT !.state = "disabling"]
        /\ Goto(IF receipt # NoReceipt THEN "cleanup" ELSE "unpin")
    BY <1>2, Zenon DEF Disabling, At, Save
  <2>2. /\ journal' \in Journals /\ journal'.state = "disabling" /\ journal'.policy = journal.policy
        /\ journal'.pins = journal.pins /\ journal'.pending = journal.pending
        /\ journal'.started = journal.started /\ journal'.peer = journal.peer
    BY <1>1, <2>1, Zenon DEF TypeOK, Journals, States
  <2>3. /\ run' \in Runs /\ run'.op = run.op /\ run'.onError = run.onError
        /\ run'.pc = IF receipt # NoReceipt THEN "cleanup" ELSE "unpin"
    BY <1>1, <2>1, GotoFacts, ZenonT(120) DEF TypeOK, Pcs
  <2>4. UNCHANGED <<receipt, live, unrecorded, fenced, tunnel, bound>>
    BY <2>1, Zenon DEF network
  <2>5. kernel.state = "blocked" /\ ~Pending /\ journal.pins # 0 /\ run.op = "disable" /\ run.onError = "raise"
    BY <1>1, <2>1, Zenon DEF PcInv, BlockInv, Open, Fits, OpAt, EditAt, DisableAt, OnlyDisable
  <2>6. TypeOK'
    BY <1>1, <2>1, <2>2, <2>3, <2>4, ZenonT(120) DEF TypeOK
  <2>7. DataInv'
    BY <1>1, <2>1, <2>2, <2>4, <2>5, ZenonT(120) DEF DataInv, ReadyBacked, EditAtomic, GuardOutlivesNetwork,
       JournalInv, Pending,
       NewPolicy, Complete, AnchorsLive
  <2>8. PcInv'
    BY <2>1, <2>2, <2>3, <2>4, <2>5, ZenonT(120) DEF PcInv, BlockInv, Fits, OpAt, EditAt, DisableAt, NetAt, PeerAt,
       Pending,
       NewPolicy, GuardHeld, Complete, Open, OnlyDisable, DisablePcs, Past, Building
  <2>9. QED
    BY <2>6, <2>7, <2>8 DEF IInv
<1>3. CASE Unpin
  <2>1. run.pc = "unpin" /\ UNCHANGED <<network, journal, settings, birth, served>>
    BY <1>3, Zenon DEF Unpin, At
  <2>2. /\ kernel.state = "blocked" /\ ~Pending /\ receipt = NoReceipt /\ journal.state = "disabling"
        /\ run.op = "disable" /\ run.onError = "raise"
    BY <1>1, <2>1, Zenon DEF PcInv, BlockInv, Open, Fits, OpAt, EditAt, DisableAt, OnlyDisable
  <2>3. CASE Raise /\ UNCHANGED kernel
    BY <1>1, <2>1, <2>3, RaiseKeeps, ZenonT(120) DEF Kept, TypeOK
  <2>4. CASE Goto("disabled") /\ UNCHANGED kernel
    <3>1. Fits("disabled") /\ Kept
      BY <1>1, <2>1, <2>2, <2>4, ZenonT(120) DEF PcInv, Fits, OpAt, EditAt, DisableAt, NetAt, PeerAt, OnlyDisable,
         DisablePcs,
         Past, Building, Kept, TypeOK
    <3>2. QED
      BY <2>2, <2>4, <3>1, GotoKeeps, ZenonT(120) DEF Pcs
  <2>5. CASE /\ kernel' = IF kernel.whole THEN [kernel EXCEPT !.whole = FALSE] ELSE NoGuard
             /\ UNCHANGED run
    <3>1. kernel' \in Guards /\ kernel'.state = "blocked"
      BY <1>1, <2>2, <2>5, ZenonT(120) DEF TypeOK, Guards, NoGuard
    <3>2. UNCHANGED <<receipt, live, unrecorded, fenced, tunnel, bound>>
      BY <2>1, Zenon DEF network
    <3>3. TypeOK'
      BY <1>1, <2>1, <2>5, <3>1, <3>2, ZenonT(120) DEF TypeOK
    <3>4. DataInv'
      <4>1. ReadyBacked' /\ EditAtomic' /\ GuardOutlivesNetwork'
        BY <2>1, <2>2, <3>1, <3>2, SMTT(120) DEF ReadyBacked, EditAtomic, GuardOutlivesNetwork, NoReceipt
      <4>2. JournalInv'
        BY <1>1, <2>1, <3>1, <3>2, ZenonT(120) DEF DataInv, JournalInv, Pending, Complete
      <4>3. QED
        BY <4>1, <4>2, ZenonT(120) DEF DataInv
    <3>5. PcInv'
      BY <1>1, <2>1, <2>2, <2>5, <3>1, <3>2, ZenonT(120) DEF PcInv, BlockInv, Fits, OpAt, EditAt, DisableAt, NetAt,
         PeerAt,
         Pending, NewPolicy, GuardHeld, Complete, Open, OnlyDisable, DisablePcs, Past, Building
    <3>6. QED
      BY <3>3, <3>4, <3>5 DEF IInv
  <2>6. QED
    BY <1>3, <2>3, <2>4, <2>5, Zenon DEF Unpin
<1>4. CASE Disabled
  <2>1. /\ run.pc = "disabled" /\ UNCHANGED <<network, settings, birth, kernel>> /\ served' = FALSE /\ Finish
        /\ journal' = [journal EXCEPT !.state = "disabled", !.pins = 0, !.pending = <<>>, !.peer = 0]
    BY <1>4, Zenon DEF Disabled, At, Save
  <2>2. /\ "disabled" \in States /\ 0 \in {0, 1} /\ 0 \in 0..Peers
        /\ <<>> \in {<<>>} \cup {<<p>> : p \in SUBSET Paths}
    BY PeersNat DEF States
  <2>3. journal' \in Journals
    BY <1>1, <2>1, <2>2, Zenon DEF TypeOK, Journals
  <2>4. journal'.state = "disabled" /\ journal'.pins = 0 /\ journal'.pending = <<>> /\ journal'.peer = 0
    BY <1>1, <2>1, Zenon DEF TypeOK, Journals
  <2>5. run' \in Runs /\ run'.pc = "idle" /\ run'.op = "idle"
    BY <2>1, IdleFacts, Zenon DEF Finish
  <2>6. UNCHANGED <<receipt, live, unrecorded, fenced, tunnel, bound>>
    BY <2>1, Zenon DEF network
  <2>7. kernel.state = "blocked" /\ receipt = NoReceipt
    BY <1>1, <2>1, Zenon DEF PcInv, BlockInv, Open, Fits, DisableAt
  <2>8. TypeOK'
    BY <1>1, <2>1, <2>3, <2>5, <2>6, ZenonT(120) DEF TypeOK
  <2>9. DataInv'
    BY <1>1, <2>1, <2>4, <2>6, <2>7, SMTT(120) DEF DataInv, ReadyBacked, EditAtomic, GuardOutlivesNetwork,
       JournalInv, Pending,
       NewPolicy, Complete, AnchorsLive, NoReceipt
  <2>10. PcInv'
    BY <2>5, IdleFits, Zenon
  <2>11. QED
    BY <2>8, <2>9, <2>10 DEF IInv
<1>5. QED
  BY <1>2, <1>3, <1>4
-----------------------------------------------------------------------------
(* Steps that change the network.                                          *)

\* Under a blocked guard the network may change as long as what is recorded
\* stands under a started acquisition and a served network stays complete.
LEMMA NetworkData ==
    ASSUME TypeOK, DataInv, kernel.state = "blocked", UNCHANGED <<journal, settings, birth, kernel, served>>,
           receipt' > 0 => GuardHeld /\ journal.started,
           served => Complete' \/ journal.state = "disabling"
    PROVE  DataInv'
BY ZenonT(120) DEF DataInv, ReadyBacked, EditAtomic, GuardOutlivesNetwork, JournalInv, GuardHeld, Pending, NewPolicy

\* What a command does on the way to building, releasing or switching.
LEMMA ReceiptsKeep ==
    ASSUME IInv, Started \/ Release \/ Discard \/ Prepare
    PROVE  IInv'
<1>1. TypeOK /\ DataInv /\ PcInv
  BY DEF IInv
<1>2. CASE Started
  <2>1. /\ run.pc = "started" /\ UNCHANGED <<journal, settings, birth, kernel, served>>
        /\ kernel.state = "blocked" /\ GuardHeld /\ ~Pending /\ run.op # "disable" /\ journal.peer = 0
        /\ journal.state \notin {"absent", "disabled", "disabling"}
    BY <1>1, <1>2, ZenonT(120) DEF Started, At, PcInv, BlockInv, Open, Fits, OpAt, NetAt, EditAt, PeerAt, DisablePcs, Past
  <2>2. CASE UNCHANGED network /\ (Raise \/ Goto("preparing") \/ (Goto("release") /\ ~Complete))
    <3>1. Kept
      BY <1>1, <2>1, <2>2, Zenon DEF Kept, TypeOK
    <3>2. Fits("preparing") /\ (~Complete => Fits("release"))
      BY <1>1, <2>1, ZenonT(120) DEF PcInv, Fits, OpAt, EditAt, DisableAt, NetAt, PeerAt, OnlyDisable, DisablePcs,
         Past, Building
    <3>3. QED
      BY <2>1, <2>2, <3>1, <3>2, RaiseKeeps, GotoKeeps, ZenonT(120) DEF Pcs
  <2>3. CASE DiscardReceipt /\ Goto("preparing")
    <3>1. receipt = 0 /\ receipt' = -1 /\ UNCHANGED <<live, unrecorded, fenced, tunnel, bound>>
      BY <2>3, Zenon DEF DiscardReceipt, NoReceipt
    <3>2. run' \in Runs /\ run'.pc = "preparing" /\ run'.op = run.op
      BY <1>1, <2>3, GotoFacts, ZenonT(120) DEF TypeOK, Pcs
    <3>3. TypeOK'
      BY <1>1, <2>1, <3>1, <3>2, OrderFacts, SMTT(120) DEF TypeOK, NoReceipt
    <3>4. DataInv'
      BY <1>1, <2>1, <3>1, NetworkData, OrderFacts, SMTT(120) DEF DataInv, JournalInv, Complete
    <3>5. PcInv'
      BY <2>1, <3>1, <3>2, ZenonT(120) DEF PcInv, BlockInv, Fits, OpAt, EditAt, DisableAt, NetAt, PeerAt, Pending,
         NewPolicy,
         GuardHeld, Complete, Open, OnlyDisable, DisablePcs, Past, Building
    <3>6. QED
      BY <3>3, <3>4, <3>5, Zenon DEF IInv
  <2>4. QED
    BY <1>2, <2>2, <2>3, ZenonT(120) DEF Started, Interrupted
<1>3. CASE Release
  <2>1. run.pc = "release" /\ UNCHANGED <<journal, settings, birth, kernel, served>>
    BY <1>3, Zenon DEF Release, At
  <2>2. /\ kernel.state = "blocked" /\ ~Pending /\ journal.state \notin {"absent", "disabled"}
        /\ run.op = "disable" => journal.state = "disabling"
        /\ run.op # "disable" => GuardHeld /\ ~Complete /\ journal.state # "disabling" /\ journal.peer = 0
    BY <1>1, <2>1, ZenonT(120) DEF PcInv, BlockInv, Open, Fits, OpAt, NetAt, EditAt, DisableAt, PeerAt, DisablePcs, Past
  <2>3. CASE receipt > 0
    <3>1. RemoveTop /\ UNCHANGED run
      BY <1>3, <2>3, Zenon DEF Release
    <3>2. /\ receipt' \in {receipt, receipt - 1} /\ live' \subseteq live /\ unrecorded' \in live' \cup {"none"}
          /\ fenced' \in BOOLEAN /\ tunnel' \in {0, tunnel} /\ bound' \in {0, bound}
      BY <1>1, <3>1, ZenonT(120) DEF RemoveTop, Delete, TypeOK
    <3>3. receipt \in Int /\ receipt' \in NoReceipt..Len(Order) /\ receipt' <= receipt
      BY <1>1, <2>3, <3>2, OrderFacts, SMTT(120) DEF TypeOK, NoReceipt
    <3>4. TypeOK'
      BY <1>1, <2>1, <3>1, <3>2, <3>3, PeersNat, SMTT(120) DEF TypeOK
    <3>5. Complete' => Complete
      BY <1>1, <3>3, OrderFacts, SMTT(120) DEF Complete, TypeOK, NoReceipt
    <3>6. DataInv'
      BY <1>1, <2>1, <2>2, <2>3, NetworkData, ZenonT(120) DEF DataInv, JournalInv, GuardOutlivesNetwork, GuardHeld
    <3>7. PcInv'
      BY <1>1, <2>1, <2>2, <3>1, <3>5, ZenonT(120) DEF PcInv, BlockInv, Fits, OpAt, EditAt, DisableAt, NetAt, PeerAt,
         Pending,
         GuardHeld, Open, OnlyDisable, Past, Building
    <3>8. QED
      BY <3>4, <3>6, <3>7 DEF IInv
  <2>4. CASE ~(receipt > 0)
    <3>1. UNCHANGED network /\ Goto(IF run.op = "disable" THEN "discard" ELSE "unstart")
      BY <1>3, <2>4, Zenon DEF Release
    <3>2. Kept /\ receipt <= 0
      BY <1>1, <2>1, <2>4, <3>1, OrderFacts, SMTT(120) DEF Kept, TypeOK, NoReceipt
    <3>3. Fits(IF run.op = "disable" THEN "discard" ELSE "unstart")
      BY <1>1, <2>1, <2>2, <3>2, ZenonT(120) DEF PcInv, Fits, OpAt, EditAt, DisableAt, NetAt, PeerAt, OnlyDisable,
         DisablePcs,
         Past, Building
    <3>4. QED
      BY <2>1, <2>2, <3>1, <3>2, <3>3, GotoKeeps, ZenonT(120) DEF Pcs
  <2>5. QED
    BY <2>3, <2>4, Zenon
<1>4. CASE Discard
  <2>1. /\ run.pc = "discard" /\ UNCHANGED <<journal, settings, birth, kernel, served>>
        /\ DiscardReceipt /\ Goto(IF run.op = "disable" THEN "unpin" ELSE "preparing")
    BY <1>4, Zenon DEF Discard, At
  <2>2. /\ kernel.state = "blocked" /\ ~Pending /\ journal.state \notin {"absent", "disabled"}
        /\ run.op = "disable" => journal.state = "disabling" /\ run.onError = "raise"
        /\ run.op # "disable" => GuardHeld /\ ~Complete /\ journal.state # "disabling" /\ journal.peer = 0
    BY <1>1, <2>1, Zenon DEF PcInv, BlockInv, Open, Fits, OpAt, NetAt, EditAt, DisableAt, PeerAt, DisablePcs, Past
  <2>3. receipt = 0 /\ receipt' = NoReceipt /\ UNCHANGED <<live, unrecorded, fenced, tunnel, bound>>
    BY <2>1, Zenon DEF DiscardReceipt
  <2>4. /\ run' \in Runs /\ run'.op = run.op /\ run'.onError = run.onError
        /\ run'.pc = IF run.op = "disable" THEN "unpin" ELSE "preparing"
    BY <1>1, <2>1, GotoFacts, ZenonT(120) DEF TypeOK, Pcs
  <2>5. TypeOK'
    BY <1>1, <2>1, <2>3, <2>4, OrderFacts, SMTT(120) DEF TypeOK, NoReceipt
  <2>6. DataInv'
    BY <1>1, <2>1, <2>2, <2>3, NetworkData, OrderFacts, SMTT(120) DEF DataInv, JournalInv, Complete, NoReceipt
  <2>7. PcInv'
    BY <2>1, <2>2, <2>3, <2>4, ZenonT(120) DEF PcInv, BlockInv, Fits, OpAt, EditAt, DisableAt, NetAt, PeerAt,
       Pending, NewPolicy,
       GuardHeld, Complete, Open, OnlyDisable, DisablePcs, Past, Building
  <2>8. QED
    BY <2>5, <2>6, <2>7 DEF IInv
<1>5. CASE Prepare
  <2>1. /\ run.pc = "prepare" /\ UNCHANGED <<journal, settings, birth, kernel, served>>
        /\ kernel.state = "blocked" /\ GuardHeld /\ ~Pending /\ run.op # "disable" /\ journal.peer = 0
        /\ journal.state = "preparing" /\ receipt = NoReceipt
    BY <1>1, <1>5, Zenon DEF Prepare, At, PcInv, BlockInv, Open, Fits, OpAt, NetAt, EditAt, PeerAt, DisablePcs, Past
  <2>2. CASE UNCHANGED network /\ Raise
    BY <1>1, <2>1, <2>2, RaiseKeeps, ZenonT(120) DEF Kept, TypeOK
  <2>3. CASE PublishReceipt /\ Goto("journalStart")
    <3>1. receipt' = 0 /\ UNCHANGED <<live, unrecorded, fenced, tunnel, bound>>
      BY <2>3, Zenon DEF PublishReceipt
    <3>2. run' \in Runs /\ run'.pc = "journalStart" /\ run'.op = run.op
      BY <1>1, <2>3, GotoFacts, ZenonT(120) DEF TypeOK, Pcs
    <3>3. TypeOK'
      BY <1>1, <2>1, <3>1, <3>2, OrderFacts, SMTT(120) DEF TypeOK, NoReceipt
    <3>4. DataInv'
      BY <1>1, <2>1, <3>1, NetworkData, OrderFacts, SMTT(120) DEF DataInv, JournalInv, Complete, NoReceipt
    <3>5. PcInv'
      BY <2>1, <3>1, <3>2, ZenonT(120) DEF PcInv, BlockInv, Fits, OpAt, EditAt, DisableAt, NetAt, PeerAt, Pending,
         NewPolicy,
         GuardHeld, Complete, Open, OnlyDisable, DisablePcs, Past, Building
    <3>6. QED
      BY <3>3, <3>4, <3>5 DEF IInv
  <2>4. QED
    BY <1>5, <2>2, <2>3, Zenon DEF Prepare
<1>6. QED
  BY <1>2, <1>3, <1>4, <1>5

\* Births, repairs and switches leave every record, or add one.
LEMMA BirthsKeep ==
    ASSUME IInv, CreateResource \/ CreateRoute \/ CaptureResource \/ ConfigureInterface
    PROVE  IInv'
<1>1. TypeOK /\ DataInv /\ PcInv
  BY DEF IInv
<1>2. /\ run.pc \in Building /\ UNCHANGED <<journal, settings, birth, kernel, served>>
  BY ZenonT(120) DEF CreateResource, CreateRoute, CaptureResource, ConfigureInterface, At, Building
<1>3. /\ kernel.state = "blocked" /\ GuardHeld /\ journal.started /\ receipt \in 0..5
      /\ run.op # "disable" /\ journal.state \notin {"absent", "disabled", "disabling"}
      /\ run.back \in {"ready", "probe", "commitPeer"}
      /\ run.back # "commitPeer" => journal.peer = 0 /\ ~Pending
      /\ run.back = "commitPeer" => journal.peer # 0 /\ run.then \in {"idle", "recover"}
  BY <1>1, <1>2, OrderFacts DEF TypeOK, PcInv, BlockInv, Open, Fits, OpAt, NetAt, PeerAt, Building, DisablePcs
\* Each goes on building, or back to where the birth was asked for.
<1>4. ASSUME NEW pc \in Building \cup {run.back}
      PROVE  pc \in Pcs
  BY <1>3, <1>4, ZenonT(120) DEF Building, Pcs
<1>5. ASSUME NEW pc \in Building \cup {run.back}, Goto(pc),
             receipt' \in receipt..Len(Order), live' \subseteq Resources, unrecorded' \in live' \cup {"none"},
             fenced' \in BOOLEAN, tunnel' \in 0..Peers, bound' \in 0..Peers
      PROVE  IInv'
  <2>1. /\ run' \in Runs /\ run'.pc = pc /\ run'.op = run.op /\ run'.onError = run.onError
        /\ run'.back = run.back /\ run'.then = run.then
    BY <1>1, <1>4, <1>5, GotoFacts, ZenonT(120) DEF TypeOK
  <2>2. receipt' \in NoReceipt..Len(Order) /\ receipt' >= 0 /\ (Complete => Complete')
    BY <1>3, <1>5, OrderFacts, SMTT(120) DEF Complete, NoReceipt
  <2>3. TypeOK'
    BY <1>1, <1>2, <1>5, <2>1, <2>2, ZenonT(120) DEF TypeOK
  <2>4. DataInv'
    BY <1>1, <1>2, <1>3, <2>2, NetworkData, ZenonT(120) DEF DataInv, JournalInv
  <2>5. PcInv'
    BY <1>1, <1>2, <1>3, <1>5, <2>1, <2>2, ZenonT(120) DEF PcInv, BlockInv, Fits, OpAt, EditAt, DisableAt, NetAt, PeerAt,
       Pending, GuardHeld, Open, OnlyDisable, DisablePcs, Past, Building
  <2>6. QED
    BY <2>3, <2>4, <2>5, Zenon DEF IInv
<1>6. ASSUME Raise, UNCHANGED network
      PROVE  IInv'
  BY <1>1, <1>2, <1>6, RaiseKeeps, Zenon DEF Kept, TypeOK, Building
<1>7. CASE CreateResource
  <2>1. NextBirth \in Resources
    BY <1>3, OrderFacts DEF NextBirth, Complete
  <2>2. Create(NextBirth) /\ Goto("capture")
    BY <1>7, ZenonT(120) DEF CreateResource
  <2>3. /\ receipt' \in receipt..Len(Order) /\ live' \subseteq Resources /\ unrecorded' \in live' \cup {"none"}
        /\ fenced' \in BOOLEAN /\ tunnel' \in 0..Peers /\ bound' \in 0..Peers
    BY <1>1, <1>3, <2>1, <2>2, OrderFacts, SMTT(120) DEF Create, TypeOK
  <2>4. QED
    BY <1>5, <2>2, <2>3, ZenonT(120) DEF Building
<1>8. CASE CreateRoute
  <2>1. CASE Create("preferred") /\ Goto("capture")
    <3>1. /\ receipt' \in receipt..Len(Order) /\ live' \subseteq Resources /\ unrecorded' \in live' \cup {"none"}
          /\ fenced' \in BOOLEAN /\ tunnel' \in 0..Peers /\ bound' \in 0..Peers
      BY <1>1, <1>3, <2>1, OrderFacts, SMTT(120) DEF Create, TypeOK
    <3>2. QED
      BY <1>5, <2>1, <3>1, ZenonT(120) DEF Building
  <2>2. QED
    BY <1>6, <1>8, <2>1, ZenonT(120) DEF CreateRoute
<1>9. CASE CaptureResource
  <2>1. CASE /\ Capture(run.peer)
             /\ Goto(IF unrecorded = "interface" THEN "configure"
                     ELSE IF unrecorded = "preferred" THEN run.back ELSE "create")
    <3>1. /\ receipt' \in receipt..Len(Order) /\ live' \subseteq Resources /\ unrecorded' \in live' \cup {"none"}
          /\ fenced' \in BOOLEAN
      BY <1>1, <1>3, <2>1, OrderFacts, SMTT(120) DEF Capture, TypeOK, Complete
    <3>2. tunnel' \in 0..Peers /\ bound' \in 0..Peers
      BY <1>1, <2>1, PeersNat, SMTT(120) DEF Capture, TypeOK, Runs
    <3>3. QED
      BY <1>5, <2>1, <3>1, <3>2, ZenonT(120) DEF Building
  <2>2. QED
    BY <1>6, <1>9, <2>1, ZenonT(120) DEF CaptureResource
<1>10. CASE ConfigureInterface
  <2>1. CASE Configure(run.peer) /\ Goto("route")
    <3>1. /\ receipt' \in receipt..Len(Order) /\ live' \subseteq Resources /\ unrecorded' \in live' \cup {"none"}
          /\ fenced' \in BOOLEAN /\ tunnel' \in 0..Peers /\ bound' \in 0..Peers
      BY <1>1, <1>3, <2>1, OrderFacts, SMTT(120) DEF Configure, TypeOK, Runs
    <3>2. QED
      BY <1>5, <2>1, <3>1, ZenonT(120) DEF Building
  <2>2. QED
    BY <1>6, <1>10, <2>1, ZenonT(120) DEF ConfigureInterface
<1>11. QED
  BY <1>7, <1>8, <1>9, <1>10
\* repair_missing() and switch_peer() delete and rebind, never a record.
LEMMA RepairsKeep ==
    ASSUME IInv, Repair \/ SwitchPeer
    PROVE  IInv'
<1>1. TypeOK /\ DataInv /\ PcInv
  BY DEF IInv
<1>2. run.pc \in {"repair", "switch"} /\ UNCHANGED <<journal, settings, birth, kernel, served>>
  BY ZenonT(120) DEF Repair, SwitchPeer, At
<1>3. /\ kernel.state = "blocked" /\ GuardHeld
      /\ run.op # "disable" /\ journal.state \notin {"absent", "disabled", "disabling"}
      /\ run.back \in {"ready", "probe", "commitPeer"}
      /\ run.back # "commitPeer" => journal.peer = 0 /\ ~Pending
      /\ run.back = "commitPeer" => journal.peer # 0 /\ run.then \in {"idle", "recover"}
      /\ run.pc = "switch" => run.back = "commitPeer"
  BY <1>1, <1>2, Zenon DEF PcInv, BlockInv, Open, Fits, OpAt, NetAt, PeerAt, Building, DisablePcs
\* The network changes, the records stay as many.
<1>4. ASSUME UNCHANGED receipt, live' \subseteq live, unrecorded' \in live' \cup {"none"},
             fenced' \in BOOLEAN, tunnel' \in 0..Peers, bound' \in 0..Peers, run' \in Runs
      PROVE  TypeOK' /\ DataInv'
  <2>1. TypeOK'
    BY <1>1, <1>2, <1>4, ZenonT(120) DEF TypeOK
  <2>2. DataInv'
    BY <1>1, <1>2, <1>3, <1>4, NetworkData, ZenonT(120) DEF DataInv, JournalInv, GuardOutlivesNetwork, GuardHeld, Complete
  <2>3. QED
    BY <2>1, <2>2, Zenon
<1>5. ASSUME NEW gone, Delete(gone), UNCHANGED run
      PROVE  IInv'
  <2>1. /\ UNCHANGED receipt /\ live' \subseteq live /\ unrecorded' \in live' \cup {"none"}
        /\ fenced' \in BOOLEAN /\ tunnel' \in 0..Peers /\ bound' \in 0..Peers /\ run' \in Runs
    BY <1>1, <1>5, Zenon DEF Delete, TypeOK
  <2>2. PcInv'
    BY <1>1, <1>2, <1>5, <2>1, SameFits, ZenonT(120)
  <2>3. QED
    BY <1>4, <2>1, <2>2, Zenon DEF IInv
<1>6. ASSUME Raise, UNCHANGED network
      PROVE  IInv'
  BY <1>1, <1>2, <1>6, RaiseKeeps, ZenonT(120) DEF Kept, TypeOK
<1>7. CASE Repair
  <2>1. run.pc = "repair"
    BY <1>7, Zenon DEF Repair, At
  <2>2. CASE Goto(run.back) /\ UNCHANGED network
    <3>1. Fits(run.back) /\ run.back \in Pcs
      BY <1>1, <1>2, <1>3, ZenonT(120) DEF PcInv, Fits, OpAt, EditAt, DisableAt, NetAt, PeerAt, OnlyDisable, DisablePcs,
         Past,
         Building, Pcs
    <3>2. QED
      BY <1>1, <1>2, <1>3, <2>2, <3>1, GotoKeeps, ZenonT(120) DEF Kept, TypeOK
  <2>3. CASE Complete /\ Fence /\ Goto(IF "interface" \in live THEN "route" ELSE "create")
    <3>1. /\ UNCHANGED receipt /\ live' \subseteq live /\ unrecorded' \in live' \cup {"none"}
          /\ fenced' \in BOOLEAN /\ tunnel' \in 0..Peers /\ bound' \in 0..Peers
      BY <1>1, <2>3, Zenon DEF Fence, TypeOK
    <3>2. /\ run' \in Runs /\ run'.pc \in {"route", "create"} /\ run'.op = run.op
          /\ run'.back = run.back /\ run'.then = run.then
      BY <1>1, <2>3, GotoFacts, ZenonT(120) DEF TypeOK, Pcs
    <3>3. journal.started /\ receipt >= 0
      BY <1>1, <2>3, OrderFacts, SMTT(120) DEF Complete, DataInv, JournalInv
    <3>4. PcInv'
      BY <1>2, <1>3, <3>1, <3>2, <3>3, ZenonT(120) DEF PcInv, BlockInv, Fits, OpAt, EditAt, DisableAt, NetAt, PeerAt,
         Pending,
         NewPolicy, GuardHeld, Complete, Open, OnlyDisable, DisablePcs, Past, Building
    <3>5. QED
      BY <1>4, <3>1, <3>2, <3>4, Zenon DEF IInv
  <2>4. QED
    BY <1>5, <1>6, <1>7, <2>2, <2>3, ZenonT(120) DEF Repair
<1>8. CASE SwitchPeer
  <2>1. run.pc = "switch"
    BY <1>8, ZenonT(120) DEF SwitchPeer, At
  <2>2. CASE Goto("commitPeer") /\ UNCHANGED network
    <3>1. Fits("commitPeer")
      BY <1>1, <1>3, <2>1, ZenonT(120) DEF PcInv, Fits, OpAt, EditAt, DisableAt, NetAt, PeerAt, OnlyDisable,
         DisablePcs, Past,
         Building
    <3>2. QED
      BY <1>1, <1>2, <1>3, <2>2, <3>1, GotoKeeps, ZenonT(120) DEF Kept, TypeOK, Pcs
  <2>3. CASE Rebind(run.peer) /\ Goto("repair")
    <3>1. /\ UNCHANGED receipt /\ live' \subseteq live /\ unrecorded' \in live' \cup {"none"}
          /\ fenced' \in BOOLEAN /\ tunnel' \in 0..Peers /\ bound' \in 0..Peers
      BY <1>1, <2>3, ZenonT(120) DEF Rebind, TypeOK, Runs
    <3>2. /\ run' \in Runs /\ run'.pc = "repair" /\ run'.op = run.op
          /\ run'.back = run.back /\ run'.then = run.then
      BY <1>1, <2>3, GotoFacts, ZenonT(120) DEF TypeOK, Pcs
    <3>3. PcInv'
      BY <1>2, <1>3, <2>1, <3>1, <3>2, ZenonT(120) DEF PcInv, BlockInv, Fits, OpAt, EditAt, DisableAt, NetAt, PeerAt,
         Pending,
         NewPolicy, GuardHeld, Complete, Open, OnlyDisable, DisablePcs, Past, Building
    <3>4. QED
      BY <1>4, <3>1, <3>2, <3>3, ZenonT(120) DEF IInv
  <2>4. QED
    BY <1>5, <1>6, <1>8, <2>2, <2>3, ZenonT(120) DEF SwitchPeer
<1>9. QED
  BY <1>7, <1>8

\* A complete, healthy network has its anchors and is bound to its peer.
LEMMA HealthyFacts ==
    ASSUME TypeOK, NEW peer, HealthReady(peer)
    PROVE  Complete /\ receipt > 0 /\ AnchorsLive /\ bound = peer
<1>1. Complete /\ receipt = 5 /\ Recorded \subseteq live
  BY OrderFacts, Zenon DEF HealthReady, Missing, Complete
<1>2. Order[1] = "fallback" /\ Order[2] = "rule" /\ Order[3] = "nft"
  BY ZenonT(120) DEF Order
<1>3. Anchors \subseteq Recorded
  BY <1>1, <1>2 DEF Anchors, Recorded
<1>4. bound = peer
  BY <1>1, <1>3, ZenonT(120) DEF HealthReady, Changed, Anchors
<1>5. QED
  BY <1>1, <1>3, <1>4, SMTT(120) DEF AnchorsLive

\* set_state("ready") finds everything that ReadyBacked asks for.
LEMMA ProbeKeeps ==
    ASSUME IInv, ProbeAnswers
    PROVE  IInv'
<1>1. TypeOK /\ DataInv /\ PcInv
  BY Zenon DEF IInv
<1>2. run.pc = "probe" /\ UNCHANGED <<network, journal, settings, birth>>
  BY Zenon DEF ProbeAnswers, At
<1>3. /\ ~Pending /\ journal.peer = 0 /\ run.op # "disable"
      /\ journal.state \notin {"absent", "disabled", "disabling"}
  BY <1>1, <1>2, Zenon DEF PcInv, Fits, OpAt, EditAt, PeerAt, DisablePcs, Past
<1>4. CASE Raise /\ UNCHANGED <<kernel, served>>
  BY <1>1, <1>2, <1>4, RaiseKeeps, ZenonT(120) DEF Kept, TypeOK
<1>5. CASE /\ HealthReady(journal.active) /\ Observed(TRUE) /\ Goto("saveReady")
           /\ kernel' = [kernel EXCEPT !.state = "ready"] /\ served' = TRUE
  <2>1. Complete /\ receipt > 0 /\ AnchorsLive /\ bound = journal.active
    BY <1>1, <1>5, HealthyFacts, ZenonT(120)
  <2>2. /\ kernel' \in Guards /\ kernel'.pins = kernel.pins /\ kernel'.whole = kernel.whole
        /\ kernel'.paths = kernel.paths
    BY <1>1, <1>5, Zenon DEF TypeOK, Guards
  <2>3. run' \in Runs /\ run'.pc = "saveReady" /\ run'.op = run.op
    BY <1>1, <1>5, GotoFacts, ZenonT(120) DEF TypeOK, Pcs
  <2>4. /\ kernel.whole /\ kernel.pins = journal.pins /\ kernel.pins # 0 /\ kernel.paths = journal.policy
        /\ settings = journal.policy /\ journal.started /\ journal.state # "loading"
    BY <1>1, <1>3, <1>5, <2>1, ZenonT(120) DEF Observed, Exists, DataInv, EditAtomic, JournalInv
  <2>5. UNCHANGED <<receipt, live, unrecorded, fenced, tunnel, bound>>
    BY <1>2, Zenon DEF network
  <2>6. TypeOK'
    BY <1>1, <1>2, <1>5, <2>2, <2>3, <2>5, ZenonT(120) DEF TypeOK
  <2>7. DataInv'
    BY <1>1, <1>2, <1>3, <1>5, <2>1, <2>2, <2>4, <2>5, ZenonT(120) DEF DataInv, ReadyBacked, EditAtomic,
       GuardOutlivesNetwork,
       JournalInv, Pending, NewPolicy, Complete, AnchorsLive
  <2>8. PcInv'
    <3>1. journal'.state \notin {"absent", "disabled", "disabling"} /\ journal'.peer = 0 /\ ~Pending'
      BY <1>2, <1>3, ZenonT(120) DEF Pending
    <3>2. QED
      BY <1>3, <2>3, <3>1, ZenonT(120) DEF PcInv, BlockInv, Fits, OpAt, EditAt, DisableAt, NetAt, PeerAt, Open,
         OnlyDisable, Past,
         Building
  <2>9. QED
    BY <2>6, <2>7, <2>8, ZenonT(120) DEF IInv
<1>6. QED
  BY <1>4, <1>5, Zenon DEF ProbeAnswers

\* The tunnel is lost, or the machine.
LEMMA LossesKeep ==
    ASSUME IInv, TunnelLost \/ Reboot
    PROVE  IInv'
<1>1. TypeOK /\ DataInv /\ PcInv
  BY Zenon DEF IInv
<1>2. CASE TunnelLost
  <2>1. PICK gone \in {{"preferred"}, Replaceable} : Delete(gone)
    BY <1>2, Zenon DEF TunnelLost
  <2>2. UNCHANGED <<journal, settings, birth, kernel, run, served, receipt, fenced, tunnel, bound>>
    BY <1>2, <2>1, Zenon DEF TunnelLost, Delete
  <2>3. live' \subseteq live /\ unrecorded' \in live' \cup {"none"} /\ (AnchorsLive => AnchorsLive')
    BY <1>1, <2>1, Zenon DEF Delete, TypeOK, AnchorsLive, Anchors, Replaceable
  <2>4. TypeOK'
    BY <1>1, <2>2, <2>3, ZenonT(120) DEF TypeOK
  <2>5. DataInv'
    BY <1>1, <2>2, <2>3, ZenonT(120) DEF DataInv, ReadyBacked, EditAtomic, GuardOutlivesNetwork, JournalInv, Pending,
       NewPolicy,
       Complete
  <2>6. PcInv'
    BY <1>1, <2>2, SameFits, Zenon
  <2>7. QED
    BY <2>4, <2>5, <2>6, ZenonT(120) DEF IInv
<1>3. CASE Reboot
  <2>1. /\ receipt' = -1 /\ live' = {} /\ unrecorded' = "none" /\ fenced' = FALSE /\ tunnel' = 0 /\ bound' = 0
        /\ journal' = NoJournal /\ birth' = 0 /\ kernel' = NoGuard /\ run' = Idle /\ served' = FALSE
        /\ UNCHANGED settings
    BY <1>3, Zenon DEF Reboot, NoReceipt
  <2>2. kernel' \in Guards /\ kernel'.state = "blocked"
    BY <2>1, Zenon DEF NoGuard, Guards
  <2>3. TypeOK'
    <3>1. receipt' \in NoReceipt..Len(Order) /\ tunnel' \in 0..Peers /\ bound' \in 0..Peers
      BY <2>1, OrderFacts, PeersNat, SMTT(120) DEF NoReceipt
    <3>2. journal' \in Journals /\ run' \in Runs /\ settings' \subseteq Paths
      BY <1>1, <2>1, IdleFacts, NoJournalFacts, ZenonT(120) DEF TypeOK
    <3>3. QED
      BY <2>1, <2>2, <3>1, <3>2, ZenonT(120) DEF TypeOK
  <2>4. DataInv'
    BY <2>1, <2>2, NoJournalFacts DEF DataInv, ReadyBacked, EditAtomic, GuardOutlivesNetwork, JournalInv, Pending,
       NewPolicy, Complete, AnchorsLive
  <2>5. PcInv'
    BY <2>1, <2>2, IdleFacts, NoJournalFacts, ZenonT(120) DEF PcInv, BlockInv, Fits, OpAt, EditAt, DisableAt, NetAt,
       PeerAt,
       Pending, NewPolicy, GuardHeld, Complete, Open, OnlyDisable, DisablePcs, Past, Building
  <2>6. QED
    BY <2>3, <2>4, <2>5, Zenon DEF IInv
<1>4. QED
  BY <1>2, <1>3
-----------------------------------------------------------------------------
(* The invariant, and what follows from it.                                *)

\* Nothing is installed, recorded or marked at first.
LEMMA InitIInv == Init => IInv
<1> SUFFICES ASSUME Init PROVE IInv
  BY Zenon
<1>1. /\ receipt = -1 /\ live = {} /\ unrecorded = "none" /\ fenced = FALSE /\ tunnel = 0 /\ bound = 0
      /\ journal = NoJournal /\ settings \subseteq Paths /\ birth = 0 /\ kernel = NoGuard /\ run = Idle
      /\ served = FALSE
  BY Zenon DEF Init, NetworkInit, NoReceipt
<1>2. kernel \in Guards /\ kernel.state = "blocked"
  BY <1>1, Zenon DEF NoGuard, Guards
<1>3. receipt \in NoReceipt..Len(Order) /\ tunnel \in 0..Peers /\ bound \in 0..Peers
  BY <1>1, OrderFacts, PeersNat DEF NoReceipt
<1>4. TypeOK
  BY <1>1, <1>2, <1>3, IdleFacts, NoJournalFacts, ZenonT(120) DEF TypeOK
<1>5. DataInv
  BY <1>1, <1>2, NoJournalFacts, SMTT(120) DEF DataInv, ReadyBacked, EditAtomic, GuardOutlivesNetwork, JournalInv,
     Pending,
     NewPolicy, Complete, AnchorsLive
<1>6. PcInv
  BY <1>1, <1>2, IdleFacts, NoJournalFacts, ZenonT(120) DEF PcInv, BlockInv, Fits, OpAt, EditAt, DisableAt, NetAt, PeerAt,
     Pending, NewPolicy, GuardHeld, Complete, Open, OnlyDisable, DisablePcs, Past, Building
<1>7. QED
  BY <1>4, <1>5, <1>6, Zenon DEF IInv

\* Every step of a command, of a crash and of the world preserves the invariant.
LEMMA NextIInv == IInv /\ [Next \/ RetryDisable]_vars => IInv'
<1> SUFFICES ASSUME IInv, [Next \/ RetryDisable]_vars PROVE IInv'
  BY Zenon
<1>1. CASE GuardEnter \/ OldLifetime \/ ForgetBirth \/ RecordBirth \/ ClaimForgets \/ RecoverNothing
             \/ ResumeNothing \/ DegradeBlock
  BY <1>1, GuardMoves, Zenon
<1>2. CASE Disable \/ DisableClaim \/ DisableBlock \/ Cleanup
  BY <1>2, DisableMoves, Zenon
<1>3. CASE \/ \E op \in {"guard", "activate", "disable"} : Command(op)
           \/ \E op \in {"add", "remove"}, p \in Paths : Include(op, p)
           \/ Check \/ WatchStarts \/ WatchActivates \/ RetryDisable
  BY <1>3, CommandsStart, Zenon
<1>4. CASE StepFails \/ Crash \/ UnderlayUnavailable \/ ProbeUnavailable
  BY <1>4, FailuresKeep, Zenon
<1>5. CASE Ready \/ Health \/ ResumePeer
  BY <1>5, ReadyMoves, ZenonT(120)
<1>6. CASE Guarded \/ DegradeSave \/ Preparing \/ SaveReady
  BY <1>6, StatesKeep
<1>7. CASE Edit \/ RecoverKernel \/ RecoverDisk \/ RecoverSave
  BY <1>7, EditsKeep, Zenon
<1>8. CASE FailedProbe \/ CommitPeer
  BY <1>8, PeersKeep, ZenonT(120)
<1>9. CASE NewLifetime \/ PublishGuard \/ ClaimBirth
  BY <1>9, LoadsKeep, SMTT(120)
<1>10. CASE Unstart \/ JournalStart
  BY <1>10, StartsKeep, Zenon
<1>11. CASE Disabling \/ Unpin \/ Disabled
  BY <1>11, RemovalsKeep, SMTT(120)
<1>12. CASE Started \/ Release \/ Discard \/ Prepare
  BY <1>12, ReceiptsKeep
<1>13. CASE CreateResource \/ CreateRoute \/ CaptureResource \/ ConfigureInterface
  BY <1>13, BirthsKeep
<1>14. CASE Repair \/ SwitchPeer
  BY <1>14, RepairsKeep
<1>15. CASE ProbeAnswers
  BY <1>15, ProbeKeeps, Zenon
<1>16. CASE TunnelLost \/ Reboot
  BY <1>16, LossesKeep, ZenonT(120)
<1>17. CASE UNCHANGED vars
  <2>1. UNCHANGED <<receipt, live, unrecorded, fenced, tunnel, bound, journal, settings, birth, kernel, run,
     served>>
    BY <1>17, Zenon DEF vars, network
  <2>2. TypeOK' /\ DataInv'
    <3>1. TypeOK'
      BY <2>1, ZenonT(120) DEF IInv, TypeOK
    <3>2. ReadyBacked' /\ EditAtomic'
      BY <2>1, ZenonT(120) DEF IInv, DataInv, ReadyBacked, EditAtomic, Pending, NewPolicy, Complete, AnchorsLive
    <3>3. GuardOutlivesNetwork' /\ JournalInv'
      BY <2>1, ZenonT(120) DEF IInv, DataInv, GuardOutlivesNetwork, JournalInv, Pending, Complete, AnchorsLive
    <3>4. QED
      BY <3>1, <3>2, <3>3, ZenonT(120) DEF DataInv
  <2>3. PcInv'
    BY <2>1, SameFits, Zenon DEF IInv
  <2>4. QED
    BY <2>2, <2>3, ZenonT(120) DEF IInv
<1>18. QED
  BY <1>1, <1>2, <1>3, <1>4, <1>5, <1>6, <1>7, <1>8, <1>9, <1>10, <1>11, <1>12, <1>13, <1>14, <1>15, <1>16,
     <1>17, ZenonT(120) DEF Next, Step

\* The invariant holds in every state, whatever is killed or fails.
LEMMA AlwaysIInv == FairSpec => []IInv
BY InitIInv, NextIInv, PTL DEF FairSpec

\* The journal, the guard and the command in progress keep their types, however often the
\* controller dies, fails or is asked for something else.
THEOREM TypeCorrect == FairSpec => []TypeOK
<1>1. IInv => TypeOK
  BY Zenon DEF IInv
<1>2. QED
  BY <1>1, AlwaysIInv, PTL

\* The guard and the network stand together: a guard that lets selected sockets through is
\* the journaled one, enforces the durable policy and stands on a completely recorded
\* network with live anchors, and no network resource is recorded without the whole pinned
\* guard (_ready, _guard and disable, whatever interrupted what).
THEOREM GuardAndNetworkStand == FairSpec => []Backed
<1>1. IInv => Backed
  BY ZenonT(120) DEF IInv, DataInv, Backed
<1>2. QED
  BY <1>1, AlwaysIInv, PTL

\* An edit of the policy is all or nothing over kernel, journal and settings.json, wherever
\* _edit or _recover_edit is cut short.
THEOREM EditIsAtomic == FairSpec => []EditAtomic
<1>1. IInv => EditAtomic
  BY Zenon DEF IInv, DataInv
<1>2. QED
  BY <1>1, AlwaysIInv, PTL
-----------------------------------------------------------------------------
(* The anchors.                                                            *)

\* All but a release, a new lifetime and a reboot leave the anchors alone.
LEMMA AnchorsStay ==
    ASSUME IInv, Next \/ RetryDisable, ~Release, ~NewLifetime, ~Reboot
    PROVE  live \cap Anchors \subseteq live'
<1>1. CASE UNCHANGED network
  BY <1>1, Zenon DEF network
<1>2. ASSUME DiscardReceipt \/ PublishReceipt \/ Fence \/ (\E p : Configure(p) \/ Capture(p) \/ Rebind(p))
      PROVE  UNCHANGED live
  BY <1>2, Zenon DEF DiscardReceipt, PublishReceipt, Fence, Configure, Capture, Rebind
<1>3. ASSUME NEW r, Create(r) PROVE live \subseteq live'
  BY <1>3, Zenon DEF Create
<1>4. ASSUME NEW gone \in SUBSET Replaceable, Delete(gone) PROVE live \cap Anchors \subseteq live'
  BY <1>4, Zenon DEF Delete, Anchors, Replaceable
<1>5. {"preferred"} \in SUBSET Replaceable /\ {"interface"} \in SUBSET Replaceable /\ Replaceable \in SUBSET
   Replaceable
  BY Zenon DEF Replaceable
<1>6. CASE GuardEnter \/ OldLifetime \/ ForgetBirth \/ RecordBirth \/ PublishGuard \/ ClaimBirth \/ ClaimForgets
             \/ RecoverKernel \/ RecoverDisk \/ RecoverSave \/ RecoverNothing \/ Guarded \/ Edit \/ DegradeBlock
             \/ DegradeSave
  BY <1>1, <1>6, ZenonT(120) DEF GuardEnter, OldLifetime, ForgetBirth, RecordBirth, PublishGuard, ClaimBirth,
     ClaimForgets,
     RecoverKernel, RecoverDisk, RecoverSave, RecoverNothing, Guarded, Edit, DegradeBlock, DegradeSave
<1>7. CASE Unstart \/ Preparing \/ JournalStart \/ Ready \/ Health \/ ProbeAnswers \/ SaveReady \/ ResumePeer
             \/ ResumeNothing \/ CommitPeer \/ Disable \/ DisableClaim \/ DisableBlock \/ Disabling \/ Cleanup
             \/ Unpin \/ Disabled
  BY <1>1, <1>7, ZenonT(120) DEF Unstart, Preparing, JournalStart, Ready, Health, ProbeAnswers, SaveReady, ResumePeer,
     ResumeNothing, CommitPeer, Disable, DisableClaim, DisableBlock, Disabling, Cleanup, Unpin, Disabled
<1>8. CASE FailedProbe
  BY <1>1, <1>8, ZenonT(120) DEF FailedProbe
<1>9. CASE \/ \E op \in {"guard", "activate", "disable"} : Command(op)
           \/ \E op \in {"add", "remove"}, p \in Paths : Include(op, p)
           \/ Check \/ WatchStarts \/ WatchActivates \/ RetryDisable
  BY <1>1, <1>9, ZenonT(120) DEF Command, Include, Check, WatchStarts, WatchActivates, Activates, RetryDisable
<1>10. CASE UnderlayUnavailable \/ ProbeUnavailable \/ StepFails \/ Crash
  BY <1>1, <1>10, Zenon DEF UnderlayUnavailable, ProbeUnavailable, StepFails, Crash
<1>11. CASE Started \/ Discard \/ Prepare \/ CaptureResource \/ ConfigureInterface
  BY <1>1, <1>2, <1>11, ZenonT(120) DEF Started, Discard, Prepare, CaptureResource, ConfigureInterface
<1>12. CASE CreateResource \/ CreateRoute
  BY <1>1, <1>3, <1>12, ZenonT(120) DEF CreateResource, CreateRoute
<1>13. CASE Repair
  BY <1>1, <1>2, <1>4, <1>5, <1>13, ZenonT(120) DEF Repair
<1>14. CASE SwitchPeer
  BY <1>1, <1>2, <1>4, <1>5, <1>14, ZenonT(120) DEF SwitchPeer
<1>15. CASE TunnelLost
  BY <1>4, <1>5, <1>15, Zenon DEF TunnelLost
<1>16. QED
  BY <1>6, <1>7, <1>8, <1>9, <1>10, <1>11, <1>12, <1>13, <1>14, <1>15, ZenonT(120) DEF Next, Step

\* Once selected sockets have been marked under a network, only an explicit disable removes
\* its firewall, rule or fallback route, and never under a guard that lets new sockets
\* through: a rollback (activate) meets only a network that was never served.
THEOREM AnchorsAreKept == FairSpec => AnchorsKept
<1>1. ASSUME IInv, Next \/ RetryDisable
      PROVE  AnchorStep
  <2>1. TypeOK /\ DataInv /\ PcInv
    BY <1>1, Zenon DEF IInv
  <2>2. CASE Release
    <3>1. /\ kernel.state = "blocked"
          /\ run.op = "disable" => journal.state = "disabling"
          /\ run.op # "disable" => ~Complete
      BY <2>1, <2>2, ZenonT(120) DEF Release, At, PcInv, BlockInv, Open, Fits, DisableAt, NetAt
    <3>2. served => journal.state = "disabling"
      BY <2>1, <3>1, Zenon DEF DataInv, JournalInv
    <3>3. QED
      BY <3>1, <3>2, ZenonT(120) DEF AnchorStep
  <2>3. CASE NewLifetime
    <3>1. kernel.state = "blocked" /\ ~served
      BY <2>1, <2>3, ZenonT(120) DEF NewLifetime, At, PcInv, BlockInv, Open, DataInv, JournalInv
    <3>2. QED
      BY <3>1, Zenon DEF AnchorStep
  <2>4. CASE Reboot
    BY <2>4, NoJournalFacts, Zenon DEF Reboot, AnchorStep
  <2>5. CASE ~Release /\ ~NewLifetime /\ ~Reboot
    BY <1>1, <2>5, AnchorsStay, ZenonT(120) DEF AnchorStep
  <2>6. QED
    BY <2>2, <2>3, <2>4, <2>5, ZenonT(120)
<1>2. IInv /\ [Next \/ RetryDisable]_vars => [AnchorStep]_vars
  BY <1>1, Zenon
<1>3. QED
  BY <1>2, AlwaysIInv, PTL DEF FairSpec, AnchorsKept
=============================================================================
