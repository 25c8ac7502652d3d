------------------------------- MODULE Drain --------------------------------
(***************************************************************************)
(* Settling the resolver guard (drain.h, drain_tasks in resolver_guard.bpf.c).*)
(* The loader samples the kernel stack of every task while the tasks keep    *)
(* running, and settles the guard once each task of its first scan exited or *)
(* was seen, at one proven walk, outside unix_bind and vfs_rename.           *)
(*                                                                           *)
(* A task is off the CPU, on it, or leaving it: its switch has been counted  *)
(* and on_cpu is still set.  The stack of a task that runs during its walk   *)
(* reads as anything.  All scans follow the attachment of the completion     *)
(* programs, so a call that a task enters later is never early.              *)
(***************************************************************************)
EXTENDS Naturals

CONSTANTS
    Tasks,          \* thread IDs
    Leaders,        \* the thread group leaders among them
    MaxSwitches,    \* bound: context switches of a thread ID
    MaxStarts,      \* bound: tasks that had a thread ID
    MaxDrains       \* bound: drains

ASSUME LeadersAssumption == Leaders \subseteq Tasks

VARIABLES
    alive,          \* [Tasks -> the thread exists]
    start,          \* [Tasks -> which task has the thread ID, as a count]
    cpu,            \* [Tasks -> "off", "on" or "leaving"]
    switches,       \* [Tasks -> nvcsw + nivcsw]
    inside,         \* [Tasks -> in a unix_bind or vfs_rename call]
    early,          \* the tasks whose call began before the programs attached
    groupFilter,    \* the kernel resolves the iterator's thread filter as a thread group
    pc,             \* the loader: "idle", "scan", "rescan" or "settled"
    todo,           \* threads that the first scan has still to sample
    pending,        \* <<thread, start>> not cleared yet
    sample,         \* the sample in progress
    drains          \* drains so far

taskVars == <<alive, start, cpu, switches, inside, early>>
loaderVars == <<pc, todo, pending, sample, drains>>
vars == <<taskVars, loaderVars, groupFilter>>

NoSample == [stage |-> 0]

Init ==
    /\ alive \in [Tasks -> BOOLEAN]
    /\ start = [t \in Tasks |-> 0]
    /\ cpu \in [Tasks -> {"off", "on"}]
    /\ switches = [t \in Tasks |-> 0]
    /\ inside \in [Tasks -> BOOLEAN]
    /\ \A t \in Tasks : ~alive[t] => cpu[t] = "off" /\ ~inside[t]
    /\ early = {t \in Tasks : inside[t]}
    /\ groupFilter \in BOOLEAN
    /\ pc = "idle" /\ todo = {} /\ pending = {} /\ sample = NoSample /\ drains = 0

-----------------------------------------------------------------------------
(* Tasks and the scheduler (external).                                      *)

\* The task gets a CPU: what a walk in progress reads is no longer its stack.
Dispatch(t) ==
    /\ alive[t] /\ cpu[t] = "off" /\ switches[t] < MaxSwitches
    /\ cpu' = [cpu EXCEPT ![t] = "on"]
    /\ sample' = IF sample.stage = 3 /\ sample.task = t
                 THEN [stage |-> 3, task |-> t, start |-> sample.start, before |-> sample.before,
                       onCpu |-> sample.onCpu, ran |-> TRUE]
                 ELSE sample
    /\ UNCHANGED <<alive, start, switches, inside, early, pc, todo, pending, drains, groupFilter>>

\* __schedule counts the switch, and finish_task then clears on_cpu.
CountSwitch(t) ==
    /\ cpu[t] = "on"
    /\ switches' = [switches EXCEPT ![t] = @ + 1]
    /\ cpu' = [cpu EXCEPT ![t] = "leaving"]
    /\ UNCHANGED <<alive, start, inside, early, loaderVars, groupFilter>>

ClearOnCpu(t) ==
    /\ cpu[t] = "leaving"
    /\ cpu' = [cpu EXCEPT ![t] = "off"]
    /\ UNCHANGED <<alive, start, switches, inside, early, loaderVars, groupFilter>>

EnterCall(t) ==
    /\ cpu[t] = "on" /\ ~inside[t]
    /\ inside' = [inside EXCEPT ![t] = TRUE]
    /\ UNCHANGED <<alive, start, cpu, switches, early, loaderVars, groupFilter>>

LeaveCall(t) ==
    /\ cpu[t] = "on" /\ inside[t]
    /\ inside' = [inside EXCEPT ![t] = FALSE]
    /\ early' = early \ {t}
    /\ UNCHANGED <<alive, start, cpu, switches, loaderVars, groupFilter>>

Exit(t) ==
    /\ cpu[t] = "on" /\ ~inside[t]
    /\ alive' = [alive EXCEPT ![t] = FALSE]
    /\ cpu' = [cpu EXCEPT ![t] = "off"]
    /\ switches' = [switches EXCEPT ![t] = @ + 1]
    /\ UNCHANGED <<start, inside, early, loaderVars, groupFilter>>

\* A new task, under a thread ID that may have been used before.  A sample in progress reads the
\* task it began with.
Fork(t) ==
    /\ ~alive[t] /\ start[t] < MaxStarts
    /\ sample.stage > 0 => sample.task # t
    /\ alive' = [alive EXCEPT ![t] = TRUE]
    /\ start' = [start EXCEPT ![t] = @ + 1]
    /\ UNCHANGED <<cpu, switches, inside, early, loaderVars, groupFilter>>

-----------------------------------------------------------------------------
(* The loader.                                                              *)

\* drain(): the first scan visits every task.
BeginDrain ==
    /\ pc = "idle" /\ drains < MaxDrains
    /\ pc' = "scan" /\ todo' = Tasks /\ pending' = {}
    /\ drains' = drains + 1
    /\ UNCHANGED <<taskVars, sample, groupFilter>>

NewSample(t) == [stage |-> 1, task |-> t, start |-> start[t], before |-> switches[t]]

\* drain_tasks(), read by scan_tasks(): an exited task needs no walk; the switch count is read first.
ScanTask(t) ==
    /\ pc = "scan" /\ t \in todo /\ sample.stage = 0
    /\ todo' = todo \ {t}
    /\ sample' = IF alive[t] THEN NewSample(t) ELSE sample
    /\ UNCHANGED <<taskVars, pc, pending, drains, groupFilter>>

\* Mutant of Filtered: the filter is used without the proof of thread_filter_works().
FilteredAlways == TRUE

\* thread_filter_works(): a filtered scan of a thread that leads no group returned exactly it.
Filtered == ~groupFilter

\* One pending task is sampled again, by a filtered or a whole scan.  No sample, or another start
\* time under the same ID: it exited.
RescanTask(t, k) ==
    /\ pc = "rescan" /\ <<t, k>> \in pending /\ sample.stage = 0
    /\ IF ~alive[t] \/ start[t] # k \/ (Filtered /\ groupFilter /\ t \notin Leaders)
       THEN pending' = pending \ {<<t, k>>} /\ UNCHANGED sample
       ELSE sample' = NewSample(t) /\ UNCHANGED pending
    /\ UNCHANGED <<taskVars, pc, todo, drains, groupFilter>>

\* on_cpu is read, and the walk begins.
StartWalk ==
    /\ sample.stage = 1
    /\ sample' = [stage |-> 3, task |-> sample.task, start |-> sample.start, before |-> sample.before,
                  onCpu |-> cpu[sample.task] # "off", ran |-> cpu[sample.task] # "off"]
    /\ UNCHANGED <<taskVars, pc, todo, pending, drains, groupFilter>>

\* The walk returns the stack of a task that did not run, or stops short of its bottom.
EndWalk ==
    /\ sample.stage = 3
    /\ \E frames \in {"inside", "outside", "short"} :
          /\ ~sample.ran /\ frames # "short" => frames = IF inside[sample.task] THEN "inside" ELSE "outside"
          /\ sample' = [stage |-> 4, task |-> sample.task, start |-> sample.start, before |-> sample.before,
                        onCpu |-> sample.onCpu, frames |-> frames]
    /\ UNCHANGED <<taskVars, pc, todo, pending, drains, groupFilter>>

\* on_cpu is read again.
ReadOnCpu ==
    /\ sample.stage = 4
    /\ sample' = [stage |-> 5, task |-> sample.task, start |-> sample.start, before |-> sample.before,
                  onCpu |-> sample.onCpu \/ cpu[sample.task] # "off", frames |-> sample.frames]
    /\ UNCHANGED <<taskVars, pc, todo, pending, drains, groupFilter>>

\* classify()
Clear == ~sample.onCpu /\ sample.before = switches[sample.task] /\ sample.frames = "outside"

\* The switch count is read again, and the task is cleared or stays pending.
ClassifySample ==
    /\ sample.stage = 5
    /\ pending' = IF Clear THEN pending \ {<<sample.task, sample.start>>}
                  ELSE pending \cup {<<sample.task, sample.start>>}
    /\ sample' = NoSample
    /\ UNCHANGED <<taskVars, pc, todo, drains, groupFilter>>

EndScan ==
    /\ pc = "scan" /\ todo = {} /\ sample.stage = 0
    /\ pc' = "rescan"
    /\ UNCHANGED <<taskVars, todo, pending, sample, drains, groupFilter>>

\* Nothing is pending: the bit is set.
SettleGuard ==
    /\ pc = "rescan" /\ pending = {} /\ sample.stage = 0
    /\ pc' = "settled"
    /\ UNCHANGED <<taskVars, todo, pending, sample, drains, groupFilter>>

\* The budget is spent, even partway through a scan; a later drain starts over.
Deadline ==
    /\ pc \in {"scan", "rescan"}
    /\ pc' = "idle" /\ todo' = {} /\ pending' = {} /\ sample' = NoSample
    /\ UNCHANGED <<taskVars, drains, groupFilter>>

-----------------------------------------------------------------------------
TaskStep(t) ==
    \/ Dispatch(t) \/ CountSwitch(t) \/ ClearOnCpu(t)
    \/ EnterCall(t) \/ LeaveCall(t) \/ Exit(t) \/ Fork(t)

LoaderStep ==
    \/ BeginDrain \/ StartWalk \/ EndWalk \/ ReadOnCpu \/ ClassifySample
    \/ EndScan \/ SettleGuard \/ Deadline
    \/ \E t \in Tasks : ScanTask(t) \/ \E k \in 0..start[t] : RescanTask(t, k)

Next == LoaderStep \/ \E t \in Tasks : TaskStep(t)

Spec == Init /\ [][Next]_vars

-----------------------------------------------------------------------------
(* Properties.                                                              *)

TypeOK ==
    /\ alive \in [Tasks -> BOOLEAN] /\ inside \in [Tasks -> BOOLEAN]
    /\ start \in [Tasks -> Nat] /\ switches \in [Tasks -> Nat]
    /\ cpu \in [Tasks -> {"off", "on", "leaving"}]
    /\ early \subseteq Tasks
    /\ groupFilter \in BOOLEAN
    /\ pc \in {"idle", "scan", "rescan", "settled"}
    /\ todo \subseteq Tasks
    /\ pending \subseteq Tasks \X Nat
    /\ sample.stage \in {0, 1, 3, 4, 5}
    /\ sample.stage > 0 => sample.task \in Tasks /\ pc \in {"scan", "rescan"}

\* drain(): when the guard is settled, every call that began before the completion programs
\* attached has ended, however the tasks ran, slept, exited and were replaced during the scans.
SettledSound == pc = "settled" => early = {}

\* The same as a step-by-step implementation of the promise that ResolverGuard relies on.
Promise == INSTANCE EarlyCalls WITH settled <- (pc = "settled")
SettlesLikePromised == Promise!Spec
=============================================================================
