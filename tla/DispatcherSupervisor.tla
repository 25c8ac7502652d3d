------------------------- MODULE DispatcherSupervisor -------------------------
(***************************************************************************)
(* The supervision of dns-dispatcher.exe and of the DNS rule that names it *)
(* (src/native/dispatcher-supervisor.h, Invoke-LocalNrpt.ps1 and the lock  *)
(* discipline of Invoke-DnsDispatcher.ps1).                                *)
(*                                                                         *)
(* Five kinds of process interleave: the supervisor thread of the service  *)
(* host, dispatcher processes (which outlive the host), the NRPT helpers   *)
(* it starts beside itself (which outlive it too), the controller with the *)
(* component script it runs, and the faults of the host.  Files, the rule  *)
(* and the two named mutexes are what they share.                          *)
(*                                                                         *)
(* Times are ages in ticks, saturated at the bound the code compares them  *)
(* with, so that "now - x >= k" is "age >= k".  One pass of the loop is    *)
(* four steps (Wake, Hold, Observe, Reconcile), because a process can end  *)
(* and a file can change between two of the loop's observations.  A lock   *)
(* whose holder dies is acquired as abandoned, so death releases it.       *)
(***************************************************************************)
EXTENDS Integers, FiniteSets, FiniteSetsExt

CONSTANTS
    Pids,               \* process identifiers dispatchers can get; reused after an exit
    Helpers,            \* identities of NRPT helper processes
    Controller,         \* the controller's component script
    SuspendAfter,       \* kSuspendAfterMilliseconds
    RestartSpacing,     \* kRestartSpacingMilliseconds
    HelperRetry,        \* kHelperRetryMilliseconds
    HelperTimeout,      \* kHelperTimeoutMilliseconds
    LivenessInterval,   \* kLivenessIntervalMilliseconds
    LivenessFailures,   \* kLivenessFailures
    FailureGrace,       \* kLivenessFailureGraceMilliseconds
    StartupDeadline,    \* kStartupDeadlineMilliseconds
    MaxFaults,          \* bound on crashes, hangs, lost answers and failed calls
    MaxCrashes,         \* bound on crashes of the service host
    Prompt              \* TRUE: healthy helpers and dispatchers keep their deadlines

Nobody == 0             \* no process, no helper, no lock holder
NoAge == -1             \* an unset time stamp
Runners == Helpers \cup {Controller}

ASSUME SupervisorConstants ==
    /\ Pids \cap Runners = {} /\ Controller \notin Helpers /\ Nobody \notin Pids \cup Runners
    /\ \A k \in {SuspendAfter, RestartSpacing, HelperRetry, HelperTimeout, LivenessInterval,
                 LivenessFailures, FailureGrace, StartupDeadline} : k \in Nat \ {0}
    /\ MaxFaults \in Nat /\ MaxCrashes \in Nat /\ Prompt \in BOOLEAN

VARIABLES
    supervised,     \* state\dns-dispatcher.supervised exists
    suspended,      \* state\nrpt-suspended exists
    rule,           \* the owned NRPT rule is present
    pidFile,        \* the process state\dns-dispatcher.pid names, or Nobody
    statusFile,     \* the process state\dns-dispatcher-status.txt names
    traceFile,      \* the process whose session state\dns-etw-session.txt names
    proc,           \* phase of each dispatcher process
    blocked,        \* no launch can succeed: port 53 is taken or an input is unreadable
    untraced,       \* dispatchers whose ETW session another launch stopped
    run,            \* what each NRPT script does and how far it is
    nrptLock,       \* holder of Global\WireGuardProgramSplitNrptComponent
    componentLock,  \* the controller holds Global\...DnsDispatcherComponent
    ctl,            \* where the controller is
    sup,            \* locals of superviseLoop
    misses,         \* history: probes the held dispatcher left unanswered in a row
    dark,           \* history: ticks the rule has named no serving dispatcher
    faults, crashes

files == <<supervised, suspended, rule, pidFile, statusFile, traceFile>>
procs == <<proc, untraced, blocked>>
scripts == <<run, nrptLock>>
budget == <<faults, crashes>>
vars == <<files, procs, scripts, componentLock, ctl, sup, misses, dark, budget>>

-----------------------------------------------------------------------------
(* Processes.  "init" has started, "boot" has replaced the ETW session,     *)
(* "bound" owns port 53 and has written its pid, "serving" has published    *)
(* its status; "hung" is a serving process that stopped answering, "stuck"  *)
(* one that never finishes starting.                                        *)

Alive(p) == p # Nobody /\ proc[p] # "none"
PortHolders == {p \in Pids : proc[p] \in {"bound", "serving", "hung"}}

\* dispatcherAnswers: whoever holds port 53 answers, if it runs its receive loop
DispatcherAnswers == \E p \in Pids : proc[p] = "serving"

\* Test-ProgramSplitDispatcherReady: the process of the pid file, owning the port, answers
DispatcherReady == pidFile # Nobody /\ proc[pidFile] = "serving"

Idle == [act |-> "none", at |-> "start"]
HelperRuns == sup.helper # Nobody /\ run[sup.helper].act # "none"

\* The runner r ends, by finishing or by being killed: its lock is free again.
NrptFreed(r) == IF nrptLock = r THEN Nobody ELSE nrptLock

SpendFault == faults < MaxFaults /\ faults' = faults + 1

-----------------------------------------------------------------------------
(* superviseLoop's locals                                                   *)

\* Mutant: a new dispatcher inherits the failures of the one it replaces.
NoResetLiveness(s) == s

\* resetLiveness
ResetLiveness(s) ==
    [s EXCEPT !.failures = 0, !.failAge = 0, !.answered = FALSE, !.probeAge = LivenessInterval]

\* The locals superviseLoop starts with; its zero time stamps are all long ago.
Fresh ==
    [pc |-> "idle", child |-> Nobody, childAge |-> 0, unready |-> NoAge, failures |-> 0,
     failAge |-> 0, answered |-> FALSE, ready |-> FALSE, helper |-> Nobody, helperAge |-> 0,
     restAge |-> HelperRetry, startAge |-> RestartSpacing, probeAge |-> LivenessInterval]

Older(age, bound) == IF age = NoAge THEN NoAge ELSE Min({age + 1, bound})

\* One tick passes: every "now - x" the loop will compute grows by one.
Later(s) ==
    [s EXCEPT !.childAge = IF s.child = Nobody THEN 0 ELSE Older(@, StartupDeadline),
              !.unready = Older(@, SuspendAfter),
              !.failAge = IF s.failures = 0 THEN 0 ELSE Older(@, FailureGrace),
              !.helperAge = IF s.helper = Nobody THEN 0 ELSE Older(@, HelperTimeout),
              !.restAge = Older(@, HelperRetry), !.startAge = Older(@, RestartSpacing),
              !.probeAge = Older(@, LivenessInterval)]

\* dispatcherFailurePersistent
FailurePersistent(s) == s.failures >= LivenessFailures /\ s.failAge >= FailureGrace

-----------------------------------------------------------------------------
Init ==
    /\ supervised = FALSE /\ suspended = FALSE /\ rule = FALSE
    /\ pidFile = Nobody /\ statusFile = Nobody /\ traceFile = Nobody
    /\ proc = [p \in Pids |-> "none"] /\ untraced = {} /\ blocked = FALSE
    /\ run = [r \in Runners |-> Idle] /\ nrptLock = Nobody
    /\ componentLock = FALSE /\ ctl = "stopped" /\ sup = Fresh
    /\ misses = 0 /\ dark = 0 /\ faults = 0 /\ crashes = 0

-----------------------------------------------------------------------------
(* One pass of superviseLoop.                                               *)

\* With Prompt, time waits for a healthy helper that is due, for a healthy dispatcher
\* whose startup deadline is up, and for the component script inside its lock.
DeadlineKept ==
    Prompt => /\ nrptLock # Controller
              /\ HelperRuns => sup.helperAge + 1 < HelperTimeout \/ run[sup.helper].at = "stuck"
              /\ sup.child # Nobody /\ proc[sup.child] \in {"init", "boot", "bound"}
                    => sup.childAge < StartupDeadline

DarkBound == 1 + SuspendAfter + HelperTimeout + HelperRetry + HelperTimeout

\* Top of the loop: end an overdue helper, reap one that ended, and drop the
\* dispatcher when supervision is off.
Wake ==
    /\ sup.pc = "idle" /\ DeadlineKept
    /\ LET s == Later(sup)
           overdue == HelperRuns /\ s.helperAge >= HelperTimeout
           ended == s.helper # Nobody /\ (overdue \/ ~HelperRuns)
           reaped == IF ended THEN [s EXCEPT !.helper = Nobody, !.helperAge = 0, !.restAge = 0] ELSE s
       IN /\ sup' = IF supervised THEN [reaped EXCEPT !.pc = "hold"]
                    ELSE ResetLiveness([reaped EXCEPT !.child = Nobody, !.unready = NoAge])
          /\ run' = IF overdue THEN [run EXCEPT ![s.helper] = Idle] ELSE run
          /\ nrptLock' = IF overdue THEN NrptFreed(s.helper) ELSE nrptLock
    /\ misses' = IF supervised THEN misses ELSE 0
    /\ dark' = IF Prompt /\ rule /\ ~DispatcherAnswers THEN Min({dark + 1, DarkBound + 1}) ELSE 0
    /\ UNCHANGED <<files, procs, componentLock, ctl, budget>>

\* startDispatcher, or a CreateProcess that fails.
Launch(s) ==
    \/ \E p \in Pids \ {s.child} :
          /\ proc[p] = "none"
          /\ proc' = [proc EXCEPT ![p] = "init"]
          /\ untraced' = untraced \ {p}
          /\ sup' = ResetLiveness([s EXCEPT !.child = p, !.childAge = 0, !.startAge = 0])
          /\ UNCHANGED <<blocked, faults>>
    \/ /\ SpendFault
       /\ sup' = ResetLiveness([s EXCEPT !.childAge = 0, !.startAge = 0])
       /\ UNCHANGED procs

\* Adoption and start, under the component lock when it is free at once.
Hold ==
    /\ sup.pc = "hold"
    /\ LET s == [sup EXCEPT !.pc = "observe"]
           dropped == IF s.child = Nobody THEN s ELSE ResetLiveness([s EXCEPT !.child = Nobody])
           adopted == ResetLiveness([dropped EXCEPT !.child = pidFile, !.childAge = 0])
       IN IF Alive(s.child) \/ componentLock \/ ~supervised
          THEN sup' = s /\ UNCHANGED <<procs, faults, misses>>
          ELSE /\ misses' = 0
               /\ \/ Alive(pidFile) /\ sup' = adopted /\ UNCHANGED <<procs, faults>>
                  \/ ~Alive(pidFile) /\ dropped.startAge >= RestartSpacing /\ Launch(dropped)
                  \/ /\ ~Alive(pidFile) /\ dropped.startAge < RestartSpacing
                     /\ sup' = dropped /\ UNCHANGED <<procs, faults>>
    /\ UNCHANGED <<files, scripts, componentLock, ctl, dark, crashes>>

\* The liveness probe of one pass: what the locals are after an answer, or after none.
Probed(s, answered) ==
    IF answered
    THEN [s EXCEPT !.probeAge = 0, !.failures = 0, !.failAge = 0, !.answered = TRUE]
    ELSE [s EXCEPT !.probeAge = 0, !.failures = Min({@ + 1, LivenessFailures}),
                   !.failAge = IF s.failures = 0 THEN 0 ELSE @]

\* Mutant: the unready time stamp is renewed on every unready pass.
RestampedJudged(s, published) ==
    LET ready == published /\ s.answered /\ s.failures = 0
    IN [s EXCEPT !.ready = ready, !.unready = IF ready THEN NoAge ELSE 0]

\* Readiness of the held dispatcher and since when there is none (lines 335-338).
Judged(s, published) ==
    LET ready == published /\ s.answered /\ s.failures = 0
    IN [s EXCEPT !.ready = ready, !.unready = IF ready THEN NoAge ELSE Max({@, 0})]

\* alive and published, the probe when one is due, the replacement of a dispatcher
\* that does not answer, and the republication of its process ID.  A reply can
\* miss the 300 ms, and TerminateProcess can fail: both are faults.
Observe ==
    /\ sup.pc = "observe"
    /\ LET s == [sup EXCEPT !.pc = "reconcile"]
           published == Alive(s.child) /\ statusFile = s.child
           due == /\ Alive(s.child)
                  /\ published \/ s.childAge >= StartupDeadline
                  /\ s.probeAge >= LivenessInterval
       IN \E answered, terminated \in BOOLEAN :
             LET t == IF due THEN Probed(s, answered) ELSE s
                 replace == due /\ ~answered /\ FailurePersistent(t)
                 j == Judged(IF replace THEN [t EXCEPT !.answered = FALSE] ELSE t, published)
                 lost == due /\ DispatcherAnswers /\ ~answered
                 cost == (IF lost THEN 1 ELSE 0) + (IF replace /\ ~terminated THEN 1 ELSE 0)
             IN /\ answered => due /\ DispatcherAnswers
                /\ terminated => replace
                /\ faults + cost <= MaxFaults /\ faults' = faults + cost
                /\ sup' = j
                /\ misses' = IF ~due THEN misses
                             ELSE IF answered THEN 0 ELSE Min({misses + 1, LivenessFailures})
                /\ proc' = IF terminated THEN [proc EXCEPT ![s.child] = "none"] ELSE proc
                /\ untraced' = IF terminated THEN untraced \ {s.child} ELSE untraced
                /\ pidFile' = IF j.ready THEN s.child ELSE pidFile
    /\ UNCHANGED <<supervised, suspended, rule, statusFile, traceFile, blocked, scripts, componentLock,
                   ctl, dark, crashes>>

\* Mutant: the rule is not resumed once a dispatcher is ready again.
NeverResumed(s) ==
    IF ~s.ready /\ s.unready >= SuspendAfter /\ rule THEN "Suspend" ELSE "none"

\* The helper action this pass wants.
WantedAction(s) ==
    CASE s.ready /\ suspended -> "Resume"
      [] ~s.ready /\ s.unready >= SuspendAfter /\ rule -> "Suspend"
      [] OTHER -> "none"

\* Reconciliation of the rule with readiness; one helper at a time, spaced.
Reconcile ==
    /\ sup.pc = "reconcile"
    /\ LET s == [sup EXCEPT !.pc = "idle"]
           action == WantedAction(s)
           wanted == action # "none" /\ s.helper = Nobody /\ s.restAge >= HelperRetry
       IN \/ ~wanted /\ sup' = s /\ UNCHANGED <<run, faults>>
          \/ \E h \in Helpers :
                /\ wanted /\ run[h].act = "none"
                /\ run' = [run EXCEPT ![h] = [act |-> action, at |-> "start"]]
                /\ sup' = [s EXCEPT !.helper = h, !.helperAge = 0]
                /\ UNCHANGED faults
          \/ wanted /\ SpendFault /\ sup' = [s EXCEPT !.restAge = 0] /\ UNCHANGED run
    /\ UNCHANGED <<files, procs, nrptLock, componentLock, ctl, misses, dark, crashes>>

-----------------------------------------------------------------------------
(* A dispatcher process.                                                    *)

\* replaceTraceSession: the session the state file names is stopped, whoever consumes it.
ReplaceTrace(p) ==
    /\ proc[p] = "init"
    /\ proc' = [proc EXCEPT ![p] = "boot"]
    /\ untraced' = IF Alive(traceFile) /\ traceFile # p THEN untraced \cup {traceFile} ELSE untraced
    /\ traceFile' = p
    /\ UNCHANGED <<supervised, suspended, rule, pidFile, statusFile, blocked, scripts, componentLock,
                   ctl, sup, misses, dark, budget>>

\* Port 53 is exclusive: the pid is written after the bind, and a failed bind ends the process.
Bind(p) ==
    /\ proc[p] = "boot"
    /\ IF PortHolders = {} /\ ~blocked
       THEN proc' = [proc EXCEPT ![p] = "bound"] /\ pidFile' = p /\ UNCHANGED untraced
       ELSE proc' = [proc EXCEPT ![p] = "none"] /\ untraced' = untraced \ {p} /\ UNCHANGED pidFile
    /\ UNCHANGED <<supervised, suspended, rule, statusFile, traceFile, blocked, scripts, componentLock,
                   ctl, sup, misses, dark, budget>>

\* publishLoaded, then the receive loop.
Publish(p) ==
    /\ proc[p] = "bound"
    /\ proc' = [proc EXCEPT ![p] = "serving"] /\ statusFile' = p
    /\ UNCHANGED <<supervised, suspended, rule, pidFile, traceFile, untraced, blocked, scripts, componentLock, ctl,
                   sup, misses, dark, budget>>

\* The consumer of a stopped session ends, and the dispatcher with it.
LoseTrace(p) ==
    /\ p \in untraced /\ proc[p] \in {"bound", "serving"}
    /\ proc' = [proc EXCEPT ![p] = "none"] /\ untraced' = untraced \ {p}
    /\ UNCHANGED <<files, blocked, scripts, componentLock, ctl, sup, misses, dark, budget>>

\* A dispatcher crashes or stops making progress.
Fail(p) ==
    /\ Alive(p) /\ SpendFault
    /\ \/ proc' = [proc EXCEPT ![p] = "none"] /\ untraced' = untraced \ {p}
       \/ proc[p] = "serving" /\ proc' = [proc EXCEPT ![p] = "hung"] /\ UNCHANGED untraced
       \/ proc[p] = "boot" /\ proc' = [proc EXCEPT ![p] = "stuck"] /\ UNCHANGED untraced
    /\ UNCHANGED <<files, blocked, scripts, componentLock, ctl, sup, misses, dark, crashes>>

\* Launches start to fail, and later succeed again.
Block ==
    /\ ~blocked /\ SpendFault /\ blocked' = TRUE
    /\ UNCHANGED <<files, proc, untraced, scripts, componentLock, ctl, sup, misses, dark, crashes>>

Unblock ==
    /\ blocked /\ blocked' = FALSE
    /\ UNCHANGED <<files, proc, untraced, scripts, componentLock, ctl, sup, misses, dark, budget>>

\* The pid record is lost or overwritten by something else.
LosePid ==
    /\ pidFile # Nobody /\ SpendFault /\ pidFile' = Nobody
    /\ UNCHANGED <<supervised, suspended, rule, statusFile, traceFile, procs, scripts, componentLock, ctl,
                   sup, misses, dark, crashes>>

-----------------------------------------------------------------------------
(* Invoke-LocalNrpt.ps1.  Its checks and changes are one critical section   *)
(* of the NRPT lock, but dispatchers come and go meanwhile and a kill can   *)
(* fall between two of its changes: it is three steps.                      *)

Finish(r) == run' = [run EXCEPT ![r] = Idle] /\ nrptLock' = NrptFreed(r)
Goto(r, step) == run' = [run EXCEPT ![r].at = step] /\ nrptLock' = r

\* The lock is acquired and the conditions are checked under it.
NrptCheck(r) ==
    /\ run[r].act # "none" /\ run[r].at = "start" /\ nrptLock = Nobody
    /\ \/ /\ run[r].act = "Suspend" /\ UNCHANGED suspended
          /\ IF DispatcherReady \/ ~rule THEN Finish(r) ELSE Goto(r, "first")
       \/ /\ run[r].act = "Resume" /\ UNCHANGED suspended
          /\ IF ~suspended \/ ~DispatcherReady THEN Finish(r) ELSE Goto(r, "first")
       \/ /\ run[r].act = "Enable"
          /\ \/ (rule \/ DispatcherReady) /\ Goto(r, IF rule THEN "second" ELSE "first") /\ UNCHANGED suspended
             \/ ~rule /\ ~DispatcherReady /\ suspended' = TRUE /\ Finish(r)
       \/ run[r].act = "Disable" /\ Goto(r, "first") /\ UNCHANGED suspended
    /\ UNCHANGED <<supervised, rule, pidFile, statusFile, traceFile, procs, componentLock, ctl, sup,
                   misses, dark, budget>>

\* Mutant: Suspend removes the rule before it records the suspension.
RemoveThenRemember(r) ==
    /\ run[r].at = "first"
    /\ rule' = (run[r].act \in {"Resume", "Enable"})
    /\ Goto(r, "second")
    /\ UNCHANGED <<supervised, suspended, pidFile, statusFile, traceFile, procs, componentLock, ctl, sup,
                   misses, dark, budget>>

\* Suspend remembers before it removes; Resume and Enable add before they forget.
NrptFirst(r) ==
    /\ run[r].at = "first"
    /\ \/ run[r].act = "Suspend" /\ suspended' = TRUE /\ UNCHANGED rule
       \/ run[r].act \in {"Resume", "Enable"} /\ rule' = TRUE /\ UNCHANGED suspended
       \/ run[r].act = "Disable" /\ rule' = FALSE /\ UNCHANGED suspended
    /\ Goto(r, "second")
    /\ UNCHANGED <<supervised, pidFile, statusFile, traceFile, procs, componentLock, ctl, sup,
                   misses, dark, budget>>

NrptSecond(r) ==
    /\ run[r].at = "second"
    /\ IF run[r].act = "Suspend" THEN rule' = FALSE /\ UNCHANGED suspended
       ELSE suspended' = FALSE /\ UNCHANGED rule
    /\ Finish(r)
    /\ UNCHANGED <<supervised, pidFile, statusFile, traceFile, procs, componentLock, ctl, sup,
                   misses, dark, budget>>

\* A helper fails, is killed or blocks at any point of the script.
HelperFails(h) ==
    /\ run[h].act # "none" /\ SpendFault
    /\ \/ Finish(h)
       \/ run' = [run EXCEPT ![h].at = "stuck"] /\ UNCHANGED nrptLock
    /\ UNCHANGED <<files, procs, componentLock, ctl, sup, misses, dark, crashes>>

\* WaitOne(30000) expires while a hung script keeps the lock.
LockTimeout(h) ==
    /\ run[h].act # "none" /\ run[h].at = "start"
    /\ nrptLock # Nobody /\ run[nrptLock].at = "stuck"
    /\ Finish(h)
    /\ UNCHANGED <<files, procs, componentLock, ctl, sup, misses, dark, budget>>

-----------------------------------------------------------------------------
(* The controller: Invoke-DnsDispatcher.ps1 and Stop-Stack.                 *)

HostUp == sup.pc # "down"
Script(action) == run' = [run EXCEPT ![Controller] = [act |-> action, at |-> "start"]]
ScriptDone == run[Controller].act = "none"

\* Start: the inputs and the supervision flag, under the component lock.
CtlStart ==
    /\ HostUp /\ ctl \in {"stopped", "restart"} /\ ~componentLock
    /\ supervised' = TRUE /\ ctl' = "started"
    /\ UNCHANGED <<suspended, rule, pidFile, statusFile, traceFile, procs, scripts, componentLock, sup,
                   misses, dark, budget>>

\* Enable, at start and whenever the rule is found missing without being suspended.
CtlEnable ==
    /\ HostUp /\ (ctl = "started" \/ (ctl = "enabled" /\ ~rule /\ ~suspended))
    /\ Script("Enable") /\ ctl' = "enabling"
    /\ UNCHANGED <<files, procs, nrptLock, componentLock, sup, misses, dark, budget>>

CtlEnabled ==
    /\ HostUp /\ ctl = "enabling" /\ ScriptDone /\ ctl' = "enabled"
    /\ UNCHANGED <<files, procs, scripts, componentLock, sup, misses, dark, budget>>

\* Stop-Stack -StopDns: Disable first, whose failure is only collected.
CtlDisable ==
    /\ HostUp /\ ctl \in {"restart", "started", "enabled"}
    /\ Script("Disable") /\ ctl' = "disabling"
    /\ UNCHANGED <<files, procs, nrptLock, componentLock, sup, misses, dark, budget>>

\* Mutant: Stop ends supervision before the rule is gone.
UnsuperviseFirst ==
    /\ HostUp /\ ctl = "disabling" /\ ScriptDone /\ ~componentLock
    /\ componentLock' = TRUE /\ Script("Disable") /\ ctl' = "stopping" /\ supervised' = FALSE
    /\ UNCHANGED <<suspended, rule, pidFile, statusFile, traceFile, procs, nrptLock, sup, misses, dark,
                   budget>>

\* Stop, under the component lock: the rule goes first, ...
CtlStop ==
    /\ HostUp /\ ctl = "disabling" /\ ScriptDone /\ ~componentLock
    /\ componentLock' = TRUE /\ Script("Disable") /\ ctl' = "stopping"
    /\ UNCHANGED <<files, procs, nrptLock, sup, misses, dark, budget>>

\* ... then supervision, ...
CtlUnsupervise ==
    /\ HostUp /\ ctl = "stopping" /\ ScriptDone
    /\ supervised' = FALSE /\ ctl' = "ending"
    /\ UNCHANGED <<suspended, rule, pidFile, statusFile, traceFile, procs, scripts, componentLock, sup,
                   misses, dark, budget>>

\* ... then every dispatcher with its ETW session and records.
CtlEnd ==
    /\ HostUp /\ ctl = "ending"
    /\ proc' = [p \in Pids |-> "none"] /\ untraced' = {}
    /\ pidFile' = Nobody /\ statusFile' = Nobody /\ traceFile' = Nobody
    /\ componentLock' = FALSE /\ ctl' = "stopped"
    /\ UNCHANGED <<blocked, supervised, suspended, rule, scripts, sup, misses, dark, budget>>

\* The component script fails or exceeds its deadline at any point of it, or its wait
\* for the lock does; a failed Stop releases its lock and the controller repeats it.
CtlFails ==
    /\ ~ScriptDone /\ Finish(Controller)
    /\ \/ SpendFault
       \/ run[Controller].at = "start" /\ nrptLock # Nobody /\ run[nrptLock].at = "stuck" /\ UNCHANGED faults
    /\ ctl' = IF ctl = "enabling" THEN "enabled" ELSE "disabling"
    /\ componentLock' = FALSE
    /\ UNCHANGED <<files, procs, sup, misses, dark, crashes>>

\* The service host ends with its controller; dispatchers and helpers stay.
HostCrash ==
    /\ HostUp /\ crashes < MaxCrashes /\ crashes' = crashes + 1
    /\ sup' = [Fresh EXCEPT !.pc = "down"]
    /\ Finish(Controller) /\ componentLock' = FALSE
    /\ ctl' = IF ctl = "stopped" THEN "stopped" ELSE "restart"
    /\ misses' = 0 /\ dark' = 0
    /\ UNCHANGED <<files, procs, faults>>

HostStart ==
    /\ sup.pc = "down" /\ sup' = Fresh
    /\ UNCHANGED <<files, procs, scripts, componentLock, ctl, misses, dark, budget>>

-----------------------------------------------------------------------------
Supervise == Wake \/ Hold \/ Observe \/ Reconcile
Dispatcher(p) == ReplaceTrace(p) \/ Bind(p) \/ Publish(p) \/ LoseTrace(p)
Nrpt(r) == NrptCheck(r) \/ NrptFirst(r) \/ NrptSecond(r)
Control == CtlStart \/ CtlEnable \/ CtlEnabled \/ CtlDisable \/ CtlStop \/ CtlUnsupervise \/ CtlEnd

Next ==
    \/ Supervise \/ Control \/ CtlFails \/ Block \/ Unblock \/ LosePid \/ HostCrash \/ HostStart
    \/ \E p \in Pids : Dispatcher(p) \/ Fail(p)
    \/ \E r \in Runners : Nrpt(r)
    \/ \E h \in Helpers : HelperFails(h) \/ LockTimeout(h)

Spec == Init /\ [][Next]_vars

-----------------------------------------------------------------------------
Ages(bound) == NoAge .. bound

\* What a script does and how far it is, and the locals of superviseLoop.
Scripts == [act : {"none", "Suspend", "Resume", "Enable", "Disable"}, at : {"start", "first", "second", "stuck"}]
Locals ==
    [pc : {"idle", "hold", "observe", "reconcile", "down"}, child : Pids \cup {Nobody},
     childAge : 0 .. StartupDeadline, unready : Ages(SuspendAfter),
     failures : 0 .. LivenessFailures, failAge : 0 .. FailureGrace, answered : BOOLEAN,
     ready : BOOLEAN, helper : Helpers \cup {Nobody}, helperAge : 0 .. HelperTimeout,
     restAge : 0 .. HelperRetry, startAge : 0 .. RestartSpacing,
     probeAge : 0 .. LivenessInterval]

TypeOK ==
    /\ supervised \in BOOLEAN /\ suspended \in BOOLEAN /\ rule \in BOOLEAN
    /\ {pidFile, statusFile, traceFile} \subseteq Pids \cup {Nobody}
    /\ proc \in [Pids -> {"none", "init", "boot", "bound", "serving", "hung", "stuck"}]
    /\ blocked \in BOOLEAN
    /\ untraced \subseteq {p \in Pids : proc[p] # "none"}
    /\ run \in [Runners -> Scripts]
    /\ nrptLock \in Runners \cup {Nobody} /\ componentLock \in BOOLEAN
    /\ ctl \in {"stopped", "started", "enabling", "enabled", "disabling", "stopping", "ending", "restart"}
    /\ sup \in Locals
    /\ misses \in 0 .. LivenessFailures /\ dark \in 0 .. DarkBound + 1
    /\ faults \in 0 .. MaxFaults /\ crashes \in 0 .. MaxCrashes

\* The rule, and the record that it is to be restored, exist only under supervision,
\* whatever helpers are in flight and wherever the host or a script dies: Stop removes
\* both under the NRPT lock before it ends supervision (Invoke-DnsDispatcher.ps1:202).
RuleSupervised == (rule \/ suspended) => supervised

\* Nothing but a Disable removes the rule without leaving the record that restores it
\* (dispatcher-supervisor.h:9-11), even if the helper dies right after the removal.
RemovalRemembered == [][rule /\ ~rule' => suspended' \/ ctl \in {"disabling", "stopping"}]_vars

\* The supervisor ends a dispatcher only for probes that this dispatcher left
\* unanswered, never for those of the one it replaced (kLivenessFailures).
ReplaceJustified ==
    [][\A p \in Pids : sup.pc = "observe" /\ sup'.pc = "reconcile" /\ Alive(p) /\ proc'[p] = "none"
          => p = sup.child /\ misses' = LivenessFailures]_vars

\* With helpers and launches that keep their deadlines, the rule never names a
\* dispatcher that does not answer for longer than the 15 seconds of the header
\* comment and the run time of the helpers it takes.
DarkBounded == dark <= DarkBound
===============================================================================
