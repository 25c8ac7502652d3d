------------------------------ MODULE MCService -----------------------------
(***************************************************************************)
(* What the service host's executable runs, for TLC: the supervisor of the *)
(* dispatcher, the host of the controller, bounded runs, the log of the    *)
(* controller, and the filter probe that the controller's script starts,   *)
(* whose module this one extends.                                          *)
(*                                                                         *)
(* They share no modelled state.  A behaviour is one scenario: the         *)
(* component it is about moves, under the scenario's constants, and the    *)
(* variables of the others keep their initial values.                      *)
(***************************************************************************)
EXTENDS WfpFilters, TLC

CONSTANTS
    Scenarios,      \* the scenarios of the run
    DarkFaults,     \* the faults the supervisor may meet
    a1, a2, b1, c1, d1, d2

VARIABLES
    scenario,
    supervised, suspended, rule, pidFile, statusFile, traceFile, proc, blocked, untraced,
    nrptRun, nrptLock, componentLock, ctl, sup, misses, dark, faults, supervisorCrashes,
    status, exit, current, host, child, stopEvent, shutdownEvent, controls, system, spent,
    runner, alive, contained, running, exited, want, leaked, ours, outputs, reader, frame,
    files, opened, size_, step, index, chunk, pipe, holders, pump, stopping_, finalBytes,
    written, drained, crashes

supervisorVars == <<supervised, suspended, rule, pidFile, statusFile, traceFile, proc, blocked, untraced,
                    nrptRun, nrptLock, componentLock, ctl, sup, misses, dark, faults, supervisorCrashes>>
hostVars == <<status, exit, current, host, child, stopEvent, shutdownEvent, controls, system, spent>>
runVars == <<runner, alive, contained, running, exited, want, leaked, ours, outputs, reader, frame>>
logVars == <<files, opened, size_, step, index, chunk, pipe, holders, pump, stopping_, finalBytes,
             written, drained, crashes>>

-----------------------------------------------------------------------------
(* The scenarios.  Process identifiers, helpers, service processes and     *)
(* descendants are interchangeable.                                        *)

Symmetry == Permutations({a1, a2}) \cup Permutations({d1, d2})

\* Helpers and dispatchers that keep their deadlines, unless the one fault is theirs.  No host
\* dies: nothing would end its orphaned helper.
Dark == INSTANCE DispatcherSupervisor WITH
    Pids <- {a1, a2}, Helpers <- {b1}, Controller <- c1, run <- nrptRun, crashes <- supervisorCrashes,
    SuspendAfter <- 2, RestartSpacing <- 1, HelperRetry <- 1, HelperTimeout <- 1, LivenessInterval <- 1,
    LivenessFailures <- 2, FailureGrace <- 2, StartupDeadline <- 1,
    MaxFaults <- DarkFaults, MaxCrashes <- 0, Prompt <- TRUE

\* Two lives of the host, one of which may be killed.
Lives == INSTANCE ServiceHost WITH
    Hosts <- {a1, a2}, MaxStarts <- 2, MaxCrashes <- 1, MaxStuck <- 1
Stops == INSTANCE ServiceHost WITH
    Hosts <- {a1, a2}, MaxStarts <- 2, MaxCrashes <- 0, MaxStuck <- 1

\* A descendant, output past the limit on both pipes, and everything that may go wrong.
Runs == INSTANCE BoundedRun WITH
    Program <- c1, Descendants <- {a1}, Pipes <- {"out", "err"}, PipeUnits <- 2, Limit <- 2,
    MaxOutput <- 3, Faults <- {"timeout", "hang", "failures", "leak", "stuck", "kill"}, pipe <- outputs
Hangs == INSTANCE BoundedRun WITH
    Program <- c1, Descendants <- {a1}, Pipes <- {"out", "err"}, PipeUnits <- 1, Limit <- 1,
    MaxOutput <- 2, Faults <- {"timeout", "hang", "failures", "leak", "stuck"}, pipe <- outputs
Exits == INSTANCE BoundedRun WITH
    Program <- c1, Descendants <- {a1}, Pipes <- {"out", "err"}, PipeUnits <- 2, Limit <- 2,
    MaxOutput <- 4, Faults <- {}, pipe <- outputs

\* A cap of two units and reads of up to two, so that reads fit, fill and
\* overflow the log; enough units that the third archive is replaced.
Logs == INSTANCE HostLog WITH
    Limit <- 2, Buffer <- 2, FinalBytes <- 2, PipeSize <- 2, MaxUnits <- 7, MaxCrashes <- 1
Closes == INSTANCE HostLog WITH
    Limit <- 2, Buffer <- 2, FinalBytes <- 2, PipeSize <- 3, MaxUnits <- 5, MaxCrashes <- 0

-----------------------------------------------------------------------------
\* A component that does not move has the initial state of one of its scenarios.
ServiceInit ==
    /\ scenario \in Scenarios
    /\ Dark!Init /\ Lives!Init /\ Logs!Init
    /\ CASE scenario = "runs" -> Runs!Init
         [] scenario = "hangs" -> Hangs!Init
         [] scenario = "exits" -> Exits!Init
         [] OTHER -> Exits!Init /\ want = [i \in {"out", "err"} |-> 0]
    /\ Init
    /\ scenario # "filters" => address = d1 /\ legacy = "none" /\ ~marker

ServiceNext ==
    /\ UNCHANGED scenario
    /\ \/ /\ scenario = "dark" /\ Dark!Next
          /\ UNCHANGED <<hostVars, runVars, logVars, vars>>
       \/ /\ \/ scenario = "lives" /\ Lives!Next
             \/ scenario = "stops" /\ Stops!Next
          /\ UNCHANGED <<supervisorVars, runVars, logVars, vars>>
       \/ /\ \/ scenario = "runs" /\ Runs!Next
             \/ scenario = "hangs" /\ Hangs!Next
             \/ scenario = "exits" /\ Exits!Next
          /\ UNCHANGED <<supervisorVars, hostVars, logVars, vars>>
       \/ /\ \/ scenario = "logs" /\ Logs!Next
             \/ scenario = "closes" /\ Closes!Next
          /\ UNCHANGED <<supervisorVars, hostVars, runVars, vars>>
       \/ /\ scenario = "filters" /\ Next
          /\ UNCHANGED <<supervisorVars, hostVars, runVars, logVars>>

ServiceSpec ==
    ServiceInit /\ [][ServiceNext]_<<scenario, supervisorVars, hostVars, runVars, logVars, vars>>

\* Each component's fairness, while its scenario asks for progress.
\* The supervisor's loop runs, started scripts and dispatchers make progress unless they hang, and
\* the controller finishes what it began (it need never begin a Disable).  Lock acquisition is fair.
SupervisorFairness ==
    LET Live(A) == scenario = "dark" /\ A
    IN  /\ WF_supervisorVars(Live(Dark!Supervise)) /\ WF_supervisorVars(Live(Dark!HostStart))
        /\ WF_supervisorVars(Live(Dark!Unblock))
        /\ \A p \in {a1, a2} : WF_supervisorVars(Live(Dark!Dispatcher(p)))
        /\ \A r \in {b1, c1} : /\ SF_supervisorVars(Live(Dark!NrptCheck(r)))
                               /\ WF_supervisorVars(Live(Dark!NrptFirst(r) \/ Dark!NrptSecond(r)))
        /\ WF_supervisorVars(Live(Dark!LockTimeout(b1)))
        /\ WF_supervisorVars(Live(Dark!CtlFails /\ UNCHANGED faults))
        /\ WF_supervisorVars(Live(Dark!CtlEnabled)) /\ WF_supervisorVars(Live(Dark!CtlEnable))
        /\ WF_supervisorVars(Live(Dark!CtlStop)) /\ WF_supervisorVars(Live(Dark!CtlUnsupervise))
        /\ WF_supervisorVars(Live(Dark!CtlEnd))
        /\ WF_supervisorVars(Live(ctl = "restart" /\ (Dark!CtlStart \/ Dark!CtlDisable)))

\* The service process and its control dispatcher run, and its waits expire.
HostFairness ==
    /\ WF_hostVars(scenario = "stops" /\ \E c \in {"stop", "shutdown"} : Stops!HandleControl(c))
    /\ \A h \in {a1, a2} : WF_hostVars(scenario = "stops" /\ Stops!HostStep(h))

\* The runner's threads are scheduled and its waits expire; the program runs unless it may hang.
RunFairness ==
    /\ WF_runVars(scenario = "hangs" /\ Hangs!RunnerStep) /\ WF_runVars(scenario = "exits" /\ Exits!RunnerStep)
    /\ \A i \in {"out", "err"} : /\ WF_runVars(scenario = "hangs" /\ Hangs!ReaderStep(i))
                                  /\ WF_runVars(scenario = "exits" /\ Exits!ReaderStep(i))
    /\ WF_runVars(scenario = "exits" /\ Exits!ProgramStep)

\* The pump's thread runs, and the destructor repeats its wait and its cancel for as long as the
\* pump has not ended.  The child owes nothing.
LogFairness ==
    /\ WF_logVars(scenario = "closes" /\ Closes!PumpStep)
    /\ WF_logVars(scenario = "closes" /\ Closes!CloseWriter) /\ WF_logVars(scenario = "closes" /\ Closes!Cancel)

FairSpec == ServiceSpec /\ SupervisorFairness /\ HostFairness /\ RunFairness /\ LogFairness

-----------------------------------------------------------------------------
(* The properties of the components that are instantiated here, each in    *)
(* the scenarios it is about; those of the filters are their own module's. *)
(* Each component's type invariant is a conjunct of one of them.           *)

\* The rule does not name a silent dispatcher for longer than the suspension delay and the run
\* time of the helpers it takes (kSuspendAfterMilliseconds).
DarkBounded == scenario = "dark" => Dark!TypeOK /\ Dark!DarkBounded

\* What the service reports is what happened: a requested stop is clean only when the controller
\* exited by itself, an unrequested exit is a failure unless the shutdown caused it, and the reason
\* is in the log when STOPPED is reported (serviceMain, unrequestedExitReport).  A restart never
\* runs a second controller beside the first, and none outlives its host (forceStop, the job).
OutcomeHonest ==
    scenario = "lives" =>
        /\ Lives!CleanStopIsClean /\ Lives!UnrequestedExitReported /\ Lives!OutcomeLogged
        /\ Lives!TypeOK /\ Lives!OneController /\ Lives!ContainedController

\* The frame is what happened: its streams are what the job wrote, cut and flagged at the limit, and
\* an exit code is that of a program that exited by itself (readPipe, boundedRun).  Nothing of the
\* job runs unconfined or outlives the runner, and no buffer is freed under a reader (abandonRun).
RunHonest ==
    scenario = "runs" =>
        /\ Runs!TypeOK /\ Runs!StreamsExact /\ Runs!ExitHonest
        /\ Runs!NothingOutlives /\ Runs!BuffersOutliveReaders

\* Rotation discards output only from the third archive, whatever fails or dies in the middle of it
\* (rotate).  No file grows past the cap, the units stay in the order written (BoundedLog::write),
\* and a stopping host logs at most finalBytes and the rest of one read (LogPipe).
LogKept ==
    /\ Logs!OnlyOldestDropped
    /\ [](scenario = "logs" => Logs!TypeOK /\ Logs!CapKept /\ Logs!AgeOrdered /\ Logs!BoundedDrain)

\* Once the stack stays enabled and faults cease, the rule is back over a ready dispatcher (Resume).
Restored ==
    <>[](scenario = "dark" => ctl \in {"enabling", "enabled"})
    => <>[](scenario = "dark" => rule /\ ~suspended /\ Dark!DispatcherReady)

\* A stop control ends the service, even when the controller never exits (serviceMain), and the log
\* closes, even while a descendant keeps its pipe open (LogPipe::~LogPipe).
StopCompletes == Stops!StopCompletes /\ Closes!StopEnds

\* Every run ends, also with a program that hangs, a leaked pipe end or a reader that sticks, and a
\* program that ends ends its run with its exit code: it never waits for a pipe nobody reads
\* (boundedRun).
RunEnds ==
    /\ <>[](scenario = "hangs" => runner \in Hangs!Ended)
    /\ <>[](scenario = "exits" => frame = "exit")
=============================================================================
