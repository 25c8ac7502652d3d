---------------------------- MODULE ServiceHost -----------------------------
(***************************************************************************)
(* The service process that runs the controller (controller-service.cpp):    *)
(* it launches the controller in a job, waits for a stop control, the        *)
(* controller's exit or a shutdown, and reports how it ended to the service  *)
(* control manager, which restarts it after a failure.                       *)
(*                                                                           *)
(* The manager may start the next process as soon as STOPPED is reported,    *)
(* while the previous one still logs, joins its threads and closes its       *)
(* handles.  Waits are bounded by nondeterministic expiry; the grace of 2 s  *)
(* for a shutdown control is the one wait whose length matters, and a        *)
(* control already sent is delivered within it.                              *)
(***************************************************************************)
EXTENDS Naturals, FiniteSets

CONSTANTS
    Hosts,          \* service processes, each used again once it has exited
    MaxStarts,      \* bound: service starts
    MaxCrashes,     \* bound: deaths of a service process
    MaxStuck        \* bound: jobs that TerminateJobObject does not end in time

VARIABLES
    status,         \* what the manager was last told
    exit,           \* the exit reported with STOPPED: "clean", "failure" or "none"
    current,        \* the host that reports, or "none"
    host,           \* [Hosts -> [pc, path, logged, forced, told]]
    child,          \* [Hosts -> the host's controller]
    stopEvent, shutdownEvent,   \* [Hosts -> signalled]
    controls,       \* controls sent to the current host and not handled yet
    system,         \* "up", "notified" of a shutdown, "ending" its processes, or "flagged" as well
    spent           \* [starts, crashes, stuck] for the bounds

vars == <<status, exit, current, host, child, stopEvent, shutdownEvent, controls, system, spent>>

NoHost == [pc |-> "none", path |-> "none", logged |-> FALSE, forced |-> FALSE, told |-> FALSE]
Finished == {"exit 0", "exit 1", "cleaned", "killed", "shut down"}

Init ==
    /\ status = "STOPPED" /\ exit = "none" /\ current = "none"
    /\ host = [h \in Hosts |-> NoHost]
    /\ child = [h \in Hosts |-> "none"]
    /\ stopEvent = [h \in Hosts |-> FALSE] /\ shutdownEvent = [h \in Hosts |-> FALSE]
    /\ controls = {} /\ system = "up"
    /\ spent = [starts |-> 0, crashes |-> 0, stuck |-> 0]

-----------------------------------------------------------------------------
(* The service control manager, the system and the controller (external).   *)

StartService(h) ==
    /\ status = "STOPPED" /\ system = "up" /\ host[h].pc = "none"
    /\ spent.starts < MaxStarts
    /\ status' = "START_PENDING" /\ exit' = "none" /\ current' = h /\ controls' = {}
    /\ host' = [host EXCEPT ![h] = [NoHost EXCEPT !.pc = "starting"]]
    /\ child' = [child EXCEPT ![h] = "none"]
    /\ stopEvent' = [stopEvent EXCEPT ![h] = FALSE] /\ shutdownEvent' = [shutdownEvent EXCEPT ![h] = FALSE]
    /\ spent' = [spent EXCEPT !.starts = @ + 1]
    /\ UNCHANGED system

\* acceptedControls(): only a running service is sent a control.
SendStop ==
    /\ status = "RUNNING" /\ "stop" \notin controls
    /\ controls' = controls \cup {"stop"}
    /\ UNCHANGED <<status, exit, current, host, child, stopEvent, shutdownEvent, system, spent>>

\* A pre-shutdown control precedes the end of the processes, but may be handled after it began.
SystemShutdown ==
    /\ system = "up"
    /\ system' = "notified"
    /\ IF status = "RUNNING"
       THEN controls' = controls \cup {"shutdown"} /\ host' = [host EXCEPT ![current].told = TRUE]
       ELSE UNCHANGED <<controls, host>>
    /\ UNCHANGED <<status, exit, current, child, stopEvent, shutdownEvent, spent>>

SystemEndsProcesses ==
    /\ system = "notified"
    /\ system' = "ending"
    /\ UNCHANGED <<status, exit, current, host, child, stopEvent, shutdownEvent, controls, spent>>

\* GetSystemMetrics(SM_SHUTTINGDOWN) turns true, not necessarily before the first process is ended.
SystemFlagsShutdown ==
    /\ system = "ending"
    /\ system' = "flagged"
    /\ UNCHANGED <<status, exit, current, host, child, stopEvent, shutdownEvent, controls, spent>>

\* The controller exits by itself, at any time; after the stop event it exits 0 once it has cleaned up.
ChildExits(h, outcome) ==
    /\ child[h] = "running"
    /\ \/ outcome \in {"exit 0", "exit 1"}
       \/ outcome = "cleaned" /\ stopEvent[h]
       \/ outcome = "shut down" /\ system \in {"ending", "flagged"}
    /\ outcome = "exit 0" => ~stopEvent[h]
    /\ child' = [child EXCEPT ![h] = outcome]
    /\ UNCHANGED <<status, exit, current, host, stopEvent, shutdownEvent, controls, system, spent>>

-----------------------------------------------------------------------------
(* The host.                                                                *)

\* reportStatus()
ReportStatus(h, state, outcome) ==
    IF current = h THEN status' = state /\ exit' = outcome ELSE UNCHANGED <<status, exit>>

\* controlHandler(): it finds no event once serviceMain has closed them.
HandleControl(c) ==
    /\ c \in controls /\ current # "none"
    /\ controls' = controls \ {c}
    /\ IF host[current].pc = "exiting" THEN UNCHANGED <<stopEvent, shutdownEvent>>
       ELSE IF c = "stop" THEN stopEvent' = [stopEvent EXCEPT ![current] = TRUE] /\ UNCHANGED shutdownEvent
       ELSE shutdownEvent' = [shutdownEvent EXCEPT ![current] = TRUE] /\ UNCHANGED stopEvent
    /\ UNCHANGED <<status, exit, current, host, child, system, spent>>

Goto(h, pc) == host' = [host EXCEPT ![h].pc = pc]

\* launchController(): the controller runs in the job before RUNNING is reported.
Launch(h) ==
    /\ host[h].pc = "starting"
    /\ child' = [child EXCEPT ![h] = "running"]
    /\ Goto(h, "waiting")
    /\ ReportStatus(h, "RUNNING", "none")
    /\ UNCHANGED <<current, stopEvent, shutdownEvent, controls, system, spent>>

\* An event, the job or the controller cannot be created: everything is closed, then STOPPED.
LaunchFails(h) ==
    /\ host[h].pc = "starting"
    /\ Goto(h, "exiting")
    /\ ReportStatus(h, "STOPPED", "failure")
    /\ UNCHANGED <<current, child, stopEvent, shutdownEvent, controls, system, spent>>

\* WaitForMultipleObjects({stop, child, shutdown}): the lowest signalled index is the result.
WakeForStop(h) ==
    /\ host[h].pc = "waiting" /\ stopEvent[h]
    /\ host' = [host EXCEPT ![h].pc = "stopping", ![h].path = "stop"]
    /\ ReportStatus(h, "STOP_PENDING", "none")
    /\ UNCHANGED <<current, child, stopEvent, shutdownEvent, controls, system, spent>>

WakeForChild(h) ==
    /\ host[h].pc = "waiting" /\ ~stopEvent[h] /\ child[h] \in Finished
    /\ host' = [host EXCEPT ![h].pc = "grace", ![h].path = "child"]
    /\ UNCHANGED <<status, exit, current, child, stopEvent, shutdownEvent, controls, system, spent>>

\* The one path that reports before it logs, so that the shutdown is not delayed.
WakeForShutdown(h) ==
    /\ host[h].pc = "waiting" /\ ~stopEvent[h] /\ child[h] \notin Finished /\ shutdownEvent[h]
    /\ host' = [host EXCEPT ![h].pc = "log", ![h].path = "shutdown"]
    /\ ReportStatus(h, "STOPPED", "clean")
    /\ UNCHANGED <<current, child, stopEvent, shutdownEvent, controls, system, spent>>

\* The stop path, to the end of the wait: TerminateJobObject after 240 s, then 5 s more.
AwaitCleanup(h) ==
    /\ host[h].pc = "stopping" /\ child[h] \in Finished
    /\ Goto(h, "judge")
    /\ UNCHANGED <<status, exit, current, child, stopEvent, shutdownEvent, controls, system, spent>>

\* Mutant of ForceStop: the wait has no deadline.
ForceStopNever(h) == FALSE

ForceStop(h) ==
    /\ host[h].pc = "stopping" /\ child[h] = "running"
    /\ host' = [host EXCEPT ![h].pc = "judge", ![h].forced = TRUE]
    /\ \/ child' = [child EXCEPT ![h] = "killed"] /\ UNCHANGED spent
       \/ spent.stuck < MaxStuck /\ spent' = [spent EXCEPT !.stuck = @ + 1] /\ UNCHANGED child
    /\ UNCHANGED <<status, exit, current, stopEvent, shutdownEvent, controls, system>>

\* stopFailure: the stop is clean only when the controller exited by itself with code 0.
StopOutcome(h) ==
    IF ~host[h].forced /\ child[h] \in {"exit 0", "cleaned"} THEN "clean" ELSE "failure"

\* The outcome is logged before it is reported.
LogStop(h) ==
    /\ host[h].pc = "judge"
    /\ host' = [host EXCEPT ![h].pc = "report", ![h].logged = TRUE]
    /\ UNCHANGED <<status, exit, current, child, stopEvent, shutdownEvent, controls, system, spent>>

ReportStop(h) ==
    /\ host[h].pc = "report"
    /\ Goto(h, "closing")
    /\ ReportStatus(h, "STOPPED", StopOutcome(h))
    /\ UNCHANGED <<current, child, stopEvent, shutdownEvent, controls, system, spent>>

\* Mutant of ShuttingDown: the shutdown control is not waited for.
ShuttingDownNow(h) == system = "flagged" \/ shutdownEvent[h]

\* systemShuttingDown(): the system says so, or the control arrives within the grace.
ShuttingDown(h) == system = "flagged" \/ shutdownEvent[h] \/ (current = h /\ "shutdown" \in controls)

\* unrequestedExitReport(), after its log line: any exit outside a shutdown is a failure.
ReportChild(h) ==
    /\ host[h].pc = "grace"
    /\ host' = [host EXCEPT ![h].pc = "closing", ![h].logged = TRUE]
    /\ ReportStatus(h, "STOPPED", IF ShuttingDown(h) THEN "clean" ELSE "failure")
    /\ UNCHANGED <<current, child, stopEvent, shutdownEvent, controls, system, spent>>

LogShutdown(h) ==
    /\ host[h].pc = "log"
    /\ host' = [host EXCEPT ![h].pc = "closing", ![h].logged = TRUE]
    /\ UNCHANGED <<status, exit, current, child, stopEvent, shutdownEvent, controls, system, spent>>

\* JOB_OBJECT_LIMIT_KILL_ON_JOB_CLOSE
KillChild(h) == child' = [child EXCEPT ![h] = IF @ = "running" THEN "killed" ELSE @]

\* The handles are closed, and with the job its processes; then the supervisor thread is joined.
CloseHandles(h) ==
    /\ host[h].pc = "closing"
    /\ Goto(h, "exiting")
    /\ KillChild(h)
    /\ UNCHANGED <<status, exit, current, stopEvent, shutdownEvent, controls, system, spent>>

\* wmain returns: the dispatcher ended, and serviceMain is done or 2 s have passed.
ProcessExits(h) ==
    /\ host[h].pc \in {"log", "closing", "exiting"} /\ (current = h => status = "STOPPED")
    /\ Goto(h, "none")
    /\ KillChild(h)
    /\ controls' = IF current = h THEN {} ELSE controls
    /\ current' = IF current = h THEN "none" ELSE current
    /\ UNCHANGED <<status, exit, stopEvent, shutdownEvent, system, spent>>

\* The process dies: the job is closed with its last handle, and the manager notices.
HostCrashes(h) ==
    /\ host[h].pc # "none" /\ spent.crashes < MaxCrashes
    /\ Goto(h, "none")
    /\ KillChild(h)
    /\ IF current = h
       THEN /\ current' = "none" /\ controls' = {}
            /\ status' = "STOPPED" /\ exit' = IF status = "STOPPED" THEN exit ELSE "failure"
       ELSE UNCHANGED <<current, controls, status, exit>>
    /\ spent' = [spent EXCEPT !.crashes = @ + 1]
    /\ UNCHANGED <<stopEvent, shutdownEvent, system>>

-----------------------------------------------------------------------------
HostStep(h) ==
    \/ Launch(h) \/ LaunchFails(h)
    \/ WakeForStop(h) \/ WakeForChild(h) \/ WakeForShutdown(h)
    \/ AwaitCleanup(h) \/ ForceStop(h) \/ LogStop(h) \/ ReportStop(h)
    \/ ReportChild(h) \/ LogShutdown(h) \/ CloseHandles(h) \/ ProcessExits(h)

Next ==
    \/ SendStop \/ SystemShutdown \/ SystemEndsProcesses \/ SystemFlagsShutdown
    \/ \E c \in {"stop", "shutdown"} : HandleControl(c)
    \/ \E h \in Hosts : \/ StartService(h) \/ HostStep(h) \/ HostCrashes(h)
                        \/ \E outcome \in Finished : ChildExits(h, outcome)

Spec == Init /\ [][Next]_vars

-----------------------------------------------------------------------------
(* Properties.                                                              *)

TypeOK ==
    /\ status \in {"STOPPED", "START_PENDING", "RUNNING", "STOP_PENDING"}
    /\ exit \in {"none", "clean", "failure"}
    /\ exit # "none" => status = "STOPPED"
    /\ current \in Hosts \cup {"none"}
    /\ \A h \in Hosts : /\ host[h].pc \in {"none", "starting", "waiting", "stopping", "grace", "judge", "report",
                                           "log", "closing", "exiting"}
                        /\ child[h] \in Finished \cup {"none", "running"}
    /\ controls \subseteq {"stop", "shutdown"}

Reported(h, path) == current = h /\ status = "STOPPED" /\ host[h].path = path /\ host[h].pc # "none"

\* serviceMain: a requested stop is reported clean only when the controller exited by itself, so
\* after its own cleanup or before it saw the request; a stop that was forced, or whose controller
\* failed, is a failure, however the exit races the request and the deadline.
CleanStopIsClean ==
    \A h \in Hosts : Reported(h, "stop") /\ exit = "clean" => child[h] \in {"cleaned", "exit 0"}

\* unrequestedExitReport(): a controller that exits unasked is reported as a failure, which makes
\* the manager restart it, when the system is not shutting down; one that the shutdown ended never
\* is, though the shutdown control may arrive after the controller is gone.
UnrequestedExitReported ==
    \A h \in Hosts :
       /\ Reported(h, "child") /\ system = "up" => exit = "failure"
       /\ Reported(h, "child") /\ child[h] = "shut down" /\ host[h].told => exit = "clean"

\* serviceMain: on every path but the shutdown, the reason is in the log when STOPPED is reported.
OutcomeLogged ==
    \A h \in Hosts : Reported(h, "stop") \/ Reported(h, "child") => host[h].logged

\* A restart never runs a second controller beside the first: when STOPPED is reported the
\* controller is gone, except on a shutdown or when its job could not be ended.
OneController ==
    system = "up" /\ spent.stuck = 0 => Cardinality({h \in Hosts : child[h] = "running"}) <= 1

\* A controller never outlives its service process.
ContainedController == \A h \in Hosts : child[h] = "running" => host[h].pc # "none"

\* A stop control ends the service, even when the controller never exits.
StopCompletes == \A h \in Hosts : []<>(stopEvent[h] /\ current = h => status = "STOPPED")
=============================================================================
