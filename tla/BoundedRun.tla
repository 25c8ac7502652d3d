----------------------------- MODULE BoundedRun -----------------------------
(***************************************************************************)
(* controller-service.exe --run (bounded-run.h): one program under a         *)
(* deadline, in a job that ends with the runner, its two output pipes        *)
(* drained by a thread each into bounded buffers.                            *)
(*                                                                           *)
(* A process of the job holds the write ends of both pipes while it lives; a *)
(* holder outside the job is possible (leaked).  Output is counted in units  *)
(* of which a pipe holds PipeUnits and a result keeps Limit.  Waits expire   *)
(* nondeterministically: no property depends on their lengths.               *)
(***************************************************************************)
EXTENDS Naturals, FiniteSets

CONSTANTS
    Program,        \* the program
    Descendants,    \* processes it may start
    Pipes,          \* stdout and stderr
    PipeUnits,      \* units a pipe buffers
    Limit,          \* units a result keeps (kRunLimitBytes)
    MaxOutput,      \* bound: units written to a pipe
    Faults          \* what may go wrong: a subset of {"timeout", "hang", "failures", "leak", "stuck", "kill"}

Processes == {Program} \cup Descendants

VARIABLES
    runner,         \* the runner's step, or how it ended
    alive,          \* processes of the job
    contained,      \* the program was created in the job
    running,        \* the program's first thread was resumed
    exited,         \* it exited by itself
    want,           \* [Pipes -> what it writes before it exits]
    leaked,         \* a process outside the job holds the write ends
    ours,           \* the runner still holds them
    pipe,           \* [Pipes -> [buffered, written, kept, truncated]]
    reader,         \* [Pipes -> "none", "reading", "stuck" or "stopped"]
    frame           \* the result written to stdout: "none", "exit", "timedout" or "error"

vars == <<runner, alive, contained, running, exited, want, leaked, ours, pipe, reader, frame>>

Ended == {"returned", "abandoned", "killed"}

Init ==
    /\ runner = "start" /\ alive = {} /\ contained \in {TRUE} \cup (IF "failures" \in Faults THEN {FALSE} ELSE {})
    /\ running = FALSE /\ exited = FALSE /\ ours = FALSE
    /\ want \in [Pipes -> 0..MaxOutput]
    /\ leaked \in {FALSE} \cup (IF "leak" \in Faults THEN {TRUE} ELSE {})
    /\ pipe = [i \in Pipes |-> [buffered |-> 0, written |-> 0, kept |-> 0, truncated |-> FALSE]]
    /\ reader = [i \in Pipes |-> "none"]
    /\ frame = "none"

-----------------------------------------------------------------------------
(* The program and its descendants (external).                              *)

Acts(p) == p \in alive /\ (p = Program => running)

Write(p, i) ==
    /\ Acts(p) /\ pipe[i].buffered < PipeUnits /\ pipe[i].written < MaxOutput
    /\ pipe' = [pipe EXCEPT ![i].buffered = @ + 1, ![i].written = @ + 1]
    /\ UNCHANGED <<runner, alive, contained, running, exited, want, leaked, ours, reader, frame>>

Spawn(p, q) ==
    /\ Acts(p) /\ p = Program /\ q \in Descendants \ alive
    /\ alive' = alive \cup {q}
    /\ UNCHANGED <<runner, contained, running, exited, want, leaked, ours, pipe, reader, frame>>

\* A program that does not hang exits once it has written all its output.
Exit(p) ==
    /\ Acts(p)
    /\ p = Program => \A i \in Pipes : pipe[i].written >= want[i]
    /\ alive' = alive \ {p}
    /\ exited' = (exited \/ p = Program)
    /\ UNCHANGED <<runner, contained, running, want, leaked, ours, pipe, reader, frame>>

CloseLeak ==
    /\ leaked /\ leaked' = FALSE
    /\ UNCHANGED <<runner, alive, contained, running, exited, want, ours, pipe, reader, frame>>

-----------------------------------------------------------------------------
(* The reader threads.                                                      *)

Kept(n, count) == n + (IF Limit - n < count THEN Limit - n ELSE count)

Cut(n, count) == count > Limit - n

\* drainRunPipe(): a read takes what is buffered; past the limit it is counted, not kept.
Read(i) ==
    /\ reader[i] = "reading" /\ pipe[i].buffered > 0
    /\ pipe' = [pipe EXCEPT ![i] = [buffered |-> 0, written |-> @.written, kept |-> Kept(@.kept, @.buffered),
                                    truncated |-> @.truncated \/ Cut(@.kept, @.buffered)]]
    /\ UNCHANGED <<runner, alive, contained, running, exited, want, leaked, ours, reader, frame>>

\* The pipe is empty and its last write end is closed.
EndOfPipe(i) ==
    /\ reader[i] = "reading" /\ pipe[i].buffered = 0
    /\ alive = {} /\ ~leaked /\ ~ours
    /\ reader' = [reader EXCEPT ![i] = "stopped"]
    /\ UNCHANGED <<runner, alive, contained, running, exited, want, leaked, ours, pipe, frame>>

\* A read that even its cancellation does not end.
ReaderSticks(i) ==
    /\ "stuck" \in Faults /\ reader[i] = "reading" /\ pipe[i].buffered = 0 /\ leaked
    /\ reader' = [reader EXCEPT ![i] = "stuck"]
    /\ UNCHANGED <<runner, alive, contained, running, exited, want, leaked, ours, pipe, frame>>

-----------------------------------------------------------------------------
(* The runner.                                                              *)

Stopped == \A i \in Pipes : reader[i] \in {"none", "stopped"}

\* Closing the job, or TerminateJobObject: every process in it ends.
Return == runner' = "returned" /\ alive' = {}

\* The arguments, the job, the pipes or the program cannot be had: runFailure().
FailEarly ==
    /\ "failures" \in Faults /\ runner = "start"
    /\ frame' = "error" /\ Return
    /\ UNCHANGED <<contained, running, exited, want, leaked, ours, pipe, reader>>

\* The program is created suspended, in the job.
Create ==
    /\ runner = "start"
    /\ alive' = {Program} /\ ours' = TRUE
    /\ runner' = "created"
    /\ UNCHANGED <<contained, running, exited, want, leaked, pipe, reader, frame>>

\* IsProcessInJob(): the program is ended if it is not; then the runner's write ends are closed.
CheckContained ==
    /\ runner = "created"
    /\ ours' = FALSE
    /\ IF contained THEN runner' = "readers" /\ UNCHANGED <<alive, frame>> ELSE frame' = "error" /\ Return
    /\ UNCHANGED <<contained, running, exited, want, leaked, pipe, reader>>

\* Mutant of StartReaders: one thread drains the pipes in turn.
StartReadersInTurn ==
    /\ runner = "readers"
    /\ \E i \in Pipes : reader' = [j \in Pipes |-> IF i = j THEN "reading" ELSE "none"]
    /\ runner' = "wait" /\ running' = TRUE
    /\ UNCHANGED <<alive, contained, exited, want, leaked, ours, pipe, frame>>

\* CreateThread() for each pipe, then ResumeThread().
StartReaders ==
    /\ runner = "readers"
    /\ reader' = [i \in Pipes |-> "reading"]
    /\ runner' = "wait" /\ running' = TRUE
    /\ UNCHANGED <<alive, contained, exited, want, leaked, ours, pipe, frame>>

\* At most one reader started: the job is ended and that reader must stop.
ReaderMissing ==
    /\ "failures" \in Faults /\ runner = "readers"
    /\ \E S \in SUBSET Pipes : S # Pipes /\ reader' = [i \in Pipes |-> IF i \in S THEN "reading" ELSE "none"]
    /\ alive' = {} /\ runner' = "giveup"
    /\ UNCHANGED <<contained, running, exited, want, leaked, ours, pipe, frame>>

\* The wait for the program, and its end at the deadline.
ProgramEnded ==
    /\ runner = "wait" /\ exited
    /\ runner' = "drain"
    /\ UNCHANGED <<alive, contained, running, exited, want, leaked, ours, pipe, reader, frame>>

TimedOut ==
    /\ "timeout" \in Faults /\ runner = "wait" /\ ~exited
    /\ runner' = "deadline"
    /\ UNCHANGED <<alive, contained, running, exited, want, leaked, ours, pipe, reader, frame>>

EndTimedOut ==
    /\ runner = "deadline"
    /\ alive' = {} /\ runner' = "drain timedout"
    /\ UNCHANGED <<contained, running, exited, want, leaked, ours, pipe, reader, frame>>

\* stopReaders(): the grace is over, so the job is ended; later the blocked reads are cancelled.
EndJob ==
    /\ runner \in {"drain", "drain timedout", "giveup"} /\ ~Stopped
    /\ alive' = {}
    /\ runner' = CASE runner = "drain" -> "cancel"
                   [] runner = "drain timedout" -> "cancel timedout"
                   [] runner = "giveup" -> "cancel giveup"
    /\ UNCHANGED <<contained, running, exited, want, leaked, ours, pipe, reader, frame>>

Cancelling == runner \in {"cancel", "cancel timedout", "cancel giveup"}

CancelRead(i) ==
    /\ Cancelling /\ reader[i] = "reading" /\ pipe[i].buffered = 0
    /\ reader' = [reader EXCEPT ![i] = "stopped"]
    /\ UNCHANGED <<runner, alive, contained, running, exited, want, leaked, ours, pipe, frame>>

\* abandonRun(): a reader did not stop, so the process ends without unwinding.
Abandon ==
    /\ Cancelling /\ ~Stopped /\ \E i \in Pipes : reader[i] = "stuck"
    /\ alive' = {} /\ frame' = "error" /\ runner' = "abandoned"
    /\ UNCHANGED <<contained, running, exited, want, leaked, ours, pipe, reader>>

\* Mutant of Outcome: the exit code is reported though the deadline ended the program.
OutcomeAlwaysExit == IF runner \in {"giveup", "cancel giveup"} THEN "error" ELSE "exit"

Outcome ==
    CASE runner \in {"drain", "cancel"} -> "exit"
      [] runner \in {"drain timedout", "cancel timedout"} -> "timedout"
      [] OTHER -> "error"

\* Both readers stopped: the frame is written and the job closed.
Report ==
    /\ runner \in {"drain", "drain timedout", "giveup"} \/ Cancelling
    /\ Stopped
    /\ frame' = Outcome /\ Return
    /\ UNCHANGED <<contained, running, exited, want, leaked, ours, pipe, reader>>

\* The runner is killed: the job closes with its last handle.
Killed ==
    /\ "kill" \in Faults /\ runner \notin Ended
    /\ runner' = "killed" /\ alive' = {}
    /\ UNCHANGED <<contained, running, exited, want, leaked, ours, pipe, reader, frame>>

-----------------------------------------------------------------------------
RunnerStep ==
    \/ FailEarly \/ Create \/ CheckContained \/ StartReaders \/ ReaderMissing
    \/ ProgramEnded \/ TimedOut \/ EndTimedOut \/ EndJob \/ Abandon \/ Report
    \/ \E i \in Pipes : CancelRead(i)

ReaderStep(i) == runner \notin Ended /\ (Read(i) \/ EndOfPipe(i))

ProgramStep == (\E i \in Pipes : Write(Program, i)) \/ Exit(Program)

Next ==
    \/ RunnerStep \/ Killed \/ CloseLeak \/ ProgramStep
    \/ \E i \in Pipes : ReaderStep(i) \/ (runner \notin Ended /\ ReaderSticks(i))
    \/ \E q \in Descendants : Spawn(Program, q) \/ Exit(q) \/ \E i \in Pipes : Write(q, i)

Spec == Init /\ [][Next]_vars

-----------------------------------------------------------------------------
(* Properties.                                                              *)

TypeOK ==
    /\ runner \in Ended \cup {"start", "created", "readers", "wait", "deadline", "drain", "drain timedout", "giveup",
                              "cancel", "cancel timedout", "cancel giveup"}
    /\ alive \subseteq Processes
    /\ \A i \in Pipes : /\ pipe[i].buffered \in 0..PipeUnits /\ pipe[i].kept \in 0..Limit
                        /\ reader[i] \in {"none", "reading", "stuck", "stopped"}
    /\ frame \in {"none", "exit", "timedout", "error"}

\* The program runs only once it is confirmed in the job, and nothing of the job outlives the
\* runner, however it ends.
NothingOutlives ==
    /\ running => contained
    /\ runner \in Ended => alive = {}

\* The frame's streams are exact: everything the job wrote up to the limit, and a flag exactly
\* when more was written, also when descendants wrote after the program's exit or reads were cancelled.
StreamsExact ==
    frame \in {"exit", "timedout"} =>
       \A i \in Pipes : /\ pipe[i].kept = IF pipe[i].written < Limit THEN pipe[i].written ELSE Limit
                        /\ pipe[i].truncated <=> pipe[i].written > Limit

\* An exit code is reported only for a program that exited by itself: never for one that the
\* deadline ended, or that the drain of a descendant's output outlasted.
ExitHonest == frame = "exit" => exited

\* abandonRun(): the buffers of a reader that still runs are never freed by returning.
BuffersOutliveReaders == runner = "returned" => Stopped
=============================================================================
