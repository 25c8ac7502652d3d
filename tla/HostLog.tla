------------------------------ MODULE HostLog ------------------------------
(***************************************************************************)
(* The host's log of its child: a pump thread reads the child's output    *)
(* from a pipe (log-pipe.h) and appends it to a size-capped file with      *)
(* three archives (bounded-log.h). Any file operation may fail, the host   *)
(* may die between two renames, and a descendant of the child may keep     *)
(* the pipe's write end, silent or writing, after the child has ended.     *)
(*                                                                         *)
(* The output is a stream of units numbered in the order written; a file   *)
(* is the sequence of the units in it, <<>> when there is no such file     *)
(* (an archive is never empty: only a file over its cap is rotated).       *)
(***************************************************************************)
EXTENDS Naturals, Sequences, FiniteSets, SequencesExt

CONSTANTS
    Limit,       \* limit_: the cap of one file
    Buffer,      \* the most the pump reads at once
    FinalBytes,  \* finalBytes: what is still read once the host stops
    PipeSize,    \* what the pipe holds
    MaxUnits,    \* bound: units written by the child
    MaxCrashes   \* bound: deaths of the host

VARIABLES
    files,     \* 0 is the log, 1 .. 3 its archives
    opened,    \* file_ is a handle
    size_,
    step,      \* where BoundedLog::write is: "none", "open", "move", "reopen", "append"
    index,     \* the archive the next rename makes, 0 outside a rotation
    chunk,     \* the bytes being written
    pipe,
    holders,   \* who has the write end: the host, the child or its descendants
    pump,      \* "reading", "logging", "ended"
    stopping_,
    finalBytes,
    written,   \* history: the last unit written to the pipe
    drained,   \* history: units logged since the pump saw stopping_
    crashes

log == <<files, opened, size_, step, index, chunk>>
vars == <<files, opened, size_, step, index, chunk, pipe, holders, pump, stopping_, finalBytes,
          written, drained, crashes>>

Init ==
    /\ files = [i \in 0 .. 3 |-> <<>>] /\ opened = FALSE /\ size_ = 0
    /\ step = "none" /\ index = 0 /\ chunk = <<>> /\ pipe = <<>> /\ holders = {"host", "child"}
    /\ pump = "reading" /\ stopping_ = FALSE /\ finalBytes = FinalBytes
    /\ written = 0 /\ drained = 0 /\ crashes = 0

Smaller(a, b) == IF a < b THEN a ELSE b

----------------------------------------------------------------------------
(* The child and its descendants (external).                               *)

Emit ==
    /\ "child" \in holders /\ written < MaxUnits /\ Len(pipe) < PipeSize
    /\ pipe' = Append(pipe, written + 1) /\ written' = written + 1
    /\ UNCHANGED <<log, holders, pump, stopping_, finalBytes, drained, crashes>>

ChildExits ==
    /\ "child" \in holders
    /\ holders' = holders \ {"child"}
    /\ UNCHANGED <<log, pipe, pump, stopping_, finalBytes, written, drained, crashes>>

----------------------------------------------------------------------------
(* LogPipe::drain.                                                         *)

Read(n) ==
    /\ pump = "reading" /\ n \in 1 .. Smaller(Buffer, Len(pipe))
    /\ chunk' = SubSeq(pipe, 1, n) /\ pipe' = SubSeq(pipe, n + 1, Len(pipe))
    /\ pump' = "logging" /\ step' = "open"
    /\ UNCHANGED <<files, opened, size_, index, holders, stopping_, finalBytes, written, drained, crashes>>

EndOfPipe ==
    /\ pump = "reading" /\ pipe = <<>> /\ holders = {}
    /\ pump' = "ended"
    /\ UNCHANGED <<log, pipe, holders, stopping_, finalBytes, written, drained, crashes>>

\* write returned, whatever it returned: once the host stops, only finalBytes
\* more are read.
Logged ==
    LET left == finalBytes - Smaller(finalBytes, Len(chunk)) IN
    /\ finalBytes' = IF stopping_ THEN left ELSE finalBytes
    /\ pump' = IF stopping_ /\ left = 0 THEN "ended" ELSE "reading"
    /\ drained' = IF stopping_ THEN drained + Len(chunk) ELSE drained
    /\ step' = "none" /\ index' = 0 /\ chunk' = <<>>

----------------------------------------------------------------------------
(* BoundedLog::write, on the pump's thread.                                *)

Count == Smaller(Len(chunk), Limit)

NoRoom == size_' > Limit - Count

\* open(), and the decision to rotate.
OpenLog ==
    /\ step \in {"open", "reopen"}
    /\ size_' = IF opened THEN size_ ELSE Len(files[0])
    /\ IF NoRoom /\ step = "open"
       THEN opened' = FALSE /\ step' = "move" /\ index' = 3
       ELSE opened' = TRUE /\ step' = "append" /\ index' = 0
    /\ UNCHANGED <<files, chunk, pipe, holders, pump, stopping_, finalBytes, written, drained, crashes>>

\* Mutant of Move: the renames begin with the log itself.
MoveUp(i) == [files EXCEPT ![4 - i] = IF files[3 - i] = <<>> THEN @ ELSE files[3 - i],
                           ![3 - i] = <<>>]

\* The rename onto archive i; a source that does not exist is passed over.
Move(i) == [files EXCEPT ![i] = IF files[i - 1] = <<>> THEN @ ELSE files[i - 1],
                         ![i - 1] = <<>>]

Rotate ==
    /\ step = "move" /\ files' = Move(index) /\ index' = index - 1
    /\ step' = IF index = 1 THEN "reopen" ELSE "move"
    /\ UNCHANGED <<opened, size_, chunk, pipe, holders, pump, stopping_, finalBytes, written, drained, crashes>>

Grown(k) == size_ + k

\* WriteFile wrote k bytes of the Count asked for.
AppendLog(k) ==
    /\ step = "append" /\ k \in 0 .. Count
    /\ files' = [files EXCEPT ![0] = @ \o SubSeq(chunk, 1, k)] /\ size_' = Grown(k)
    /\ Logged
    /\ UNCHANGED <<opened, pipe, holders, stopping_, written, crashes>>

\* open() or a rename failed: write returns false and the next one starts over.
LogFails ==
    /\ step \in {"open", "move", "reopen"} /\ (step = "open" => ~opened)
    /\ Logged
    /\ UNCHANGED <<files, opened, size_, pipe, holders, stopping_, written, crashes>>

----------------------------------------------------------------------------
(* ~LogPipe, and the death of the host.                                    *)

BeginStop ==
    /\ ~stopping_ /\ stopping_' = TRUE
    /\ UNCHANGED <<log, pipe, holders, pump, finalBytes, written, drained, crashes>>

CloseWriter ==
    /\ stopping_ /\ "host" \in holders /\ holders' = holders \ {"host"}
    /\ UNCHANGED <<log, pipe, pump, stopping_, finalBytes, written, drained, crashes>>

\* CancelSynchronousIo after a wait that timed out: it ends a blocked read. A
\* pump between two calls is missed and a file operation it hits fails
\* (LogFails, AppendLog); both are tried again after the next wait.
Cancel ==
    /\ stopping_ /\ "host" \notin holders
    /\ pump = "reading" /\ pipe = <<>> /\ pump' = "ended"
    /\ UNCHANGED <<log, pipe, holders, stopping_, finalBytes, written, drained, crashes>>

\* The host dies, its handles with it, and a new one runs a new child.
HostCrashes ==
    /\ crashes < MaxCrashes /\ crashes' = crashes + 1
    /\ opened' = FALSE /\ size_' = 0 /\ step' = "none" /\ index' = 0 /\ chunk' = <<>> /\ pipe' = <<>>
    /\ holders' = {"host", "child"} /\ pump' = "reading" /\ stopping_' = FALSE
    /\ finalBytes' = FinalBytes /\ drained' = 0
    /\ UNCHANGED <<files, written>>

PumpStep == (\E n \in 1 .. Buffer : Read(n)) \/ EndOfPipe \/ OpenLog \/ Rotate
            \/ (\E k \in 0 .. Limit : AppendLog(k)) \/ LogFails

Next == Emit \/ ChildExits \/ PumpStep \/ BeginStop \/ CloseWriter \/ Cancel \/ HostCrashes

Spec == Init /\ [][Next]_vars

----------------------------------------------------------------------------

TypeOK ==
    /\ DOMAIN files = 0 .. 3 /\ \A i \in 0 .. 3 : files[i] \in Seq(1 .. MaxUnits)
    /\ opened \in BOOLEAN /\ (opened => size_ = Len(files[0]))
    /\ step \in {"none", "open", "move", "reopen", "append"} /\ index \in 0 .. 3
    /\ (step = "move") = (index > 0)
    /\ (step = "none") = (chunk = <<>>) /\ (step # "none") = (pump = "logging")
    /\ Len(pipe) <= PipeSize /\ holders \subseteq {"host", "child"}
    /\ pump \in {"reading", "logging", "ended"} /\ stopping_ \in BOOLEAN
    /\ finalBytes \in 0 .. FinalBytes

\* No file ever grows past the cap, whatever fails and wherever the host died.
CapKept == \A i \in 0 .. 3 : Len(files[i]) <= Limit

\* From the third archive to the log the units are in the order written: a
\* rename that fails, or a host that dies between two renames, never leaves
\* newer output in an older archive, nor any output twice.
AgeOrdered ==
    LET all == files[3] \o files[2] \o files[1] \o files[0]
    IN  \A i, j \in DOMAIN all : i < j => all[i] < all[j]

\* A step discards logged output only from the third archive: a failed rename
\* ends the rotation, so no archive is overwritten before it was moved on.
OnlyOldestDropped ==
    [][\A i \in 0 .. 2 : ToSet(files[i]) \subseteq UNION {ToSet(files'[j]) : j \in 0 .. 3}]_vars

\* Once the host stops the pump logs at most finalBytes and the rest of one
\* read, however much a descendant goes on writing.
BoundedDrain == drained < FinalBytes + Buffer

\* The destructor ends, even while a descendant keeps the pipe open.
StopEnds == []<>(stopping_ => pump = "ended")
============================================================================
