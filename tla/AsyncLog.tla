------------------------------ MODULE AsyncLog ------------------------------
(***************************************************************************)
(* The dispatcher's diagnostics queue (async-log.h): query threads append to *)
(* a ring of fixed slots under a lock held only for memory operations; one   *)
(* thread writes to the sink, woken by an auto-reset event.  What does not   *)
(* fit is counted, and the count is written to the sink as well.             *)
(*                                                                           *)
(* A message is a number; Size gives its bytes.  The sections under the lock *)
(* are single steps.  The sink may block until its read is cancelled, ignore *)
(* the cancellation, or throw.                                               *)
(***************************************************************************)
EXTENDS Naturals, Sequences

CONSTANTS
    Writers,        \* threads that log
    kMaxMessages, kMaxBytes, kMaxMessageBytes,
    Sizes,          \* message sizes that occur
    MaxWrites,      \* bound: messages written
    Faults          \* what may happen: a subset of {"stop", "block", "throw"}

VARIABLES
    slots, head, tail, count, bytes,    \* the ring
    accepting, stopping,
    expired,        \* stopAt has passed
    ready,          \* the auto-reset event
    dropped,        \* messages dropped
    writer,         \* [Writers -> [pc, msg]]
    thread,         \* the writing thread's step
    message, lost, reported,    \* its local variables
    destructor,     \* the destructor's step
    written,        \* sizes of the messages written so far; message m has size written[m]
    accepted, sunk, announced   \* history: messages queued, given to the sink, and announced as dropped

ring == <<slots, head, tail, count, bytes>>
flags == <<accepting, stopping, expired>>
threadVars == <<thread, message, lost, reported, sunk, announced>>
vars == <<ring, flags, ready, dropped, writer, threadVars, destructor, written, accepted>>

Init ==
    /\ slots = [i \in 0..(kMaxMessages - 1) |-> 0] /\ head = 0 /\ tail = 0 /\ count = 0 /\ bytes = 0
    /\ accepting = TRUE /\ stopping = FALSE /\ expired = FALSE
    /\ ready = FALSE /\ dropped = 0
    /\ writer = [w \in Writers |-> [pc |-> "idle", msg |-> 0]]
    /\ thread = "wait" /\ message = 0 /\ lost = 0 /\ reported = 0 /\ sunk = <<>> /\ announced = 0
    /\ destructor = "none"
    /\ written = <<>> /\ accepted = <<>>

-----------------------------------------------------------------------------
(* write()                                                                  *)

Step(w, pc, msg) == writer' = [writer EXCEPT ![w] = [pc |-> pc, msg |-> msg]]

\* The first check; the object's owner starts no write once it destroys the object.
BeginWrite(w, size) ==
    /\ writer[w].pc = "idle" /\ Len(written) < MaxWrites /\ destructor = "none"
    /\ written' = Append(written, size)
    /\ Step(w, IF ~accepting \/ size > kMaxMessageBytes THEN "drop" ELSE "lock", Len(written) + 1)
    /\ UNCHANGED <<ring, flags, ready, dropped, threadVars, destructor, accepted>>

Full(size) == count = kMaxMessages \/ size > kMaxBytes - bytes

NextSlot(i) == (i + 1) % kMaxMessages

\* Under the lock: check again, and append.
Enqueue(w) ==
    /\ writer[w].pc = "lock"
    /\ LET m == writer[w].msg
       IN IF ~accepting \/ Full(written[m])
          THEN Step(w, "drop", m) /\ UNCHANGED <<ring, accepted>>
          ELSE /\ slots' = [slots EXCEPT ![tail] = m]
               /\ tail' = NextSlot(tail) /\ count' = count + 1 /\ bytes' = bytes + written[m]
               /\ accepted' = Append(accepted, m)
               /\ Step(w, "signal", m)
               /\ UNCHANGED head
    /\ UNCHANGED <<flags, ready, dropped, threadVars, destructor, written>>

\* drop(): the counter, then the event.
Drop(w) ==
    /\ writer[w].pc = "drop"
    /\ dropped' = dropped + 1
    /\ Step(w, "signal", writer[w].msg)
    /\ UNCHANGED <<ring, flags, ready, threadVars, destructor, written, accepted>>

\* Mutant of Signal: the thread is woken only for a message.
SignalIfQueued(w) ==
    /\ writer[w].pc = "signal"
    /\ ready' = (ready \/ count > 0)
    /\ Step(w, "idle", 0)
    /\ UNCHANGED <<ring, flags, dropped, threadVars, destructor, written, accepted>>

Signal(w) ==
    /\ writer[w].pc = "signal"
    /\ ready' = TRUE
    /\ Step(w, "idle", 0)
    /\ UNCHANGED <<ring, flags, dropped, threadVars, destructor, written, accepted>>

-----------------------------------------------------------------------------
(* run()                                                                    *)

Wake ==
    /\ thread = "wait" /\ ready
    /\ ready' = FALSE /\ thread' = "check"
    /\ UNCHANGED <<ring, flags, dropped, writer, message, lost, reported, sunk, announced, destructor, written, accepted>>

CheckStop ==
    /\ thread = "check"
    /\ thread' = IF stopping /\ expired THEN "ended" ELSE "take"
    /\ UNCHANGED <<ring, flags, ready, dropped, writer, message, lost, reported, sunk, announced, destructor, written, accepted>>

Oldest == slots[head]

\* Under the lock: take the oldest message, 0 when there is none.
Take ==
    /\ thread = "take"
    /\ IF count = 0 THEN message' = 0 /\ UNCHANGED ring
       ELSE /\ message' = Oldest
            /\ head' = NextSlot(head) /\ count' = count - 1 /\ bytes' = bytes - written[Oldest]
            /\ UNCHANGED <<slots, tail>>
    /\ thread' = "losses"
    /\ UNCHANGED <<flags, ready, dropped, writer, lost, reported, sunk, announced, destructor, written, accepted>>

\* dropped is read once, here.
ReadLosses ==
    /\ thread = "losses"
    /\ lost' = dropped /\ thread' = "report"
    /\ UNCHANGED <<ring, flags, ready, dropped, writer, message, reported, sunk, announced, destructor, written, accepted>>

\* Mutant of ReportLosses: the counter as it is by now is taken as reported.
ReportLossesLate ==
    /\ thread = "report"
    /\ announced' = announced + (lost - reported) /\ reported' = dropped /\ thread' = "write"
    /\ UNCHANGED <<ring, flags, ready, dropped, writer, message, lost, sunk, destructor, written, accepted>>

\* The line says how many were lost since the last one.
ReportLosses ==
    /\ thread = "report"
    /\ announced' = announced + (lost - reported) /\ reported' = lost /\ thread' = "write"
    /\ UNCHANGED <<ring, flags, ready, dropped, writer, message, lost, sunk, destructor, written, accepted>>

\* Empty: end when stopping, else wait again.  Otherwise the message goes to the sink.
Sink ==
    /\ thread = "write"
    /\ IF message = 0
       THEN thread' = (IF stopping THEN "ended" ELSE "wait") /\ UNCHANGED <<message, sunk>>
       ELSE sunk' = Append(sunk, message) /\ message' = 0 /\ thread' = "check"
    /\ UNCHANGED <<ring, flags, ready, dropped, writer, lost, reported, announced, destructor, written, accepted>>

\* The sink blocks for good, or throws.
SinkFails ==
    /\ thread \in {"report", "write"} /\ (thread = "write" => message # 0)
    /\ \/ "block" \in Faults /\ thread' = "blocked" /\ UNCHANGED accepting
       \/ "throw" \in Faults /\ thread' = "ended" /\ accepting' = FALSE
    /\ UNCHANGED <<ring, stopping, expired, ready, dropped, writer, message, lost, reported, sunk, announced, destructor, written, accepted>>

-----------------------------------------------------------------------------
(* ~AsyncLog()                                                              *)

BeginStop ==
    /\ "stop" \in Faults /\ destructor = "none" /\ \A w \in Writers : writer[w].pc = "idle"
    /\ accepting' = FALSE /\ destructor' = "stopping"
    /\ UNCHANGED <<ring, stopping, expired, ready, dropped, writer, threadVars, written, accepted>>

SetStopping ==
    /\ destructor = "stopping"
    /\ stopping' = TRUE /\ destructor' = "signal"
    /\ UNCHANGED <<ring, accepting, expired, ready, dropped, writer, threadVars, written, accepted>>

SignalStop ==
    /\ destructor = "signal"
    /\ ready' = TRUE /\ destructor' = "join"
    /\ UNCHANGED <<ring, flags, dropped, writer, threadVars, written, accepted>>

\* At most two waits of 500 ms: the thread keeps its own reference to the state.
Join ==
    /\ destructor = "join" /\ (thread = "ended" \/ expired) /\ destructor' = "done"
    /\ UNCHANGED <<ring, flags, ready, dropped, writer, threadVars, written, accepted>>

Expire ==
    /\ stopping /\ ~expired /\ expired' = TRUE
    /\ UNCHANGED <<ring, accepting, stopping, ready, dropped, writer, threadVars, destructor, written, accepted>>

-----------------------------------------------------------------------------
WriterStep(w) == Enqueue(w) \/ Drop(w) \/ Signal(w)
ThreadStep == Wake \/ CheckStop \/ Take \/ ReadLosses \/ ReportLosses \/ Sink
StopStep == SetStopping \/ SignalStop \/ Join \/ Expire

Next ==
    \/ ThreadStep \/ SinkFails \/ BeginStop \/ StopStep
    \/ \E w \in Writers : WriterStep(w) \/ \E size \in Sizes : BeginWrite(w, size)

Spec == Init /\ [][Next]_vars

-----------------------------------------------------------------------------
(* Properties.                                                              *)

TypeOK ==
    /\ head \in 0..(kMaxMessages - 1) /\ tail \in 0..(kMaxMessages - 1)
    /\ count \in 0..kMaxMessages /\ bytes \in 0..kMaxBytes
    /\ accepting \in BOOLEAN /\ stopping \in BOOLEAN /\ expired \in BOOLEAN /\ ready \in BOOLEAN
    /\ dropped \in Nat /\ lost \in Nat /\ reported \in Nat
    /\ thread \in {"wait", "check", "take", "losses", "report", "write", "blocked", "ended"}
    /\ destructor \in {"none", "stopping", "signal", "join", "done"}

Queued == [i \in 1..count |-> slots[(head + i - 1) % kMaxMessages]]
InHand == IF message = 0 THEN <<>> ELSE <<message>>

\* Nothing accepted is lost, doubled or reordered: what the sink has got, the message in the
\* thread's hand and the ring, oldest first, are together exactly what write() accepted.
ExactlyOnceInOrder == sunk \o InHand \o Queued = accepted

\* The thread never sleeps on work: with a message queued or a loss unreported, the event is set
\* or a writer is about to set it.
NoLostWakeup ==
    thread = "wait" /\ (count > 0 \/ dropped # reported)
    => ready \/ \E w \in Writers : writer[w].pc = "signal"

\* Every message is accounted for: written ones are in progress, accepted or counted as dropped,
\* and the lines in the sink announce exactly the losses taken as reported, never more than there were.
LossesCounted ==
    /\ announced = reported /\ reported <= dropped
    /\ (\A w \in Writers : writer[w].pc = "idle") => Len(accepted) + dropped = Len(written)

\* Destruction ends, also when the sink ignores the cancellation.
DestructionEnds == []<>(destructor \in {"none", "done"})
=============================================================================
