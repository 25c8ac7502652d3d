---------------------------- MODULE TraceBarrier ----------------------------
(***************************************************************************)
(* The ordering barrier of the Windows DNS dispatcher: Hints::barrier, the  *)
(* ETW consumer callback and the flusher thread of DnsTrace, over a         *)
(* real-time ETW session (external) that keeps events in logging order and  *)
(* may lose them.                                                           *)
(*                                                                          *)
(* A worker thread takes the next sequence number under the lock, writes a  *)
(* sentinel event that carries it after unlocking, and waits until the      *)
(* consumer has processed a sentinel with at least that number and the      *)
(* flusher has checked for losses in a flush begun after the number was     *)
(* assigned.  Sentinels can therefore be logged out of order, a flush can   *)
(* cover a number whose sentinel is not written yet, and the two conditions *)
(* can be met in either order.                                              *)
(***************************************************************************)
EXTENDS Naturals, Sequences

CONSTANTS
    Waiters,        \* worker threads that may be inside barrier()
    MaxLog,         \* query events are logged while the log is shorter than this bound
    MaxSequence     \* bound on the barrier calls

ASSUME BoundsAssumption == MaxLog \in Nat /\ MaxSequence \in Nat

VARIABLES
    log,            \* every event of the session in logging order: QueryEvent, or a sentinel's number
    lost,           \* indices of log that the session lost (EventsLost, RealTimeBuffersLost)
    flushed,        \* log entries a successful FlushTraceW has handed over; none of them is lost later
    cursor,         \* the index of the last event the consumer callback processed
    sequence,       \* Hints::sequence_
    processed,      \* Hints::processed_
    checked,        \* Hints::checked_
    reported,       \* losses for which lostEvents() has run: the flusher's lostEvents, lostBuffers
    flusher,        \* where the flusher thread is in its loop
    covered,        \* its local covered
    counters,       \* its local loss counters, as the set of losses they count
    pc,             \* [Waiters -> where the thread is in barrier()]
    seq,            \* [Waiters -> its local sequence, 0 outside barrier()]
    need            \* history: [Waiters -> the length of log when its sequence was assigned]

sessionVars == <<log, lost, flushed>>
consumerVars == <<cursor, processed>>
flusherVars == <<flusher, covered, counters, reported, checked>>
waiterVars == <<pc, seq, need, sequence>>
vars == <<log, lost, flushed, cursor, sequence, processed, checked, reported,
          flusher, covered, counters, pc, seq, need>>

QueryEvent == 0

Init ==
    /\ log = <<>> /\ lost = {} /\ flushed = 0
    /\ cursor = 0
    /\ sequence = 0 /\ processed = 0 /\ checked = 0
    /\ reported = {}
    /\ flusher = "wait" /\ covered = 0 /\ counters = {}
    /\ pc = [w \in Waiters |-> "idle"]
    /\ seq = [w \in Waiters |-> 0]
    /\ need = [w \in Waiters |-> 0]

-----------------------------------------------------------------------------
(* The ETW session (external).  An event is lost when it is written, for    *)
(* want of a buffer, or later with the buffer that holds it, until a flush   *)
(* has handed that buffer to the consumer; either way it is counted.        *)

\* A process's DNS client library logs a query event, which is stored or lost at once.
LogQuery ==
    /\ Len(log) < MaxLog
    /\ log' = Append(log, QueryEvent)
    /\ \/ UNCHANGED lost
       \/ lost' = lost \cup {Len(log) + 1}
    /\ UNCHANGED <<flushed, consumerVars, flusherVars, waiterVars>>

\* A stored event is lost with its buffer before it is handed over.
LoseBuffer ==
    /\ \E i \in 1..Len(log) :
          /\ i > flushed /\ i > cursor /\ i \notin lost
          /\ lost' = lost \cup {i}
    /\ UNCHANGED <<log, flushed, consumerVars, flusherVars, waiterVars>>

-----------------------------------------------------------------------------
(* The consumer thread: ProcessTrace calls onEvent for each surviving event *)
(* in logging order.                                                        *)

MaxOf(a, b) == IF a >= b THEN a ELSE b

\* Mutant of SentinelProcessed: sentinels logged out of order move processed_ back.
SentinelProcessedNoMax(n) == processed' = n

\* sentinelProcessed for a sentinel; a query event becomes a hint (DnsAttribution).
SentinelProcessed(n) == processed' = MaxOf(processed, n)

ProcessEvent ==
    \E i \in (cursor + 1)..Len(log) :
        /\ i \notin lost
        /\ \A j \in (cursor + 1)..(i - 1) : j \in lost
        /\ cursor' = i
        /\ IF log[i] = QueryEvent THEN UNCHANGED processed ELSE SentinelProcessed(log[i])
        /\ UNCHANGED <<sessionVars, flusherVars, waiterVars>>

-----------------------------------------------------------------------------
(* The flusher thread.                                                      *)

\* The flusher notes the last number handed out before it flushes.
ReadCovered ==
    /\ flusher = "wait"
    /\ covered' = sequence
    /\ flusher' = "flush"
    /\ UNCHANGED <<counters, reported, checked, sessionVars, consumerVars, waiterVars>>

\* FlushTraceW succeeds: what was logged is handed over, and the counters include every loss of it.
FlushSucceeds ==
    /\ flusher = "flush"
    /\ flushed' = Len(log)
    /\ counters' = lost
    /\ flusher' = "compare"
    /\ UNCHANGED <<log, lost, covered, reported, checked, consumerVars, waiterVars>>

\* FlushTraceW fails: the loop continues without a loss check.
FlushFails ==
    /\ flusher = "flush"
    /\ covered' = 0
    /\ flusher' = "wait"
    /\ UNCHANGED <<counters, reported, checked, sessionVars, consumerVars, waiterVars>>

\* Changed counters: record them and call lostEvents().  Unchanged: nothing to report.
ReportLoss ==
    /\ flusher = "compare"
    /\ reported' = counters
    /\ counters' = {}
    /\ flusher' = "check"
    /\ UNCHANGED <<covered, checked, sessionVars, consumerVars, waiterVars>>

\* flushChecked(sequence)
FlushChecked ==
    /\ flusher = "check"
    /\ checked' = MaxOf(checked, covered)
    /\ covered' = 0
    /\ flusher' = "wait"
    /\ UNCHANGED <<counters, reported, sessionVars, consumerVars, waiterVars>>

-----------------------------------------------------------------------------
(* A worker thread in barrier().                                            *)

\* Under the lock: the next sequence number.
Assign(w) ==
    /\ pc[w] = "idle"
    /\ sequence < MaxSequence
    /\ sequence' = sequence + 1
    /\ seq' = [seq EXCEPT ![w] = sequence + 1]
    /\ need' = [need EXCEPT ![w] = Len(log)]
    /\ pc' = [pc EXCEPT ![w] = "assigned"]
    /\ UNCHANGED <<sessionVars, consumerVars, flusherVars>>

\* Unlocked: EventWrite of the sentinel, which succeeds, or fails and is counted as lost.
WriteSentinel(w) ==
    /\ pc[w] = "assigned"
    /\ log' = Append(log, seq[w])
    /\ \/ pc' = [pc EXCEPT ![w] = "waiting"] /\ UNCHANGED lost
       \/ pc' = [pc EXCEPT ![w] = "unwritten"] /\ lost' = lost \cup {Len(log) + 1}
    /\ UNCHANGED <<flushed, seq, need, sequence, consumerVars, flusherVars>>

\* Mutant of BarrierMet: the loss check is not waited for.
BarrierMetBySentinelAlone(w) == processed >= seq[w]

\* The predicate of changed_.wait_until.
BarrierMet(w) == processed >= seq[w] /\ checked >= seq[w]

Pass(w) ==
    /\ pc[w] = "waiting" /\ BarrierMet(w)
    /\ pc' = [pc EXCEPT ![w] = "passed"]
    /\ UNCHANGED <<seq, need, sequence, sessionVars, consumerVars, flusherVars>>

\* An unwritten sentinel, or the timeout with the predicate still false.
Fail(w) ==
    /\ pc[w] = "unwritten" \/ (pc[w] = "waiting" /\ ~BarrierMet(w))
    /\ pc' = [pc EXCEPT ![w] = "failed"]
    /\ UNCHANGED <<seq, need, sequence, sessionVars, consumerVars, flusherVars>>

\* barrier() returns to take or directAnswerUnsafe.
Return(w) ==
    /\ pc[w] \in {"passed", "failed"}
    /\ pc' = [pc EXCEPT ![w] = "idle"]
    /\ seq' = [seq EXCEPT ![w] = 0]
    /\ UNCHANGED <<need, sequence, sessionVars, consumerVars, flusherVars>>

Flusher == ReadCovered \/ FlushSucceeds \/ FlushFails \/ ReportLoss \/ FlushChecked

Next ==
    \/ LogQuery
    \/ LoseBuffer
    \/ ProcessEvent
    \/ Flusher
    \/ \E w \in Waiters : Assign(w) \/ WriteSentinel(w) \/ Pass(w) \/ Fail(w) \/ Return(w)

Spec == Init /\ [][Next]_vars

\* The consumer and the flusher threads run; FlushTraceW does not fail forever.
Fairness ==
    /\ WF_vars(ProcessEvent)
    /\ WF_vars(Flusher)
    /\ SF_vars(FlushSucceeds)

FairSpec == Spec /\ Fairness

-----------------------------------------------------------------------------
(* Properties.                                                              *)

TypeOK ==
    /\ log \in Seq(Nat)
    /\ lost \subseteq 1..Len(log)
    /\ flushed \in 0..Len(log)
    /\ cursor \in 0..Len(log)
    /\ sequence \in Nat /\ processed \in Nat /\ checked \in Nat
    /\ reported \subseteq lost /\ counters \subseteq lost
    /\ flusher \in {"wait", "flush", "compare", "check"}
    /\ covered \in 0..sequence
    /\ pc \in [Waiters -> {"idle", "assigned", "waiting", "unwritten", "passed", "failed"}]
    /\ seq \in [Waiters -> Nat]
    /\ need \in [Waiters -> Nat]

\* The events the hint table accounts for: processed by the consumer, or lost and reported to lostEvents().
Accounted == {i \in 1..cursor : i \notin lost} \cup reported

\* A barrier that passed leaves no event logged before it began unaccounted for, whatever the order
\* in which sentinels were written, buffers lost and flushes checked (Hints::barrier returning true).
BarrierSound ==
    \A w \in Waiters : pc[w] = "passed" => 1..need[w] \subseteq Accounted

\* The barrier is not merely sound: a waiter whose sentinel the session keeps is eventually let
\* through unless it gives up first.  No interleaving of assignments, out-of-order sentinels and
\* flushes strands it (Hints::barrier, sentinelProcessed, flushChecked).
BarrierCompletes ==
    \A w \in Waiters :
        []<>(pc[w] = "waiting" => \/ BarrierMet(w)
                                  \/ \E i \in 1..Len(log) : log[i] = seq[w] /\ i \in lost)

\* The threads, the session and its losses implement the abstract promise of EventBarrier.
Promise == INSTANCE EventBarrier WITH
    logged <- Len(log),
    accounted <- Accounted,
    waiter <- [w \in Waiters |->
                  IF pc[w] \in {"assigned", "waiting", "unwritten"} THEN "waiting" ELSE pc[w]],
    need <- need

ImplementsPromise == Promise!Spec
=============================================================================
