------------------------ MODULE TraceBarrier_proofs -------------------------
(***************************************************************************)
(* Proofs about TraceBarrier for any set of worker threads and any bounds:  *)
(* the barrier is sound, and the sentinel protocol implements the abstract  *)
(* promise of EventBarrier.                                                 *)
(***************************************************************************)
EXTENDS TraceBarrier, TLAPS

Active(w) == pc[w] # "idle"

\* The numbers and snapshots of the threads inside barrier() are ones already handed out.
WaiterInv ==
    \A w \in Waiters : Active(w) => /\ seq[w] >= 1 /\ seq[w] <= sequence
                                    /\ need[w] <= Len(log)

\* A sentinel lies behind the snapshot of every thread whose number it covers.
SentinelInv ==
    \A i \in 1..Len(log) :
        /\ log[i] <= sequence
        /\ \A w \in Waiters : Active(w) /\ seq[w] <= log[i] => need[w] < i

\* Once processed_ covers a thread's number, the consumer is past its snapshot.
ProcessedInv ==
    /\ processed <= sequence
    /\ \A w \in Waiters : Active(w) /\ seq[w] <= processed => need[w] <= cursor

\* Where the flusher stands: what its flush has handed over and its counters include.
FlusherInv ==
    /\ covered <= sequence
    /\ flusher \in {"compare", "check"} =>
          \A w \in Waiters : Active(w) /\ seq[w] <= covered => need[w] <= flushed
    /\ flusher = "compare" =>
          /\ reported \subseteq counters
          /\ \A i \in lost : i <= flushed => i \in counters
    /\ flusher = "check" => \A i \in lost : i <= flushed => i \in reported

\* Once checked_ covers a thread's number, every loss before its snapshot is reported, and no
\* further one can happen there.
CheckedInv ==
    /\ checked <= sequence
    /\ \A w \in Waiters : Active(w) /\ seq[w] <= checked =>
          /\ need[w] <= flushed
          /\ \A i \in lost : i <= need[w] => i \in reported

PassedInv == \A w \in Waiters : pc[w] = "passed" => BarrierMet(w)

IInv == TypeOK /\ WaiterInv /\ SentinelInv /\ ProcessedInv /\ FlusherInv /\ CheckedInv /\ PassedInv
-----------------------------------------------------------------------------
\* MaxOf, as sentinelProcessed and flushChecked use std::max: one of its arguments, and no smaller
\* than either.
LEMMA MaxOfFacts ==
    ASSUME NEW a \in Nat, NEW b \in Nat
    PROVE  MaxOf(a, b) \in Nat /\ MaxOf(a, b) >= a /\ MaxOf(a, b) >= b /\ MaxOf(a, b) \in {a, b}
  BY DEF MaxOf

\* Appending to the session's log keeps the entries it has (EventWrite in logging order).
LEMMA AppendFacts ==
    ASSUME NEW s \in Seq(Nat), NEW n \in Nat
    PROVE  /\ Append(s, n) \in Seq(Nat)
           /\ Len(Append(s, n)) = Len(s) + 1
           /\ Len(s) \in Nat
           /\ \A i \in 1..Len(s) : Append(s, n)[i] = s[i]
           /\ Append(s, n)[Len(s) + 1] = n
  OBVIOUS

\* The indices of a log with one more event.
LEMMA Prolonged == ASSUME NEW n \in Nat, NEW i \in 1..(n + 1) PROVE i \in 1..n \/ i = n + 1
  OBVIOUS

\* One more event in the log, which may be lost: the types hold.
LEMMA LongerLog ==
    ASSUME TypeOK, log' \in Seq(Nat), Len(log') = Len(log) + 1,
           lost' \in {lost, lost \cup {Len(log) + 1}},
           pc' \in [Waiters -> {"idle", "assigned", "waiting", "unwritten", "passed", "failed"}],
           UNCHANGED <<flushed, seq, need, sequence, consumerVars, flusherVars>>
    PROVE  TypeOK'
<1>1. Len(log) \in Nat
  BY DEF TypeOK
<1>2. /\ 1..Len(log) \subseteq 1..Len(log') /\ 0..Len(log) \subseteq 0..Len(log')
      /\ Len(log) + 1 \in 1..Len(log')
  BY <1>1
<1>3. lost' \subseteq 1..Len(log') /\ lost \subseteq lost'
  BY <1>2, Zenon DEF TypeOK
<1>4. reported' \subseteq lost' /\ counters' \subseteq lost'
  BY <1>3, Zenon DEF TypeOK, flusherVars
<1>5. QED
  BY <1>2, <1>3, <1>4, Zenon DEF TypeOK, consumerVars, flusherVars

\* A loss at the end of the log is one that no flush covers and no thread waits for.
LEMMA NewLoss ==
    ASSUME TypeOK, WaiterInv, FlusherInv, CheckedInv,
           lost' \in {lost, lost \cup {Len(log) + 1}}, \A v \in Waiters : Active(v)' <=> Active(v),
           UNCHANGED <<flushed, seq, need, sequence, flusherVars>>
    PROVE  FlusherInv' /\ CheckedInv'
<1>1. Len(log) \in Nat /\ flushed \in 0..Len(log) /\ \A v \in Waiters : need[v] \in Nat
  BY DEF TypeOK
<1>2. ~(Len(log) + 1 <= flushed)
  BY <1>1
<1>3. \A v \in Waiters : Active(v) => ~(Len(log) + 1 <= need[v])
  <2>1. TAKE v \in Waiters
  <2>2. HAVE Active(v)
  <2>3. need[v] \in Nat /\ need[v] <= Len(log)
    BY <1>1, <2>2, Zenon DEF WaiterInv
  <2>4. QED
    BY <1>1, <2>3
<1>4. \A i \in lost' : i \in lost \/ i = Len(log) + 1
  BY Zenon
<1>5. FlusherInv'
  BY <1>2, <1>4, Zenon DEF FlusherInv, flusherVars
<1>6. CheckedInv'
  BY <1>3, <1>4, Zenon DEF CheckedInv, flusherVars
<1>7. QED
  BY <1>5, <1>6, Zenon

\* The dispatcher starts with no events, no losses and no waiters, which satisfies the invariant.
LEMMA InitIInv == Init => IInv
  BY DEF Init, IInv, TypeOK, WaiterInv, SentinelInv, ProcessedInv, FlusherInv, CheckedInv, PassedInv, BarrierMet, Active

\* Every step of the session, the consumer, the flusher and the workers preserves the invariant.
LEMMA NextIInv == IInv /\ [Next]_vars => IInv'
<1> SUFFICES ASSUME IInv, [Next]_vars PROVE IInv'
  BY Zenon
<1>0. TypeOK /\ WaiterInv /\ SentinelInv /\ ProcessedInv /\ FlusherInv /\ CheckedInv /\ PassedInv
  BY Zenon DEF IInv
<1>t. /\ Len(log) \in Nat /\ \A i \in 1..Len(log) : log[i] \in Nat
      /\ lost \subseteq 1..Len(log) /\ lost \subseteq Nat
      /\ flushed \in Nat /\ cursor \in Nat /\ covered \in Nat
      /\ sequence \in Nat /\ processed \in Nat /\ checked \in Nat
      /\ \A w \in Waiters : seq[w] \in Nat /\ need[w] \in Nat
  BY <1>0, SMTT(120) DEF TypeOK
<1> USE <1>t
<1>1. CASE LogQuery
  <2>1. /\ log' \in Seq(Nat) /\ Len(log') = Len(log) + 1
        /\ \A i \in 1..Len(log) : log'[i] = log[i]
        /\ log'[Len(log) + 1] = 0
        /\ lost' \in {lost, lost \cup {Len(log) + 1}}
        /\ UNCHANGED <<flushed, consumerVars, flusherVars, waiterVars>>
    BY <1>0, <1>1, AppendFacts DEF LogQuery, QueryEvent, TypeOK
  <2>2. TypeOK'
    BY <1>0, <2>1, LongerLog, Zenon DEF TypeOK, waiterVars
  <2>3. WaiterInv' /\ PassedInv'
    <3>1. \A v \in Waiters : need[v] <= Len(log) => need[v] <= Len(log')
      BY <2>1, SMTT(120)
    <3>2. QED
      BY <1>0, <2>1, <3>1, Zenon DEF WaiterInv, PassedInv, BarrierMet, Active, consumerVars, flusherVars, waiterVars
  <2>4. SentinelInv'
    <3>1. ASSUME NEW i \in 1..Len(log'), NEW v \in Waiters, Active(v), seq[v] <= log'[i]
          PROVE  need[v] < i
      <4>1. i \in 1..Len(log) /\ log'[i] = log[i]
        <5>1. seq[v] >= 1 /\ seq[v] \in Nat
          BY <1>0, <3>1, Zenon DEF WaiterInv
        <5>2. ~(seq[v] <= 0)
          BY <5>1
        <5>3. QED
          BY <2>1, <3>1, <5>2, Prolonged, Zenon
      <4>2. QED
        BY <1>0, <3>1, <4>1, Zenon DEF SentinelInv
    <3>2. \A i \in 1..Len(log') : log'[i] <= sequence
      <4>1. 0 <= sequence
        OBVIOUS
      <4>2. QED
        BY <1>0, <2>1, <4>1, Prolonged, Zenon DEF SentinelInv
    <3>3. QED
      BY <2>1, <3>1, <3>2, Zenon DEF SentinelInv, Active, waiterVars
  <2>5. ProcessedInv'
    BY <1>0, <2>1, Zenon DEF ProcessedInv, Active, consumerVars, waiterVars
  <2>6. FlusherInv' /\ CheckedInv'
    <3>1. \A v \in Waiters : Active(v)' <=> Active(v)
      BY <2>1, Zenon DEF Active, waiterVars
    <3>2. QED
      BY <1>0, <2>1, <3>1, NewLoss, Zenon DEF waiterVars
  <2>7. QED
    BY <2>2, <2>3, <2>4, <2>5, <2>6, Zenon DEF IInv
<1>2. CASE LoseBuffer
  <2>1. PICK k \in 1..Len(log) : k > flushed /\ k > cursor /\ lost' = lost \cup {k}
    BY <1>2, Zenon DEF LoseBuffer
  <2>2. UNCHANGED <<log, flushed, consumerVars, flusherVars, waiterVars>>
    BY <1>2, Zenon DEF LoseBuffer
  <2>3. TypeOK' /\ WaiterInv' /\ SentinelInv' /\ ProcessedInv' /\ PassedInv'
    BY <1>0, <2>1, <2>2, Zenon DEF TypeOK, WaiterInv, SentinelInv, ProcessedInv, PassedInv, BarrierMet, Active,
       consumerVars, flusherVars, waiterVars
  <2>4. FlusherInv'
    <3>1. /\ UNCHANGED <<flusher, covered, counters, reported, flushed, sequence, pc, seq, need>>
          /\ \A i \in lost' : i <= flushed => i \in lost
      BY <2>1, <2>2 DEF flusherVars, waiterVars
    <3>2. QED
      BY <1>0, <3>1, Zenon DEF FlusherInv, Active
  <2>5. CheckedInv'
    BY <1>0, <2>1, <2>2 DEF CheckedInv, Active, flusherVars, waiterVars
  <2>6. QED
    BY <2>3, <2>4, <2>5, Zenon DEF IInv
<1>3. CASE ProcessEvent
  <2>1. PICK k \in (cursor + 1)..Len(log) :
          /\ cursor' = k
          /\ IF log[k] = QueryEvent THEN UNCHANGED processed ELSE SentinelProcessed(log[k])
          /\ UNCHANGED <<sessionVars, flusherVars, waiterVars>>
    BY <1>3, Zenon DEF ProcessEvent
  <2>2. k \in 1..Len(log) /\ k > cursor
    BY <2>1
  <2>3. processed' \in Nat /\ processed' >= processed /\ processed' \in {processed, log[k]}
    <3>1. log[k] \in Nat
      BY <2>2, Zenon
    <3>2. CASE log[k] = QueryEvent
      BY <2>1, <3>2
    <3>3. CASE log[k] # QueryEvent
      <4>1. processed' = MaxOf(processed, log[k])
        BY <2>1, <3>3, Zenon DEF SentinelProcessed
      <4>2. QED
        BY <3>1, <4>1, MaxOfFacts, Zenon
    <3>4. QED
      BY <3>2, <3>3, Zenon
  <2>4. TypeOK' /\ WaiterInv' /\ SentinelInv' /\ FlusherInv' /\ CheckedInv'
    <3>1. cursor' \in 0..Len(log)
      BY <2>1, <2>2
    <3>2. TypeOK'
      BY <1>0, <2>1, <2>3, <3>1, Zenon DEF TypeOK, sessionVars, flusherVars, waiterVars
    <3>3. WaiterInv' /\ SentinelInv'
      BY <1>0, <2>1, Zenon DEF WaiterInv, SentinelInv, Active, sessionVars, waiterVars
    <3>4. FlusherInv' /\ CheckedInv'
      BY <1>0, <2>1, Zenon DEF FlusherInv, CheckedInv, Active, sessionVars, flusherVars, waiterVars
    <3>5. QED
      BY <3>2, <3>3, <3>4, Zenon
  <2>5. ProcessedInv'
    <3>1. processed' <= sequence
      BY <1>0, <2>2, <2>3, Zenon DEF ProcessedInv, SentinelInv
    <3>2. ASSUME NEW v \in Waiters, Active(v), seq[v] <= processed' PROVE need[v] <= cursor'
      <4>1. cursor' = k /\ cursor \in Nat /\ k \in Nat /\ need[v] \in Nat
        BY <1>0, <2>1, <2>2, <3>2 DEF TypeOK
      <4>2. CASE processed' = processed
        <5>1. need[v] <= cursor
          BY <1>0, <3>2, <4>2, Zenon DEF ProcessedInv
        <5>2. QED
          BY <2>2, <4>1, <5>1
      <4>3. CASE processed' = log[k]
        <5>1. need[v] < k
          BY <1>0, <2>2, <3>2, <4>3, Zenon DEF SentinelInv
        <5>2. QED
          BY <4>1, <5>1
      <4>4. QED
        BY <2>3, <4>2, <4>3, Zenon
    <3>3. QED
      BY <2>1, <3>1, <3>2, Zenon DEF ProcessedInv, Active, waiterVars
  <2>6. PassedInv'
    BY <1>0, <2>1, <2>3, SMTT(120) DEF PassedInv, BarrierMet, flusherVars, waiterVars
  <2>7. QED
    BY <2>4, <2>5, <2>6, Zenon DEF IInv
<1>4. CASE ReadCovered
  <2>1. TypeOK' /\ FlusherInv'
    BY <1>0, <1>4, SMTT(120) DEF ReadCovered, TypeOK, FlusherInv, sessionVars, consumerVars, waiterVars
  <2>2. WaiterInv' /\ SentinelInv' /\ ProcessedInv' /\ CheckedInv' /\ PassedInv'
    BY <1>0, <1>4, Zenon DEF ReadCovered, WaiterInv, SentinelInv, ProcessedInv, CheckedInv, PassedInv, BarrierMet,
       Active, sessionVars, consumerVars, waiterVars
  <2>3. QED
    BY <2>1, <2>2, Zenon DEF IInv
<1>5. CASE FlushSucceeds
  <2>1. TypeOK'
    BY <1>0, <1>5, SMTT(120) DEF FlushSucceeds, TypeOK, consumerVars, waiterVars
  <2>2. FlusherInv'
    BY <1>0, <1>5, Zenon DEF FlushSucceeds, TypeOK, WaiterInv, FlusherInv, Active, consumerVars, waiterVars
  <2>3. CheckedInv'
    BY <1>0, <1>5, Zenon DEF FlushSucceeds, WaiterInv, CheckedInv, Active, waiterVars
  <2>4. WaiterInv' /\ SentinelInv' /\ ProcessedInv' /\ PassedInv'
    BY <1>0, <1>5, Zenon DEF FlushSucceeds, WaiterInv, SentinelInv, ProcessedInv, PassedInv, BarrierMet, Active,
       consumerVars, waiterVars
  <2>5. QED
    BY <2>1, <2>2, <2>3, <2>4, Zenon DEF IInv
<1>6. CASE FlushFails
  <2>1. TypeOK' /\ FlusherInv'
    BY <1>0, <1>6, SMTT(120) DEF FlushFails, TypeOK, FlusherInv, sessionVars, consumerVars, waiterVars
  <2>2. WaiterInv' /\ SentinelInv' /\ ProcessedInv' /\ CheckedInv' /\ PassedInv'
    BY <1>0, <1>6, Zenon DEF FlushFails, WaiterInv, SentinelInv, ProcessedInv, CheckedInv, PassedInv, BarrierMet,
       Active, sessionVars, consumerVars, waiterVars
  <2>3. QED
    BY <2>1, <2>2 DEF IInv
<1>7. CASE ReportLoss
  <2>1. TypeOK' /\ FlusherInv'
    BY <1>0, <1>7, Zenon DEF ReportLoss, TypeOK, FlusherInv, Active, sessionVars, consumerVars, waiterVars
  <2>2. CheckedInv'
    BY <1>0, <1>7, Zenon DEF ReportLoss, FlusherInv, CheckedInv, Active, sessionVars, waiterVars
  <2>3. WaiterInv' /\ SentinelInv' /\ ProcessedInv' /\ PassedInv'
    BY <1>0, <1>7, Zenon DEF ReportLoss, WaiterInv, SentinelInv, ProcessedInv, PassedInv, BarrierMet, Active,
       sessionVars, consumerVars, waiterVars
  <2>4. QED
    BY <2>1, <2>2, <2>3, Zenon DEF IInv
<1>8. CASE FlushChecked
  <2>1. checked' \in Nat /\ checked' >= checked /\ checked' \in {checked, covered}
    BY <1>8, MaxOfFacts, Zenon DEF FlushChecked
  <2>2. TypeOK' /\ FlusherInv'
    BY <1>0, <1>8, <2>1, SMTT(120) DEF FlushChecked, TypeOK, FlusherInv, sessionVars, consumerVars, waiterVars
  <2>3. CheckedInv'
    BY <1>0, <1>8, <2>1, SMTT(120) DEF FlushChecked, FlusherInv, CheckedInv, Active, sessionVars, waiterVars
  <2>4. WaiterInv' /\ SentinelInv' /\ ProcessedInv'
    BY <1>0, <1>8, Zenon DEF FlushChecked, WaiterInv, SentinelInv, ProcessedInv, Active,
       sessionVars, consumerVars, waiterVars
  <2>5. PassedInv'
    BY <1>0, <1>8, <2>1, SMTT(120) DEF FlushChecked, PassedInv, BarrierMet, consumerVars, waiterVars
  <2>6. QED
    BY <2>2, <2>3, <2>4, <2>5, Zenon DEF IInv
<1>9. ASSUME NEW w \in Waiters, Assign(w) PROVE IInv'
  <2>1. /\ sequence' = sequence + 1 /\ UNCHANGED <<sessionVars, consumerVars, flusherVars>>
        /\ seq'[w] = sequence + 1 /\ need'[w] = Len(log) /\ pc'[w] = "assigned"
        /\ \A v \in Waiters \ {w} : seq'[v] = seq[v] /\ need'[v] = need[v] /\ pc'[v] = pc[v]
    BY <1>0, <1>9, Zenon DEF Assign, TypeOK
  <2>2. TypeOK'
    <3>1. /\ pc' \in [Waiters -> {"idle", "assigned", "waiting", "unwritten", "passed", "failed"}]
          /\ seq' \in [Waiters -> Nat] /\ need' \in [Waiters -> Nat]
      BY <1>0, <1>9 DEF Assign, TypeOK
    <3>2. covered \in 0..sequence
      BY <1>0, Zenon DEF TypeOK
    <3>3. sequence' \in Nat /\ covered \in 0..sequence'
      BY <2>1, <3>2
    <3>4. QED
      BY <1>0, <2>1, <3>1, <3>3, Zenon DEF TypeOK, sessionVars, consumerVars, flusherVars
  <2>3. WaiterInv' /\ PassedInv'
    <3>1. WaiterInv'
      <4>1. /\ sequence + 1 >= 1 /\ sequence + 1 <= sequence + 1 /\ Len(log) <= Len(log)
            /\ \A v \in Waiters : seq[v] <= sequence => seq[v] <= sequence + 1
        OBVIOUS
      <4>2. QED
        BY <1>0, <2>1, <4>1, ZenonT(120) DEF WaiterInv, Active, sessionVars
    <3>2. PassedInv'
      BY <1>0, <2>1, Zenon DEF PassedInv, BarrierMet, consumerVars, flusherVars
    <3>3. QED
      BY <3>1, <3>2, Zenon
  <2>a. \A n \in Nat : n <= sequence => n <= sequence' /\ ~(seq'[w] <= n)
    BY <2>1
  <2>b. \A n \in Nat, v \in Waiters : n <= sequence /\ Active(v)' /\ seq'[v] <= n =>
           Active(v) /\ seq'[v] = seq[v] /\ need'[v] = need[v]
    BY <2>1, <2>a, Zenon DEF Active
  <2>4. SentinelInv'
    BY <1>0, <2>1, <2>a, <2>b, ZenonT(120) DEF SentinelInv, sessionVars
  <2>5. ProcessedInv'
    BY <1>0, <2>1, <2>a, <2>b, Zenon DEF ProcessedInv, consumerVars
  <2>6. FlusherInv'
    BY <1>0, <2>1, <2>a, <2>b, Zenon DEF FlusherInv, sessionVars, flusherVars
  <2>7. CheckedInv'
    BY <1>0, <2>1, <2>a, <2>b, Zenon DEF CheckedInv, sessionVars, flusherVars
  <2>8. QED
    BY <2>2, <2>3, <2>4, <2>5, <2>6, <2>7, Zenon DEF IInv
<1>10. ASSUME NEW w \in Waiters, WriteSentinel(w) PROVE IInv'
  <2>1. /\ log' = Append(log, seq[w]) /\ lost' \in {lost, lost \cup {Len(log) + 1}}
        /\ pc'[w] \in {"waiting", "unwritten"} /\ Active(w)
        /\ \A v \in Waiters \ {w} : pc'[v] = pc[v]
        /\ UNCHANGED <<flushed, seq, need, sequence, consumerVars, flusherVars>>
    BY <1>0, <1>10, Zenon DEF WriteSentinel, TypeOK, Active
  <2>2. /\ log' \in Seq(Nat) /\ Len(log') = Len(log) + 1
        /\ \A i \in 1..Len(log) : log'[i] = log[i]
        /\ log'[Len(log) + 1] = seq[w]
    BY <1>0, <2>1, AppendFacts DEF TypeOK
  <2>3. \A v \in Waiters : Active(v)' <=> Active(v)
    BY <2>1, Zenon DEF Active
  <2>4. pc' \in [Waiters -> {"idle", "assigned", "waiting", "unwritten", "passed", "failed"}]
    BY <1>0, <1>10, ZenonT(120) DEF WriteSentinel, TypeOK
  <2>5. TypeOK'
    BY <1>0, <2>1, <2>2, <2>4, LongerLog, Zenon
  <2>6. WaiterInv' /\ PassedInv'
    <3>1. \A v \in Waiters : need[v] <= Len(log) => need[v] <= Len(log')
      BY <2>2
    <3>2. WaiterInv'
      BY <1>0, <2>1, <2>3, <3>1, Zenon DEF WaiterInv
    <3>3. PassedInv'
      BY <1>0, <2>1, Zenon DEF PassedInv, BarrierMet, consumerVars, flusherVars
    <3>4. QED
      BY <3>2, <3>3, Zenon
  <2>7. SentinelInv'
    <3>1. ASSUME NEW i \in 1..Len(log'), NEW v \in Waiters, Active(v), seq[v] <= log'[i]
          PROVE  need[v] < i
      <4>1. need[v] <= Len(log) /\ need[v] \in Nat
        BY <1>0, <3>1, Zenon DEF WaiterInv
      <4>2. CASE i = Len(log) + 1
        BY <4>1, <4>2
      <4>3. CASE i \in 1..Len(log)
        BY <1>0, <2>2, <3>1, <4>3, Zenon DEF SentinelInv
      <4>4. QED
        BY <2>2, <4>2, <4>3, Prolonged, Zenon
    <3>2. \A i \in 1..Len(log') : log'[i] <= sequence
      BY <1>0, <2>1, <2>2, Prolonged, Zenon DEF SentinelInv, WaiterInv
    <3>3. QED
      BY <2>1, <2>3, <3>1, <3>2, Zenon DEF SentinelInv
  <2>8. ProcessedInv'
    BY <1>0, <2>1, <2>3, Zenon DEF ProcessedInv, consumerVars
  <2>9. FlusherInv' /\ CheckedInv'
    BY <1>0, <2>1, <2>3, NewLoss, Zenon
  <2>10. QED
    BY <2>5, <2>6, <2>7, <2>8, <2>9, Zenon DEF IInv
<1>11. ASSUME NEW w \in Waiters, Pass(w) \/ Fail(w) PROVE IInv'
  <2>1. /\ pc' \in [Waiters -> {"idle", "assigned", "waiting", "unwritten", "passed", "failed"}]
        /\ pc[w] \in {"unwritten", "waiting"} /\ pc'[w] \in {"passed", "failed"}
        /\ pc'[w] = "passed" => BarrierMet(w)
        /\ \A v \in Waiters \ {w} : pc'[v] = pc[v]
        /\ UNCHANGED <<seq, need, sequence, sessionVars, consumerVars, flusherVars>>
    BY <1>0, <1>11, Zenon DEF Pass, Fail, TypeOK
  <2>2. \A v \in Waiters : Active(v)' <=> Active(v)
    BY <2>1, Zenon DEF Active
  <2>3. TypeOK' /\ PassedInv'
    BY <1>0, <2>1, Zenon DEF TypeOK, PassedInv, BarrierMet, sessionVars, consumerVars, flusherVars
  <2>4. WaiterInv' /\ SentinelInv' /\ ProcessedInv' /\ FlusherInv' /\ CheckedInv'
    BY <1>0, <2>1, <2>2, ZenonT(120) DEF WaiterInv, SentinelInv, ProcessedInv, FlusherInv, CheckedInv,
       sessionVars, consumerVars, flusherVars
  <2>5. QED
    BY <2>3, <2>4, Zenon DEF IInv
<1>12. ASSUME NEW w \in Waiters, Return(w) PROVE IInv'
  <2>1. /\ pc'[w] = "idle"
        /\ \A v \in Waiters \ {w} : pc'[v] = pc[v] /\ seq'[v] = seq[v]
        /\ UNCHANGED <<need, sequence, sessionVars, consumerVars, flusherVars>>
    BY <1>0, <1>12, Zenon DEF Return, TypeOK
  <2>2. TypeOK'
    BY <1>0, <1>12, Zenon DEF Return, TypeOK, sessionVars, consumerVars, flusherVars
  <2>3. WaiterInv' /\ SentinelInv' /\ ProcessedInv' /\ FlusherInv' /\ CheckedInv' /\ PassedInv'
    BY <1>0, <2>1, ZenonT(120) DEF WaiterInv, SentinelInv, ProcessedInv, FlusherInv, CheckedInv, PassedInv, BarrierMet,
       Active, sessionVars, consumerVars, flusherVars
  <2>4. QED
    BY <2>2, <2>3, Zenon DEF IInv
<1>13. CASE UNCHANGED vars
  BY <1>0, <1>13, ZenonT(120) DEF vars, IInv, TypeOK, WaiterInv, SentinelInv, ProcessedInv, FlusherInv, CheckedInv,
     PassedInv, BarrierMet, Active
<1>14. QED
  BY <1>1, <1>2, <1>3, <1>4, <1>5, <1>6, <1>7, <1>8, <1>9, <1>10, <1>11, <1>12, <1>13, ZenonT(120) DEF Next, Flusher

\* The invariant is inductive, so it holds in every reachable state.
THEOREM Invariance == Spec => []IInv
  BY InitIInv, NextIInv, PTL DEF Spec

\* Every variable of the session, the consumer, the flusher and the workers keeps its type.
THEOREM TypeCorrect == Spec => []TypeOK
<1>1. IInv => TypeOK
  BY Zenon DEF IInv
<1>2. QED
  BY <1>1, Invariance, PTL

\* What the invariant says of a thread whose condition variable predicate holds.
LEMMA MetIsAccounted ==
    ASSUME IInv, NEW w \in Waiters, Active(w), BarrierMet(w)
    PROVE  1..need[w] \subseteq Accounted
<1>1. /\ need[w] \in Nat /\ seq[w] \in Nat /\ processed \in Nat /\ checked \in Nat /\ cursor \in Nat
  BY DEF IInv, TypeOK
<1>2. need[w] <= cursor
  BY <1>1, Zenon DEF IInv, ProcessedInv, BarrierMet
<1>3. \A i \in lost : i <= need[w] => i \in reported
  BY <1>1, Zenon DEF IInv, CheckedInv, BarrierMet
<1>4. QED
  BY <1>1, <1>2, <1>3 DEF Accounted

\* For any number of workers, events, losses and failed flushes: when Hints::barrier returns true,
\* every event logged before the call took its sequence number has been processed or reported lost.
THEOREM BarrierIsSound == Spec => []BarrierSound
<1>1. IInv => BarrierSound
  BY MetIsAccounted, Zenon DEF IInv, PassedInv, BarrierSound, Active
<1>2. QED
  BY <1>1, Invariance, PTL

-----------------------------------------------------------------------------
(* Refinement: the sentinel protocol implements EventBarrier.               *)

\* The abstract waiter state of the refinement mapping.
Waiter == [w \in Waiters |->
              IF pc[w] \in {"assigned", "waiting", "unwritten"} THEN "waiting" ELSE pc[w]]

\* A step that only processes, reports or loses events is an abstract Account step: what was
\* accounted for stays so, and it is all logged.
LEMMA AccountStep ==
    ASSUME Accounted \subseteq Accounted', Accounted' \subseteq 1..Len(log),
           UNCHANGED <<log, pc, need>>
    PROVE  Promise!Next
<1>1. Accounted' = Accounted \cup Accounted'
  BY Zenon
<1>2. Promise!Account
  BY <1>1, Zenon DEF Promise!Account
<1>3. QED
  BY <1>2, Zenon DEF Promise!Next

\* Every step of the detailed protocol is an abstract step or leaves the abstract state alone.
LEMMA StepRefines == IInv /\ IInv' /\ [Next]_vars => [Promise!Next]_(Promise!vars)
<1> SUFFICES ASSUME IInv, IInv', [Next]_vars PROVE [Promise!Next]_(Promise!vars)
  BY Zenon
<1>t. /\ TypeOK /\ log \in Seq(Nat) /\ Len(log) \in Nat /\ cursor \in Nat /\ cursor <= Len(log)
      /\ reported \subseteq 1..Len(log) /\ Accounted \subseteq 1..Len(log)
  <2>1. TypeOK
    BY Zenon DEF IInv
  <2>2. /\ log \in Seq(Nat) /\ Len(log) \in Nat /\ cursor \in Nat /\ cursor <= Len(log)
        /\ reported \subseteq 1..Len(log)
    BY <2>1 DEF TypeOK
  <2>3. Accounted \subseteq 1..Len(log)
    <3>1. 1..cursor \subseteq 1..Len(log)
      BY <2>2
    <3>2. QED
      BY <2>2, <3>1, Zenon DEF Accounted
  <2>4. QED
    BY <2>1, <2>2, <2>3, Zenon
<1>1. CASE LogQuery
  <2>1. Len(log') = Len(log) + 1 /\ UNCHANGED <<cursor, reported, pc, need>>
    BY <1>1, <1>t, AppendFacts, Zenon DEF LogQuery, QueryEvent, consumerVars, flusherVars, waiterVars
  <2>2. Accounted' = Accounted
    BY <1>1, <1>t, <2>1 DEF LogQuery, Accounted, TypeOK
  <2>3. Promise!Log
    BY <2>1, <2>2, Zenon DEF Promise!Log
  <2>4. QED
    BY <2>3, Zenon DEF Promise!Next
<1>2. CASE LoseBuffer
  <2>1. UNCHANGED <<log, cursor, reported, pc, need>>
    BY <1>2, Zenon DEF LoseBuffer, consumerVars, flusherVars, waiterVars
  <2>2. Accounted' = Accounted
    BY <1>2, <1>t, <2>1 DEF LoseBuffer, Accounted, TypeOK
  <2>3. QED
    BY <2>1, <2>2, Zenon DEF Promise!vars
<1>3. CASE ProcessEvent
  <2>1. UNCHANGED <<log, lost, reported, pc, need>> /\ cursor' \in (cursor + 1)..Len(log)
    BY <1>3, Zenon DEF ProcessEvent, sessionVars, flusherVars, waiterVars
  <2>2. Accounted \subseteq Accounted' /\ Accounted' \subseteq 1..Len(log)
    BY <1>t, <2>1, SMTT(120) DEF Accounted, TypeOK
  <2>3. QED
    BY <2>1, <2>2, AccountStep, Zenon
<1>4. CASE ReadCovered \/ FlushSucceeds \/ FlushFails \/ FlushChecked
  <2>1. UNCHANGED <<log, lost, cursor, reported, pc, need>>
    BY <1>4, Zenon DEF ReadCovered, FlushSucceeds, FlushFails, FlushChecked, sessionVars, consumerVars, waiterVars
  <2>2. QED
    BY <2>1, Zenon DEF Promise!vars, Accounted
<1>5. CASE ReportLoss
  <2>1. /\ UNCHANGED <<log, lost, cursor, pc, need>>
        /\ reported \subseteq reported' /\ reported' \subseteq 1..Len(log)
    BY <1>5, <1>t, Zenon DEF ReportLoss, IInv, FlusherInv, TypeOK, sessionVars, consumerVars, waiterVars
  <2>2. Accounted \subseteq Accounted' /\ Accounted' \subseteq 1..Len(log)
    BY <1>t, <2>1, Zenon DEF Accounted, TypeOK
  <2>3. QED
    BY <2>1, <2>2, AccountStep, Zenon
<1>6. ASSUME NEW w \in Waiters, Assign(w) PROVE [Promise!Next]_(Promise!vars)
  <2>1. /\ UNCHANGED <<log, lost, cursor, reported>>
        /\ pc[w] = "idle" /\ pc' = [pc EXCEPT ![w] = "assigned"]
        /\ need' = [need EXCEPT ![w] = Len(log)]
    BY <1>6, Zenon DEF Assign, sessionVars, consumerVars, flusherVars
  <2>2. Waiter[w] = "idle" /\ Waiter' = [Waiter EXCEPT ![w] = "waiting"]
    BY <1>t, <2>1, Zenon DEF Waiter, TypeOK
  <2>3. Promise!Begin(w)
    BY <2>1, <2>2, Zenon DEF Promise!Begin, Waiter, Accounted
  <2>4. QED
    BY <2>3, Zenon DEF Promise!Next
<1>7. ASSUME NEW w \in Waiters, WriteSentinel(w) PROVE [Promise!Next]_(Promise!vars)
  <2>1. /\ Len(log') = Len(log) + 1 /\ lost' \in {lost, lost \cup {Len(log) + 1}}
        /\ UNCHANGED <<cursor, reported, need>>
    BY <1>7, <1>t, AppendFacts, Zenon DEF WriteSentinel, TypeOK, consumerVars, flusherVars
  <2>2. Accounted' = Accounted
    <3>1. \A i \in 1..cursor : i \in lost' <=> i \in lost
      BY <1>t, <2>1
    <3>2. QED
      BY <2>1, <3>1, Zenon DEF Accounted
  <2>3. Waiter' = Waiter
    <3>1. PICK s \in {"waiting", "unwritten"} : pc[w] = "assigned" /\ pc' = [pc EXCEPT ![w] = s]
      BY <1>7, Zenon DEF WriteSentinel
    <3>2. QED
      BY <1>t, <3>1, Zenon DEF Waiter, TypeOK
  <2>4. Promise!Log
    BY <2>1, <2>2, <2>3, Zenon DEF Promise!Log, Waiter
  <2>5. QED
    BY <2>4, Zenon DEF Promise!Next
<1>8. ASSUME NEW w \in Waiters, Pass(w) PROVE [Promise!Next]_(Promise!vars)
  <2>1. /\ UNCHANGED <<log, lost, cursor, reported, need>>
        /\ pc[w] = "waiting" /\ pc' = [pc EXCEPT ![w] = "passed"]
    BY <1>8, Zenon DEF Pass, sessionVars, consumerVars, flusherVars
  <2>2. Waiter[w] = "waiting" /\ Waiter' = [Waiter EXCEPT ![w] = "passed"]
    BY <1>t, <2>1, Zenon DEF Waiter, TypeOK
  <2>3. 1..need[w] \subseteq Accounted
    BY <1>8, <2>1, MetIsAccounted, Zenon DEF Pass, Active
  <2>4. Promise!Pass(w)
    BY <2>1, <2>2, <2>3, Zenon DEF Promise!Pass, Waiter, Accounted
  <2>5. QED
    BY <2>4, Zenon DEF Promise!Next
<1>9. ASSUME NEW w \in Waiters, Fail(w) PROVE [Promise!Next]_(Promise!vars)
  <2>1. /\ UNCHANGED <<log, lost, cursor, reported, need>>
        /\ pc[w] \in {"waiting", "unwritten"} /\ pc' = [pc EXCEPT ![w] = "failed"]
    BY <1>9, Zenon DEF Fail, sessionVars, consumerVars, flusherVars
  <2>2. Waiter[w] = "waiting" /\ Waiter' = [Waiter EXCEPT ![w] = "failed"]
    BY <1>t, <2>1, Zenon DEF Waiter, TypeOK
  <2>3. Promise!Fail(w)
    BY <2>1, <2>2, Zenon DEF Promise!Fail, Waiter, Accounted
  <2>4. QED
    BY <2>3, Zenon DEF Promise!Next
<1>10. ASSUME NEW w \in Waiters, Return(w) PROVE [Promise!Next]_(Promise!vars)
  <2>1. /\ UNCHANGED <<log, lost, cursor, reported, need>>
        /\ pc[w] \in {"passed", "failed"} /\ pc' = [pc EXCEPT ![w] = "idle"]
    BY <1>10, Zenon DEF Return, sessionVars, consumerVars, flusherVars
  <2>2. Waiter[w] \in {"passed", "failed"} /\ Waiter' = [Waiter EXCEPT ![w] = "idle"]
    BY <1>t, <2>1, Zenon DEF Waiter, TypeOK
  <2>3. Promise!Return(w)
    BY <2>1, <2>2, Zenon DEF Promise!Return, Waiter, Accounted
  <2>4. QED
    BY <2>3, Zenon DEF Promise!Next
<1>11. CASE UNCHANGED vars
  BY <1>11, Zenon DEF vars, Promise!vars, Accounted
<1>12. QED
  BY <1>1, <1>2, <1>3, <1>4, <1>5, <1>6, <1>7, <1>8, <1>9, <1>10, <1>11, Zenon DEF Next, Flusher

\* The sentinels, the consumer, the flusher and the lossy session together keep the promise that
\* take() and directAnswerUnsafe() rely on when barrier() returns true.
THEOREM BarrierRefinesPromise == Spec => ImplementsPromise
<1>1. Init => Promise!Init
  BY DEF Init, Promise!Init, Accounted
<1>2. QED
  BY <1>1, StepRefines, Invariance, PTL DEF Spec, ImplementsPromise, Promise!Spec
=============================================================================
