--------------------------- MODULE DnsAttribution ---------------------------
(***************************************************************************)
(* The DNS dispatcher's attribution table and the workers that route by it: *)
(* class Hints (addResolved, lostEvents, take, decide, retire,              *)
(* directAnswerUnsafe, complete, expire) and handleUdpQuery and             *)
(* handleTcpClient around it.                                               *)
(*                                                                          *)
(* Query events carry the process that asks, packets carry only the name,   *)
(* so a packet is routed on the evidence its key has.  The ordering barrier *)
(* appears by its promise (EventBarrier): it passes only when every event   *)
(* logged before it began is processed or reported lost, and may fail at    *)
(* any time.  Packets arrive at any moment and with no matching event: that *)
(* covers retransmissions, TCP fallback and lookups merged into one in      *)
(* flight.                                                                  *)
(***************************************************************************)
EXTENDS Naturals, Sequences, FiniteSets, Functions

CONSTANTS
    Keys,           \* name and type of a query
    Workers,        \* worker threads
    LIFETIME,       \* ten seconds: entries and quarantines
    REUSE,          \* reuseWindow_
    SCAN,           \* one second: pause between two expiry scans
    kMaxHints,      \* capacity of the table
    MaxEvents,      \* bound on the query events logged
    MaxPackets,     \* bound on the packets received
    MaxTime         \* bound on the clock

ASSUME TimesAssumption ==
    /\ LIFETIME \in Nat /\ REUSE \in Nat /\ SCAN \in Nat
    /\ 0 < REUSE /\ REUSE <= LIFETIME
ASSUME BoundsAssumption ==
    kMaxHints \in Nat /\ MaxEvents \in Nat /\ MaxPackets \in Nat /\ MaxTime \in Nat \ {0}

VARIABLES
    now,                \* steady_clock
    log,                \* the query events in logging order, with what became of each
    hints,              \* hints_: a function from the keys present to Pending
    nextExpiry,         \* nextExpiry_
    overloadedUntil,    \* overloadedUntil_
    directBlockedUntil, \* directBlockedUntil_
    generations,        \* generations_
    worker,             \* [Workers -> where the thread is and its locals]
    packets             \* how many packets have been received

vars == <<now, log, hints, nextExpiry, overloadedUntil, directBlockedUntil, generations, worker, packets>>
tableVars == <<hints, nextExpiry, overloadedUntil, directBlockedUntil, generations>>

Apps == {"selected", "unlisted"}

\* struct Pending.  A time of 0 is a default-constructed time_point; the clock starts at 1.
Pending == [tunnel |-> FALSE, selected |-> FALSE, selectedAnswered |-> FALSE, generation |-> 0,
            direct |-> FALSE, unknownUntil |-> 0, answered |-> FALSE, decision |-> "Pending",
            expires |-> 0, answeredAt |-> 0, selectedAnsweredAt |-> 0]

Idle == [pc |-> "idle"]

Init ==
    /\ now = 1
    /\ log = <<>>
    /\ hints = << >>
    /\ nextExpiry = 0 /\ overloadedUntil = 0 /\ directBlockedUntil = 0
    /\ generations = 0
    /\ worker = [w \in Workers |-> Idle]
    /\ packets = 0

-----------------------------------------------------------------------------
(* The table.                                                               *)

LatestOf(a, b) == IF a >= b THEN a ELSE b

Put(table, k, p) == [x \in DOMAIN table \cup {k} |-> IF x = k THEN p ELSE table[x]]

Erase(table, gone) == Restrict(table, DOMAIN table \ gone)

\* expire(): at most one scan per SCAN.
ScanDue == now >= nextExpiry
Expire == IF ScanDue THEN Erase(hints, {k \in DOMAIN hints : hints[k].expires <= now}) ELSE hints
NextExpiry == IF ScanDue THEN now + SCAN ELSE nextExpiry

\* Mutants of Retire.  The first keeps the mark of a recent selected exchange but not its tunnel
\* evidence; the second forgets the quarantine.
RetireForgetsRecent(p) ==
    LET unclaimedTunnel == p.tunnel /\ p.decision # "Tunnel"
        recentSelected == p.selectedAnswered /\ now - p.selectedAnsweredAt < REUSE
    IN  [Pending EXCEPT !.tunnel = unclaimedTunnel, !.selected = unclaimedTunnel /\ p.selected,
             !.selectedAnswered = recentSelected, !.selectedAnsweredAt = p.selectedAnsweredAt,
             !.unknownUntil = p.unknownUntil, !.generation = p.generation, !.expires = p.expires]
RetireForgetsUnknown(p) ==
    LET unclaimedTunnel == p.tunnel /\ p.decision # "Tunnel"
        recentSelected == p.selectedAnswered /\ now - p.selectedAnsweredAt < REUSE
    IN  [Pending EXCEPT !.tunnel = unclaimedTunnel \/ recentSelected,
             !.selected = unclaimedTunnel /\ p.selected, !.selectedAnswered = recentSelected,
             !.selectedAnsweredAt = p.selectedAnsweredAt,
             !.generation = p.generation, !.expires = p.expires]

\* retire(): what outlives an answered route.
Retire(p) ==
    LET unclaimedTunnel == p.tunnel /\ p.decision # "Tunnel"
        recentSelected == p.selectedAnswered /\ now - p.selectedAnsweredAt < REUSE
    IN  [Pending EXCEPT !.tunnel = unclaimedTunnel \/ recentSelected,
             !.selected = unclaimedTunnel /\ p.selected, !.selectedAnswered = recentSelected,
             !.selectedAnsweredAt = p.selectedAnsweredAt, !.unknownUntil = p.unknownUntil,
             !.generation = p.generation, !.expires = p.expires]

\* addResolved on the entry of its key, if there is one: path is "selected", "unlisted" or "none"
\* (an empty path: the process is not known).
Evidence(table, k, path) ==
    LET old == IF k \in DOMAIN table THEN table[k] ELSE Pending
        base == IF old.expires <= now THEN Pending
                ELSE IF old.answered THEN Retire(old) ELSE old
    IN  [base EXCEPT !.generation = generations + 1,
             !.selected = @ \/ path = "selected",
             !.tunnel = @ \/ path = "selected",
             !.direct = @ \/ path = "unlisted",
             !.unknownUntil = IF path = "none" THEN now + LIFETIME ELSE @,
             !.expires = LatestOf(@, now + LIFETIME)]

\* decide(): the route, and the table it leaves.
Decide(k, allowDirect) ==
    LET table == Expire
        p == table[k]
        retired == Retire(p)
        directAllowed == allowDirect /\ now >= directBlockedUntil /\ now >= p.unknownUntil
        Keep(route, q) == [route |-> route, table |-> Put(table, k, q)]
        Drop == [route |-> "none", table |-> Erase(table, {k})]
    IN  IF k \notin DOMAIN table THEN [route |-> "none", table |-> table]
        ELSE IF p.expires <= now THEN Drop
        ELSE IF p.answered THEN
            IF p.tunnel /\ p.decision # "Tunnel" THEN
                Keep("tunnel", [p EXCEPT !.answered = FALSE, !.decision = "Tunnel"])
            ELSE IF p.decision = "Pending" \/ now - p.answeredAt >= REUSE THEN
                IF retired.tunnel THEN Keep("tunnel", [retired EXCEPT !.decision = "Tunnel"])
                ELSE IF now >= retired.unknownUntil THEN Drop
                ELSE Keep("none", retired)
            ELSE IF p.decision = "Tunnel" THEN Keep("tunnel", p)
            ELSE IF directAllowed THEN Keep("direct", p)
            ELSE Keep("none", p)
        ELSE IF p.tunnel \/ p.decision = "Tunnel" THEN Keep("tunnel", [p EXCEPT !.decision = "Tunnel"])
        ELSE IF directAllowed /\ (p.direct \/ p.decision = "Direct") THEN
            Keep("direct", [p EXCEPT !.decision = "Direct"])
        ELSE Keep("none", p)

-----------------------------------------------------------------------------
(* Query events: logged by the asking process, then processed by the        *)
(* consumer in order, or lost.                                              *)

Tick ==
    /\ now < MaxTime
    /\ now' = now + 1
    /\ UNCHANGED <<log, tableVars, worker, packets>>

\* gen and doneAt are history: the generation the event was given, and when an exchange decided on
\* it or on later evidence was answered.
LogQuery(k, app) ==
    /\ Len(log) < MaxEvents
    /\ log' = Append(log, [key |-> k, app |-> app, status |-> "logged", at |-> 0, gen |-> 0, doneAt |-> 0])
    /\ UNCHANGED <<now, tableVars, worker, packets>>

\* The session loses a logged event that is not processed yet.
LoseEvent(i) ==
    /\ log[i].status = "logged"
    /\ log' = [log EXCEPT ![i].status = "lost"]
    /\ UNCHANGED <<now, tableVars, worker, packets>>

\* A new key does not fit the table.
Full(table, k) == Cardinality(DOMAIN table) >= kMaxHints /\ k \notin DOMAIN table

\* overloadedUntil_ and directBlockedUntil_ after a dropped or lost event.
QuarantineEnd == now + LIFETIME

\* addResolved for the next event, with the process's path ("none" when it could not be resolved).
AddResolved(i, path) ==
    LET k == log[i].key
        table == Expire
    IN  /\ log[i].status = "logged"
        /\ \A j \in 1..(i - 1) : log[j].status # "logged"
        /\ nextExpiry' = NextExpiry
        /\ \/ /\ Full(table, k)
              /\ overloadedUntil' = QuarantineEnd
              /\ hints' = table
              /\ log' = [log EXCEPT ![i].status = "dropped", ![i].at = now]
              /\ UNCHANGED generations
           \/ /\ ~Full(table, k)
              /\ hints' = Put(table, k, Evidence(table, k, path))
              /\ generations' = generations + 1
              /\ log' = [log EXCEPT ![i].status = IF path = "none" THEN "unknown" ELSE "seen",
                                    ![i].at = now, ![i].gen = generations + 1]
              /\ UNCHANGED overloadedUntil
        /\ UNCHANGED <<now, directBlockedUntil, worker, packets>>

ProcessEvent(i) == AddResolved(i, log[i].app) \/ AddResolved(i, "none")

\* The flusher sees changed loss counters and calls lostEvents().
LostEvents ==
    /\ \E i \in DOMAIN log : log[i].status = "lost"
    /\ hints' = Erase(hints, {k \in DOMAIN hints : ~hints[k].tunnel /\ now >= hints[k].unknownUntil})
    /\ directBlockedUntil' = QuarantineEnd
    /\ log' = [i \in DOMAIN log |-> IF log[i].status = "lost"
                                     THEN [log[i] EXCEPT !.status = "reported", !.at = now] ELSE log[i]]
    /\ UNCHANGED <<now, nextExpiry, overloadedUntil, generations, worker, packets>>

-----------------------------------------------------------------------------
(* A worker thread with one query.                                          *)

\* What the barrier promises of the events logged before it began (EventBarrier!Pass).
AccountedUpTo(n) == \A i \in 1..n : log[i].status \notin {"logged", "lost"}

Goto(w, state) == worker' = [worker EXCEPT ![w] = state]

Routed(k, route, table) ==
    [pc |-> "exchange", key |-> k, route |-> route, generation |-> table[k].generation]

\* A packet reaches a free worker, over UDP or on a TCP connection.
Receive(w, k) ==
    /\ worker[w] = Idle
    /\ packets < MaxPackets
    /\ packets' = packets + 1
    /\ Goto(w, [pc |-> "take", key |-> k])
    /\ UNCHANGED <<now, log, tableVars>>

\* take() up to the barrier: overload refuses (SERVFAIL), tunnel evidence routes at once, anything
\* else waits for the barrier.
Take(w) ==
    /\ worker[w].pc = "take"
    /\ LET k == worker[w].key
            decided == Decide(k, FALSE)
        IN  IF now < overloadedUntil
            THEN Goto(w, Idle) /\ UNCHANGED <<hints, nextExpiry>>
            ELSE /\ hints' = decided.table
                 /\ nextExpiry' = NextExpiry
                 /\ IF decided.route = "tunnel"
                    THEN Goto(w, Routed(k, "tunnel", decided.table))
                    ELSE Goto(w, [pc |-> "barrier", key |-> k, need |-> Len(log)])
    /\ UNCHANGED <<now, log, overloadedUntil, directBlockedUntil, generations, packets>>

\* The barrier did not complete: take() refuses.
TakeTimesOut(w) ==
    /\ worker[w].pc = "barrier"
    /\ Goto(w, Idle)
    /\ UNCHANGED <<now, log, tableVars, packets>>

\* The barrier passed: the decision is final, or the query is refused.
TakeDecides(w) ==
    /\ worker[w].pc = "barrier"
    /\ AccountedUpTo(worker[w].need)
    /\ LET k == worker[w].key
            decided == Decide(k, TRUE)
        IN  IF now < overloadedUntil
            THEN Goto(w, Idle) /\ UNCHANGED <<hints, nextExpiry>>
            ELSE /\ hints' = decided.table
                 /\ nextExpiry' = NextExpiry
                 /\ Goto(w, IF decided.route = "none" THEN Idle ELSE Routed(k, decided.route, decided.table))
    /\ UNCHANGED <<now, log, overloadedUntil, directBlockedUntil, generations, packets>>

\* The upstream exchange ends.  A direct answer passes the barrier again before it is delivered; a
\* tunnel answer, or SERVFAIL for a failed exchange, is sent at once.
Exchange(w) ==
    /\ worker[w].pc = "exchange"
    /\ \/ Goto(w, [worker[w] EXCEPT !.pc = "complete"])
       \/ /\ worker[w].route = "direct"
          /\ Goto(w, [pc |-> "deliver", key |-> worker[w].key, route |-> "direct",
                       generation |-> worker[w].generation, need |-> Len(log)])
    /\ UNCHANGED <<now, log, tableVars, packets>>

\* Mutant of DirectAnswerUnsafe: only the quarantines are looked at.
DirectAnswerQuarantined(k) ==
    now < directBlockedUntil \/ now < overloadedUntil \/ (k \in DOMAIN hints /\ now < hints[k].unknownUntil)

\* directAnswerUnsafe() once its barrier has passed.
DirectAnswerUnsafe(k) ==
    \/ now < directBlockedUntil
    \/ now < overloadedUntil
    \/ k \in DOMAIN hints /\ (hints[k].tunnel \/ now < hints[k].unknownUntil)

\* The second barrier failed, or the answer is unsafe: it is withheld (SERVFAIL) and not completed.
Withhold(w) ==
    /\ worker[w].pc = "deliver"
    /\ Goto(w, Idle)
    /\ UNCHANGED <<now, log, tableVars, packets>>

\* The direct answer is sent to the client.
Deliver(w) ==
    /\ worker[w].pc = "deliver"
    /\ AccountedUpTo(worker[w].need)
    /\ ~DirectAnswerUnsafe(worker[w].key)
    /\ Goto(w, [pc |-> "complete", key |-> worker[w].key, route |-> "direct",
                 generation |-> worker[w].generation])
    /\ UNCHANGED <<now, log, tableVars, packets>>

\* Mutant of Completed: an exchange finalizes evidence newer than the evidence it was decided on.
CompletedLatest(p, generation) == [p EXCEPT !.answered = TRUE, !.answeredAt = now]

\* complete() on the entry of its key.
Completed(p, generation) ==
    LET q == IF p.decision = "Tunnel" /\ p.selected
             THEN [p EXCEPT !.selectedAnswered = TRUE, !.selectedAnsweredAt = now,
                            !.expires = LatestOf(@, now + REUSE)]
             ELSE p
    IN  IF generation # p.generation THEN q ELSE [q EXCEPT !.answered = TRUE, !.answeredAt = now]

Complete(w) ==
    /\ worker[w].pc = "complete"
    /\ LET k == worker[w].key
            g == worker[w].generation
        IN  /\ hints' = IF k \in DOMAIN hints THEN [hints EXCEPT ![k] = Completed(@, g)] ELSE hints
            /\ log' = [i \in DOMAIN log |->
                          IF log[i].key = k /\ log[i].status = "seen" /\ log[i].gen <= g /\ log[i].doneAt = 0
                          THEN [log[i] EXCEPT !.doneAt = now] ELSE log[i]]
    /\ Goto(w, Idle)
    /\ UNCHANGED <<now, nextExpiry, overloadedUntil, directBlockedUntil, generations, packets>>

\* A TCP client that cannot be sent its answer ends the connection before complete().
SendFails(w) ==
    /\ worker[w].pc = "complete"
    /\ Goto(w, Idle)
    /\ UNCHANGED <<now, log, tableVars, packets>>

Next ==
    \/ Tick
    \/ \E k \in Keys, app \in Apps : LogQuery(k, app)
    \/ \E i \in DOMAIN log : LoseEvent(i) \/ ProcessEvent(i)
    \/ LostEvents
    \/ \E w \in Workers :
          \/ \E k \in Keys : Receive(w, k)
          \/ Take(w) \/ TakeTimesOut(w) \/ TakeDecides(w)
          \/ Exchange(w) \/ Withhold(w) \/ Deliver(w)
          \/ Complete(w) \/ SendFails(w)

Spec == Init /\ [][Next]_vars

-----------------------------------------------------------------------------
(* Properties.                                                              *)

TypeOK ==
    /\ now \in 1..MaxTime
    /\ \A i \in DOMAIN log :
          /\ log[i].key \in Keys /\ log[i].app \in Apps
          /\ log[i].status \in {"logged", "lost", "reported", "dropped", "unknown", "seen"}
    /\ DOMAIN hints \subseteq Keys /\ Cardinality(DOMAIN hints) <= kMaxHints
    /\ \A k \in DOMAIN hints :
          /\ DOMAIN hints[k] = DOMAIN Pending
          /\ hints[k].generation \in 1..generations
          /\ hints[k].decision \in {"Pending", "Direct", "Tunnel"}
    /\ \A w \in Workers :
          worker[w].pc \in {"idle", "take", "barrier", "exchange", "deliver", "complete"}

\* A selected application's query event still speaks for its name: it has not been processed yet, or
\* it is no older than an attribution lifetime and no exchange decided on it was answered longer than
\* the reuse window ago.  Events of unresolved processes, lost ones and ones dropped by a full table
\* count too.
SpeaksForSelected(i) ==
    /\ log[i].app = "selected"
    /\ \/ log[i].status \in {"logged", "lost"}
       \/ /\ now < log[i].at + LIFETIME
          /\ log[i].doneAt = 0 \/ now < log[i].doneAt + REUSE

\* No packet is routed to the physical resolver while a selected query event for its name, logged
\* before the packet's barrier began, still speaks for the name (Hints::take).
DirectRouteStep(w) ==
    worker[w].pc = "barrier" /\ worker'[w].pc = "exchange" /\ worker'[w].route = "direct"
RoutesSafely ==
    \A w \in Workers : DirectRouteStep(w) =>
       \A i \in 1..worker[w].need : log[i].key = worker[w].key => ~SpeaksForSelected(i)

\* No direct answer is delivered once a selected lookup of the name was logged before the delivery's
\* barrier began: it may have been merged into this exchange (Hints::directAnswerUnsafe).
DirectAnswerStep(w) == worker[w].pc = "deliver" /\ worker'[w].pc = "complete"
AnswersSafely ==
    \A w \in Workers : DirectAnswerStep(w) =>
       \A i \in 1..worker[w].need : log[i].key = worker[w].key => ~SpeaksForSelected(i)

\* Events whose sender is not known block direct routing of their name, and lost or dropped ones of
\* every name, for a lifetime.
Quarantined(k) ==
    \E i \in DOMAIN log :
        /\ now < log[i].at + LIFETIME
        /\ log[i].status \in {"reported", "dropped"} \/ (log[i].status = "unknown" /\ log[i].key = k)

\* Failing closed is not failing always: once the barrier passes, a packet is refused only if every
\* live event of its name was used up by an answered exchange or a quarantine applies (Hints::decide).
RefusesJustly ==
    \A w \in Workers :
       /\ worker[w].pc = "barrier" /\ worker'[w].pc = "idle"
       /\ TakeDecides(w)
       /\ ~Quarantined(worker[w].key)
       => \A i \in 1..worker[w].need :
             log[i].key = worker[w].key /\ log[i].status = "seen" /\ now < log[i].at + LIFETIME
             => log[i].doneAt # 0

\* A decision or provenance that names the tunnel is backed by tunnel evidence, so losing evidence
\* (lostEvents erases entries without it) never erases a claimed tunnel route.
TunnelBacked ==
    \A k \in DOMAIN hints :
        hints[k].decision = "Tunnel" \/ hints[k].selectedAnswered \/ hints[k].selected => hints[k].tunnel
=============================================================================
