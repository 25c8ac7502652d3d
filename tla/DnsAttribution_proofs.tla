----------------------- MODULE DnsAttribution_proofs -----------------------
(***************************************************************************)
(* Proofs about the attribution table: a selected lookup that still speaks *)
(* for its name keeps tunnel evidence in the table, whatever the workers,  *)
(* the consumer and the flusher do in between, so no packet is routed and  *)
(* no answer delivered around it; and a packet is refused for a reason.    *)
(***************************************************************************)
EXTENDS DnsAttribution, TLAPS

-----------------------------------------------------------------------------
(* The inductive invariant.                                                *)

Entries == [tunnel: BOOLEAN, selected: BOOLEAN, selectedAnswered: BOOLEAN, generation: Nat,
            direct: BOOLEAN, unknownUntil: Nat, answered: BOOLEAN,
            decision: {"Pending", "Direct", "Tunnel"},
            expires: Nat, answeredAt: Nat, selectedAnsweredAt: Nat]
Events == [key: Keys, app: Apps,
           status: {"logged", "lost", "reported", "dropped", "unknown", "seen"},
           at: Nat, gen: Nat, doneAt: Nat]
Threads == {Idle} \cup [pc: {"take"}, key: Keys] \cup [pc: {"barrier"}, key: Keys, need: Nat]
           \cup [pc: {"exchange", "complete"}, key: Keys, route: {"tunnel", "direct"}, generation: Nat]
           \cup [pc: {"deliver"}, key: Keys, route: {"direct"}, generation: Nat, need: Nat]

Types ==
    /\ now \in Nat \ {0}
    /\ log \in Seq(Events)
    /\ DOMAIN hints \subseteq Keys
    /\ \A k \in DOMAIN hints : hints[k] \in Entries /\ hints[k].generation \in 1..generations
    /\ nextExpiry \in Nat /\ overloadedUntil \in Nat /\ directBlockedUntil \in Nat
    /\ generations \in Nat
    /\ worker \in [Workers -> Threads]

\* What every entry of the table satisfies by itself.
Sound(p) ==
    /\ p.decision = "Tunnel" \/ p.selectedAnswered \/ p.selected => p.tunnel
    /\ p.selectedAnsweredAt <= now /\ p.unknownUntil <= now + LIFETIME

Lives(i) == now < log[i].at + LIFETIME
Undone(i) == log[i].status = "seen" /\ Lives(i) /\ log[i].doneAt = 0

\* The entry of its key holds the evidence of event i, and no answer has used it up.
Held(i) ==
    /\ log[i].key \in DOMAIN hints
    /\ LET p == hints[log[i].key]
       IN  /\ log[i].at + LIFETIME <= p.expires /\ log[i].gen <= p.generation /\ ~p.answered
           /\ log[i].app = "selected" => p.tunnel /\ p.selected
           /\ log[i].app = "unlisted" => p.direct

\* A selected exchange that was answered within the reuse window has left its mark.
Marked(i) ==
    /\ log[i].key \in DOMAIN hints
    /\ LET p == hints[log[i].key]
       IN  /\ log[i].at + LIFETIME <= p.expires
           /\ p.selectedAnswered /\ log[i].doneAt <= p.selectedAnsweredAt

\* What the table remembers of event i for as long as the event lives.
EventInv(i) ==
    /\ log[i].at <= now /\ log[i].doneAt <= now /\ log[i].gen <= generations
    /\ log[i].status # "seen" => log[i].doneAt = 0
    /\ log[i].status = "reported" => log[i].at + LIFETIME <= directBlockedUntil
    /\ log[i].status = "dropped" => log[i].at + LIFETIME <= overloadedUntil
    /\ log[i].status = "unknown" /\ Lives(i) =>
          /\ log[i].key \in DOMAIN hints
          /\ log[i].at + LIFETIME <= hints[log[i].key].unknownUntil
          /\ log[i].at + LIFETIME <= hints[log[i].key].expires
    /\ Undone(i) => Held(i) \/ (log[i].app = "unlisted" /\ log[i].at + LIFETIME <= directBlockedUntil)
    /\ /\ log[i].status = "seen" /\ log[i].app = "selected" /\ Lives(i)
       /\ log[i].doneAt # 0 /\ now < log[i].doneAt + REUSE
       => Marked(i)

\* What a worker relies on: an exchange that covers a selected event nobody has answered goes
\* through the tunnel, and the entry still says so.
Fits(w) ==
    /\ worker[w].pc \in {"barrier", "deliver"} => worker[w].need <= Len(log)
    /\ worker[w].pc \in {"exchange", "deliver", "complete"} =>
          /\ worker[w].generation <= generations
          /\ \A i \in DOMAIN log :
                /\ Undone(i) /\ log[i].key = worker[w].key /\ log[i].app = "selected"
                /\ log[i].gen <= worker[w].generation
                => /\ worker[w].route = "tunnel"
                   /\ worker[w].key \in DOMAIN hints /\ hints[worker[w].key].decision = "Tunnel"

\* Every quarantine is due to an event.
BlockedDue ==
    directBlockedUntil = 0 \/ \E i \in DOMAIN log :
        log[i].status = "reported" /\ log[i].at + LIFETIME = directBlockedUntil
OverloadDue ==
    overloadedUntil = 0 \/ \E i \in DOMAIN log :
        log[i].status = "dropped" /\ log[i].at + LIFETIME = overloadedUntil
UnknownDue(k) ==
    hints[k].unknownUntil = 0 \/ \E i \in DOMAIN log :
        log[i].status = "unknown" /\ log[i].key = k /\ log[i].at + LIFETIME = hints[k].unknownUntil
Origins ==
    /\ directBlockedUntil <= now + LIFETIME /\ overloadedUntil <= now + LIFETIME
    /\ BlockedDue /\ OverloadDue
    /\ \A k \in DOMAIN hints : UnknownDue(k)

IInv ==
    /\ Types
    /\ \A k \in DOMAIN hints : Sound(hints[k])
    /\ \A i \in DOMAIN log : EventInv(i)
    /\ \A w \in Workers : Fits(w)
    /\ Origins

-----------------------------------------------------------------------------
(* How a step may change an entry.                                         *)

RecentlySelected(p) == p.selectedAnswered /\ now - p.selectedAnsweredAt < REUSE

\* q says at least what p said.
Preserves(p, q) ==
    /\ p.expires <= q.expires /\ p.unknownUntil <= q.unknownUntil /\ p.generation <= q.generation
    /\ ~p.answered =>
          /\ ~q.answered
          /\ p.tunnel => q.tunnel
          /\ p.selected => q.selected
          /\ p.direct => q.direct
          /\ p.decision = "Tunnel" => q.decision = "Tunnel"
    /\ RecentlySelected(p) => q.selectedAnswered /\ p.selectedAnsweredAt <= q.selectedAnsweredAt

\* Nothing lives in an entry that may go.
Spent(p) ==
    \/ p.expires <= now
    \/ p.answered /\ ~RecentlySelected(p) /\ now >= p.unknownUntil

Carries(table) ==
    \A k \in DOMAIN hints :
        Spent(hints[k]) \/ (k \in DOMAIN table /\ Preserves(hints[k], table[k]))

\* A step that adds no evidence.
TableStep(table) ==
    /\ Carries(table)
    /\ \A k \in DOMAIN table :
          /\ k \in DOMAIN hints /\ table[k] \in Entries /\ Sound(table[k])
          /\ table[k].unknownUntil = hints[k].unknownUntil
          /\ table[k].generation = hints[k].generation

\* The windows (kLifetime, kReuse and the interval of the scan) are times, and reuse fits in the lifetime.
LEMMA Times == /\ LIFETIME \in Nat /\ REUSE \in Nat /\ SCAN \in Nat
               /\ 0 < REUSE /\ REUSE <= LIFETIME
BY TimesAssumption, Zenon

\* The clock runs on natural numbers, above zero.
LEMMA Clock == IInv => now \in Nat /\ now # 0
BY DEF IInv, Types

\* The next number of the generation counter, and the numbers below it.
LEMMA Successor ==
    ASSUME NEW n \in Nat
    PROVE  /\ n + 1 \in Nat /\ n <= n /\ n <= n + 1 /\ n + 1 <= n + 1
           /\ n + 1 \in 1..(n + 1) /\ \A m \in 1..n : m \in 1..(n + 1)
  OBVIOUS

\* Deadlines are times.
LEMMA Sums ==
    ASSUME NEW n \in Nat, NEW life \in Nat
    PROVE  n + life \in Nat /\ n <= n + life /\ n + life <= n + life
  OBVIOUS

\* An entry that outlasts a living event has not expired.
LEMMA StillLives ==
    ASSUME NEW n \in Nat, NEW at \in Nat, NEW life \in Nat, NEW expires \in Nat,
           n < at + life, at + life <= expires
    PROVE  ~(expires <= n)
  OBVIOUS

\* A new entry of hints_ is an entry.
LEMMA PendingFacts == Pending \in Entries
BY Zenon DEF Pending, Entries

\* Erasing keys keeps the other entries as they are.
LEMMA EraseFacts ==
    ASSUME NEW table, NEW gone
    PROVE  /\ DOMAIN Erase(table, gone) = DOMAIN table \ gone
           /\ \A x \in DOMAIN table \ gone : Erase(table, gone)[x] = table[x]
BY Zenon DEF Erase, Restrict

\* The scan removes expired entries only.
LEMMA ExpireFacts ==
    /\ DOMAIN Expire \subseteq DOMAIN hints
    /\ \A k \in DOMAIN Expire : Expire[k] = hints[k]
    /\ \A k \in DOMAIN hints : k \in DOMAIN Expire \/ hints[k].expires <= now
<1> DEFINE gone == {k \in DOMAIN hints : hints[k].expires <= now}
<1>1. CASE ScanDue
  <2>1. Expire = Erase(hints, gone) /\ \A k \in gone : hints[k].expires <= now
    BY <1>1, Zenon DEF Expire
  <2> HIDE DEF gone
  <2>2. /\ DOMAIN Expire = DOMAIN hints \ gone
        /\ \A k \in DOMAIN hints \ gone : Expire[k] = hints[k]
    BY <2>1, EraseFacts, Zenon
  <2>3. QED
    BY <2>1, <2>2, Zenon
<1>2. CASE ~ScanDue
  BY <1>2, Zenon DEF Expire
<1>3. QED
  BY <1>1, <1>2, Zenon

\* An entry that does not change keeps what it remembers.
LEMMA PreservesItself ==
    ASSUME NEW p \in Entries
    PROVE  Preserves(p, p)
BY DEF Preserves, RecentlySelected, Entries

\* retire() keeps the quarantine and a recent selected exchange.
LEMMA RetireFacts ==
    ASSUME Types, NEW p \in Entries, Sound(p)
    PROVE  /\ Retire(p) \in Entries /\ Sound(Retire(p))
           /\ p.answered => Preserves(p, Retire(p))
           /\ Retire(p).unknownUntil = p.unknownUntil /\ Retire(p).generation = p.generation
           /\ Retire(p).expires = p.expires /\ ~Retire(p).answered
           /\ RecentlySelected(p) => Retire(p).tunnel
<1>1. /\ now \in Nat /\ REUSE \in Nat
  BY Times, Zenon DEF Types
<1>2. /\ Retire(p).tunnel = ((p.tunnel /\ p.decision # "Tunnel") \/ RecentlySelected(p))
      /\ Retire(p).selected = (p.tunnel /\ p.decision # "Tunnel" /\ p.selected)
      /\ Retire(p).selectedAnswered = RecentlySelected(p)
      /\ Retire(p).selectedAnsweredAt = p.selectedAnsweredAt
      /\ Retire(p).unknownUntil = p.unknownUntil /\ Retire(p).generation = p.generation
      /\ Retire(p).expires = p.expires /\ Retire(p).answered = FALSE
      /\ Retire(p).decision = "Pending"
  BY ZenonT(120) DEF Retire, Pending, RecentlySelected
<1>3. Retire(p) \in Entries
  <2> DEFINE unclaimed == p.tunnel /\ p.decision # "Tunnel"
             recent == RecentlySelected(p)
  <2>1. unclaimed \in BOOLEAN /\ recent \in BOOLEAN /\ (unclaimed /\ p.selected) \in BOOLEAN
        /\ (unclaimed \/ recent) \in BOOLEAN
    BY Zenon DEF RecentlySelected
  <2>2. Retire(p) = [Pending EXCEPT !.tunnel = unclaimed \/ recent,
             !.selected = unclaimed /\ p.selected, !.selectedAnswered = recent,
             !.selectedAnsweredAt = p.selectedAnsweredAt, !.unknownUntil = p.unknownUntil,
             !.generation = p.generation, !.expires = p.expires]
    BY Zenon DEF Retire, RecentlySelected
  <2>3. QED
    BY <2>1, <2>2, PendingFacts, ZenonT(120) DEF Entries
<1>4. Sound(Retire(p))
  BY <1>1, <1>2, Zenon DEF Sound, Entries
<1>5. p.answered => Preserves(p, Retire(p))
  BY <1>1, <1>2 DEF Preserves, Entries
<1>6. QED
  BY <1>2, <1>3, <1>4, <1>5, ZenonT(120)

\* Every entry of the log is an event.
LEMMA LogFacts ==
    ASSUME Types
    PROVE  /\ log \in Seq(Events) /\ Len(log) \in Nat /\ DOMAIN log = 1..Len(log)
           /\ \A i \in DOMAIN log :
                 /\ log[i] \in Events /\ log[i].at \in Nat /\ log[i].gen \in Nat /\ log[i].doneAt \in Nat
                 /\ log[i].key \in Keys /\ log[i].app \in {"selected", "unlisted"}
<1>1. log \in Seq(Events) /\ Len(log) \in Nat /\ DOMAIN log = 1..Len(log)
  BY DEF Types
<1>2. \A i \in DOMAIN log : log[i] \in Events
  BY <1>1
<1>3. QED
  BY <1>1, <1>2, Zenon DEF Events, Apps

\* Every entry stays, or is replaced by one that preserves it.
LEMMA KeepStep ==
    ASSUME IInv, NEW k \in DOMAIN Expire, NEW q \in Entries, Sound(q), Preserves(hints[k], q),
           q.unknownUntil = hints[k].unknownUntil, q.generation = hints[k].generation
    PROVE  TableStep(Put(Expire, k, q))
<1> DEFINE table == Put(Expire, k, q)
<1>1. /\ DOMAIN table = DOMAIN Expire /\ table[k] = q
      /\ \A x \in DOMAIN Expire : x # k => table[x] = hints[x]
  <2>1. /\ DOMAIN table = DOMAIN Expire \cup {k} /\ table[k] = q
        /\ \A x \in DOMAIN Expire : x # k => table[x] = Expire[x]
    BY Zenon DEF Put
  <2> HIDE DEF table
  <2>2. QED
    BY <2>1, ExpireFacts, Zenon
<1>2. \A x \in DOMAIN hints : hints[x] \in Entries /\ Sound(hints[x]) /\ Preserves(hints[x], hints[x])
  BY PreservesItself, Zenon DEF IInv, Types
<1> HIDE DEF table
<1>3. Carries(table)
  BY <1>1, <1>2, ExpireFacts, Zenon DEF Carries, Spent
<1>4. ASSUME NEW x \in DOMAIN table
      PROVE  /\ x \in DOMAIN hints /\ table[x] \in Entries /\ Sound(table[x])
             /\ table[x].unknownUntil = hints[x].unknownUntil
             /\ table[x].generation = hints[x].generation
  BY <1>1, <1>2, ExpireFacts, Zenon
<1>5. TableStep(table)
  BY <1>3, <1>4, Zenon DEF TableStep
<1>6. QED
  BY <1>5, Zenon DEF table

\* The scan alone, and the removal of one spent entry.
LEMMA DropStep ==
    ASSUME IInv, NEW gone, \A k \in gone \cap DOMAIN hints : Spent(hints[k])
    PROVE  TableStep(Erase(Expire, gone))
<1> DEFINE table == Erase(Expire, gone)
<1>1. /\ DOMAIN table = DOMAIN Expire \ gone
      /\ \A x \in DOMAIN table : x \in DOMAIN hints /\ table[x] = hints[x]
  <2>1. /\ DOMAIN table = DOMAIN Expire \ gone
        /\ \A x \in DOMAIN Expire \ gone : table[x] = Expire[x]
    BY EraseFacts, Zenon
  <2> HIDE DEF table
  <2>2. QED
    BY <2>1, ExpireFacts, Zenon
<1>2. \A x \in DOMAIN hints : hints[x] \in Entries /\ Sound(hints[x]) /\ Preserves(hints[x], hints[x])
  BY PreservesItself, Zenon DEF IInv, Types
<1> HIDE DEF table
<1>3. Carries(table)
  BY <1>1, <1>2, ExpireFacts, ZenonT(120) DEF Carries, Spent
<1>4. TableStep(table)
  BY <1>1, <1>2, <1>3, Zenon DEF TableStep
<1>5. QED
  BY <1>4, Zenon DEF table

\* expire() removes only entries that are spent.
LEMMA ExpireStep ==
    ASSUME IInv
    PROVE  TableStep(Expire)
<1>1. \A x \in DOMAIN hints : hints[x] \in Entries /\ Sound(hints[x]) /\ Preserves(hints[x], hints[x])
  BY PreservesItself, Zenon DEF IInv, Types
<1>2. Carries(Expire)
  BY <1>1, ExpireFacts, Zenon DEF Carries, Spent
<1>3. QED
  BY <1>1, <1>2, ExpireFacts, Zenon DEF TableStep

\* The rest of decide() for an entry p that is in the table and has not expired.
DirectAllowed(p, allowDirect) ==
    allowDirect /\ now >= directBlockedUntil /\ now >= p.unknownUntil

\* decide() keeps what lives; a tunnel route claims its entry; a direct route needs an entry without
\* tunnel evidence and no quarantine; unanswered evidence is refused only where none allows a route.
DecidesWell(k, allowDirect) ==
    LET decided == Decide(k, allowDirect)
    IN  /\ TableStep(decided.table)
        /\ decided.route \in {"none", "tunnel", "direct"}
        /\ decided.route = "tunnel" =>
              k \in DOMAIN decided.table /\ decided.table[k].decision = "Tunnel"
        /\ decided.route = "direct" =>
              /\ k \in DOMAIN decided.table /\ k \in DOMAIN hints
              /\ DirectAllowed(hints[k], allowDirect) /\ ~hints[k].tunnel
        /\ decided.route = "none" =>
              \/ k \notin DOMAIN hints
              \/ hints[k].expires <= now \/ hints[k].answered
              \/ /\ ~hints[k].tunnel
                 /\ ~(DirectAllowed(hints[k], allowDirect) /\ hints[k].direct)

\* What decide() does to the table, and what its route says about the entry it was read from.
LEMMA DecideFacts ==
    ASSUME IInv, NEW k \in Keys, NEW allowDirect \in BOOLEAN
    PROVE  DecidesWell(k, allowDirect)
<1> DEFINE table == Expire
           p == table[k]
           decided == Decide(k, allowDirect)
<1>1. CASE k \notin DOMAIN table
  <2>1. decided = [route |-> "none", table |-> Expire]
    BY <1>1, Zenon DEF Decide
  <2>2. k \notin DOMAIN hints \/ hints[k].expires <= now
    BY <1>1, ExpireFacts, Zenon
  <2>3. QED
    BY <2>1, <2>2, ExpireStep, SMTT(120) DEF DecidesWell
<1>2. CASE k \in DOMAIN table
  <2>1. /\ p = hints[k] /\ p \in Entries /\ Sound(p) /\ Preserves(p, p) /\ k \in DOMAIN hints
    BY <1>2, ExpireFacts, PreservesItself, ZenonT(120) DEF IInv, Types
  <2>2. CASE p.expires <= now
    <3>1. decided = [route |-> "none", table |-> Erase(Expire, {k})]
      BY <1>2, <2>2, Zenon DEF Decide
    <3>2. TableStep(Erase(Expire, {k}))
      BY <2>1, <2>2, DropStep, Zenon DEF Spent
    <3>3. QED
      BY <3>1, <3>2, <2>1, <2>2 DEF DecidesWell
  \* A result that puts q in the entry's place.
  <2>3. ASSUME NEW q \in Entries, Sound(q), Preserves(p, q),
               q.unknownUntil = p.unknownUntil, q.generation = p.generation, NEW route,
               decided = [route |-> route, table |-> Put(table, k, q)]
        PROVE  /\ TableStep(decided.table) /\ decided.route = route
               /\ k \in DOMAIN decided.table /\ decided.table[k] = q
    <3>1. TableStep(Put(table, k, q))
      BY <2>1, <2>3, <1>2, KeepStep, Zenon
    <3>2. k \in DOMAIN Put(table, k, q) /\ Put(table, k, q)[k] = q
      BY Zenon DEF Put
    <3>3. QED
      BY <2>3, <3>1, <3>2
  <2>4. CASE ~(p.expires <= now) /\ p.answered
    <3>1. CASE p.tunnel /\ p.decision # "Tunnel"
      <4> DEFINE q == [p EXCEPT !.answered = FALSE, !.decision = "Tunnel"]
      <4>1. decided = [route |-> "tunnel", table |-> Put(table, k, q)]
        BY <1>2, <2>4, <3>1, ZenonT(120) DEF Decide
      <4>2. q \in Entries /\ q.decision = "Tunnel" /\ q.tunnel
        BY <2>1, <3>1, Zenon DEF Entries
      <4>3. Sound(q) /\ Preserves(p, q) /\ q.unknownUntil = p.unknownUntil /\ q.generation = p.generation
        BY <2>1, <2>4, <3>1, ZenonT(120) DEF Entries, Sound, Preserves, RecentlySelected
      <4> HIDE DEF q
      <4>4. QED
        BY <4>1, <4>2, <4>3, <2>3, SMTT(120) DEF DecidesWell
    <3>2. CASE /\ ~(p.tunnel /\ p.decision # "Tunnel")
               /\ p.decision = "Pending" \/ now - p.answeredAt >= REUSE
      <4>1. /\ Retire(p) \in Entries /\ Sound(Retire(p)) /\ Preserves(p, Retire(p))
            /\ Retire(p).unknownUntil = p.unknownUntil /\ Retire(p).generation = p.generation
            /\ RecentlySelected(p) => Retire(p).tunnel
        BY <2>1, <2>4, RetireFacts, ZenonT(120) DEF IInv
      <4>2. CASE Retire(p).tunnel
        <5> DEFINE q == [Retire(p) EXCEPT !.decision = "Tunnel"]
        <5>1. decided = [route |-> "tunnel", table |-> Put(table, k, q)]
          BY <1>2, <2>4, <3>2, <4>2, ZenonT(120) DEF Decide
        <5>2. q \in Entries /\ q.decision = "Tunnel" /\ q.tunnel
          BY <4>1, <4>2, Zenon DEF Entries
        <5>3. Sound(q) /\ Preserves(p, q) /\ q.unknownUntil = p.unknownUntil /\ q.generation = p.generation
          BY <4>1, <4>2, <2>4, ZenonT(120) DEF Entries, Sound, Preserves, RecentlySelected
        <5> HIDE DEF q
        <5>4. QED
          BY <5>1, <5>2, <5>3, <2>3 DEF DecidesWell
      <4>3. CASE ~Retire(p).tunnel /\ now >= Retire(p).unknownUntil
        <5>1. decided = [route |-> "none", table |-> Erase(Expire, {k})]
          BY <1>2, <2>4, <3>2, <4>3, ZenonT(120) DEF Decide
        <5>2. TableStep(Erase(Expire, {k}))
          BY <2>1, <2>4, <4>1, <4>3, DropStep, ZenonT(120) DEF Spent
        <5>3. QED
          BY <5>1, <5>2, <2>1, <2>4, SMTT(120) DEF DecidesWell
      <4>4. CASE ~Retire(p).tunnel /\ ~(now >= Retire(p).unknownUntil)
        <5>1. decided = [route |-> "none", table |-> Put(table, k, Retire(p))]
          BY <1>2, <2>4, <3>2, <4>4, ZenonT(120) DEF Decide
        <5>2. QED
          BY <5>1, <4>1, <2>1, <2>3, <2>4 DEF DecidesWell
      <4>5. QED
        BY <4>2, <4>3, <4>4, ZenonT(120)
    <3>3. CASE /\ ~(p.tunnel /\ p.decision # "Tunnel")
               /\ ~(p.decision = "Pending" \/ now - p.answeredAt >= REUSE)
      <4>1. CASE p.decision = "Tunnel"
        <5>1. decided = [route |-> "tunnel", table |-> Put(table, k, p)]
          BY <1>2, <2>4, <3>3, <4>1, ZenonT(120) DEF Decide
        <5>2. QED
          BY <5>1, <4>1, <2>1, <2>3, SMTT(120) DEF DecidesWell
      <4>2. CASE p.decision # "Tunnel" /\ DirectAllowed(p, allowDirect)
        <5>1. decided = [route |-> "direct", table |-> Put(table, k, p)]
          BY <1>2, <2>4, <3>3, <4>2, ZenonT(120) DEF Decide, DirectAllowed
        <5>2. ~p.tunnel
          BY <3>3, <4>2, ZenonT(120)
        <5>3. QED
          BY <5>1, <5>2, <4>2, <2>1, <2>3, SMTT(120) DEF DecidesWell
      <4>3. CASE p.decision # "Tunnel" /\ ~DirectAllowed(p, allowDirect)
        <5>1. decided = [route |-> "none", table |-> Put(table, k, p)]
          BY <1>2, <2>4, <3>3, <4>3, ZenonT(120) DEF Decide, DirectAllowed
        <5>2. QED
          BY <5>1, <2>1, <2>3, <2>4 DEF DecidesWell
      <4>4. QED
        BY <4>1, <4>2, <4>3, ZenonT(120)
    <3>4. QED
      BY <3>1, <3>2, <3>3, ZenonT(120)
  <2>5. CASE ~(p.expires <= now) /\ ~p.answered
    <3>1. CASE p.tunnel \/ p.decision = "Tunnel"
      <4> DEFINE q == [p EXCEPT !.decision = "Tunnel"]
      <4>1. decided = [route |-> "tunnel", table |-> Put(table, k, q)]
        BY <1>2, <2>5, <3>1, ZenonT(120) DEF Decide
      <4>2. q \in Entries /\ q.decision = "Tunnel"
        BY <2>1, Zenon DEF Entries
      <4>3. Sound(q) /\ Preserves(p, q) /\ q.unknownUntil = p.unknownUntil /\ q.generation = p.generation
        BY <2>1, <3>1, ZenonT(120) DEF Entries, Sound, Preserves, RecentlySelected
      <4> HIDE DEF q
      <4>4. QED
        BY <4>1, <4>2, <4>3, <2>3 DEF DecidesWell
    <3>2. CASE /\ ~(p.tunnel \/ p.decision = "Tunnel")
               /\ DirectAllowed(p, allowDirect) /\ (p.direct \/ p.decision = "Direct")
      <4> DEFINE q == [p EXCEPT !.decision = "Direct"]
      <4>1. decided = [route |-> "direct", table |-> Put(table, k, q)]
        BY <1>2, <2>5, <3>2, ZenonT(120) DEF Decide, DirectAllowed
      <4>2. q \in Entries
        BY <2>1, Zenon DEF Entries
      <4>3. Sound(q) /\ Preserves(p, q) /\ q.unknownUntil = p.unknownUntil /\ q.generation = p.generation
        BY <2>1, <3>2, ZenonT(120) DEF Entries, Sound, Preserves, RecentlySelected
      <4> HIDE DEF q
      <4>4. QED
        BY <4>1, <4>2, <4>3, <2>1, <2>3, <3>2, SMTT(120) DEF DecidesWell
    <3>3. CASE /\ ~(p.tunnel \/ p.decision = "Tunnel")
               /\ ~(DirectAllowed(p, allowDirect) /\ (p.direct \/ p.decision = "Direct"))
      <4>1. decided = [route |-> "none", table |-> Put(table, k, p)]
        BY <1>2, <2>5, <3>3, ZenonT(120) DEF Decide, DirectAllowed
      <4>2. QED
        BY <4>1, <2>1, <2>3, <3>3, SMTT(120) DEF DecidesWell
    <3>4. QED
      BY <3>1, <3>2, <3>3, ZenonT(120)
  <2>6. now \in Nat /\ p.expires \in Nat /\ p.answered \in BOOLEAN
    BY <2>1, Zenon DEF IInv, Types, Entries
  <2>7. QED
    BY <2>2, <2>4, <2>5, <2>6, Zenon
<1>3. QED
  BY <1>1, <1>2, ZenonT(120)

\* addResolved keeps what the entry of its key held, and adds the event's evidence.
LEMMA EvidenceFacts ==
    ASSUME IInv, NEW k \in Keys, NEW path \in Apps \cup {"none"}
    PROVE  LET q == Evidence(Expire, k, path)
           IN  /\ q \in Entries /\ Sound(q)
               /\ q.generation = generations + 1 /\ ~q.answered
               /\ now + LIFETIME <= q.expires
               /\ path = "selected" => q.tunnel /\ q.selected
               /\ path = "unlisted" => q.direct
               /\ q.unknownUntil = (IF path = "none" THEN now + LIFETIME
                                    ELSE IF k \in DOMAIN Expire /\ hints[k].expires > now
                                    THEN hints[k].unknownUntil ELSE 0)
               /\ k \in DOMAIN Expire => Spent(hints[k]) \/ Preserves(hints[k], q)
<1> DEFINE old == IF k \in DOMAIN Expire THEN Expire[k] ELSE Pending
           base == IF old.expires <= now THEN Pending ELSE IF old.answered THEN Retire(old) ELSE old
           q == Evidence(Expire, k, path)
<1>1. now \in Nat \ {0} /\ generations \in Nat /\ LIFETIME \in Nat /\ path \in {"selected", "unlisted", "none"}
  BY Times, Zenon DEF IInv, Types, Apps
<1>2. /\ Pending \in Entries /\ Sound(Pending) /\ ~Pending.answered
      /\ Pending.unknownUntil = 0 /\ Pending.expires = 0 /\ Pending.generation = 0
  <2>1. /\ Pending.decision = "Pending" /\ Pending.selectedAnswered = FALSE /\ Pending.selected = FALSE
        /\ Pending.selectedAnsweredAt = 0 /\ Pending.unknownUntil = 0 /\ Pending.expires = 0
        /\ Pending.generation = 0 /\ Pending.answered = FALSE
    BY Zenon DEF Pending
  <2>2. Sound(Pending)
    BY <1>1, <2>1, SMTT(120) DEF Sound
  <2>3. QED
    BY <2>1, <2>2, PendingFacts, ZenonT(120)
<1>3. k \in DOMAIN Expire => /\ old = hints[k] /\ old \in Entries /\ Sound(old) /\ Preserves(old, old)
                             /\ old.generation <= generations
  <2>1. SUFFICES ASSUME k \in DOMAIN Expire
                 PROVE  /\ old = hints[k] /\ old \in Entries /\ Sound(old) /\ Preserves(old, old)
                        /\ old.generation <= generations
    BY Zenon
  <2>2. old = hints[k] /\ k \in DOMAIN hints
    BY <2>1, ExpireFacts, Zenon
  <2> HIDE DEF old
  <2>3. QED
    BY <1>1, <2>2, PreservesItself, SMTT(120) DEF IInv, Types
<1>4. old \in Entries /\ Sound(old) /\ (k \notin DOMAIN Expire => old = Pending)
  BY <1>2, <1>3, Zenon
<1> HIDE DEF old
<1>5. /\ base \in Entries /\ Sound(base) /\ ~base.answered
      /\ base.unknownUntil = IF k \in DOMAIN Expire /\ hints[k].expires > now
                             THEN hints[k].unknownUntil ELSE 0
      /\ k \in DOMAIN Expire => Spent(hints[k]) \/ Preserves(hints[k], base)
  <2>1. CASE old.expires <= now
    <3>1. base = Pending
      BY <2>1, ZenonT(120)
    <3>2. k \in DOMAIN Expire => Spent(hints[k]) /\ ~(hints[k].expires > now)
      BY <2>1, <1>1, <1>3 DEF Spent, Entries
    <3>3. QED
      BY <3>1, <3>2, <1>2, ZenonT(120)
  <2>2. CASE ~(old.expires <= now)
    <3>1. k \in DOMAIN Expire /\ hints[k] = old /\ old.expires > now /\ Preserves(old, old)
      BY <2>2, <1>1, <1>2, <1>3, <1>4 DEF Entries
    <3>2. CASE old.answered
      <4>1. base = Retire(old)
        BY <2>2, <3>2, Zenon
      <4>2. QED
        BY <4>1, <3>1, <3>2, <1>4, RetireFacts, ZenonT(120) DEF IInv
    <3>3. CASE ~old.answered
      <4>1. base = old
        BY <2>2, <3>3, Zenon
      <4>2. QED
        BY <4>1, <3>1, <3>3, <1>4, ZenonT(120)
    <3>4. QED
      BY <3>2, <3>3, ZenonT(120)
  <2>3. QED
    BY <2>1, <2>2, Zenon
<1>6. q = [base EXCEPT !.generation = generations + 1,
               !.selected = @ \/ path = "selected",
               !.tunnel = @ \/ path = "selected",
               !.direct = @ \/ path = "unlisted",
               !.unknownUntil = IF path = "none" THEN now + LIFETIME ELSE @,
               !.expires = LatestOf(@, now + LIFETIME)]
  BY Zenon DEF Evidence, old
<1> HIDE DEF base, q
<1>7. q \in Entries
  <2> DEFINE selected == base.selected \/ path = "selected"
             tunnel == base.tunnel \/ path = "selected"
             direct == base.direct \/ path = "unlisted"
             unknownUntil == IF path = "none" THEN now + LIFETIME ELSE base.unknownUntil
             expires == LatestOf(base.expires, now + LIFETIME)
  <2>1. selected \in BOOLEAN /\ tunnel \in BOOLEAN /\ direct \in BOOLEAN
    BY Zenon
  <2>2. unknownUntil \in Nat /\ expires \in Nat
    BY <1>1, <1>5 DEF Entries, LatestOf
  <2>3. q = [base EXCEPT !.generation = generations + 1, !.selected = selected, !.tunnel = tunnel,
                 !.direct = direct, !.unknownUntil = unknownUntil, !.expires = expires]
    BY <1>5, <1>6, Zenon DEF Entries
  <2> HIDE DEF selected, tunnel, direct, unknownUntil, expires
  <2>4. base \in Entries /\ generations + 1 \in Nat
    BY <1>1, <1>5
  <2>5. QED
    BY <2>1, <2>2, <2>3, <2>4, ZenonT(120) DEF Entries
<1>8. /\ q.generation = generations + 1 /\ q.answered = base.answered
      /\ q.selected = (base.selected \/ path = "selected")
      /\ q.tunnel = (base.tunnel \/ path = "selected")
      /\ q.direct = (base.direct \/ path = "unlisted")
      /\ q.unknownUntil = (IF path = "none" THEN now + LIFETIME ELSE base.unknownUntil)
      /\ q.decision = base.decision
      /\ q.selectedAnswered = base.selectedAnswered /\ q.selectedAnsweredAt = base.selectedAnsweredAt
  BY <1>5, <1>6, ZenonT(120) DEF Entries
<1>9. now + LIFETIME <= q.expires /\ base.expires <= q.expires
  BY <1>1, <1>5, <1>6 DEF Entries, LatestOf
<1>10. Sound(q)
  BY <1>1, <1>5, <1>8 DEF Sound, Entries
<1>11. ASSUME k \in DOMAIN Expire, Preserves(hints[k], base)
       PROVE  Preserves(hints[k], q)
  <2>1. base.unknownUntil <= q.unknownUntil
    BY <1>1, <1>5, <1>8 DEF Sound, Entries
  <2>2. hints[k] \in Entries /\ hints[k].generation <= generations
    BY <1>3, <1>11, Zenon
  <2>3. QED
    BY <1>1, <1>5, <1>7, <1>8, <1>9, <1>11, <2>1, <2>2 DEF Preserves, Entries
<1>12. QED
  BY <1>5, <1>7, <1>8, <1>9, <1>10, <1>11, ZenonT(120) DEF q

-----------------------------------------------------------------------------
(* What a step that carries the table does to events and workers.          *)

Onward ==
    /\ now' = now /\ Carries(hints')
    /\ directBlockedUntil \in Nat /\ directBlockedUntil' \in Nat /\ directBlockedUntil <= directBlockedUntil'
    /\ overloadedUntil \in Nat /\ overloadedUntil' \in Nat /\ overloadedUntil <= overloadedUntil'
    /\ generations' \in Nat /\ generations <= generations'
    /\ \A k \in DOMAIN hints' : hints'[k] \in Entries

\* Where the table moves forward, what it remembers of an event stays remembered.
LEMMA EventOnward ==
    ASSUME IInv, Onward, NEW i \in DOMAIN log, log'[i] = log[i]
    PROVE  EventInv(i)'
<1> DEFINE e == log[i]
           k == log[i].key
<1>1. /\ now \in Nat /\ LIFETIME \in Nat /\ REUSE \in Nat /\ generations \in Nat
      /\ e.at \in Nat /\ e.doneAt \in Nat /\ e.gen \in Nat /\ e.app \in {"selected", "unlisted"}
  BY Times, LogFacts, Zenon DEF IInv, Types
<1>2. EventInv(i)
  BY ZenonT(120) DEF IInv
<1>3. /\ e.at <= now' /\ e.doneAt <= now' /\ e.gen <= generations'
      /\ e.status # "seen" => e.doneAt = 0
      /\ e.status = "reported" => e.at + LIFETIME <= directBlockedUntil'
      /\ e.status = "dropped" => e.at + LIFETIME <= overloadedUntil'
  BY <1>1, <1>2 DEF EventInv, Onward
<1>4. Lives(i)' <=> Lives(i)
  BY Zenon DEF Lives, Onward
<1>5. k \in DOMAIN hints => hints[k] \in Entries /\ Sound(hints[k])
  BY Zenon DEF IInv, Types
<1>6. k \in DOMAIN hints' => hints'[k] \in Entries
  BY Zenon DEF Onward
<1>7. k \in DOMAIN hints => Spent(hints[k]) \/ (k \in DOMAIN hints' /\ Preserves(hints[k], hints'[k]))
  BY ZenonT(120) DEF Onward, Carries
<1>8. ASSUME e.status = "unknown", Lives(i)
      PROVE  /\ k \in DOMAIN hints' /\ e.at + LIFETIME <= hints'[k].unknownUntil
             /\ e.at + LIFETIME <= hints'[k].expires
  <2>1. /\ k \in DOMAIN hints /\ e.at + LIFETIME <= hints[k].unknownUntil
        /\ e.at + LIFETIME <= hints[k].expires
    BY <1>2, <1>8, ZenonT(120) DEF EventInv
  <2>2. ~Spent(hints[k])
    BY <2>1, <1>1, <1>5, <1>8 DEF Spent, Lives, Entries
  <2>3. QED
    BY <2>1, <2>2, <1>1, <1>5, <1>6, <1>7, SMTT(120) DEF Preserves, Entries
<1>9. ASSUME Undone(i), Held(i)
      PROVE  Held(i)'
  <2>1. /\ k \in DOMAIN hints /\ e.at + LIFETIME <= hints[k].expires /\ e.gen <= hints[k].generation
        /\ ~hints[k].answered
        /\ e.app = "selected" => hints[k].tunnel /\ hints[k].selected
        /\ e.app = "unlisted" => hints[k].direct
    BY <1>9, ZenonT(120) DEF Held
  <2>2. ~Spent(hints[k])
    BY <2>1, <1>1, <1>5, <1>9, SMTT(120) DEF Spent, Undone, Lives, Entries
  <2>3. /\ k \in DOMAIN hints' /\ e.at + LIFETIME <= hints'[k].expires /\ e.gen <= hints'[k].generation
        /\ ~hints'[k].answered
        /\ e.app = "selected" => hints'[k].tunnel /\ hints'[k].selected
        /\ e.app = "unlisted" => hints'[k].direct
    BY <2>1, <2>2, <1>1, <1>5, <1>6, <1>7, SMTT(120) DEF Preserves, Entries
  <2>4. QED
    BY <2>3, Zenon DEF Held
<1>10. ASSUME e.status = "seen", e.app = "selected", Lives(i), e.doneAt # 0, now < e.doneAt + REUSE
       PROVE  Marked(i)'
  <2>1. /\ k \in DOMAIN hints /\ e.at + LIFETIME <= hints[k].expires
        /\ hints[k].selectedAnswered /\ e.doneAt <= hints[k].selectedAnsweredAt
    BY <1>2, <1>10, ZenonT(120) DEF EventInv, Marked
  <2>2. RecentlySelected(hints[k])
    BY <2>1, <1>1, <1>5, <1>10, SMTT(120) DEF RecentlySelected, Entries
  <2>3. ~Spent(hints[k])
    BY <2>1, <2>2, <1>1, <1>5, <1>10, SMTT(120) DEF Spent, Lives, Entries
  <2>4. /\ k \in DOMAIN hints' /\ e.at + LIFETIME <= hints'[k].expires
        /\ hints'[k].selectedAnswered /\ e.doneAt <= hints'[k].selectedAnsweredAt
    BY <2>1, <2>2, <2>3, <1>1, <1>5, <1>6, <1>7, SMTT(120) DEF Preserves, Entries
  <2>5. QED
    BY <2>4, ZenonT(120) DEF Marked
<1>11. Undone(i)' <=> Undone(i)
  BY <1>4, ZenonT(120) DEF Undone
<1>12. Undone(i) => Held(i)' \/ (e.app = "unlisted" /\ e.at + LIFETIME <= directBlockedUntil')
  BY <1>1, <1>2, <1>9 DEF EventInv, Onward
<1>13. now' = now
  BY Zenon DEF Onward
<1>14. QED
  BY <1>3, <1>4, <1>8, <1>10, <1>11, <1>12, <1>13, ZenonT(120) DEF EventInv

\* The events the log keeps or gains, as a worker sees them.
LogGrows ==
    /\ Len(log') \in Nat /\ Len(log) <= Len(log')
    /\ \A i \in DOMAIN log' :
          \/ i \in DOMAIN log /\ log'[i] = log[i]
          \/ log'[i].status # "seen"
          \/ log'[i].gen = generations + 1

\* What thread t relies on goes on holding.
LEMMA WorkerOnward ==
    ASSUME IInv, Onward, LogGrows, NEW w \in Workers, worker'[w] = worker[w]
    PROVE  Fits(w)'
<1> DEFINE k == worker[w].key
           g == worker[w].generation
<1>1. now \in Nat /\ generations \in Nat /\ LIFETIME \in Nat /\ Fits(w) /\ Len(log) \in Nat
  BY Times DEF IInv, Types
<1>2. worker[w] \in Threads
  BY ZenonT(120) DEF IInv, Types
<1>3. worker[w].pc \in {"barrier", "deliver"} => worker[w].need <= Len(log')
  BY <1>1, <1>2, SMTT(120) DEF Fits, LogGrows, Threads, Idle
<1>4. ASSUME worker[w].pc \in {"exchange", "deliver", "complete"}
      PROVE  g \in Nat /\ g <= generations /\ g <= generations'
  BY <1>1, <1>2, <1>4, SMTT(120) DEF Fits, Onward, Threads, Idle
<1>5. ASSUME worker[w].pc \in {"exchange", "deliver", "complete"}, NEW i \in DOMAIN log',
             Undone(i)', log'[i].key = k, log'[i].app = "selected", log'[i].gen <= g
      PROVE  worker[w].route = "tunnel" /\ k \in DOMAIN hints' /\ hints'[k].decision = "Tunnel"
  <2>1. i \in DOMAIN log /\ log'[i] = log[i]
    BY <1>1, <1>4, <1>5, SMTT(120) DEF LogGrows, Undone
  <2>2. Undone(i)
    BY <1>5, <2>1, Zenon DEF Undone, Lives, Onward
  <2>3. worker[w].route = "tunnel" /\ k \in DOMAIN hints /\ hints[k].decision = "Tunnel"
    BY <1>1, <1>5, <2>1, <2>2, ZenonT(120) DEF Fits
  <2>4. Held(i)
    BY <2>1, <2>2, <1>5, ZenonT(120) DEF IInv, EventInv
  <2>5. log[i] \in Events /\ hints[k] \in Entries
    BY <2>1, <2>3, SMTT(120) DEF IInv, Types
  <2>6. ~hints[k].answered /\ ~(hints[k].expires <= now)
    <3>1. log[i].key = k
      BY <1>5, <2>1, ZenonT(120)
    <3>2. ~hints[k].answered /\ log[i].at + LIFETIME <= hints[k].expires
      BY <2>4, <3>1, ZenonT(120) DEF Held
    <3>3. now < log[i].at + LIFETIME
      BY <2>2, Zenon DEF Undone, Lives
    <3>4. log[i].at \in Nat /\ hints[k].expires \in Nat
      BY <2>5, ZenonT(120) DEF Events, Entries
    <3>5. QED
      BY <1>1, <3>2, <3>3, <3>4, StillLives, ZenonT(120)
  <2>7. k \in DOMAIN hints' /\ Preserves(hints[k], hints'[k])
    BY <2>3, <2>6, ZenonT(120) DEF Onward, Carries, Spent
  <2>8. QED
    BY <2>3, <2>6, <2>7, Zenon DEF Preserves
<1>6. QED
  BY <1>3, <1>4, <1>5, ZenonT(120) DEF Fits

\* The entries after a step that adds no evidence.
LEMMA TableAfter ==
    ASSUME IInv, TableStep(hints'), now' = now, generations' = generations
    PROVE  /\ DOMAIN hints' \subseteq Keys
           /\ \A k \in DOMAIN hints' :
                 hints'[k] \in Entries /\ hints'[k].generation \in 1..generations' /\ Sound(hints[k])'
<1>1. DOMAIN hints' \subseteq Keys
  BY Zenon DEF TableStep, IInv, Types
<1>2. ASSUME NEW k \in DOMAIN hints'
      PROVE  hints'[k] \in Entries /\ hints'[k].generation \in 1..generations' /\ Sound(hints[k])'
  <2>1. /\ k \in DOMAIN hints /\ hints'[k] \in Entries /\ Sound(hints'[k])
        /\ hints'[k].generation = hints[k].generation
    BY Zenon DEF TableStep
  <2>2. hints'[k].generation \in 1..generations'
    BY <2>1, Zenon DEF IInv, Types
  <2>3. Sound(hints[k])'
    BY <2>1, Zenon DEF Sound
  <2>4. QED
    BY <2>1, <2>2, <2>3, ZenonT(120)
<1>3. QED
  BY <1>1, <1>2, ZenonT(120)

\* A step of a worker: the log and the quarantines stay.
LEMMA QuietStep ==
    ASSUME IInv, TableStep(hints'), nextExpiry' \in Nat, worker' \in [Workers -> Threads],
           UNCHANGED <<now, log, overloadedUntil, directBlockedUntil, generations>>,
           \A w \in Workers : worker'[w] = worker[w] \/ Fits(w)'
    PROVE  IInv'
<1>1. /\ DOMAIN hints' \subseteq Keys
      /\ \A k \in DOMAIN hints' :
            hints'[k] \in Entries /\ hints'[k].generation \in 1..generations' /\ Sound(hints[k])'
  BY TableAfter, Zenon
<1>2. Types'
  BY <1>1, ZenonT(120) DEF IInv, Types
<1>3. Onward
  BY <1>1, SMTT(120) DEF Onward, IInv, Types, TableStep
<1>4. LogGrows
  BY DEF LogGrows, IInv, Types
<1>5. \A i \in DOMAIN log' : EventInv(i)'
  BY <1>3, EventOnward, ZenonT(120)
<1>6. \A w \in Workers : Fits(w)'
  BY <1>3, <1>4, WorkerOnward, ZenonT(120)
<1>7. Origins'
  <2>1. ASSUME NEW k \in DOMAIN hints'
        PROVE  UnknownDue(k)'
    <3>1. k \in DOMAIN hints /\ hints'[k].unknownUntil = hints[k].unknownUntil
      BY Zenon DEF TableStep
    <3>2. QED
      BY <3>1 DEF IInv, Origins, UnknownDue
  <2>2. QED
    BY <2>1, ZenonT(120) DEF IInv, Origins, BlockedDue, OverloadDue
<1>8. QED
  BY <1>1, <1>2, <1>5, <1>6, <1>7, ZenonT(120) DEF IInv

\* The table as it is carries what it must.
LEMMA SameTable ==
    ASSUME IInv
    PROVE  TableStep(hints)
<1>1. \A k \in DOMAIN hints : hints[k] \in Entries /\ Sound(hints[k]) /\ Preserves(hints[k], hints[k])
  BY PreservesItself DEF IInv, Types
<1>2. QED
  BY <1>1, ZenonT(120) DEF TableStep, Carries

-----------------------------------------------------------------------------
(* The worker's steps.                                                     *)

\* A worker's step moves that worker only.
LEMMA GotoFacts ==
    ASSUME Types, NEW w \in Workers, NEW t \in Threads, Goto(w, t)
    PROVE  /\ worker' \in [Workers -> Threads] /\ worker'[w] = t
           /\ \A v \in Workers : v # w => worker'[v] = worker[v]
BY Zenon DEF Types, Goto

\* A step that leaves the table alone and moves thread w to t.
LEMMA MoveStep ==
    ASSUME IInv, UNCHANGED <<now, log, tableVars>>, NEW w \in Workers, NEW t \in Threads,
           Goto(w, t), Fits(w)'
    PROVE  IInv'
<1>1. TableStep(hints')
  BY SameTable, Zenon DEF tableVars
<1>2. /\ worker' \in [Workers -> Threads]
      /\ \A v \in Workers : worker'[v] = worker[v] \/ Fits(v)'
  BY GotoFacts, Zenon DEF IInv
<1>3. QED
  BY <1>1, <1>2, QuietStep, ZenonT(120) DEF tableVars, IInv, Types

\* A worker that gives its packet up relies on nothing.
LEMMA IdleStep ==
    ASSUME IInv, UNCHANGED <<now, log, tableVars>>, NEW w \in Workers, Goto(w, Idle)
    PROVE  IInv'
<1>1. Idle \in Threads /\ Idle.pc = "idle"
  BY Zenon DEF Idle, Threads
<1>2. Fits(w)'
  BY <1>1, GotoFacts, Zenon DEF Fits, IInv
<1>3. QED
  BY <1>1, <1>2, MoveStep, Zenon

\* A packet that arrives waits for its decision and relies on nothing yet.
LEMMA ReceiveStep ==
    ASSUME IInv, NEW w \in Workers, NEW k \in Keys, Receive(w, k)
    PROVE  IInv'
<1> DEFINE t == [pc |-> "take", key |-> k]
<1>1. t \in Threads /\ Goto(w, t) /\ UNCHANGED <<now, log, tableVars>>
  BY ZenonT(120) DEF Receive, Threads
<1>2. worker'[w].pc = "take"
  BY <1>1, GotoFacts DEF IInv
<1>3. Fits(w)'
  BY <1>2, Zenon DEF Fits
<1>4. QED
  BY <1>1, <1>3, MoveStep, ZenonT(120)

\* A thread that keeps its exchange keeps what it relies on.
LEMMA KeepsExchange ==
    ASSUME IInv, UNCHANGED <<now, log, tableVars>>, NEW w \in Workers, NEW t \in Threads, Goto(w, t),
           worker[w].pc \in {"exchange", "deliver", "complete"}, t.pc \in {"complete", "deliver"},
           t.key = worker[w].key, t.route = worker[w].route, t.generation = worker[w].generation,
           t.pc = "deliver" => t.need = Len(log)
    PROVE  IInv'
<1>1. worker'[w] = t
  BY GotoFacts, Zenon DEF IInv
<1>2. Fits(w)
  BY ZenonT(120) DEF IInv
<1>3. Len(log) \in Nat /\ Len(log') = Len(log)
  BY DEF IInv, Types
<1>4. UNCHANGED <<now, log, hints, generations>>
  BY ZenonT(120) DEF tableVars
<1>5. Fits(w)'
  BY <1>1, <1>2, <1>3, <1>4, SMTT(120) DEF Fits, Undone, Lives
<1>6. QED
  BY <1>5, MoveStep, ZenonT(120)

\* An exchange that ends keeps what its decision was based on (the direct one waits at a second barrier).
LEMMA ExchangeStep ==
    ASSUME IInv, NEW w \in Workers, Exchange(w)
    PROVE  IInv'
<1>1. worker[w] \in Threads /\ worker[w].pc = "exchange" /\ UNCHANGED <<now, log, tableVars>>
  BY ZenonT(120) DEF Exchange, IInv, Types
<1>2. worker[w] \in [pc: {"exchange", "complete"}, key: Keys, route: {"tunnel", "direct"}, generation: Nat]
  BY <1>1, SMTT(120) DEF Threads, Idle
<1>3. CASE Goto(w, [worker[w] EXCEPT !.pc = "complete"])
  <2> DEFINE t == [worker[w] EXCEPT !.pc = "complete"]
  <2>1. /\ t \in Threads /\ t.pc = "complete" /\ t.key = worker[w].key
        /\ t.route = worker[w].route /\ t.generation = worker[w].generation
    BY <1>2, Zenon DEF Threads
  <2> HIDE DEF t
  <2>2. QED
    BY <1>1, <1>3, <2>1, KeepsExchange, ZenonT(120) DEF t
<1>4. CASE /\ worker[w].route = "direct"
           /\ Goto(w, [pc |-> "deliver", key |-> worker[w].key, route |-> "direct",
                        generation |-> worker[w].generation, need |-> Len(log)])
  <2> DEFINE t == [pc |-> "deliver", key |-> worker[w].key, route |-> "direct",
                   generation |-> worker[w].generation, need |-> Len(log)]
  <2>1. Len(log) \in Nat
    BY DEF IInv, Types
  <2>2. /\ t \in Threads /\ t.pc = "deliver" /\ t.key = worker[w].key /\ t.need = Len(log)
        /\ t.route = worker[w].route /\ t.generation = worker[w].generation
    BY <1>2, <1>4, <2>1, ZenonT(120) DEF Threads
  <2> HIDE DEF t
  <2>3. QED
    BY <1>1, <1>4, <2>2, KeepsExchange, ZenonT(120) DEF t
<1>5. QED
  BY <1>3, <1>4, ZenonT(120) DEF Exchange

\* A direct answer that directAnswerUnsafe() lets through goes on to complete().
LEMMA DeliverStep ==
    ASSUME IInv, NEW w \in Workers, Deliver(w)
    PROVE  IInv'
<1> DEFINE t == [pc |-> "complete", key |-> worker[w].key, route |-> "direct",
                 generation |-> worker[w].generation]
<1>1. worker[w] \in Threads /\ worker[w].pc = "deliver" /\ UNCHANGED <<now, log, tableVars>> /\ Goto(w, t)
  BY ZenonT(120) DEF Deliver, IInv, Types
<1>2. worker[w] \in [pc: {"deliver"}, key: Keys, route: {"direct"}, generation: Nat, need: Nat]
  BY <1>1 DEF Threads, Idle
<1>3. /\ t \in Threads /\ t.pc = "complete" /\ t.key = worker[w].key
      /\ t.route = worker[w].route /\ t.generation = worker[w].generation
  BY <1>2, Zenon DEF Threads
<1> HIDE DEF t
<1>4. QED
  BY <1>1, <1>3, KeepsExchange, Zenon

\* The time of the next scan is a time.
LEMMA NextExpiryNat ==
    ASSUME Types
    PROVE  NextExpiry \in Nat
BY Times DEF Types, NextExpiry

\* A packet routed by decide(): the exchange covers the evidence of its entry.
LEMMA RoutedStep ==
    ASSUME IInv, NEW w \in Workers, NEW k \in Keys, NEW allowDirect \in BOOLEAN,
           UNCHANGED <<now, log, overloadedUntil, directBlockedUntil, generations>>,
           nextExpiry' = NextExpiry, hints' = Decide(k, allowDirect).table,
           Decide(k, allowDirect).route \in {"tunnel", "direct"},
           Goto(w, Routed(k, Decide(k, allowDirect).route, Decide(k, allowDirect).table))
    PROVE  IInv'
<1> DEFINE route == Decide(k, allowDirect).route
           t == Routed(k, route, Decide(k, allowDirect).table)
<1>1. /\ TableStep(hints') /\ k \in DOMAIN hints'
      /\ route = "tunnel" => hints'[k].decision = "Tunnel"
      /\ route = "direct" => k \in DOMAIN hints /\ ~hints[k].tunnel
  BY DecideFacts, ZenonT(120) DEF DecidesWell
<1>2. hints'[k] \in Entries /\ hints'[k].generation \in 1..generations
  BY <1>1, TableAfter, Zenon
<1>3. generations \in Nat
  BY ZenonT(120) DEF IInv, Types
<1>4. /\ t \in Threads /\ t.pc = "exchange" /\ t.key = k /\ t.route = route
      /\ t.generation = hints'[k].generation
  BY <1>2, <1>3 DEF Routed, Threads
<1>5. Goto(w, t)
  BY Zenon
<1> HIDE DEF t, route
<1>6. /\ worker' \in [Workers -> Threads] /\ worker'[w] = t
      /\ \A v \in Workers : v # w => worker'[v] = worker[v]
  BY <1>4, <1>5, GotoFacts, ZenonT(120) DEF IInv
<1>7. ASSUME NEW i \in DOMAIN log', Undone(i)', log'[i].key = k, log'[i].app = "selected"
      PROVE  route = "tunnel" /\ k \in DOMAIN hints' /\ hints'[k].decision = "Tunnel"
  <2>1. i \in DOMAIN log /\ Undone(i) /\ log[i].key = k /\ log[i].app = "selected"
    BY <1>7, Zenon DEF Undone, Lives
  <2>2. Held(i)
    BY <2>1, ZenonT(120) DEF IInv, EventInv
  <2>3. hints[k].tunnel
    BY <2>1, <2>2, ZenonT(120) DEF Held
  <2>4. QED
    BY <1>1, <2>3, ZenonT(120) DEF route
<1>8. Fits(w)'
  BY <1>2, <1>3, <1>4, <1>6, <1>7, SMTT(120) DEF Fits
<1>9. QED
  BY <1>1, <1>6, <1>8, QuietStep, NextExpiryNat, ZenonT(120) DEF IInv

\* A packet that is not routed: the table may be scanned and the entry retired.
LEMMA UnroutedStep ==
    ASSUME IInv, NEW w \in Workers, NEW k \in Keys, NEW allowDirect \in BOOLEAN,
           UNCHANGED <<now, log, overloadedUntil, directBlockedUntil, generations>>,
           nextExpiry' = NextExpiry, hints' = Decide(k, allowDirect).table,
           NEW t \in Threads, Goto(w, t), t.pc \in {"idle", "barrier"},
           t.pc = "barrier" => t.need = Len(log)
    PROVE  IInv'
<1>1. TableStep(hints')
  BY DecideFacts, Zenon DEF DecidesWell
<1>2. /\ worker' \in [Workers -> Threads] /\ worker'[w] = t
      /\ \A v \in Workers : v # w => worker'[v] = worker[v]
  BY GotoFacts, ZenonT(120) DEF IInv
<1>3. Len(log) \in Nat /\ Len(log') = Len(log)
  BY SMTT(120) DEF IInv, Types
<1>4. Fits(w)'
  BY <1>2, <1>3 DEF Fits
<1>5. QED
  BY <1>1, <1>2, <1>4, QuietStep, NextExpiryNat, ZenonT(120) DEF IInv

\* take() before the barrier: a decision that needs no barrier, or the wait for one.
LEMMA TakeStep ==
    ASSUME IInv, NEW w \in Workers, Take(w)
    PROVE  IInv'
<1> DEFINE k == worker[w].key
           decided == Decide(k, FALSE)
<1>1. k \in Keys
  BY SMTT(120) DEF Take, IInv, Types, Threads, Idle
<1>2. UNCHANGED <<now, log, overloadedUntil, directBlockedUntil, generations>>
  BY Zenon DEF Take
<1>3. CASE now < overloadedUntil
  <2>1. Goto(w, Idle) /\ UNCHANGED <<now, log, tableVars>>
    BY <1>3, Zenon DEF Take, tableVars
  <2>2. QED
    BY <2>1, IdleStep, Zenon
<1>4. CASE ~(now < overloadedUntil) /\ decided.route = "tunnel"
  <2>1. /\ hints' = decided.table /\ nextExpiry' = NextExpiry
        /\ Goto(w, Routed(k, decided.route, decided.table))
    BY <1>4, Zenon DEF Take
  <2>2. QED
    BY <1>1, <1>2, <1>4, <2>1, RoutedStep, ZenonT(120)
<1>5. CASE ~(now < overloadedUntil) /\ decided.route # "tunnel"
  <2> DEFINE t == [pc |-> "barrier", key |-> k, need |-> Len(log)]
  <2>1. hints' = decided.table /\ nextExpiry' = NextExpiry /\ Goto(w, t)
    BY <1>5, Zenon DEF Take
  <2>2. Len(log) \in Nat
    BY DEF IInv, Types
  <2>3. t \in Threads /\ t.pc = "barrier" /\ t.need = Len(log)
    BY <1>1, <2>2, Zenon DEF Threads
  <2> HIDE DEF t
  <2>4. QED
    BY <1>1, <1>2, <2>1, <2>3, UnroutedStep, ZenonT(120)
<1>6. QED
  BY <1>3, <1>4, <1>5, ZenonT(120)

\* take() after the barrier: the decision on what the table then holds.
LEMMA TakeDecidesStep ==
    ASSUME IInv, NEW w \in Workers, TakeDecides(w)
    PROVE  IInv'
<1> DEFINE k == worker[w].key
           decided == Decide(k, TRUE)
<1>1. k \in Keys
  BY SMTT(120) DEF TakeDecides, IInv, Types, Threads, Idle
<1>2. UNCHANGED <<now, log, overloadedUntil, directBlockedUntil, generations>>
  BY Zenon DEF TakeDecides
<1>3. CASE now < overloadedUntil
  <2>1. Goto(w, Idle) /\ UNCHANGED <<now, log, tableVars>>
    BY <1>3, Zenon DEF TakeDecides, tableVars
  <2>2. QED
    BY <2>1, IdleStep
<1>4. CASE ~(now < overloadedUntil) /\ decided.route # "none"
  <2>1. /\ hints' = decided.table /\ nextExpiry' = NextExpiry
        /\ Goto(w, Routed(k, decided.route, decided.table))
    BY <1>4, Zenon DEF TakeDecides
  <2>2. decided.route \in {"tunnel", "direct"}
    BY <1>1, <1>4, DecideFacts, ZenonT(120) DEF DecidesWell
  <2>3. QED
    BY <1>1, <1>2, <2>1, <2>2, RoutedStep, ZenonT(120)
<1>5. CASE ~(now < overloadedUntil) /\ decided.route = "none"
  <2>1. hints' = decided.table /\ nextExpiry' = NextExpiry /\ Goto(w, Idle)
    BY <1>5, Zenon DEF TakeDecides
  <2>2. Idle \in Threads /\ Idle.pc = "idle"
    BY Zenon DEF Idle, Threads
  <2>3. QED
    BY <1>1, <1>2, <2>1, <2>2, UnroutedStep, ZenonT(120)
<1>6. QED
  BY <1>3, <1>4, <1>5, ZenonT(120)

-----------------------------------------------------------------------------
(* Steps that change the log.                                              *)

\* Events that gave rise to a quarantine stay what they are.
OriginsStay ==
    \A i \in DOMAIN log : log[i].status \in {"reported", "dropped", "unknown"} =>
        /\ i \in DOMAIN log' /\ log'[i].status = log[i].status
        /\ log'[i].at = log[i].at /\ log'[i].key = log[i].key

\* A quarantine stays due to its event while the log keeps the event.
LEMMA DueStays ==
    ASSUME Origins, OriginsStay
    PROVE  /\ directBlockedUntil' = directBlockedUntil => BlockedDue'
           /\ overloadedUntil' = overloadedUntil => OverloadDue'
           /\ \A k \in DOMAIN hints :
                 hints'[k].unknownUntil = hints[k].unknownUntil => UnknownDue(k)'
<1>1. directBlockedUntil' = directBlockedUntil => BlockedDue'
  BY Zenon DEF Origins, OriginsStay, BlockedDue
<1>2. overloadedUntil' = overloadedUntil => OverloadDue'
  BY ZenonT(120) DEF Origins, OriginsStay, OverloadDue
<1>3. ASSUME NEW k \in DOMAIN hints, hints'[k].unknownUntil = hints[k].unknownUntil
      PROVE  UnknownDue(k)'
  BY <1>3 DEF Origins, OriginsStay, UnknownDue
<1>4. QED
  BY <1>1, <1>2, <1>3, ZenonT(120)

\* Rewriting events in place gives a log again.
LEMMA LogRewritten ==
    ASSUME log \in Seq(Events), DOMAIN log' = DOMAIN log, log' = [i \in DOMAIN log |-> log'[i]],
           \A i \in DOMAIN log : log'[i] \in Events
    PROVE  log' \in Seq(Events) /\ Len(log') = Len(log) /\ Len(log) \in Nat
<1>1. Len(log) \in Nat /\ DOMAIN log = 1..Len(log)
  OBVIOUS
<1>2. log' \in [1..Len(log) -> Events]
  BY <1>1, ZenonT(120)
<1>3. log' \in Seq(Events)
  BY <1>1, <1>2, SMTT(120)
<1>4. Len(log') = Len(log)
  BY <1>1, <1>2, <1>3
<1>5. QED
  BY <1>1, <1>3, <1>4, ZenonT(120)

\* The events that a step leaves alone keep their invariant, and so do the workers.
LEMMA LogStep ==
    ASSUME IInv, Onward, LogGrows, UNCHANGED worker, Types', Origins',
           \A k \in DOMAIN hints' : Sound(hints[k])',
           \A i \in DOMAIN log' : (i \in DOMAIN log /\ log'[i] = log[i]) \/ EventInv(i)'
    PROVE  IInv'
<1>1. \A i \in DOMAIN log' : EventInv(i)'
  BY EventOnward, Zenon
<1>2. \A w \in Workers : Fits(w)'
  BY WorkerOnward, Zenon
<1>3. QED
  BY <1>1, <1>2, Zenon DEF IInv

\* Time passes: windows close, and nothing that still speaks is forgotten.
LEMMA TickStep ==
    ASSUME IInv, Tick
    PROVE  IInv'
<1>1. /\ now \in Nat /\ now' = now + 1 /\ LIFETIME \in Nat /\ REUSE \in Nat
      /\ UNCHANGED <<log, hints, nextExpiry, overloadedUntil, directBlockedUntil, generations, worker>>
  BY Times, ZenonT(120) DEF IInv, Types, Tick, tableVars
<1>2. Types'
  BY <1>1, SMTT(120) DEF IInv, Types
<1>3. \A k \in DOMAIN hints' : Sound(hints[k])'
  BY <1>1, SMTT(120) DEF IInv, Types, Sound, Entries
<1>4. ASSUME NEW i \in DOMAIN log'
      PROVE  EventInv(i)'
  <2>1. i \in DOMAIN log /\ EventInv(i) /\ log[i] \in Events /\ log' = log
    BY <1>1 DEF IInv, Types
  <2>2. log[i].at \in Nat /\ log[i].doneAt \in Nat
    BY <2>1, ZenonT(120) DEF Events
  <2>3. Lives(i)' => Lives(i)
    BY <1>1, <2>1, <2>2, SMTT(120) DEF Lives
  <2>4. (Held(i)' <=> Held(i)) /\ (Marked(i)' <=> Marked(i))
    BY <1>1, ZenonT(120) DEF Held, Marked
  <2>5. now' < log[i].doneAt + REUSE => now < log[i].doneAt + REUSE
    BY <1>1, <2>2, SMTT(120)
  <2>6. log[i].at <= now' /\ log[i].doneAt <= now' /\ log[i].gen <= generations
    BY <1>1, <2>1, <2>2, SMTT(120) DEF EventInv
  <2>7. QED
    BY <1>1, <2>1, <2>3, <2>4, <2>5, <2>6, ZenonT(120) DEF EventInv, Undone
<1>5. ASSUME NEW i \in DOMAIN log, Undone(i)'
      PROVE  Undone(i)
  <2>1. log[i].at \in Nat
    BY LogFacts, ZenonT(120) DEF IInv
  <2>2. QED
    BY <1>1, <1>5, <2>1, SMTT(120) DEF Undone, Lives
<1>6. \A w \in Workers : Fits(w)'
  BY <1>1, <1>5, ZenonT(120) DEF IInv, Fits
<1>7. Origins'
  BY <1>1 DEF IInv, Types, Origins, BlockedDue, OverloadDue, UnknownDue
<1>8. QED
  BY <1>2, <1>3, <1>4, <1>6, <1>7, ZenonT(120) DEF IInv

\* The DNS client library logs a query event; the table does not know of it yet.
LEMMA LogQueryStep ==
    ASSUME IInv, NEW k \in Keys, NEW app \in Apps, LogQuery(k, app)
    PROVE  IInv'
<1> DEFINE e == [key |-> k, app |-> app, status |-> "logged", at |-> 0, gen |-> 0, doneAt |-> 0]
<1>1. /\ log' = Append(log, e)
      /\ UNCHANGED <<now, hints, nextExpiry, overloadedUntil, directBlockedUntil, generations, worker>>
  BY Zenon DEF LogQuery, tableVars
<1>2. /\ e \in Events /\ e.status = "logged" /\ e.at = 0 /\ e.gen = 0 /\ e.doneAt = 0
  BY ZenonT(120) DEF Events
<1>3. log \in Seq(Events) /\ Len(log) \in Nat /\ now \in Nat /\ generations \in Nat /\ DOMAIN log = 1..Len(log)
  BY SMTT(120) DEF IInv, Types
<1> HIDE DEF e
<1>4. /\ log' \in Seq(Events) /\ Len(log') = Len(log) + 1 /\ DOMAIN log' = 1..(Len(log) + 1)
      /\ log'[Len(log) + 1] = e /\ \A i \in DOMAIN log : log'[i] = log[i]
  BY <1>1, <1>2, <1>3, SMTT(120)
<1>5. \A i \in DOMAIN log' : (i \in DOMAIN log /\ log'[i] = log[i]) \/ log'[i] = e
  BY <1>3, <1>4, SMTT(120)
<1>6. Types' /\ \A x \in DOMAIN hints' : Sound(hints[x])'
  BY <1>1, <1>4, ZenonT(120) DEF IInv, Types, Sound
<1>7. Onward
  BY <1>1, SameTable, SMTT(120) DEF Onward, IInv, Types, TableStep
<1>8. LogGrows
  BY <1>2, <1>3, <1>4, <1>5, SMTT(120) DEF LogGrows
<1>9. Origins'
  <2>1. OriginsStay
    BY <1>3, <1>4, SMTT(120) DEF OriginsStay
  <2>2. QED
    BY <1>1, <2>1, DueStays, ZenonT(120) DEF IInv, Origins
<1>10. ASSUME NEW i \in DOMAIN log', log'[i] = e
       PROVE  EventInv(i)'
  BY <1>1, <1>2, <1>3, <1>10, SMTT(120) DEF EventInv, Undone
<1>11. QED
  BY <1>1, <1>5, <1>6, <1>7, <1>8, <1>9, <1>10, LogStep, ZenonT(120)

\* The trace session loses an event before the consumer sees it.
LEMMA LoseEventStep ==
    ASSUME IInv, NEW j \in DOMAIN log, LoseEvent(j)
    PROVE  IInv'
<1>1. /\ log' = [log EXCEPT ![j].status = "lost"] /\ log[j].status = "logged"
      /\ UNCHANGED <<now, hints, nextExpiry, overloadedUntil, directBlockedUntil, generations, worker>>
  BY ZenonT(120) DEF LoseEvent, tableVars
<1>2. log \in Seq(Events) /\ \A i \in DOMAIN log : log[i] \in Events
  BY DEF IInv, Types
<1>3. /\ DOMAIN log' = DOMAIN log /\ log' = [i \in DOMAIN log |-> log'[i]]
      /\ \A i \in DOMAIN log : i # j => log'[i] = log[i]
      /\ log'[j] = [log[j] EXCEPT !.status = "lost"]
  BY <1>1, <1>2, ZenonT(120)
<1>4. /\ log'[j] \in Events /\ log'[j].status = "lost" /\ log'[j].at = log[j].at
      /\ log'[j].doneAt = log[j].doneAt /\ log'[j].gen = log[j].gen
  BY <1>2, <1>3, ZenonT(120) DEF Events
<1>5. log' \in Seq(Events) /\ Len(log') = Len(log) /\ Len(log) \in Nat
  BY <1>2, <1>3, <1>4, LogRewritten, Zenon
<1>6. Types' /\ \A x \in DOMAIN hints' : Sound(hints[x])'
  BY <1>1, <1>5, ZenonT(120) DEF IInv, Types, Sound
<1>7. Onward
  BY <1>1, SameTable, SMTT(120) DEF Onward, IInv, Types, TableStep
<1>8. LogGrows
  <2>1. \A i \in DOMAIN log' : (i \in DOMAIN log /\ log'[i] = log[i]) \/ log'[i].status = "lost"
    BY <1>3, <1>4, ZenonT(120)
  <2>2. QED
    BY <1>5, <2>1 DEF LogGrows
<1>9. Origins'
  <2>1. OriginsStay
    BY <1>1, <1>3, ZenonT(120) DEF OriginsStay
  <2>2. QED
    BY <1>1, <2>1, DueStays, ZenonT(120) DEF IInv, Origins
<1>10. EventInv(j)'
  <2>1. EventInv(j)
    BY Zenon DEF IInv
  <2>2. QED
    BY <1>1, <1>4, <2>1, ZenonT(120) DEF EventInv, Undone
<1>11. QED
  BY <1>1, <1>3, <1>6, <1>7, <1>8, <1>9, <1>10, LogStep, ZenonT(120)

\* The event that addResolved handles, in the log after it.
LEMMA HandledFacts ==
    ASSUME IInv, NEW j \in DOMAIN log, log[j].status = "logged",
           NEW e \in Events, log' = [log EXCEPT ![j] = e]
    PROVE  /\ log' \in Seq(Events) /\ Len(log') = Len(log) /\ Len(log) \in Nat
           /\ DOMAIN log' = DOMAIN log /\ log'[j] = e
           /\ \A i \in DOMAIN log : i # j => log'[i] = log[i]
           /\ OriginsStay
<1>1. log \in Seq(Events) /\ \A i \in DOMAIN log : log[i] \in Events
  BY SMTT(120) DEF IInv, Types
<1>2. /\ DOMAIN log' = DOMAIN log /\ log' = [i \in DOMAIN log |-> log'[i]] /\ log'[j] = e
      /\ \A i \in DOMAIN log : i # j => log'[i] = log[i]
  BY <1>1, Zenon
<1>3. log' \in Seq(Events) /\ Len(log') = Len(log) /\ Len(log) \in Nat
  BY <1>1, <1>2, LogRewritten, ZenonT(120)
<1>4. OriginsStay
  BY <1>2, Zenon DEF OriginsStay
<1>5. QED
  BY <1>2, <1>3, <1>4, ZenonT(120)

\* A full table drops the event and stops all routing for a lifetime.
LEMMA DroppedStep ==
    ASSUME IInv, NEW j \in DOMAIN log, log[j].status = "logged",
           nextExpiry' = NextExpiry, overloadedUntil' = QuarantineEnd, hints' = Expire,
           log' = [log EXCEPT ![j].status = "dropped", ![j].at = now],
           UNCHANGED <<generations, now, directBlockedUntil, worker>>
    PROVE  IInv'
<1> DEFINE e == [log[j] EXCEPT !.status = "dropped", !.at = now]
<1>1. /\ now \in Nat \ {0} /\ LIFETIME \in Nat /\ generations \in Nat /\ log[j] \in Events /\ EventInv(j)
      /\ overloadedUntil \in Nat
  BY Times, SMTT(120) DEF IInv, Types
<1>2. /\ e \in Events /\ e.status = "dropped" /\ e.at = now /\ e.gen = log[j].gen
      /\ e.doneAt = log[j].doneAt
  BY <1>1, Zenon DEF Events
<1>3. log' = [log EXCEPT ![j] = e]
  BY Zenon
<1> HIDE DEF e
<1>4. /\ log' \in Seq(Events) /\ Len(log') = Len(log) /\ Len(log) \in Nat
      /\ DOMAIN log' = DOMAIN log /\ log'[j] = e
      /\ \A i \in DOMAIN log : i # j => log'[i] = log[i]
      /\ OriginsStay
  BY <1>2, <1>3, HandledFacts, ZenonT(120)
<1>5. overloadedUntil' = now + LIFETIME /\ overloadedUntil' \in Nat /\ overloadedUntil <= overloadedUntil'
  BY <1>1 DEF QuarantineEnd, IInv, Origins
<1>6. TableStep(hints')
  BY ExpireStep, Zenon
<1>7. /\ DOMAIN hints' \subseteq Keys
      /\ \A k \in DOMAIN hints' :
            hints'[k] \in Entries /\ hints'[k].generation \in 1..generations' /\ Sound(hints[k])'
  BY <1>6, TableAfter, ZenonT(120)
<1>8. Types'
  BY <1>4, <1>5, <1>7, NextExpiryNat, ZenonT(120) DEF IInv, Types
<1>9. Onward
  BY <1>1, <1>5, <1>6, <1>7, SMTT(120) DEF Onward, IInv, Types, TableStep
<1>10. LogGrows
  BY <1>2, <1>4, SMTT(120) DEF LogGrows
<1>11. Origins'
  <2>1. BlockedDue' /\ \A k \in DOMAIN hints' : UnknownDue(k)'
    BY <1>4, <1>6, DueStays, ZenonT(120) DEF IInv, TableStep
  <2>2. OverloadDue'
    BY <1>2, <1>4, <1>5, ZenonT(120) DEF OverloadDue
  <2>3. QED
    BY <1>1, <1>5, <2>1, <2>2, SMTT(120) DEF IInv, Origins
<1>12. EventInv(j)'
  BY <1>1, <1>2, <1>4, <1>5, SMTT(120) DEF EventInv, Undone
<1>13. QED
  BY <1>4, <1>7, <1>8, <1>9, <1>10, <1>11, <1>12, LogStep, ZenonT(120)

\* An event that is entered: its entry holds the evidence and all it held before.
LEMMA EnteredStep ==
    ASSUME IInv, NEW j \in DOMAIN log, log[j].status = "logged", NEW path \in {log[j].app, "none"},
           nextExpiry' = NextExpiry, hints' = Put(Expire, log[j].key, Evidence(Expire, log[j].key, path)),
           generations' = generations + 1,
           log' = [log EXCEPT ![j].status = IF path = "none" THEN "unknown" ELSE "seen",
                              ![j].at = now, ![j].gen = generations + 1],
           UNCHANGED <<overloadedUntil, now, directBlockedUntil, worker>>
    PROVE  IInv'
<1> DEFINE k == log[j].key
           q == Evidence(Expire, k, path)
           e == [log[j] EXCEPT !.status = IF path = "none" THEN "unknown" ELSE "seen",
                               !.at = now, !.gen = generations + 1]
<1>1. /\ now \in Nat \ {0} /\ LIFETIME \in Nat /\ generations \in Nat /\ log[j] \in Events /\ EventInv(j)
      /\ k \in Keys /\ path \in Apps \cup {"none"}
  BY Times, LogFacts, ZenonT(120) DEF IInv, Types, Apps
<1>2. /\ e \in Events /\ e.status = (IF path = "none" THEN "unknown" ELSE "seen") /\ e.at = now
      /\ e.gen = generations + 1 /\ e.doneAt = log[j].doneAt /\ e.key = k /\ e.app = log[j].app
  <2> DEFINE status == IF path = "none" THEN "unknown" ELSE "seen"
  <2>1. status \in {"unknown", "seen"}
    BY Zenon
  <2>2. e = [log[j] EXCEPT !.status = status, !.at = now, !.gen = generations + 1]
    BY Zenon
  <2> HIDE DEF status, e
  <2>3. log[j] \in Events /\ now \in Nat /\ generations + 1 \in Nat
    BY <1>1
  <2>4. /\ e \in Events /\ e.status = status /\ e.at = now
        /\ e.gen = generations + 1 /\ e.doneAt = log[j].doneAt /\ e.key = k /\ e.app = log[j].app
    BY <2>1, <2>2, <2>3, ZenonT(120) DEF Events
  <2>5. QED
    BY <2>4, Zenon DEF status
<1>3. log' = [log EXCEPT ![j] = e]
  BY Zenon
<1>4. /\ q \in Entries /\ Sound(q)
      /\ q.generation = generations + 1 /\ ~q.answered
      /\ now + LIFETIME <= q.expires
      /\ path = "selected" => q.tunnel /\ q.selected
      /\ path = "unlisted" => q.direct
      /\ q.unknownUntil = (IF path = "none" THEN now + LIFETIME
                           ELSE IF k \in DOMAIN Expire /\ hints[k].expires > now
                           THEN hints[k].unknownUntil ELSE 0)
      /\ k \in DOMAIN Expire => Spent(hints[k]) \/ Preserves(hints[k], q)
  BY <1>1, EvidenceFacts, ZenonT(120)
<1>5. hints' = Put(Expire, k, q)
  BY Zenon
<1> HIDE DEF e, q
<1>6. /\ log' \in Seq(Events) /\ Len(log') = Len(log) /\ Len(log) \in Nat
      /\ DOMAIN log' = DOMAIN log /\ log'[j] = e
      /\ \A i \in DOMAIN log : i # j => log'[i] = log[i]
      /\ OriginsStay
  BY <1>2, <1>3, HandledFacts, ZenonT(120)
<1>7. /\ DOMAIN hints' = DOMAIN Expire \cup {k} /\ hints'[k] = q
      /\ \A x \in DOMAIN Expire : x # k => x \in DOMAIN hints /\ hints'[x] = hints[x]
  <2>1. /\ DOMAIN hints' = DOMAIN Expire \cup {k} /\ hints'[k] = q
        /\ \A x \in DOMAIN Expire : x # k => hints'[x] = Expire[x]
    BY <1>5, Zenon DEF Put
  <2>2. QED
    BY <2>1, ExpireFacts, Zenon
<1>8. \A x \in DOMAIN hints : /\ x \in Keys /\ hints[x] \in Entries /\ Sound(hints[x])
                              /\ hints[x].generation \in 1..generations /\ Preserves(hints[x], hints[x])
  BY PreservesItself, Zenon DEF IInv, Types
<1>9. /\ DOMAIN hints' \subseteq Keys
      /\ \A x \in DOMAIN hints' : hints'[x] \in Entries /\ hints'[x].generation \in 1..generations'
  <2>1. generations + 1 \in 1..generations' /\ \A n \in 1..generations : n \in 1..generations'
    BY <1>1, Successor, ZenonT(120)
  <2>2. DOMAIN hints' \subseteq Keys
    BY <1>1, <1>7, <1>8, ExpireFacts, ZenonT(120)
  <2>3. hints'[k] \in Entries /\ hints'[k].generation \in 1..generations'
    BY <1>4, <1>7, <2>1, ZenonT(120)
  <2>4. \A x \in DOMAIN hints' : x # k => hints'[x] \in Entries /\ hints'[x].generation \in 1..generations'
    BY <1>7, <1>8, <2>1, ZenonT(120)
  <2>5. QED
    BY <2>2, <2>3, <2>4, ZenonT(120)
<1>10. \A x \in DOMAIN hints' : Sound(hints'[x])
  BY <1>4, <1>7, <1>8, ZenonT(120)
<1>11. \A x \in DOMAIN hints' : Sound(hints[x])'
  BY <1>10, ZenonT(120) DEF Sound
<1>12. Carries(hints')
  BY <1>4, <1>7, <1>8, ExpireFacts, ZenonT(120) DEF Carries, Spent
<1>13. Types'
  <2>1. generations + 1 \in Nat /\ generations' = generations + 1
    BY <1>1, Successor, ZenonT(120)
  <2>2. QED
    BY <1>6, <1>9, <2>1, NextExpiryNat, ZenonT(120) DEF IInv, Types
<1>14. Onward
  BY <1>1, <1>9, <1>12, SMTT(120) DEF Onward, IInv, Types
<1>15. LogGrows
  BY <1>2, <1>6, SMTT(120) DEF LogGrows
<1>16. Origins'
  <2>1. BlockedDue' /\ OverloadDue'
    BY <1>6, DueStays, ZenonT(120) DEF IInv
  <2>2. ASSUME NEW x \in DOMAIN hints'
        PROVE  UnknownDue(x)'
    <3>1. CASE x # k
      BY <1>6, <1>7, <3>1, DueStays, ZenonT(120) DEF IInv
    <3>2. CASE x = k /\ path = "none"
      BY <1>2, <1>4, <1>6, <1>7, <3>2, SMTT(120) DEF UnknownDue
    <3>3. CASE x = k /\ path # "none" /\ k \in DOMAIN Expire /\ hints[k].expires > now
      BY <1>4, <1>6, <1>7, <3>3, DueStays, ExpireFacts, ZenonT(120) DEF IInv
    <3>4. CASE x = k /\ path # "none" /\ ~(k \in DOMAIN Expire /\ hints[k].expires > now)
      BY <1>4, <1>7, <3>4, ZenonT(120) DEF UnknownDue
    <3>5. QED
      BY <3>1, <3>2, <3>3, <3>4, ZenonT(120)
  <2>3. QED
    BY <2>1, <2>2, ZenonT(120) DEF IInv, Origins
<1>17. EventInv(j)'
  <2>0. /\ log'[j].status = e.status /\ log'[j].at = now /\ log'[j].gen = generations + 1
        /\ log'[j].doneAt = log[j].doneAt /\ log'[j].key = k /\ log'[j].app = e.app
        /\ k \in DOMAIN hints' /\ hints'[k] = q
    BY <1>2, <1>6, <1>7, ZenonT(120)
  <2>1. /\ log'[j].at <= now' /\ log'[j].doneAt <= now' /\ log'[j].gen <= generations'
    <3>1. now <= now /\ generations + 1 <= generations + 1
      BY <1>1, Successor, ZenonT(120)
    <3>2. log[j].doneAt <= now
      BY <1>1, ZenonT(120) DEF EventInv
    <3>3. now' = now /\ generations' = generations + 1
      BY Zenon
    <3>4. QED
      BY <2>0, <3>1, <3>2, <3>3, ZenonT(120)
  <2>2. CASE path = "none"
    <3>1. log'[j].status = "unknown"
      BY <1>2, <2>0, <2>2, ZenonT(120)
    <3>2. now + LIFETIME <= q.unknownUntil /\ now + LIFETIME <= q.expires
      <4>1. q.unknownUntil = now + LIFETIME /\ now + LIFETIME <= q.expires
        BY <1>4, <2>2, ZenonT(120)
      <4>2. now + LIFETIME <= now + LIFETIME
        BY <1>1, Sums, ZenonT(120)
      <4>3. QED
        BY <4>1, <4>2, ZenonT(120)
    <3>3. log[j].doneAt = 0
      BY <1>1, ZenonT(120) DEF EventInv
    <3>4. QED
      BY <2>0, <2>1, <3>1, <3>2, <3>3, ZenonT(120) DEF EventInv, Undone
  <2>3. CASE path # "none"
    <3>1. path = e.app /\ e.status = "seen"
      BY <1>2, <2>3, ZenonT(120)
    <3>2. Held(j)'
      <4>1. log'[j].app = path /\ generations + 1 <= generations + 1
        BY <1>1, <2>0, <3>1, Successor, Zenon
      <4>2. QED
        BY <1>4, <2>0, <4>1, ZenonT(120) DEF Held
    <3>3. e.doneAt = 0
      BY <1>1, <1>2, ZenonT(120) DEF EventInv
    <3>4. QED
      BY <1>2, <1>6, <2>1, <3>1, <3>2, <3>3, ZenonT(120) DEF EventInv
  <2>4. QED
    BY <2>2, <2>3, ZenonT(120)
<1>18. QED
  BY <1>6, <1>9, <1>11, <1>13, <1>14, <1>15, <1>16, <1>17, LogStep, ZenonT(120)

\* The consumer enters an event, with the image it resolved or without one (addResolved).
LEMMA ProcessEventStep ==
    ASSUME IInv, NEW j \in DOMAIN log, ProcessEvent(j)
    PROVE  IInv'
<1>1. PICK path \in {log[j].app, "none"} : AddResolved(j, path)
  BY Zenon DEF ProcessEvent
<1>2. CASE Full(Expire, log[j].key)
  BY <1>1, <1>2, DroppedStep, ZenonT(120) DEF AddResolved
<1>3. CASE ~Full(Expire, log[j].key)
  BY <1>1, <1>3, EnteredStep, ZenonT(120) DEF AddResolved
<1>4. QED
  BY <1>2, <1>3, Zenon

\* A reported loss stops direct routing for a lifetime; entries with tunnel evidence stay.
LEMMA LostEventsStep ==
    ASSUME IInv, LostEvents
    PROVE  IInv'
<1> DEFINE gone == {k \in DOMAIN hints : ~hints[k].tunnel /\ now >= hints[k].unknownUntil}
<1>1. /\ now \in Nat \ {0} /\ LIFETIME \in Nat /\ REUSE \in Nat /\ generations \in Nat /\ directBlockedUntil \in Nat
      /\ directBlockedUntil <= now + LIFETIME
      /\ log \in Seq(Events) /\ \A i \in DOMAIN log : log[i] \in Events /\ EventInv(i)
  BY Times DEF IInv, Types, Origins
<1>2. UNCHANGED <<now, nextExpiry, overloadedUntil, generations, worker>>
  BY Zenon DEF LostEvents
<1>3. directBlockedUntil' = now + LIFETIME
  BY Zenon DEF LostEvents, QuarantineEnd
<1>4. /\ DOMAIN hints' = DOMAIN hints \ gone
      /\ \A k \in DOMAIN hints' : hints'[k] = hints[k]
  <2>1. hints' = Erase(hints, gone)
    BY Zenon DEF LostEvents
  <2> HIDE DEF gone
  <2>2. /\ DOMAIN hints' = DOMAIN hints \ gone
        /\ \A k \in DOMAIN hints \ gone : hints'[k] = hints[k]
    BY <2>1, EraseFacts, ZenonT(120)
  <2>3. QED
    BY <2>2, Zenon
<1>5. /\ DOMAIN log' = DOMAIN log /\ log' = [i \in DOMAIN log |-> log'[i]]
      /\ \A i \in DOMAIN log : log[i].status # "lost" => log'[i] = log[i]
      /\ \A i \in DOMAIN log : log[i].status = "lost" =>
            log'[i] = [log[i] EXCEPT !.status = "reported", !.at = now]
  BY Zenon DEF LostEvents
<1>6. \A i \in DOMAIN log : log[i].status = "lost" =>
         /\ log'[i] \in Events /\ log'[i].status = "reported" /\ log'[i].at = now
         /\ log'[i].gen = log[i].gen /\ log'[i].doneAt = log[i].doneAt
  <2>1. SUFFICES ASSUME NEW i \in DOMAIN log, log[i].status = "lost"
                 PROVE  /\ log'[i] \in Events /\ log'[i].status = "reported" /\ log'[i].at = now
                        /\ log'[i].gen = log[i].gen /\ log'[i].doneAt = log[i].doneAt
    BY Zenon
  <2>2. /\ log[i] \in Events /\ now \in Nat
        /\ log'[i] = [log[i] EXCEPT !.status = "reported", !.at = now]
    BY <1>1, <1>5, <2>1, ZenonT(120)
  <2>3. QED
    BY <2>2, ZenonT(120) DEF Events
<1>7. log' \in Seq(Events) /\ Len(log') = Len(log) /\ Len(log) \in Nat
  <2>1. \A i \in DOMAIN log : log'[i] \in Events
    BY <1>1, <1>5, <1>6, ZenonT(120)
  <2>2. QED
    BY <1>1, <1>5, <2>1, LogRewritten, ZenonT(120)
<1>8. Types'
  BY <1>1, <1>2, <1>3, <1>4, <1>7, SMTT(120) DEF IInv, Types
<1>9. \A k \in DOMAIN hints' : Sound(hints[k])'
  BY <1>2, <1>4, ZenonT(120) DEF IInv, Sound
<1>10. Origins'
  <2>1. OriginsStay
    BY <1>5, ZenonT(120) DEF OriginsStay
  <2>2. OverloadDue' /\ \A k \in DOMAIN hints' : UnknownDue(k)'
    BY <1>2, <1>4, <2>1, DueStays, ZenonT(120) DEF IInv
  <2>3. BlockedDue'
    <3>1. PICK i \in DOMAIN log : log[i].status = "lost"
      BY Zenon DEF LostEvents
    <3>2. i \in DOMAIN log' /\ log'[i].status = "reported" /\ log'[i].at + LIFETIME = directBlockedUntil'
      BY <1>3, <1>5, <1>6, <3>1, ZenonT(120)
    <3>3. QED
      BY <3>2, ZenonT(120) DEF BlockedDue
  <2>4. QED
    BY <1>1, <1>2, <1>3, <2>2, <2>3, SMTT(120) DEF IInv, Origins
\* Evidence of a selected lookup, and a quarantine that runs, keep their entry.
<1>11. ASSUME NEW k \in DOMAIN hints, hints[k].tunnel \/ now < hints[k].unknownUntil
       PROVE  k \in DOMAIN hints' /\ hints'[k] = hints[k]
  <2>1. hints[k].unknownUntil \in Nat
    BY Zenon DEF IInv, Types, Entries
  <2>2. k \notin gone
    <3>1. now \in Nat /\ (now >= hints[k].unknownUntil => ~(now < hints[k].unknownUntil))
      BY <2>1, Clock, SMTT(120)
    <3>2. QED
      BY <1>11, <3>1, ZenonT(120)
  <2>3. QED
    BY <1>4, <2>2, ZenonT(120)
<1> HIDE DEF gone
<1>12. ASSUME NEW i \in DOMAIN log', log[i].status = "lost"
       PROVE  EventInv(i)'
  <2>1. i \in DOMAIN log /\ EventInv(i)
    BY <1>1, <1>5, ZenonT(120)
  <2>2. /\ log'[i].status = "reported" /\ log'[i].at = now
        /\ log'[i].gen = log[i].gen /\ log'[i].doneAt = log[i].doneAt
    BY <1>6, <1>12, <2>1, ZenonT(120)
  <2>3. log[i].doneAt = 0 /\ log[i].gen <= generations
    BY <1>12, <2>1, ZenonT(120) DEF EventInv
  <2>4. QED
    BY <1>1, <1>2, <1>3, <2>2, <2>3, SMTT(120) DEF EventInv, Undone
<1>13. ASSUME NEW i \in DOMAIN log', log[i].status # "lost"
       PROVE  EventInv(i)'
  <2> DEFINE k == log[i].key
  <2>1. /\ i \in DOMAIN log /\ log'[i] = log[i] /\ EventInv(i)
        /\ log[i].at \in Nat /\ log[i].doneAt \in Nat /\ log[i].app \in {"selected", "unlisted"}
    BY <1>1, <1>5, <1>13, ZenonT(120) DEF Events, Apps
  <2>2. (Lives(i)' <=> Lives(i)) /\ (Undone(i)' <=> Undone(i))
    BY <1>2, <2>1, ZenonT(120) DEF Lives, Undone
  <2>3. log[i].at + LIFETIME <= directBlockedUntil'
    BY <1>1, <1>3, <2>1, SMTT(120) DEF EventInv
  <2>4. ASSUME log[i].status = "unknown", Lives(i)
        PROVE  /\ k \in DOMAIN hints' /\ log[i].at + LIFETIME <= hints'[k].unknownUntil
               /\ log[i].at + LIFETIME <= hints'[k].expires
    <3>1. /\ k \in DOMAIN hints /\ log[i].at + LIFETIME <= hints[k].unknownUntil
          /\ log[i].at + LIFETIME <= hints[k].expires
      BY <2>1, <2>4, ZenonT(120) DEF EventInv
    <3>2. hints[k].unknownUntil \in Nat
      BY <3>1, ZenonT(120) DEF IInv, Types, Entries
    <3>3. now < hints[k].unknownUntil
      BY <2>1, <2>4, <3>1, <3>2, Clock, Times, SMTT(120) DEF Lives
    <3>4. QED
      BY <1>11, <3>1, <3>3, Zenon
  <2>5. ASSUME Undone(i), log[i].app = "selected"
        PROVE  Held(i)'
    <3>1. Held(i)
      BY <2>1, <2>5, ZenonT(120) DEF EventInv
    <3>2. k \in DOMAIN hints' /\ hints'[k] = hints[k]
      BY <1>11, <2>5, <3>1, ZenonT(120) DEF Held
    <3>3. QED
      BY <2>1, <3>1, <3>2, ZenonT(120) DEF Held
  <2>6. ASSUME Marked(i)
        PROVE  Marked(i)'
    <3>1. k \in DOMAIN hints /\ hints[k].selectedAnswered
      BY <2>6, ZenonT(120) DEF Marked
    <3>2. hints[k].tunnel
      BY <3>1, ZenonT(120) DEF IInv, Sound
    <3>3. k \in DOMAIN hints' /\ hints'[k] = hints[k]
      BY <1>11, <3>1, <3>2, ZenonT(120)
    <3>4. QED
      BY <2>1, <2>6, <3>3, ZenonT(120) DEF Marked
  <2>7. QED
    BY <1>2, <2>1, <2>2, <2>3, <2>4, <2>5, <2>6, ZenonT(120) DEF EventInv
<1>14. ASSUME NEW w \in Workers
       PROVE  Fits(w)'
  <2>1. Fits(w) /\ worker'[w] = worker[w]
    BY <1>2, Zenon DEF IInv
  <2>2. ASSUME NEW i \in DOMAIN log', Undone(i)'
        PROVE  Undone(i) /\ i \in DOMAIN log /\ log'[i] = log[i]
    <3>1. i \in DOMAIN log /\ log'[i].status = "seen"
      BY <1>5, <2>2, ZenonT(120) DEF Undone
    <3>2. log'[i] = log[i]
      BY <1>5, <1>6, <3>1, ZenonT(120)
    <3>3. QED
      BY <1>2, <2>2, <3>1, <3>2, ZenonT(120) DEF Undone, Lives
  <2>3. ASSUME NEW k \in DOMAIN hints, hints[k].decision = "Tunnel"
        PROVE  k \in DOMAIN hints' /\ hints'[k].decision = "Tunnel"
    <3>1. hints[k].tunnel
      BY <2>3, ZenonT(120) DEF IInv, Sound
    <3>2. QED
      BY <1>11, <2>3, <3>1, ZenonT(120)
  <2>4. QED
    BY <1>2, <1>7, <2>1, <2>2, <2>3, ZenonT(120) DEF Fits
<1>15. QED
  BY <1>8, <1>9, <1>10, <1>12, <1>13, <1>14, ZenonT(120) DEF IInv
-----------------------------------------------------------------------------
(* A completed exchange.                                                   *)

\* complete() marks a selected exchange, and finalizes the evidence it was decided on.
LEMMA CompletedFacts ==
    ASSUME Types, NEW p \in Entries, Sound(p), NEW g \in Nat, NEW q, q = Completed(p, g)
    PROVE  /\ q \in Entries /\ Sound(q) /\ p.expires <= q.expires
           /\ q.unknownUntil = p.unknownUntil /\ q.generation = p.generation
           /\ q.tunnel = p.tunnel /\ q.selected = p.selected /\ q.direct = p.direct
           /\ q.decision = p.decision
           /\ p.selectedAnswered => q.selectedAnswered /\ p.selectedAnsweredAt <= q.selectedAnsweredAt
           /\ p.decision = "Tunnel" /\ p.selected => q.selectedAnswered /\ q.selectedAnsweredAt = now
           /\ g # p.generation => q.answered = p.answered
<1> DEFINE m == IF p.decision = "Tunnel" /\ p.selected
                THEN [p EXCEPT !.selectedAnswered = TRUE, !.selectedAnsweredAt = now,
                               !.expires = LatestOf(@, now + REUSE)]
                ELSE p
<1>1. now \in Nat /\ REUSE \in Nat /\ p.expires \in Nat
  BY Times, Zenon DEF Types, Entries
<1>2. /\ m \in Entries /\ Sound(m) /\ p.expires <= m.expires
      /\ m.unknownUntil = p.unknownUntil /\ m.generation = p.generation
      /\ m.tunnel = p.tunnel /\ m.selected = p.selected /\ m.direct = p.direct
      /\ m.decision = p.decision
      /\ p.selectedAnswered => m.selectedAnswered /\ p.selectedAnsweredAt <= m.selectedAnsweredAt
      /\ p.decision = "Tunnel" /\ p.selected => m.selectedAnswered /\ m.selectedAnsweredAt = now
      /\ m.answered = p.answered
  <2>1. CASE p.decision = "Tunnel" /\ p.selected
    <3> DEFINE n == [p EXCEPT !.selectedAnswered = TRUE, !.selectedAnsweredAt = now,
                              !.expires = LatestOf(@, now + REUSE)]
    <3>0. LatestOf(p.expires, now + REUSE) \in Nat /\ p.expires <= LatestOf(p.expires, now + REUSE)
      BY <1>1 DEF LatestOf
    <3>1. n \in Entries /\ p.expires <= n.expires
      BY <1>1, <3>0, ZenonT(120) DEF Entries
    <3>2. /\ n.unknownUntil = p.unknownUntil /\ n.generation = p.generation
          /\ n.tunnel = p.tunnel /\ n.selected = p.selected /\ n.direct = p.direct
          /\ n.decision = p.decision /\ n.answered = p.answered
          /\ n.selectedAnswered = TRUE /\ n.selectedAnsweredAt = now
      BY Zenon DEF Entries
    <3>3. m = n
      BY <2>1, ZenonT(120)
    <3> HIDE DEF n, m
    <3>4. Sound(n)
      BY <1>1, <2>1, <3>1, <3>2, SMTT(120) DEF Sound, Entries
    <3>5. QED
      BY <2>1, <3>1, <3>2, <3>3, <3>4, ZenonT(120) DEF Sound
  <2>2. CASE ~(p.decision = "Tunnel" /\ p.selected)
    <3>1. m = p
      BY <2>2, ZenonT(120)
    <3> HIDE DEF m
    <3>2. QED
      BY <1>1, <2>2, <3>1, SMTT(120) DEF Entries
  <2>3. QED
    BY <2>1, <2>2, ZenonT(120)
<1> HIDE DEF m
<1>3. q = IF g # p.generation THEN m ELSE [m EXCEPT !.answered = TRUE, !.answeredAt = now]
  BY <1>2, ZenonT(120) DEF Completed, m
<1>4. CASE g # p.generation
  <2>1. q = m
    BY <1>3, <1>4, ZenonT(120)
  <2>2. QED
    BY <1>2, <1>4, <2>1, ZenonT(120)
<1>5. CASE g = p.generation
  <2>1. q = [m EXCEPT !.answered = TRUE, !.answeredAt = now]
    BY <1>3, <1>5, ZenonT(120)
  <2>2. q \in Entries
    BY <1>1, <1>2, <2>1, ZenonT(120) DEF Entries
  <2>3. /\ q.unknownUntil = m.unknownUntil /\ q.generation = m.generation /\ q.expires = m.expires
        /\ q.tunnel = m.tunnel /\ q.selected = m.selected /\ q.direct = m.direct
        /\ q.decision = m.decision
        /\ q.selectedAnswered = m.selectedAnswered /\ q.selectedAnsweredAt = m.selectedAnsweredAt
    BY <1>2, <2>1, ZenonT(120) DEF Entries
  <2>4. Sound(q)
    BY <1>2, <2>3, ZenonT(120) DEF Sound
  <2>5. QED
    BY <1>2, <1>5, <2>2, <2>3, <2>4, ZenonT(120)
<1>6. QED
  BY <1>4, <1>5, ZenonT(120)

\* complete() marks the events its exchange has answered, and leaves the mark of a selected one.
LEMMA CompleteStep ==
    ASSUME IInv, NEW w \in Workers, Complete(w)
    PROVE  IInv'
<1> DEFINE k == worker[w].key
           g == worker[w].generation
           done(i) == log[i].key = k /\ log[i].status = "seen" /\ log[i].gen <= g /\ log[i].doneAt = 0
<1>1. /\ now \in Nat \ {0} /\ LIFETIME \in Nat /\ REUSE \in Nat /\ 0 < REUSE /\ generations \in Nat
      /\ log \in Seq(Events) /\ \A i \in DOMAIN log : log[i] \in Events /\ EventInv(i)
  BY Times DEF IInv, Types
<1>2. UNCHANGED <<now, nextExpiry, overloadedUntil, directBlockedUntil, generations>>
  BY ZenonT(120) DEF Complete
<1>3. worker[w].pc = "complete" /\ k \in Keys /\ g \in Nat
  BY SMTT(120) DEF Complete, IInv, Types, Threads, Idle
<1>4. /\ worker' \in [Workers -> Threads] /\ worker'[w].pc = "idle"
      /\ \A v \in Workers : v # w => worker'[v] = worker[v]
  <2>1. Idle \in Threads /\ Idle.pc = "idle"
    BY Zenon DEF Idle, Threads
  <2>2. Goto(w, Idle)
    BY Zenon DEF Complete
  <2>3. QED
    BY <2>1, <2>2, GotoFacts, Zenon DEF IInv
<1>5. /\ DOMAIN log' = DOMAIN log /\ log' = [i \in DOMAIN log |-> log'[i]]
      /\ \A i \in DOMAIN log : ~done(i) => log'[i] = log[i]
      /\ \A i \in DOMAIN log : done(i) => log'[i] = [log[i] EXCEPT !.doneAt = now]
  BY ZenonT(120) DEF Complete
<1>6. \A i \in DOMAIN log : done(i) =>
         /\ log'[i] \in Events /\ log'[i].status = "seen" /\ log'[i].at = log[i].at
         /\ log'[i].key = k /\ log'[i].app = log[i].app
         /\ log'[i].gen = log[i].gen /\ log'[i].doneAt = now
  <2>1. SUFFICES ASSUME NEW i \in DOMAIN log, done(i)
                 PROVE  /\ log'[i] \in Events /\ log'[i].status = "seen" /\ log'[i].at = log[i].at
                        /\ log'[i].key = k /\ log'[i].app = log[i].app
                        /\ log'[i].gen = log[i].gen /\ log'[i].doneAt = now
    BY Zenon
  <2>2. log[i] \in Events /\ now \in Nat /\ log'[i] = [log[i] EXCEPT !.doneAt = now]
    BY <1>1, <1>5, <2>1, ZenonT(120)
  <2>3. QED
    BY <2>1, <2>2, ZenonT(120) DEF Events
<1>7. log' \in Seq(Events) /\ Len(log') = Len(log) /\ Len(log) \in Nat
  <2>1. \A i \in DOMAIN log : log'[i] \in Events
    BY <1>1, <1>5, <1>6, ZenonT(120)
  <2>2. QED
    BY <1>1, <1>5, <2>1, LogRewritten, ZenonT(120)
<1>8. \A x \in DOMAIN hints : /\ x \in Keys /\ hints[x] \in Entries /\ Sound(hints[x])
                              /\ hints[x].generation \in 1..generations
  BY Zenon DEF IInv, Types
<1>9. /\ DOMAIN hints' = DOMAIN hints
      /\ \A x \in DOMAIN hints : x # k => hints'[x] = hints[x]
      /\ k \in DOMAIN hints => hints'[k] = Completed(hints[k], g)
  BY Zenon DEF Complete
<1>10. ASSUME NEW x \in DOMAIN hints
       PROVE  /\ hints'[x] \in Entries /\ Sound(hints'[x]) /\ hints[x].expires <= hints'[x].expires
              /\ hints'[x].unknownUntil = hints[x].unknownUntil
              /\ hints'[x].generation = hints[x].generation
              /\ hints'[x].tunnel = hints[x].tunnel /\ hints'[x].selected = hints[x].selected
              /\ hints'[x].direct = hints[x].direct /\ hints'[x].decision = hints[x].decision
              /\ hints[x].selectedAnswered =>
                    hints'[x].selectedAnswered /\ hints[x].selectedAnsweredAt <= hints'[x].selectedAnsweredAt
              /\ x = k /\ hints[x].decision = "Tunnel" /\ hints[x].selected =>
                    hints'[x].selectedAnswered /\ hints'[x].selectedAnsweredAt = now
              /\ x # k \/ g # hints[x].generation => hints'[x].answered = hints[x].answered
  <2>1. CASE x = k
    <3>1. /\ Types /\ g \in Nat /\ hints[x] \in Entries /\ Sound(hints[x])
          /\ hints'[x] = Completed(hints[x], g)
      BY <1>3, <1>8, <1>9, <2>1, ZenonT(120) DEF IInv
    <3> HIDE DEF g, k
    <3>2. QED
      BY <2>1, <3>1, CompletedFacts, SMTT(120)
  <2>2. CASE x # k
    BY <1>8, <1>9, <2>2, SMTT(120) DEF Entries
  <2>3. QED
    BY <2>1, <2>2, ZenonT(120)
<1> HIDE DEF done
<1>11. Types'
  <2>1. \A x \in DOMAIN hints' : hints'[x] \in Entries /\ hints'[x].generation \in 1..generations'
    BY <1>2, <1>8, <1>9, <1>10, ZenonT(120)
  <2>2. DOMAIN hints' \subseteq Keys
    BY <1>8, <1>9, ZenonT(120)
  <2>3. QED
    BY <1>2, <1>4, <1>7, <2>1, <2>2, ZenonT(120) DEF IInv, Types
<1>12. \A x \in DOMAIN hints' : Sound(hints[x])'
  BY <1>2, <1>9, <1>10, ZenonT(120) DEF Sound
<1>13. Origins'
  <2>1. OriginsStay
    <3>1. \A i \in DOMAIN log : log[i].status \in {"reported", "dropped", "unknown"} => ~done(i)
      BY Zenon DEF done
    <3>2. QED
      BY <1>5, <3>1, ZenonT(120) DEF OriginsStay
  <2>2. BlockedDue' /\ OverloadDue' /\ \A x \in DOMAIN hints' : UnknownDue(x)'
    BY <1>2, <1>9, <1>10, <2>1, DueStays, ZenonT(120) DEF IInv
  <2>3. QED
    BY <1>2, <2>2, ZenonT(120) DEF IInv, Origins
<1>14. ASSUME NEW i \in DOMAIN log, done(i)
       PROVE  EventInv(i)'
  <2>1. /\ log[i].at \in Nat /\ log[i].at <= now /\ log[i].gen <= generations
        /\ log[i].key = k /\ log[i].status = "seen" /\ log[i].gen <= g /\ log[i].doneAt = 0
    BY <1>1, <1>14, ZenonT(120) DEF Events, EventInv, done
  <2>2. ASSUME log[i].app = "selected", Lives(i)
        PROVE  Marked(i)'
    <3>1. Undone(i)
      BY <2>1, <2>2, ZenonT(120) DEF Undone
    <3>2. k \in DOMAIN hints /\ hints[k].decision = "Tunnel"
      BY <1>3, <2>1, <2>2, <3>1, ZenonT(120) DEF IInv, Fits
    <3>3. Held(i)
      BY <1>1, <2>2, <3>1, ZenonT(120) DEF EventInv
    <3>4. hints[k].selected /\ log[i].at + LIFETIME <= hints[k].expires
      BY <2>1, <2>2, <3>3, ZenonT(120) DEF Held
    <3>5. /\ k \in DOMAIN hints' /\ hints'[k].selectedAnswered /\ hints'[k].selectedAnsweredAt = now
          /\ hints[k].expires <= hints'[k].expires /\ hints'[k].expires \in Nat /\ hints[k].expires \in Nat
      BY <1>8, <1>9, <1>10, <3>2, <3>4, ZenonT(120) DEF Entries
    <3>6. log[i].at + LIFETIME <= hints'[k].expires
      BY <2>1, <3>4, <3>5, Times, SMTT(120)
    <3>7. QED
      <4>1. log'[i].key = k /\ log'[i].at = log[i].at /\ log'[i].doneAt = now
        BY <1>1, <1>6, <1>14, ZenonT(120)
      <4>2. now <= hints'[k].selectedAnsweredAt
        BY <3>5, Clock, SMTT(120)
      <4>3. QED
        BY <3>5, <3>6, <4>1, <4>2, ZenonT(120) DEF Marked
  <2>3. Lives(i)' <=> Lives(i)
    BY <1>2, <1>6, <1>14, ZenonT(120) DEF Lives
  <2>4. /\ log'[i].status = "seen" /\ log'[i].at = log[i].at /\ log'[i].app = log[i].app
        /\ log'[i].gen = log[i].gen /\ log'[i].doneAt = now /\ now' = now /\ generations' = generations
    BY <1>2, <1>6, <1>14, ZenonT(120)
  <2>5. log'[i].at <= now' /\ log'[i].doneAt <= now' /\ log'[i].gen <= generations'
    <3>1. now <= now
      BY Clock
    <3>2. QED
      BY <2>1, <2>4, <3>1, ZenonT(120)
  <2>6. ~Undone(i)'
    BY <2>4, Clock, ZenonT(120) DEF Undone
  <2>7. log'[i].app = "selected" /\ Lives(i)' => Marked(i)'
    BY <2>2, <2>3, <2>4, ZenonT(120)
  <2>8. QED
    BY <2>4, <2>5, <2>6, <2>7, ZenonT(120) DEF EventInv
<1>15. ASSUME NEW i \in DOMAIN log, ~done(i)
       PROVE  EventInv(i)'
  <2> DEFINE x == log[i].key
  <2>1. /\ log'[i] = log[i] /\ log[i].at \in Nat /\ log[i].doneAt \in Nat /\ log[i].gen \in Nat
        /\ EventInv(i)
    <3>1. log'[i] = log[i] /\ log[i] \in Events /\ EventInv(i)
      BY <1>1, <1>5, <1>15, ZenonT(120)
    <3>2. QED
      BY <3>1, ZenonT(120) DEF Events
  <2>2. (Lives(i)' <=> Lives(i)) /\ (Undone(i)' <=> Undone(i))
    BY <1>2, <2>1, ZenonT(120) DEF Lives, Undone
  <2>3. ASSUME Undone(i), Held(i)
        PROVE  Held(i)'
    <3>1. /\ x \in DOMAIN hints /\ log[i].at + LIFETIME <= hints[x].expires
          /\ log[i].gen <= hints[x].generation /\ ~hints[x].answered
      BY <2>3, ZenonT(120) DEF Held
    <3>2. x # k \/ g # hints[x].generation
      <4>1. CASE x = k
        <5>1. ~(log[i].gen <= g)
          BY <1>15, <2>3, <4>1, ZenonT(120) DEF done, Undone
        <5>2. QED
          BY <1>3, <2>1, <3>1, <5>1, ZenonT(120)
      <4>2. QED
        BY <4>1, ZenonT(120)
    <3>3. hints[x].expires \in Nat /\ hints'[x].expires \in Nat /\ hints[x].expires <= hints'[x].expires
      BY <1>8, <1>10, <3>1, ZenonT(120) DEF Entries
    <3>4. log[i].at + LIFETIME <= hints'[x].expires
      BY <2>1, <3>1, <3>3, Times, SMTT(120)
    <3>5. /\ x \in DOMAIN hints' /\ hints'[x].generation = hints[x].generation
          /\ hints'[x].answered = hints[x].answered /\ hints'[x].tunnel = hints[x].tunnel
          /\ hints'[x].selected = hints[x].selected /\ hints'[x].direct = hints[x].direct
      BY <1>9, <1>10, <3>1, <3>2, ZenonT(120)
    <3>6. /\ log[i].app = "selected" => hints[x].tunnel /\ hints[x].selected
          /\ log[i].app = "unlisted" => hints[x].direct
      BY <2>3, ZenonT(120) DEF Held
    <3>7. log'[i] = log[i]
      BY <2>1, ZenonT(120)
    <3>8. QED
      BY <3>1, <3>4, <3>5, <3>6, <3>7, ZenonT(120) DEF Held
  <2>4. ASSUME Marked(i)
        PROVE  Marked(i)'
    <3>1. /\ x \in DOMAIN hints /\ log[i].at + LIFETIME <= hints[x].expires
          /\ hints[x].selectedAnswered /\ log[i].doneAt <= hints[x].selectedAnsweredAt
      BY <2>4, ZenonT(120) DEF Marked
    <3>2. /\ hints[x] \in Entries /\ hints'[x] \in Entries /\ hints[x].expires <= hints'[x].expires
          /\ hints'[x].selectedAnswered /\ hints[x].selectedAnsweredAt <= hints'[x].selectedAnsweredAt
      BY <1>8, <1>10, <3>1, ZenonT(120)
    <3>3. /\ hints[x].expires \in Nat /\ hints'[x].expires \in Nat
          /\ hints[x].selectedAnsweredAt \in Nat /\ hints'[x].selectedAnsweredAt \in Nat
      BY <3>2, ZenonT(120) DEF Entries
    <3>4. log[i].at + LIFETIME <= hints'[x].expires /\ log[i].doneAt <= hints'[x].selectedAnsweredAt
      <4>1. log[i].at + LIFETIME \in Nat
        BY <2>1, Times, SMTT(120)
      <4>2. QED
        BY <2>1, <3>1, <3>2, <3>3, <4>1, SMTT(120)
    <3>5. QED
      BY <1>9, <2>1, <3>1, <3>2, <3>4, ZenonT(120) DEF Marked
  <2>5. ASSUME log[i].status = "unknown", Lives(i)
        PROVE  /\ x \in DOMAIN hints' /\ log[i].at + LIFETIME <= hints'[x].unknownUntil
               /\ log[i].at + LIFETIME <= hints'[x].expires
    <3>1. /\ x \in DOMAIN hints /\ log[i].at + LIFETIME <= hints[x].unknownUntil
          /\ log[i].at + LIFETIME <= hints[x].expires
      BY <2>1, <2>5, ZenonT(120) DEF EventInv
    <3>2. /\ hints[x] \in Entries /\ hints'[x] \in Entries /\ hints[x].expires <= hints'[x].expires
          /\ hints'[x].unknownUntil = hints[x].unknownUntil
      BY <1>8, <1>10, <3>1, ZenonT(120)
    <3>3. hints[x].expires \in Nat /\ hints'[x].expires \in Nat
      BY <3>2, ZenonT(120) DEF Entries
    <3>4. log[i].at + LIFETIME \in Nat
      BY <2>1, Times
    <3>5. x \in DOMAIN hints' /\ hints'[x].unknownUntil = hints[x].unknownUntil
      BY <1>9, <3>1, <3>2, ZenonT(120)
    <3>6. QED
      BY <3>1, <3>2, <3>3, <3>4, <3>5, SMTT(120)
  <2>6. QED
    BY <1>2, <2>1, <2>2, <2>3, <2>4, <2>5, ZenonT(120) DEF EventInv
<1>16. ASSUME NEW v \in Workers
       PROVE  Fits(v)'
  <2>1. CASE v = w
    BY <1>4, <2>1, ZenonT(120) DEF Fits
  <2>2. CASE v # w
    <3>1. Fits(v) /\ worker'[v] = worker[v]
      BY <1>4, <2>2, ZenonT(120) DEF IInv
    <3>2. ASSUME NEW i \in DOMAIN log', Undone(i)'
          PROVE  Undone(i) /\ i \in DOMAIN log /\ log'[i] = log[i]
      <4>1. i \in DOMAIN log /\ ~done(i)
        BY <1>1, <1>5, <1>6, <3>2, ZenonT(120) DEF Undone
      <4>2. log'[i] = log[i]
        BY <1>5, <4>1, ZenonT(120)
      <4>3. QED
        BY <1>2, <3>2, <4>1, <4>2, ZenonT(120) DEF Undone, Lives
    <3>3. \A x \in DOMAIN hints : x \in DOMAIN hints' /\ hints'[x].decision = hints[x].decision
      BY <1>9, <1>10, ZenonT(120)
    <3>4. QED
      BY <1>2, <1>7, <3>1, <3>2, <3>3, ZenonT(120) DEF Fits
  <2>3. QED
    BY <2>1, <2>2, ZenonT(120)
<1>17. QED
  BY <1>5, <1>11, <1>12, <1>13, <1>14, <1>15, <1>16, ZenonT(120) DEF IInv

-----------------------------------------------------------------------------
(* The theorems.                                                           *)

\* An empty table remembers an empty log.
LEMMA InitIInv ==
    ASSUME Init
    PROVE  IInv
<1>1. /\ DOMAIN hints = {} /\ DOMAIN log = {} /\ log \in Seq(Events) /\ now = 1
      /\ nextExpiry = 0 /\ overloadedUntil = 0 /\ directBlockedUntil = 0 /\ generations = 0
  BY DEF Init
<1>2. worker \in [Workers -> Threads] /\ \A w \in Workers : worker[w].pc = "idle"
  BY Zenon DEF Init, Idle, Threads
<1>3. Types
  BY <1>1, <1>2, SMTT(120) DEF Types
<1>4. Origins
  BY <1>1, Times DEF Origins, BlockedDue, OverloadDue
<1>5. \A w \in Workers : Fits(w)
  BY <1>2, Zenon DEF Fits
<1>6. QED
  BY <1>1, <1>3, <1>4, <1>5, ZenonT(120) DEF IInv

\* Every step of the trace, the consumer, the flusher and the workers preserves the invariant.
LEMMA NextIInv ==
    ASSUME IInv, [Next]_vars
    PROVE  IInv'
<1>1. CASE Tick
  BY <1>1, TickStep, Zenon
<1>2. ASSUME NEW k \in Keys, NEW app \in Apps, LogQuery(k, app)
      PROVE  IInv'
  BY <1>2, LogQueryStep, ZenonT(120)
<1>3. ASSUME NEW i \in DOMAIN log, LoseEvent(i) \/ ProcessEvent(i)
      PROVE  IInv'
  BY <1>3, LoseEventStep, ProcessEventStep, ZenonT(120)
<1>4. CASE LostEvents
  BY <1>4, LostEventsStep, SMTT(120)
<1>5. ASSUME NEW w \in Workers,
             \/ \E k \in Keys : Receive(w, k)
             \/ Take(w) \/ TakeTimesOut(w) \/ TakeDecides(w)
             \/ Exchange(w) \/ Withhold(w) \/ Deliver(w)
             \/ Complete(w) \/ SendFails(w)
      PROVE  IInv'
  <2>1. CASE \E k \in Keys : Receive(w, k)
    BY <2>1, ReceiveStep, ZenonT(120)
  <2>2. CASE Take(w)
    BY <2>2, TakeStep, ZenonT(120)
  <2>3. CASE TakeTimesOut(w) \/ Withhold(w) \/ SendFails(w)
    BY <2>3, IdleStep, ZenonT(120) DEF TakeTimesOut, Withhold, SendFails
  <2>4. CASE TakeDecides(w)
    BY <2>4, TakeDecidesStep, SMTT(120)
  <2>5. CASE Exchange(w)
    BY <2>5, ExchangeStep, SMTT(120)
  <2>6. CASE Deliver(w)
    BY <2>6, DeliverStep
  <2>7. CASE Complete(w)
    BY <2>7, CompleteStep
  <2>8. QED
    BY <1>5, <2>1, <2>2, <2>3, <2>4, <2>5, <2>6, <2>7, ZenonT(120)
<1>6. CASE UNCHANGED vars
  <2>1. /\ TableStep(hints') /\ nextExpiry' \in Nat /\ worker' \in [Workers -> Threads]
        /\ UNCHANGED <<now, log, overloadedUntil, directBlockedUntil, generations, worker>>
    BY <1>6, SameTable, ZenonT(120) DEF vars, IInv, Types
  <2>2. QED
    BY <2>1, QuietStep, ZenonT(120)
<1>7. QED
  BY <1>1, <1>2, <1>3, <1>4, <1>5, <1>6, ZenonT(120) DEF Next

\* The table remembers what it must of every logged event, in every state (class Hints).
THEOREM Invariance == Spec => []IInv
<1>1. Init => IInv
  BY InitIInv, Zenon
<1>2. IInv /\ [Next]_vars => IInv'
  BY NextIInv, Zenon
<1>3. QED
  BY <1>1, <1>2, PTL DEF Spec

\* A decision or provenance that names the tunnel is backed by tunnel evidence, which lostEvents
\* never erases (Hints::decide, retire, complete).
THEOREM TunnelIsBacked == Spec => []TunnelBacked
<1>1. IInv => TunnelBacked
  BY Zenon DEF IInv, Sound, TunnelBacked
<1>2. QED
  BY <1>1, Invariance, PTL

\* A selected event of the name that still speaks for it, and is accounted for, shows in the table.
LEMMA SpeakingShows ==
    ASSUME IInv, NEW i \in DOMAIN log, SpeaksForSelected(i), log[i].status \notin {"logged", "lost"}
    PROVE  LET k == log[i].key
           IN  \/ now < directBlockedUntil
               \/ now < overloadedUntil
               \/ k \in DOMAIN hints /\ now < hints[k].unknownUntil
               \/ k \in DOMAIN hints /\ hints[k].tunnel /\ now < hints[k].expires
<1> DEFINE k == log[i].key
<1>1. /\ now \in Nat /\ LIFETIME \in Nat /\ REUSE \in Nat /\ log[i] \in Events /\ EventInv(i)
      /\ directBlockedUntil \in Nat /\ overloadedUntil \in Nat
  BY Times DEF IInv, Types
<1>2. /\ log[i].at \in Nat /\ log[i].doneAt \in Nat
      /\ log[i].status \in {"reported", "dropped", "unknown", "seen"}
  BY <1>1, ZenonT(120) DEF Events
<1>3. /\ log[i].app = "selected" /\ Lives(i)
      /\ log[i].doneAt = 0 \/ now < log[i].doneAt + REUSE
  BY Zenon DEF SpeaksForSelected, Lives
<1>4. k \in DOMAIN hints => hints[k] \in Entries /\ Sound(hints[k])
  BY ZenonT(120) DEF IInv, Types
<1>a. log[i].at + LIFETIME \in Nat /\ now < log[i].at + LIFETIME
  BY <1>2, <1>3, Times, SMTT(120) DEF Lives
<1>5. CASE log[i].status = "reported"
  <2>1. log[i].at + LIFETIME <= directBlockedUntil
    BY <1>1, <1>3, <1>5, ZenonT(120) DEF EventInv
  <2>2. QED
    BY <1>1, <1>a, <2>1, SMTT(120)
<1>6. CASE log[i].status = "dropped"
  <2>1. log[i].at + LIFETIME <= overloadedUntil
    BY <1>1, <1>3, <1>6, ZenonT(120) DEF EventInv
  <2>2. QED
    BY <1>1, <1>a, <2>1, SMTT(120)
<1>7. CASE log[i].status = "unknown"
  <2>1. k \in DOMAIN hints /\ log[i].at + LIFETIME <= hints[k].unknownUntil
    BY <1>1, <1>3, <1>7, ZenonT(120) DEF EventInv
  <2>2. hints[k].unknownUntil \in Nat
    BY <1>4, <2>1, ZenonT(120) DEF Entries
  <2>3. QED
    BY <1>1, <1>a, <2>1, <2>2, SMTT(120)
<1>8. CASE log[i].status = "seen" /\ log[i].doneAt = 0
  <2>1. Held(i)
    BY <1>1, <1>3, <1>8, ZenonT(120) DEF EventInv, Undone
  <2>2. QED
    BY <1>1, <1>2, <1>3, <1>4, <2>1, SMTT(120) DEF Held, Lives, Entries
<1>9. CASE log[i].status = "seen" /\ log[i].doneAt # 0
  <2>1. Marked(i)
    BY <1>1, <1>3, <1>9, ZenonT(120) DEF EventInv
  <2>2. QED
    BY <1>1, <1>2, <1>3, <1>4, <2>1, SMTT(120) DEF Marked, Lives, Sound, Entries
<1>10. QED
  BY <1>2, <1>5, <1>6, <1>7, <1>8, <1>9, ZenonT(120)

\* Where a thread can go in one step.
LEMMA OneThread ==
    ASSUME IInv, [Next]_vars, NEW w \in Workers
    PROVE  /\ worker[w].pc = "barrier" =>
                 worker'[w] = worker[w] \/ TakeTimesOut(w) \/ TakeDecides(w)
           /\ worker[w].pc = "deliver" =>
                 worker'[w] = worker[w] \/ Withhold(w) \/ Deliver(w)
<1>1. worker \in [Workers -> Threads]
  BY ZenonT(120) DEF IInv, Types
<1>2. ASSUME NEW v \in Workers, v # w,
             \/ \E k \in Keys : Receive(v, k)
             \/ Take(v) \/ TakeTimesOut(v) \/ TakeDecides(v)
             \/ Exchange(v) \/ Withhold(v) \/ Deliver(v)
             \/ Complete(v) \/ SendFails(v)
      PROVE  worker'[w] = worker[w]
  BY <1>1, <1>2, ZenonT(120) DEF Receive, Take, TakeTimesOut, TakeDecides, Exchange, Withhold, Deliver, Complete,
                    SendFails, Goto
<1>3. ASSUME \/ \E k \in Keys : Receive(w, k)
             \/ Take(w) \/ TakeTimesOut(w) \/ TakeDecides(w)
             \/ Exchange(w) \/ Withhold(w) \/ Deliver(w)
             \/ Complete(w) \/ SendFails(w)
      PROVE  /\ worker[w].pc = "barrier" => TakeTimesOut(w) \/ TakeDecides(w)
             /\ worker[w].pc = "deliver" => Withhold(w) \/ Deliver(w)
  <2>1. \A k \in Keys : Receive(w, k) => worker[w].pc = "idle"
    BY DEF Receive, Idle
  <2>2. Take(w) => worker[w].pc = "take"
    BY Zenon DEF Take
  <2>3. Exchange(w) => worker[w].pc = "exchange"
    BY Zenon DEF Exchange
  <2>4. Complete(w) \/ SendFails(w) => worker[w].pc = "complete"
    BY Zenon DEF Complete, SendFails
  <2>5. TakeTimesOut(w) \/ TakeDecides(w) => worker[w].pc = "barrier"
    BY ZenonT(120) DEF TakeTimesOut, TakeDecides
  <2>6. Withhold(w) \/ Deliver(w) => worker[w].pc = "deliver"
    BY Zenon DEF Withhold, Deliver
  <2>7. QED
    BY <1>3, <2>1, <2>2, <2>3, <2>4, <2>5, <2>6, ZenonT(120)
<1>4. CASE \/ Tick \/ LostEvents \/ UNCHANGED vars
           \/ \E k \in Keys, app \in Apps : LogQuery(k, app)
           \/ \E i \in DOMAIN log : LoseEvent(i) \/ ProcessEvent(i)
  <2>1. UNCHANGED worker
    BY <1>4, ZenonT(120) DEF Tick, LostEvents, vars, LogQuery, LoseEvent, ProcessEvent, AddResolved
  <2>2. QED
    BY <2>1, ZenonT(120)
<1>5. CASE \E v \in Workers :
              \/ \E k \in Keys : Receive(v, k)
              \/ Take(v) \/ TakeTimesOut(v) \/ TakeDecides(v)
              \/ Exchange(v) \/ Withhold(v) \/ Deliver(v)
              \/ Complete(v) \/ SendFails(v)
  BY <1>2, <1>3, <1>5, ZenonT(120)
<1>6. QED
  BY <1>4, <1>5, ZenonT(120) DEF Next

\* The events before a barrier are events of the log.
LEMMA NeedCovered ==
    ASSUME IInv, NEW w \in Workers, worker[w].pc \in {"barrier", "deliver"}, NEW i \in 1..worker[w].need
    PROVE  i \in DOMAIN log /\ worker[w].key \in Keys
<1>1. /\ worker[w] \in Threads /\ Fits(w) /\ Len(log) \in Nat /\ DOMAIN log = 1..Len(log)
  BY SMTT(120) DEF IInv, Types
<1>2. worker[w].need \in Nat /\ worker[w].key \in Keys
  BY <1>1 DEF Threads, Idle
<1>3. worker[w].need <= Len(log)
  BY <1>1, Zenon DEF Fits
<1>4. QED
  BY <1>1, <1>2, <1>3, SMTT(120)

\* No packet is routed to the physical resolver while a selected query event for its name, logged
\* before the packet's barrier began, still speaks for the name (Hints::take).
THEOREM DirectRoutesAreSafe == Spec => [][RoutesSafely]_vars
<1>1. ASSUME IInv, [Next]_vars, NEW w \in Workers, DirectRouteStep(w), NEW i \in 1..worker[w].need,
             log[i].key = worker[w].key, SpeaksForSelected(i)
      PROVE  FALSE
  <2> DEFINE k == worker[w].key
  <2>1. /\ worker[w].pc = "barrier" /\ worker'[w].pc = "exchange" /\ worker'[w].route = "direct"
    BY <1>1, ZenonT(120) DEF DirectRouteStep
  <2>2. i \in DOMAIN log /\ k \in Keys /\ worker \in [Workers -> Threads]
    BY <1>1, <2>1, NeedCovered, ZenonT(120) DEF IInv, Types
  <2>3. TakeDecides(w)
    <3>1. worker'[w] # worker[w]
      BY <2>1, ZenonT(120)
    <3>2. ~TakeTimesOut(w)
      BY <2>1, <2>2, SMTT(120) DEF TakeTimesOut, Goto, Idle
    <3>3. QED
      BY <1>1, <2>1, <3>1, <3>2, OneThread, ZenonT(120)
  <2>4. log[i].status \notin {"logged", "lost"}
    BY <1>1, <2>3, ZenonT(120) DEF TakeDecides, AccountedUpTo
  <2>5. ~(now < overloadedUntil) /\ Decide(k, TRUE).route = "direct"
    <3>1. CASE now < overloadedUntil
      <4>1. Goto(w, Idle)
        BY <2>3, <3>1, ZenonT(120) DEF TakeDecides
      <4>2. QED
        BY <2>1, <2>2, <4>1, ZenonT(120) DEF Goto, Idle
    <3>2. CASE ~(now < overloadedUntil) /\ Decide(k, TRUE).route = "none"
      <4>1. Goto(w, Idle)
        BY <2>3, <3>2, ZenonT(120) DEF TakeDecides
      <4>2. QED
        BY <2>1, <2>2, <4>1, SMTT(120) DEF Goto, Idle
    <3>3. CASE ~(now < overloadedUntil) /\ Decide(k, TRUE).route # "none"
      <4>1. Goto(w, Routed(k, Decide(k, TRUE).route, Decide(k, TRUE).table))
        BY <2>3, <3>3, ZenonT(120) DEF TakeDecides
      <4>2. worker'[w].route = Decide(k, TRUE).route
        BY <1>1, <2>2, <4>1, ZenonT(120) DEF Goto, Routed
      <4>3. QED
        BY <2>1, <3>3, <4>2, ZenonT(120)
    <3>4. QED
      BY <3>1, <3>2, <3>3, ZenonT(120)
  <2>6. k \in DOMAIN hints /\ DirectAllowed(hints[k], TRUE) /\ ~hints[k].tunnel
    BY <1>1, <2>2, <2>5, DecideFacts, ZenonT(120) DEF DecidesWell
  <2>7. hints[k].unknownUntil \in Nat /\ now \in Nat /\ directBlockedUntil \in Nat
    BY <1>1, <2>6, ZenonT(120) DEF IInv, Types, Entries
  <2>8. ~(now < directBlockedUntil) /\ ~(now < hints[k].unknownUntil)
    BY <2>6, <2>7, SMTT(120) DEF DirectAllowed
  <2>9. QED
    BY <1>1, <2>2, <2>4, <2>5, <2>6, <2>8, SpeakingShows, ZenonT(120)
<1>2. IInv /\ [Next]_vars => [RoutesSafely]_vars
  BY <1>1, ZenonT(120) DEF RoutesSafely
<1>3. QED
  BY <1>2, Invariance, PTL DEF Spec

\* No direct answer is delivered once a selected lookup of the name was logged before the delivery's
\* barrier began (Hints::directAnswerUnsafe).
THEOREM DirectAnswersAreSafe == Spec => [][AnswersSafely]_vars
<1>1. ASSUME IInv, [Next]_vars, NEW w \in Workers, DirectAnswerStep(w), NEW i \in 1..worker[w].need,
             log[i].key = worker[w].key, SpeaksForSelected(i)
      PROVE  FALSE
  <2>1. worker[w].pc = "deliver" /\ worker'[w].pc = "complete"
    BY <1>1, ZenonT(120) DEF DirectAnswerStep
  <2>2. i \in DOMAIN log /\ worker \in [Workers -> Threads]
    BY <1>1, <2>1, NeedCovered, ZenonT(120) DEF IInv, Types
  <2>3. Deliver(w)
    <3>1. worker'[w] # worker[w]
      BY <2>1, ZenonT(120)
    <3>2. ~Withhold(w)
      BY <2>1, <2>2 DEF Withhold, Goto, Idle
    <3>3. QED
      BY <1>1, <2>1, <3>1, <3>2, OneThread, ZenonT(120)
  <2>4. log[i].status \notin {"logged", "lost"}
    BY <1>1, <2>3, ZenonT(120) DEF Deliver, AccountedUpTo
  <2>5. ~DirectAnswerUnsafe(log[i].key)
    BY <1>1, <2>3, ZenonT(120) DEF Deliver
  <2>6. QED
    BY <1>1, <2>2, <2>4, <2>5, SpeakingShows, ZenonT(120) DEF DirectAnswerUnsafe
<1>2. IInv /\ [Next]_vars => [AnswersSafely]_vars
  BY <1>1, SMTT(120) DEF AnswersSafely
<1>3. QED
  BY <1>2, Invariance, PTL DEF Spec

\* Once the barrier passes, a packet is refused only if every live event of its name was used up by
\* an answered exchange or a quarantine applies (Hints::decide).
THEOREM RefusalsAreJustified == Spec => [][RefusesJustly]_vars
<1>1. ASSUME IInv, [Next]_vars, NEW w \in Workers,
             worker[w].pc = "barrier", worker'[w].pc = "idle", TakeDecides(w), ~Quarantined(worker[w].key),
             NEW i \in 1..worker[w].need, log[i].key = worker[w].key, log[i].status = "seen",
             now < log[i].at + LIFETIME, log[i].doneAt = 0
      PROVE  FALSE
  <2> DEFINE k == worker[w].key
  <2>1. i \in DOMAIN log /\ k \in Keys /\ worker \in [Workers -> Threads]
    BY <1>1, NeedCovered, ZenonT(120) DEF IInv, Types
  <2>2. /\ now \in Nat \ {0} /\ LIFETIME \in Nat /\ directBlockedUntil \in Nat /\ overloadedUntil \in Nat
        /\ BlockedDue /\ OverloadDue /\ \A x \in DOMAIN hints : UnknownDue(x)
        /\ log[i] \in Events /\ EventInv(i)
    BY <1>1, <2>1, Times, SMTT(120) DEF IInv, Types, Origins
  <2>3. ~(now < directBlockedUntil)
    BY <1>1, <2>2, SMTT(120) DEF BlockedDue, Quarantined
  <2>a. now >= directBlockedUntil
    BY <2>2, <2>3, SMTT(120)
  <2>4. ~(now < overloadedUntil)
    BY <1>1, <2>2, SMTT(120) DEF OverloadDue, Quarantined
  <2>5. Held(i)
    <3>1. ~(log[i].at + LIFETIME <= directBlockedUntil)
      <4>1. log[i].at \in Nat
        BY <2>2, ZenonT(120) DEF Events
      <4>2. QED
        BY <1>1, <2>2, <2>3, <4>1, SMTT(120)
    <3>2. QED
      BY <1>1, <2>2, <3>1, ZenonT(120) DEF EventInv, Undone, Lives
  <2>6. k \in DOMAIN hints /\ hints[k] \in Entries
    BY <1>1, <2>5, ZenonT(120) DEF Held, IInv, Types
  <2>7. now >= hints[k].unknownUntil
    <3>1. UnknownDue(k)
      BY <2>2, <2>6, ZenonT(120)
    <3>2. hints[k].unknownUntil \in Nat
      BY <2>6, ZenonT(120) DEF Entries
    <3>3. ~(now < hints[k].unknownUntil)
      BY <1>1, <2>2, <3>1, SMTT(120) DEF UnknownDue, Quarantined
    <3>4. QED
      BY <2>2, <3>2, <3>3, SMTT(120)
  <2>8. DirectAllowed(hints[k], TRUE)
    BY <2>a, <2>7, ZenonT(120) DEF DirectAllowed
  <2>9. ~hints[k].answered /\ ~(hints[k].expires <= now) /\ (hints[k].tunnel \/ hints[k].direct)
    BY <1>1, <2>2, <2>5, <2>6, SMTT(120) DEF Held, Events, Entries, Apps
  <2>10. Decide(k, TRUE).route # "none"
    BY <1>1, <2>1, <2>6, <2>8, <2>9, DecideFacts, ZenonT(120) DEF DecidesWell
  <2>11. QED
    BY <1>1, <2>1, <2>4, <2>10, SMTT(120) DEF TakeDecides, Goto, Routed
<1>2. IInv /\ [Next]_vars => [RefusesJustly]_vars
  BY <1>1, ZenonT(120) DEF RefusesJustly
<1>3. QED
  BY <1>2, Invariance, PTL DEF Spec

-----------------------------------------------------------------------------
(* The table keeps within its capacity.                                    *)

\* One more than less than a limit is within it.
LEMMA Within ==
    /\ \A a, b \in Nat : ~(a >= b) => a + 1 <= b
    /\ \A a, b \in Nat : a < b => a + 1 <= b
    /\ \A b \in Nat \ {0} : 0 <= b /\ 1 <= b
    /\ \A a \in Nat \ {0}, b \in Nat : a <= b => a \in 1..b
    /\ \A b \in Nat : 0 <= b
OBVIOUS

\* A count at most one within the limit is within it.
LEMMA AtMost == \A a, b, c \in Nat : a <= b /\ b <= c => a <= c
BY SMTT(120)

INSTANCE FiniteSetTheorems

Room == now <= MaxTime /\ IsFiniteSet(DOMAIN hints) /\ Cardinality(DOMAIN hints) <= kMaxHints

\* A step adds at most one key, and only where there is room after the scan.
LEMMA OneKeyAdded ==
    ASSUME IInv, [Next]_vars
    PROVE  \/ DOMAIN hints' \subseteq DOMAIN hints
           \/ \E k \in Keys : DOMAIN hints' = DOMAIN Expire \cup {k} /\ ~Full(Expire, k)
<1>1. CASE \/ Tick \/ UNCHANGED vars
           \/ \E k \in Keys, app \in Apps : LogQuery(k, app)
           \/ \E i \in DOMAIN log : LoseEvent(i)
  <2>1. UNCHANGED hints
    BY <1>1, ZenonT(120) DEF Tick, vars, tableVars, LogQuery, LoseEvent
  <2>2. QED
    BY <2>1, ZenonT(120)
<1>2. ASSUME NEW i \in DOMAIN log, ProcessEvent(i)
      PROVE  \/ DOMAIN hints' \subseteq DOMAIN hints
             \/ \E k \in Keys : DOMAIN hints' = DOMAIN Expire \cup {k} /\ ~Full(Expire, k)
  <2>1. PICK path \in {log[i].app, "none"} : AddResolved(i, path)
    BY <1>2, ZenonT(120) DEF ProcessEvent
  <2>2. CASE Full(Expire, log[i].key)
    <3>1. hints' = Expire
      BY <2>1, <2>2, ZenonT(120) DEF AddResolved
    <3>2. QED
      BY <3>1, ExpireFacts, ZenonT(120)
  <2>3. CASE ~Full(Expire, log[i].key)
    <3>1. hints' = Put(Expire, log[i].key, Evidence(Expire, log[i].key, path))
      BY <2>1, <2>3, ZenonT(120) DEF AddResolved
    <3>2. DOMAIN hints' = DOMAIN Expire \cup {log[i].key} /\ log[i].key \in Keys
      BY <3>1, LogFacts, ZenonT(120) DEF Put, IInv
    <3>3. QED
      BY <2>3, <3>2, ZenonT(120)
  <2>4. QED
    BY <2>2, <2>3, ZenonT(120)
<1>3. CASE LostEvents
  <2> DEFINE gone == {k \in DOMAIN hints : ~hints[k].tunnel /\ now >= hints[k].unknownUntil}
  <2>1. hints' = Erase(hints, gone)
    BY <1>3, ZenonT(120) DEF LostEvents
  <2> HIDE DEF gone
  <2>2. DOMAIN hints' = DOMAIN hints \ gone
    BY <2>1, EraseFacts, ZenonT(120)
  <2>3. QED
    BY <2>2, ZenonT(120)
<1>4. ASSUME NEW w \in Workers, Take(w) \/ TakeDecides(w)
      PROVE  DOMAIN hints' \subseteq DOMAIN hints
  <2> DEFINE k == worker[w].key
  <2>1. k \in Keys
    <3>1. worker[w].pc \in {"take", "barrier"}
      BY <1>4, ZenonT(120) DEF Take, TakeDecides
    <3>2. QED
      BY <3>1, SMTT(120) DEF IInv, Types, Threads, Idle
  <2>2. hints' = hints \/ hints' = Decide(k, FALSE).table \/ hints' = Decide(k, TRUE).table
    BY <1>4, ZenonT(120) DEF Take, TakeDecides
  <2>3. \A x \in DOMAIN Decide(k, FALSE).table : x \in DOMAIN hints
    BY <2>1, DecideFacts, ZenonT(120) DEF DecidesWell, TableStep
  <2>4. \A x \in DOMAIN Decide(k, TRUE).table : x \in DOMAIN hints
    BY <2>1, DecideFacts, ZenonT(120) DEF DecidesWell, TableStep
  <2>5. QED
    BY <2>2, <2>3, <2>4, ZenonT(120)
<1>5. ASSUME NEW w \in Workers,
             \/ \E k \in Keys : Receive(w, k)
             \/ TakeTimesOut(w) \/ Exchange(w) \/ Withhold(w) \/ Deliver(w)
             \/ Complete(w) \/ SendFails(w)
      PROVE  DOMAIN hints' = DOMAIN hints
  <2>1. CASE Complete(w)
    BY <2>1, ZenonT(120) DEF Complete
  <2>2. CASE \/ \E k \in Keys : Receive(w, k)
             \/ TakeTimesOut(w) \/ Exchange(w) \/ Withhold(w) \/ Deliver(w) \/ SendFails(w)
    BY <2>2, ZenonT(120) DEF Receive, TakeTimesOut, Exchange, Withhold, Deliver, SendFails, tableVars
  <2>3. QED
    BY <1>5, <2>1, <2>2, ZenonT(120)
<1>6. QED
  BY <1>1, <1>2, <1>3, <1>4, <1>5, ZenonT(120) DEF Next

\* The table never grows past kMaxHints, and the clock stays within its bound.
LEMMA NextRoom ==
    ASSUME IInv, Room, [Next]_vars
    PROVE  Room'
<1>1. now' <= MaxTime
  <2>1. now' = now \/ (now < MaxTime /\ now' = now + 1)
    BY ZenonT(120) DEF Next, Tick, LogQuery, LoseEvent, ProcessEvent, AddResolved, LostEvents, Receive, Take,
           TakeTimesOut, TakeDecides, Exchange, Withhold, Deliver, Complete, SendFails, vars
  <2>2. QED
    BY <2>1, BoundsAssumption, Clock, Within, ZenonT(120) DEF Room
<1>2. CASE DOMAIN hints' \subseteq DOMAIN hints
  <2>1. /\ IsFiniteSet(DOMAIN hints') /\ Cardinality(DOMAIN hints') <= Cardinality(DOMAIN hints)
        /\ Cardinality(DOMAIN hints) \in Nat /\ Cardinality(DOMAIN hints') \in Nat
    BY <1>2, FS_Subset, FS_CardinalityType, ZenonT(120) DEF Room
  <2>2. QED
    BY <1>1, <2>1, BoundsAssumption, AtMost, ZenonT(120) DEF Room
<1>3. ASSUME NEW k \in Keys, DOMAIN hints' = DOMAIN Expire \cup {k}, ~Full(Expire, k)
      PROVE  Room'
  <2>1. /\ IsFiniteSet(DOMAIN Expire) /\ Cardinality(DOMAIN Expire) <= Cardinality(DOMAIN hints)
        /\ Cardinality(DOMAIN hints) \in Nat /\ Cardinality(DOMAIN Expire) \in Nat
    BY ExpireFacts, FS_Subset, FS_CardinalityType, ZenonT(120) DEF Room
  <2>2. CASE k \in DOMAIN Expire
    <3>1. DOMAIN hints' = DOMAIN Expire
      BY <1>3, <2>2, ZenonT(120)
    <3>2. QED
      BY <1>1, <2>1, <3>1, BoundsAssumption, AtMost, ZenonT(120) DEF Room
  <2>3. CASE k \notin DOMAIN Expire
    <3>1. /\ IsFiniteSet(DOMAIN hints')
          /\ Cardinality(DOMAIN hints') = Cardinality(DOMAIN Expire) + 1
      <4>1. /\ IsFiniteSet(DOMAIN Expire \cup {k})
            /\ Cardinality(DOMAIN Expire \cup {k}) = Cardinality(DOMAIN Expire) + 1
        BY <2>1, <2>3, FS_AddElement, SMTT(120)
      <4>2. QED
        BY <1>3, <4>1, ZenonT(120)
    <3>2. ~(Cardinality(DOMAIN Expire) >= kMaxHints)
      BY <1>3, <2>3, ZenonT(120) DEF Full
    <3>3. Cardinality(DOMAIN hints') <= kMaxHints
      BY <2>1, <3>1, <3>2, BoundsAssumption, Within, ZenonT(120)
    <3>4. QED
      BY <1>1, <3>1, <3>3, ZenonT(120) DEF Room
  <2>4. QED
    BY <2>2, <2>3, ZenonT(120)
<1>4. QED
  BY <1>2, <1>3, OneKeyAdded, ZenonT(120)

\* The log, the table and the threads keep their types, the table keeps within kMaxHints whatever
\* interleaves with the scan that makes room in it, and generations never run ahead (class Hints).
THEOREM TypeCorrect == Spec => []TypeOK
<1>1. Init => Room
  <2>1. ASSUME Init
        PROVE  Room
    <3>1. DOMAIN hints = {} /\ now = 1
      BY <2>1, SMTT(120) DEF Init
    <3>2. IsFiniteSet({}) /\ Cardinality({}) = 0
      BY FS_EmptySet, ZenonT(120)
    <3>3. QED
      BY <3>1, <3>2, BoundsAssumption, Within, ZenonT(120) DEF Room
  <2>2. QED
    BY <2>1, SMTT(120)
<1>2. IInv /\ Room /\ [Next]_vars => Room'
  BY NextRoom, ZenonT(120)
<1>3. IInv /\ Room => TypeOK
  <2>1. SUFFICES ASSUME IInv, Room
                 PROVE  TypeOK
    BY ZenonT(120)
  <2>2. now \in 1..MaxTime
    BY <2>1, BoundsAssumption, Within, ZenonT(120) DEF IInv, Types, Room
  <2>3. \A i \in DOMAIN log :
           /\ log[i].key \in Keys /\ log[i].app \in Apps
           /\ log[i].status \in {"logged", "lost", "reported", "dropped", "unknown", "seen"}
    BY <2>1, LogFacts, ZenonT(120) DEF IInv, Events
  <2>4. \A k \in DOMAIN hints :
           /\ DOMAIN hints[k] = DOMAIN Pending
           /\ hints[k].generation \in 1..generations
           /\ hints[k].decision \in {"Pending", "Direct", "Tunnel"}
    BY <2>1, ZenonT(120) DEF IInv, Types, Entries, Pending
  <2>5. \A w \in Workers :
           worker[w].pc \in {"idle", "take", "barrier", "exchange", "deliver", "complete"}
    BY <2>1, SMTT(120) DEF IInv, Types, Threads, Idle
  <2>6. QED
    BY <2>1, <2>2, <2>3, <2>4, <2>5, ZenonT(120) DEF TypeOK, IInv, Types, Room
<1>4. QED
  BY <1>1, <1>2, <1>3, Invariance, PTL DEF Spec
=============================================================================
