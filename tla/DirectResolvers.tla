-------------------------- MODULE DirectResolvers --------------------------
(***************************************************************************)
(* How the dispatcher forwards a query of an unlisted application to the  *)
(* physical resolvers (dns-dispatcher.cpp: DirectResolvers,               *)
(* directExchange, exchangeUdpRoute, exchangeTcpRoute), with a reload that *)
(* replaces the routes while queries are outstanding.                     *)
(*                                                                         *)
(* Every worker shares one DirectResolvers object: the index of the        *)
(* resolver asked first and the time until which it stands in for the      *)
(* first-listed one. A query keeps the routes it started with, whatever is *)
(* loaded meanwhile. Index 1 is the first-listed resolver, "the primary"   *)
(* (index 0 in the code). One tick is 400 ms, so the code's 4000 ms and    *)
(* 1200 ms are 10 and 3.                                                   *)
(***************************************************************************)
EXTENDS Naturals, FiniteSets, Sequences, SequencesExt

CONSTANTS
    Queries,      \* direct queries being answered, one worker thread each
    Lists,        \* the number of resolvers of each successive route set
    Budget,       \* kDirectBudgetMilliseconds
    PerResolver,  \* kPerResolverMilliseconds
    PreferFor,    \* preferFor_
    MaxTime       \* bound: the last tick

VARIABLES
    now,
    loaded,          \* which element of Lists gRoutes holds
    resetDue,        \* the reloader is between setRoutes and reset
    preferred_,
    probePrimaryAt_, \* 0 when no stand-in is preferred
    query,           \* Queries -> the state of its worker
    failedAt         \* history: the last failed probe of a primary, 0 for none

vars == <<now, loaded, resetDue, preferred_, probePrimaryAt_, query, failedAt>>

\* The state of a worker. stage: "udp" and "tcp" are the first exchange of a
\* UDP and a TCP query, "fallback" the UDP exchange after a TCP one, "whole"
\* the TCP completion of a truncated answer. position is the number of
\* resolvers of order asked so far, until the time the last of them gives up;
\* skipped records that an exchange ran out of time before asking them all.
Worker(stage, list, begun) ==
    [stage |-> stage, list |-> list, begun |-> begun, order |-> <<>>, position |-> 0,
     until |-> begun, primaryFailed |-> FALSE, skipped |-> FALSE]
Idle == Worker("idle", 1, 0)

Init ==
    /\ now = 0 /\ loaded = 1 /\ resetDue = FALSE
    /\ preferred_ = 1 /\ probePrimaryAt_ = 0
    /\ query = [x \in Queries |-> Idle]
    /\ failedAt = 0

----------------------------------------------------------------------------

\* DirectResolvers::order.
Order(count) ==
    LET first == IF now < probePrimaryAt_ /\ preferred_ <= count THEN preferred_ ELSE 1
    IN  <<first>> \o SetToSortSeq((1 .. count) \ {first}, <)

\* DirectResolvers::answered, under its mutex.
Answered(index, primaryFailed) ==
    /\ preferred_' = index
    /\ probePrimaryAt_' = IF index = 1 THEN 0
                          ELSE IF primaryFailed THEN now + PreferFor
                          ELSE probePrimaryAt_

\* Mutant of Timeout: every resolver may use all the time left.
TimeoutWhole(stage, remaining, left) == remaining

\* How long the resolver asked next may take (directExchange).
Timeout(stage, remaining, left) ==
    IF left = 1 THEN remaining
    ELSE IF stage = "fallback" THEN IF remaining \div left > 1 THEN remaining \div left ELSE 1
    ELSE IF remaining < PerResolver THEN remaining ELSE PerResolver

\* The absolute deadline of a stage. A TCP exchange leaves the last
\* PerResolver of the budget to the UDP fallback.
Deadline(stage, begun) ==
    IF stage = "tcp" THEN begun + Budget - PerResolver ELSE begun + Budget

----------------------------------------------------------------------------

\* directExchange's loop: ask the next resolver, or stop when all were asked or
\* no time is left. A TCP query that got no answer goes on over UDP.
Continue(r) ==
    LET remaining == Deadline(r.stage, r.begun) - now
        left == Len(r.order) - r.position
    IN  IF left > 0 /\ remaining > 0
        THEN [r EXCEPT !.position = @ + 1, !.until = now + Timeout(r.stage, remaining, left)]
        ELSE [r EXCEPT !.stage = IF @ = "tcp" THEN "fallback" ELSE "failed",
                       !.order = <<>>, !.position = 0, !.skipped = @ \/ left > 0]

Asking(x) == query[x].stage \in {"udp", "tcp", "fallback"}
Outstanding(x) == Asking(x) /\ query[x].order # <<>>
Asked(x) == query[x].order[query[x].position]

\* A worker takes the routes loaded now (currentRoutes) and the deadline.
Begin(x, stage) ==
    /\ query[x].stage = "idle" /\ now + Budget <= MaxTime
    /\ query' = [query EXCEPT ![x] = Worker(stage, loaded, now)]
    /\ UNCHANGED <<now, loaded, resetDue, preferred_, probePrimaryAt_, failedAt>>

\* directExchange begins: the order is read under the mutex.
Search(x) ==
    /\ Asking(x) /\ query[x].order = <<>>
    /\ query' = [query EXCEPT ![x] = Continue([@ EXCEPT !.order = Order(Lists[query[x].list]),
                                                      !.primaryFailed = FALSE])]
    /\ UNCHANGED <<now, loaded, resetDue, preferred_, probePrimaryAt_, failedAt>>

\* The resolver refused the exchange or stayed silent until its time was up.
NoAnswer(x) ==
    /\ Outstanding(x)
    /\ query' = [query EXCEPT ![x] = Continue([@ EXCEPT !.primaryFailed = @ \/ Asked(x) = 1])]
    /\ failedAt' = IF Asked(x) = 1 THEN now ELSE failedAt
    /\ UNCHANGED <<now, loaded, resetDue, preferred_, probePrimaryAt_>>

\* The resolver answered. A truncated UDP answer is completed over TCP from the
\* same resolver in the time left; a TCP answer with the code REFUSED counts as
\* the resolver's answer and is still asked again over UDP.
Answer(x, kind) ==
    LET r == query[x] IN
    /\ Outstanding(x)
    /\ kind = "truncated" => r.stage = "udp"
    /\ kind = "refused" => r.stage = "tcp"
    /\ Answered(Asked(x), r.primaryFailed)
    /\ query' = [query EXCEPT ![x] =
           IF kind = "truncated" /\ now < Deadline(r.stage, r.begun)
           THEN [r EXCEPT !.stage = "whole", !.until = Deadline("udp", r.begun)]
           ELSE IF kind = "refused"
           THEN [r EXCEPT !.stage = "fallback", !.order = <<>>, !.position = 0]
           ELSE Idle]
    /\ UNCHANGED <<now, loaded, resetDue, failedAt>>

\* The completion ended, or the query failed; the client is answered either way.
Return(x) ==
    /\ query[x].stage \in {"whole", "failed"}
    /\ query' = [query EXCEPT ![x] = Idle]
    /\ UNCHANGED <<now, loaded, resetDue, preferred_, probePrimaryAt_, failedAt>>

\* The reloader's setRoutes ...
SetRoutes ==
    /\ loaded < Len(Lists) /\ ~resetDue
    /\ loaded' = loaded + 1 /\ resetDue' = TRUE
    /\ UNCHANGED <<now, preferred_, probePrimaryAt_, query, failedAt>>

\* ... and its gDirectResolvers.reset().
Reset ==
    /\ resetDue
    /\ resetDue' = FALSE /\ preferred_' = 1 /\ probePrimaryAt_' = 0
    /\ UNCHANGED <<now, loaded, query, failedAt>>

\* Time passes. An exchange ends by the time it was given (the sockets are
\* nonblocking and every wait is bounded by the deadline), and the work between
\* two exchanges takes none.
Tick ==
    /\ now < MaxTime
    /\ \A x \in Queries :
          \/ query[x].stage = "idle"
          \/ /\ query[x].stage = "whole" \/ Outstanding(x)
             /\ query[x].until > now
    /\ now' = now + 1
    /\ UNCHANGED <<query, loaded, resetDue, preferred_, probePrimaryAt_, failedAt>>

Next ==
    \/ \E x \in Queries :
          \/ \E stage \in {"udp", "tcp"} : Begin(x, stage)
          \/ Search(x)
          \/ NoAnswer(x)
          \/ \E kind \in {"plain", "refused", "truncated"} : Answer(x, kind)
          \/ Return(x)
    \/ SetRoutes
    \/ Reset
    \/ Tick

Spec == Init /\ [][Next]_vars

----------------------------------------------------------------------------

\* The index asked first exists in the query's own list, whatever list the
\* preference was learned on, and each resolver is asked at most once.
TypeOK ==
    /\ now \in 0 .. MaxTime /\ loaded \in 1 .. Len(Lists) /\ resetDue \in BOOLEAN
    /\ preferred_ \in 1 .. 3 /\ probePrimaryAt_ \in 0 .. MaxTime + PreferFor
    /\ failedAt \in 0 .. MaxTime
    /\ \A x \in Queries :
          LET r == query[x] IN
          /\ r.stage \in {"idle", "udp", "tcp", "fallback", "whole", "failed"}
          /\ r.position \in 0 .. Len(r.order)
          /\ r.order # <<>> => /\ Len(r.order) = Lists[r.list]
                              /\ ToSet(r.order) = 1 .. Lists[r.list]

\* A query is answered within the budget: every resolver and transport it
\* tries shares the one absolute deadline it began with.
WithinBudget ==
    \A x \in Queries : query[x].stage # "idle" =>
        /\ now <= query[x].begun + Budget
        /\ Outstanding(x) => query[x].until <= query[x].begun + Budget

\* No resolver starves another: however long the earlier ones stay silent,
\* every listed resolver is asked in each exchange before its time is up, the
\* UDP fallback of a TCP query included.
EveryResolverAsked == \A x \in Queries : ~query[x].skipped

\* Only a failed probe of a primary keeps a stand-in preferred: answers of the
\* stand-in never extend its window, so under steady traffic the primary is
\* asked first again within a window of its last failure.
WindowBounded == probePrimaryAt_ > 0 => probePrimaryAt_ <= failedAt + Budget + PreferFor
============================================================================
