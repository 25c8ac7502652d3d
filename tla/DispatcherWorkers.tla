------------------------- MODULE DispatcherWorkers -------------------------
(***************************************************************************)
(* The dispatcher's threads (dns-dispatcher.cpp, wmain): the UDP receive   *)
(* loop, which is the main thread, the TCP acceptor, and one detached      *)
(* worker per admitted query or connection. Admission counts workers with  *)
(* an atomic add that is taken back when there was no room; a worker that  *)
(* asks the tunnel's resolver holds a reservation of the tunnel lane       *)
(* (dns-capacity.h), taken with a compare-and-swap loop. On shutdown the   *)
(* main thread joins the acceptor and waits for the count to reach zero    *)
(* before it closes the sockets and destroys what the workers borrow.      *)
(***************************************************************************)
EXTENDS Naturals, FiniteSets

CONSTANTS
    Workers,             \* the threads that may exist
    kMaxWorkers,
    kMaxTunnelExchanges,
    MaxRequests          \* requests read from one TCP connection

ASSUME LimitsAssumption ==
    /\ IsFiniteSet(Workers)
    /\ kMaxWorkers \in Nat /\ kMaxTunnelExchanges \in Nat /\ MaxRequests \in Nat

\* The two threads that admit work, named for what they admit.
Ingress == {"udp", "tcp"}

VARIABLES
    gRunning,
    gActiveWorkers,
    active_,     \* reservations of the tunnel lane
    ingress,     \* Ingress -> where the thread is
    worker,      \* Workers -> where the thread is, "none" when there is none
    kind,        \* Workers -> the ingress that admitted it
    requests,    \* Workers -> requests its connection has still to offer
    seen         \* Workers -> the count its compare-and-swap expects

vars == <<gRunning, gActiveWorkers, active_, ingress, worker, kind, requests, seen>>

Init ==
    /\ gRunning = TRUE /\ gActiveWorkers = 0 /\ active_ = 0
    /\ ingress = [i \in Ingress |-> "loop"]
    /\ worker = [w \in Workers |-> "none"] /\ kind = [w \in Workers |-> "udp"]
    /\ requests = [w \in Workers |-> 0] /\ seen = [w \in Workers |-> 0]

----------------------------------------------------------------------------
(* The ingress threads.                                                    *)

\* gRunning was true when the loop began; it may be false by the time a packet
\* or a connection arrives.
Poll(i) ==
    /\ ingress[i] = "loop" /\ gRunning
    /\ ingress' = [ingress EXCEPT ![i] = "receive"]
    /\ UNCHANGED <<gRunning, gActiveWorkers, active_, worker, kind, requests, seen>>

\* Nothing arrived, or a liveness query, which the loop answers itself.
Again(i) ==
    /\ ingress[i] = "receive"
    /\ ingress' = [ingress EXCEPT ![i] = "loop"]
    /\ UNCHANGED <<gRunning, gActiveWorkers, active_, worker, kind, requests, seen>>

HasRoom == gActiveWorkers < kMaxWorkers

\* acquireWorker's fetch_add, which decides by the count it found.
FetchAdd(i) ==
    /\ ingress[i] = "receive"
    /\ gActiveWorkers' = gActiveWorkers + 1
    /\ ingress' = [ingress EXCEPT ![i] = IF HasRoom THEN "admitted" ELSE "refused"]
    /\ UNCHANGED <<gRunning, active_, worker, kind, requests, seen>>

\* The fetch_sub of a refused admission, or of one whose thread failed to start.
TakeBack(i) ==
    /\ ingress[i] \in {"refused", "failed"}
    /\ gActiveWorkers' = gActiveWorkers - 1
    /\ ingress' = [ingress EXCEPT ![i] = "loop"]
    /\ UNCHANGED <<gRunning, active_, worker, kind, requests, seen>>

Spawn(i, w) ==
    /\ ingress[i] = "admitted" /\ worker[w] = "none"
    /\ ingress' = [ingress EXCEPT ![i] = "loop"]
    /\ kind' = [kind EXCEPT ![w] = i]
    /\ worker' = [worker EXCEPT ![w] = IF i = "udp" THEN "take" ELSE "read"]
    /\ requests' = [requests EXCEPT ![w] = IF i = "udp" THEN 0 ELSE MaxRequests]
    /\ UNCHANGED <<gRunning, gActiveWorkers, active_, seen>>

\* Mutant of SpawnFails: the count keeps a worker that never existed.
SpawnFailsQuietly(i) ==
    /\ ingress[i] = "admitted"
    /\ ingress' = [ingress EXCEPT ![i] = "loop"]
    /\ UNCHANGED <<gRunning, gActiveWorkers, active_, worker, kind, requests, seen>>

SpawnFails(i) ==
    /\ ingress[i] = "admitted"
    /\ ingress' = [ingress EXCEPT ![i] = "failed"]
    /\ UNCHANGED <<gRunning, gActiveWorkers, active_, worker, kind, requests, seen>>

\* An exception in the acceptor ends it and stops the dispatcher.
AcceptorFails ==
    /\ ingress["tcp"] = "receive"
    /\ gRunning' = FALSE /\ ingress' = [ingress EXCEPT !["tcp"] = "ended"]
    /\ UNCHANGED <<gActiveWorkers, active_, worker, kind, requests, seen>>

\* The console is closed, or the trace's consumer or flusher ended.
Stop ==
    /\ gRunning /\ gRunning' = FALSE
    /\ UNCHANGED <<gActiveWorkers, active_, ingress, worker, kind, requests, seen>>

LeaveLoop(i) ==
    /\ ingress[i] = "loop" /\ ~gRunning
    /\ ingress' = [ingress EXCEPT ![i] = IF i = "udp" THEN "join" ELSE "ended"]
    /\ UNCHANGED <<gRunning, gActiveWorkers, active_, worker, kind, requests, seen>>

\* Mutant of Joined: the acceptor is left to notice the stop by itself.
JoinedAtOnce == TRUE

Joined == ingress["tcp"] = "ended"

Join ==
    /\ ingress["udp"] = "join" /\ Joined
    /\ ingress' = [ingress EXCEPT !["udp"] = "drain"]
    /\ UNCHANGED <<gRunning, gActiveWorkers, active_, worker, kind, requests, seen>>

\* No worker is counted: the sockets are closed and the stack is unwound.
Close ==
    /\ ingress["udp"] = "drain" /\ gActiveWorkers = 0
    /\ ingress' = [ingress EXCEPT !["udp"] = "closed"]
    /\ UNCHANGED <<gRunning, gActiveWorkers, active_, worker, kind, requests, seen>>

----------------------------------------------------------------------------
(* A worker: handleUdpQuery, or handleTcpClient's loop.                    *)

Go(w, state) == worker' = [worker EXCEPT ![w] = state]

\* The next request of a TCP connection, or the end of it: no more requests,
\* the dispatcher stops, the client is silent or closes.
ReadRequest(w) ==
    /\ worker[w] = "read"
    /\ \/ gRunning /\ requests[w] > 0 /\ Go(w, "take")
          /\ requests' = [requests EXCEPT ![w] = @ - 1]
       \/ Go(w, "leave") /\ UNCHANGED requests
    /\ UNCHANGED <<gRunning, gActiveWorkers, active_, ingress, kind, seen>>

\* selectRoute: no route (answered SERVFAIL), the direct or the tunnel route.
SelectRoute(w) ==
    /\ worker[w] = "take"
    /\ \E state \in {"reply", "direct", "load"} : Go(w, state)
    /\ UNCHANGED <<gRunning, gActiveWorkers, active_, ingress, kind, requests, seen>>

\* Lease's constructor: read the count ...
Load(w) ==
    /\ worker[w] = "load" /\ Go(w, "swap")
    /\ seen' = [seen EXCEPT ![w] = active_]
    /\ UNCHANGED <<gRunning, gActiveWorkers, active_, ingress, kind, requests>>

\* Mutant of Unchanged: the count is stored whatever it has become.
UnchangedSince(w) == TRUE

Unchanged(w) == active_ = seen[w]

\* ... take a reservation if the count is still the one read ...
Swap(w) ==
    /\ worker[w] = "swap" /\ seen[w] < kMaxTunnelExchanges /\ Unchanged(w)
    /\ active_' = seen[w] + 1 /\ Go(w, "exchange")
    /\ UNCHANGED <<gRunning, gActiveWorkers, ingress, kind, requests, seen>>

\* ... else read it again: it changed, or the weak swap failed of itself ...
SwapFails(w) ==
    /\ worker[w] = "swap" /\ seen[w] < kMaxTunnelExchanges
    /\ seen' = [seen EXCEPT ![w] = active_]
    /\ UNCHANGED <<gRunning, gActiveWorkers, active_, ingress, worker, kind, requests>>

\* ... and with no room the query fails promptly.
LaneFull(w) ==
    /\ worker[w] = "swap" /\ seen[w] >= kMaxTunnelExchanges /\ Go(w, "reply")
    /\ UNCHANGED <<gRunning, gActiveWorkers, active_, ingress, kind, requests, seen>>

\* The tunnel exchange ended, answered or not: ~Lease.
Release(w) ==
    /\ worker[w] = "exchange" /\ Go(w, "reply")
    /\ active_' = active_ - 1
    /\ UNCHANGED <<gRunning, gActiveWorkers, ingress, kind, requests, seen>>

DirectExchange(w) ==
    /\ worker[w] = "direct" /\ Go(w, "reply")
    /\ UNCHANGED <<gRunning, gActiveWorkers, active_, ingress, kind, requests, seen>>

\* The reply, on the shared UDP socket or on the client's connection, and the
\* completion of the hint.
Reply(w) ==
    /\ worker[w] = "reply"
    /\ \/ kind[w] = "tcp" /\ Go(w, "read")
       \/ Go(w, "leave")
    /\ UNCHANGED <<gRunning, gActiveWorkers, active_, ingress, kind, requests, seen>>

\* ~WorkerLease: the last thing a worker does, exceptions included.
Leave(w) ==
    /\ worker[w] = "leave" /\ Go(w, "none")
    /\ gActiveWorkers' = gActiveWorkers - 1
    /\ UNCHANGED <<gRunning, active_, ingress, kind, requests, seen>>

IngressStep(i) == \/ Poll(i) \/ Again(i) \/ FetchAdd(i) \/ TakeBack(i) \/ SpawnFails(i) \/ LeaveLoop(i)
                  \/ \E w \in Workers : Spawn(i, w)
MainStep == Join \/ Close
WorkerStep(w) == \/ ReadRequest(w) \/ SelectRoute(w) \/ Load(w) \/ Swap(w) \/ SwapFails(w)
                 \/ LaneFull(w) \/ Release(w) \/ DirectExchange(w) \/ Reply(w) \/ Leave(w)

Next ==
    \/ \E i \in Ingress : IngressStep(i)
    \/ MainStep \/ AcceptorFails \/ Stop
    \/ \E w \in Workers : WorkerStep(w)

Spec == Init /\ [][Next]_vars

----------------------------------------------------------------------------

Alive == {w \in Workers : worker[w] # "none"}
Leased == {w \in Workers : worker[w] = "exchange"}
\* Ingress threads whose add to the count is not yet a worker's.
Claims == {i \in Ingress : ingress[i] \in {"admitted", "failed"}}
Overdrawn == {i \in Ingress : ingress[i] = "refused"}

TypeOK ==
    /\ gRunning \in BOOLEAN /\ gActiveWorkers \in Nat /\ active_ \in Nat
    /\ ingress \in [Ingress -> {"loop", "receive", "admitted", "refused", "failed",
                                "join", "drain", "closed", "ended"}]
    /\ worker \in [Workers -> {"none", "read", "take", "direct", "load", "swap",
                               "exchange", "reply", "leave"}]
    /\ kind \in [Workers -> Ingress] /\ seen \in [Workers -> Nat]
    /\ requests \in [Workers -> 0 .. MaxRequests]

\* However the two ingress threads and the workers interleave, no more than
\* kMaxWorkers workers exist: an add taken back later never admits one more.
WorkersBounded == Cardinality(Alive) + Cardinality(Claims) <= kMaxWorkers

\* The count is the workers alive and the admissions under way; nothing is
\* counted twice or forgotten on any path, so the drain waits for exactly them.
CountExact == gActiveWorkers = Cardinality(Alive) + Cardinality(Claims) + Cardinality(Overdrawn)

\* At most kMaxTunnelExchanges workers are in a tunnel exchange, so slow tunnel
\* exchanges leave the other workers to direct queries; and the lane's count is
\* theirs, so no reservation leaks.
LaneBounded == active_ = Cardinality(Leased) /\ active_ <= kMaxTunnelExchanges

\* Both limits hold and both counts are exact: what an admission, a failed
\* thread creation or a lost lease took is given back once, on every path.
LimitsExact == WorkersBounded /\ CountExact /\ LaneBounded

\* Once the main thread closes the sockets and destroys the hints, no worker is
\* left that could use them and none can be admitted.
NothingAfterClose == ingress["udp"] = "closed" => Alive = {} /\ ingress["tcp"] = "ended"

\* A stopped dispatcher closes: the drain does end.
ShutdownCompletes == []<>(~gRunning => ingress["udp"] = "closed")
============================================================================
