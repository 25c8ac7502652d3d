---------------------- MODULE DispatcherWorkers_proofs ----------------------
(***************************************************************************)
(* Admission, the tunnel lane and the shutdown drain are right for any       *)
(* number of threads and any limits. The counters are compared with the sets *)
(* of threads they stand for: each action moves at most one thread between   *)
(* those sets, and moves the counter with it. The limit on workers follows   *)
(* because an admission decides by a count that is never less than the       *)
(* workers alive and admitted; the drain is safe because a count of zero     *)
(* leaves those sets empty and the acceptor, joined before, cannot add.      *)
(***************************************************************************)
EXTENDS DispatcherWorkers, FiniteSetTheorems, TLAPS

\* The main thread drains only after the acceptor ended, and closes only when
\* no worker is left.
ShutdownOrder ==
    /\ ingress["udp"] \in {"drain", "closed"} => ingress["tcp"] = "ended"
    /\ ingress["udp"] = "closed" => Alive = {}

IInv == TypeOK /\ WorkersBounded /\ CountExact /\ LaneBounded /\ ShutdownOrder

-----------------------------------------------------------------------------
\* The four sets are finite, so that their cardinalities count.
LEMMA Finite ==
    /\ IsFiniteSet(Alive) /\ Cardinality(Alive) \in Nat
    /\ IsFiniteSet(Leased) /\ Cardinality(Leased) \in Nat
    /\ IsFiniteSet(Claims) /\ Cardinality(Claims) \in Nat
    /\ IsFiniteSet(Overdrawn) /\ Cardinality(Overdrawn) \in Nat
<1>1. IsFiniteSet(Ingress)
  <2>1. IsFiniteSet({"udp"})
    BY FS_Singleton, Zenon
  <2>2. IsFiniteSet({"udp"} \cup {"tcp"})
    BY <2>1, FS_AddElement, Zenon
  <2>3. Ingress = {"udp"} \cup {"tcp"}
    BY Zenon DEF Ingress
  <2> QED
    BY <2>2, <2>3, Zenon
<1>2. IsFiniteSet(Alive) /\ IsFiniteSet(Leased)
    BY LimitsAssumption, FS_Subset, Zenon DEF Alive, Leased
<1>3. IsFiniteSet(Claims) /\ IsFiniteSet(Overdrawn)
    BY <1>1, FS_Subset, Zenon DEF Claims, Overdrawn
<1> QED
    BY <1>2, <1>3, FS_CardinalityType, Zenon

\* Putting a new element into a finite set adds one to its cardinality.
LEMMA Grown ==
    ASSUME NEW S, IsFiniteSet(S), NEW x, x \notin S
    PROVE  Cardinality(S \cup {x}) = Cardinality(S) + 1
BY FS_AddElement, Zenon

\* Taking an element out of a finite set takes one from its cardinality.
LEMMA Shrunk ==
    ASSUME NEW S, IsFiniteSet(S), NEW x, x \in S
    PROVE  Cardinality(S \ {x}) = Cardinality(S) - 1 /\ Cardinality(S) >= 1
<1>1. Cardinality(S \ {x}) = Cardinality(S) - 1
    BY FS_RemoveElement, Zenon
<1>2. Cardinality(S \ {x}) \in Nat /\ Cardinality(S) \in Nat
    BY FS_RemoveElement, FS_CardinalityType, Zenon
<1> QED
    BY <1>1, <1>2

\* Before the first query no thread is in any of the sets, and both counters are zero.
LEMMA InitIInv == Init => IInv
<1> SUFFICES ASSUME Init PROVE IInv
    BY Zenon
<1>1. Alive = {} /\ Leased = {} /\ Claims = {} /\ Overdrawn = {}
    BY Zenon DEF Init, Alive, Leased, Claims, Overdrawn
<1>2. Cardinality(Alive) = 0 /\ Cardinality(Leased) = 0 /\ Cardinality(Claims) = 0 /\ Cardinality(Overdrawn) = 0
    BY <1>1, FS_EmptySet, Zenon
<1>3. TypeOK
    BY LimitsAssumption DEF Init, TypeOK, Ingress
<1>4. WorkersBounded /\ CountExact /\ LaneBounded
    BY <1>2, LimitsAssumption DEF Init, WorkersBounded, CountExact, LaneBounded
<1>5. ShutdownOrder
    BY Zenon DEF Init, ShutdownOrder, Ingress
<1> QED
    BY <1>3, <1>4, <1>5, Zenon DEF IInv

-----------------------------------------------------------------------------
\* A step that moves no thread between the sets and leaves both counters alone
\* keeps what the counters say.
LEMMA SameCounts ==
    ASSUME IInv, Alive' = Alive, Leased' = Leased, Claims' = Claims, Overdrawn' = Overdrawn,
           gActiveWorkers' = gActiveWorkers, active_' = active_
    PROVE  WorkersBounded' /\ CountExact' /\ LaneBounded'
BY Zenon DEF IInv, WorkersBounded, CountExact, LaneBounded

\* The steps of the ingress threads other than admission: none touches a
\* counter or a worker.
LEMMA QuietIngress ==
    ASSUME IInv, NEW i \in Ingress,
           \/ Poll(i) \/ Again(i) \/ SpawnFails(i) \/ LeaveLoop(i)
           \/ AcceptorFails \/ Stop \/ Join
    PROVE  IInv'
<1>0. TypeOK /\ ShutdownOrder
    BY Zenon DEF IInv
<1>1. TypeOK'
  <2>1. ingress' \in [Ingress -> {"loop", "receive", "admitted", "refused", "failed",
                                  "join", "drain", "closed", "ended"}]
    BY <1>0 DEF TypeOK, Poll, Again, SpawnFails, LeaveLoop, AcceptorFails, Stop, Join, Ingress
  <2>2. gRunning' \in BOOLEAN
    BY <1>0, ZenonT(120) DEF TypeOK, Poll, Again, SpawnFails, LeaveLoop, AcceptorFails, Stop, Join
  <2>3. UNCHANGED <<gActiveWorkers, active_, worker, kind, requests, seen>>
    BY Zenon DEF Poll, Again, SpawnFails, LeaveLoop, AcceptorFails, Stop, Join
  <2> QED
    BY <1>0, <2>1, <2>2, <2>3, ZenonT(120) DEF TypeOK
<1>2. Alive' = Alive /\ Leased' = Leased
    BY ZenonT(120) DEF Alive, Leased, Poll, Again, SpawnFails, LeaveLoop, AcceptorFails, Stop, Join
<1>3. Claims' = Claims /\ Overdrawn' = Overdrawn
    BY <1>0 DEF TypeOK, Claims, Overdrawn, Poll, Again, SpawnFails, LeaveLoop, AcceptorFails, Stop, Join, Ingress
<1>4. gActiveWorkers' = gActiveWorkers /\ active_' = active_
    BY ZenonT(120) DEF Poll, Again, SpawnFails, LeaveLoop, AcceptorFails, Stop, Join
<1>5. ShutdownOrder'
    BY <1>0, <1>2 DEF TypeOK, ShutdownOrder, Poll, Again, SpawnFails, LeaveLoop, AcceptorFails, Stop, Join, Joined,
       Ingress
<1> QED
    BY <1>1, <1>2, <1>3, <1>4, <1>5, SameCounts, ZenonT(120) DEF IInv

\* fetch_add: the claim is admitted only while the count, and so the workers
\* alive and admitted, are below the limit.
LEMMA FetchAddIInv ==
    ASSUME IInv, NEW i \in Ingress, FetchAdd(i)
    PROVE  IInv'
<1>0. /\ TypeOK /\ WorkersBounded /\ CountExact /\ LaneBounded /\ ShutdownOrder
      /\ ingress[i] = "receive" /\ gActiveWorkers' = gActiveWorkers + 1
      /\ active_' = active_ /\ worker' = worker
      /\ ingress' = [ingress EXCEPT ![i] = IF HasRoom THEN "admitted" ELSE "refused"]
    BY Zenon DEF IInv, FetchAdd
<1>1. TypeOK'
    BY <1>0 DEF TypeOK, FetchAdd, Ingress
<1>2. Alive' = Alive /\ Leased' = Leased
    BY <1>0, Zenon DEF Alive, Leased
<1>3. i \notin Claims /\ i \notin Overdrawn
    BY <1>0, Zenon DEF Claims, Overdrawn
<1>4. WorkersBounded' /\ CountExact'
  <2>1. CASE HasRoom
    <3>1. Claims' = Claims \cup {i} /\ Overdrawn' = Overdrawn
        BY <1>0, <2>1, ZenonT(120) DEF TypeOK, Claims, Overdrawn
    <3>2. Cardinality(Claims') = Cardinality(Claims) + 1
        BY <3>1, <1>3, Finite, Grown, ZenonT(120)
    <3> QED
        BY <1>0, <1>2, <2>1, <3>1, <3>2, Finite, LimitsAssumption, SMTT(120)
        DEF WorkersBounded, CountExact, HasRoom, TypeOK
  <2>2. CASE ~HasRoom
    <3>1. Claims' = Claims /\ Overdrawn' = Overdrawn \cup {i}
        BY <1>0, <2>2, Zenon DEF TypeOK, Claims, Overdrawn
    <3>2. Cardinality(Overdrawn') = Cardinality(Overdrawn) + 1
        BY <3>1, <1>3, Finite, Grown, Zenon
    <3> QED
        BY <1>0, <1>2, <3>1, <3>2, Finite, SMTT(120) DEF WorkersBounded, CountExact, TypeOK
  <2> QED
    BY <2>1, <2>2, ZenonT(120)
<1>5. LaneBounded' /\ ShutdownOrder'
    BY <1>0, <1>2, Zenon DEF LaneBounded, ShutdownOrder, TypeOK, Ingress
<1> QED
    BY <1>1, <1>4, <1>5, Zenon DEF IInv

\* The add is taken back by the thread that made it.
LEMMA TakeBackIInv ==
    ASSUME IInv, NEW i \in Ingress, TakeBack(i)
    PROVE  IInv'
<1>0. /\ TypeOK /\ WorkersBounded /\ CountExact /\ LaneBounded /\ ShutdownOrder
      /\ ingress[i] \in {"refused", "failed"} /\ gActiveWorkers' = gActiveWorkers - 1
      /\ active_' = active_ /\ worker' = worker
      /\ ingress' = [ingress EXCEPT ![i] = "loop"]
    BY Zenon DEF IInv, TakeBack
<1>1. Alive' = Alive /\ Leased' = Leased
    BY <1>0, Zenon DEF Alive, Leased
<1>2. WorkersBounded' /\ CountExact' /\ gActiveWorkers' \in Nat
  <2>1. CASE ingress[i] = "failed"
    <3>1. Claims' = Claims \ {i} /\ Overdrawn' = Overdrawn /\ i \in Claims
        BY <1>0, <2>1, Zenon DEF TypeOK, Claims, Overdrawn
    <3>2. Cardinality(Claims') = Cardinality(Claims) - 1 /\ Cardinality(Claims) >= 1
        BY <3>1, Finite, Shrunk, ZenonT(120)
    <3> QED
        BY <1>0, <1>1, <3>1, <3>2, Finite, LimitsAssumption, SMTT(120) DEF WorkersBounded, CountExact, TypeOK
  <2>2. CASE ingress[i] = "refused"
    <3>1. Claims' = Claims /\ Overdrawn' = Overdrawn \ {i} /\ i \in Overdrawn
        BY <1>0, <2>2, Zenon DEF TypeOK, Claims, Overdrawn
    <3>2. Cardinality(Overdrawn') = Cardinality(Overdrawn) - 1 /\ Cardinality(Overdrawn) >= 1
        BY <3>1, Finite, Shrunk, ZenonT(120)
    <3> QED
        BY <1>0, <1>1, <3>1, <3>2, Finite, SMTT(120) DEF WorkersBounded, CountExact, TypeOK
  <2> QED
    BY <1>0, <2>1, <2>2, ZenonT(120)
<1>3. TypeOK'
    BY <1>0, <1>2 DEF TypeOK, TakeBack, Ingress
<1>4. LaneBounded' /\ ShutdownOrder'
    BY <1>0, <1>1, ZenonT(120) DEF LaneBounded, ShutdownOrder, TypeOK, Ingress
<1> QED
    BY <1>2, <1>3, <1>4, Zenon DEF IInv

\* The claim becomes a worker. The main thread is not draining: it is the one
\* that spawns, or it still waits for the acceptor that does.
LEMMA SpawnIInv ==
    ASSUME IInv, NEW i \in Ingress, NEW w \in Workers, Spawn(i, w)
    PROVE  IInv'
<1>0. /\ TypeOK /\ WorkersBounded /\ CountExact /\ LaneBounded /\ ShutdownOrder
      /\ ingress[i] = "admitted" /\ worker[w] = "none"
      /\ gActiveWorkers' = gActiveWorkers /\ active_' = active_
      /\ ingress' = [ingress EXCEPT ![i] = "loop"]
      /\ worker' = [worker EXCEPT ![w] = IF i = "udp" THEN "take" ELSE "read"]
    BY ZenonT(120) DEF IInv, Spawn
<1>1. TypeOK'
    BY <1>0, LimitsAssumption DEF TypeOK, Spawn, Ingress
<1>2. /\ Claims' = Claims \ {i} /\ i \in Claims /\ Overdrawn' = Overdrawn
    BY <1>0, Zenon DEF TypeOK, Claims, Overdrawn
<1>3. /\ Alive' = Alive \cup {w} /\ w \notin Alive /\ Leased' = Leased
    BY <1>0, ZenonT(120) DEF TypeOK, Alive, Leased
<1>4. Cardinality(Claims') = Cardinality(Claims) - 1 /\ Cardinality(Alive') = Cardinality(Alive) + 1
    BY <1>2, <1>3, Finite, Grown, Shrunk, Zenon
<1>5. WorkersBounded' /\ CountExact' /\ LaneBounded'
    BY <1>0, <1>2, <1>3, <1>4, Finite, LimitsAssumption, SMTT(120) DEF WorkersBounded, CountExact, LaneBounded, TypeOK
<1>6. ingress'["udp"] \notin {"drain", "closed"}
  <2>1. CASE i = "udp"
    BY <1>0, <2>1, ZenonT(120) DEF TypeOK, Ingress
  <2>2. CASE i = "tcp"
    BY <1>0, <2>2, Zenon DEF ShutdownOrder, TypeOK, Ingress
  <2> QED
    BY <2>1, <2>2, Zenon DEF Ingress
<1>7. ShutdownOrder'
    BY <1>6, Zenon DEF ShutdownOrder
<1> QED
    BY <1>1, <1>5, <1>7, ZenonT(120) DEF IInv

\* The drain ends: a count of zero means that no worker is alive.
LEMMA CloseIInv ==
    ASSUME IInv, Close
    PROVE  IInv'
<1>0. /\ TypeOK /\ CountExact /\ ShutdownOrder
      /\ ingress["udp"] = "drain" /\ gActiveWorkers = 0
      /\ ingress' = [ingress EXCEPT !["udp"] = "closed"]
      /\ UNCHANGED <<gRunning, gActiveWorkers, active_, worker, kind, requests, seen>>
    BY Zenon DEF IInv, Close
<1>1. TypeOK'
    BY <1>0, Zenon DEF TypeOK, Ingress
<1>2. Alive' = Alive /\ Leased' = Leased /\ Claims' = Claims /\ Overdrawn' = Overdrawn
    BY <1>0, Zenon DEF TypeOK, Alive, Leased, Claims, Overdrawn, Ingress
<1>3. Cardinality(Alive) = 0
  <2>1. 0 = Cardinality(Alive) + Cardinality(Claims) + Cardinality(Overdrawn)
    BY <1>0, Zenon DEF CountExact
  <2>2. Cardinality(Alive) \in Nat /\ Cardinality(Claims) \in Nat /\ Cardinality(Overdrawn) \in Nat
    BY Finite, Zenon
  <2> QED
    BY <2>1, <2>2
<1>4. Alive = {}
    BY <1>3, Finite, FS_EmptySet, ZenonT(120)
<1>5. ShutdownOrder'
    BY <1>0, <1>2, <1>4, ZenonT(120) DEF ShutdownOrder, TypeOK, Ingress
<1> QED
    BY <1>0, <1>1, <1>2, <1>5, SameCounts, ZenonT(120) DEF IInv

\* The steps of a worker between its first and its last that do not touch the
\* lane's count: it stays alive, and neither holds nor gets a reservation.
LEMMA QuietWorker ==
    ASSUME IInv, NEW w \in Workers,
           \/ ReadRequest(w) \/ SelectRoute(w) \/ Load(w) \/ SwapFails(w)
           \/ LaneFull(w) \/ DirectExchange(w) \/ Reply(w)
    PROVE  IInv'
<1>0. TypeOK /\ ShutdownOrder
    BY Zenon DEF IInv
<1>1. /\ UNCHANGED <<gRunning, gActiveWorkers, active_, ingress, kind>>
      /\ worker[w] \notin {"none", "exchange"}
    BY Zenon DEF ReadRequest, SelectRoute, Load, SwapFails, LaneFull, DirectExchange, Reply
<1>2. \E state \in {"read", "take", "direct", "load", "swap", "reply", "leave"} :
          worker' = [worker EXCEPT ![w] = state]
  <2>1. CASE SwapFails(w)
    <3>1. worker' = [worker EXCEPT ![w] = "swap"]
        BY <1>0, <2>1, ZenonT(120) DEF SwapFails, TypeOK
    <3> QED
        BY <3>1, Zenon
  <2>2. CASE ~SwapFails(w)
    BY <2>2, ZenonT(120) DEF ReadRequest, SelectRoute, Load, LaneFull, DirectExchange, Reply, Go
  <2> QED
    BY <2>1, <2>2, ZenonT(120)
<1>3. PICK state \in {"read", "take", "direct", "load", "swap", "reply", "leave"} :
          worker' = [worker EXCEPT ![w] = state]
    BY <1>2, Zenon
<1>4. requests' \in [Workers -> 0 .. MaxRequests]
  <2>1. CASE ReadRequest(w)
    BY <1>0, <2>1, LimitsAssumption, SMTT(120) DEF TypeOK, ReadRequest
  <2>2. CASE ~ReadRequest(w)
    BY <1>0, <2>2, ZenonT(120) DEF TypeOK, SelectRoute, Load, SwapFails, LaneFull, DirectExchange, Reply
  <2> QED
    BY <2>1, <2>2, ZenonT(120)
<1>5. seen' \in [Workers -> Nat]
    BY <1>0, ZenonT(120) DEF TypeOK, ReadRequest, SelectRoute, Load, SwapFails, LaneFull, DirectExchange, Reply
<1>6. TypeOK'
    BY <1>0, <1>1, <1>3, <1>4, <1>5, ZenonT(120) DEF TypeOK
<1>7. Alive' = Alive /\ Leased' = Leased
    BY <1>0, <1>1, <1>3, ZenonT(120) DEF TypeOK, Alive, Leased
<1>8. Claims' = Claims /\ Overdrawn' = Overdrawn
    BY <1>1, Zenon DEF Claims, Overdrawn
<1>9. ShutdownOrder'
    BY <1>0, <1>1, <1>7, Zenon DEF ShutdownOrder
<1> QED
    BY <1>1, <1>6, <1>7, <1>8, <1>9, SameCounts, ZenonT(120) DEF IInv

\* A reservation is taken when the lane's count is still the one compared with
\* the limit, and given back once.
LEMMA LaneIInv ==
    ASSUME IInv, NEW w \in Workers, Swap(w) \/ Release(w)
    PROVE  IInv'
<1>0. TypeOK /\ WorkersBounded /\ CountExact /\ LaneBounded /\ ShutdownOrder
    BY Zenon DEF IInv
<1>1. UNCHANGED <<gRunning, gActiveWorkers, ingress, kind, requests, seen>>
    BY Zenon DEF Swap, Release
<1>2. Claims' = Claims /\ Overdrawn' = Overdrawn
    BY <1>1, Zenon DEF Claims, Overdrawn
<1>3. Alive' = Alive
    BY <1>0, ZenonT(120) DEF TypeOK, Alive, Swap, Release, Go
<1>4. LaneBounded' /\ active_' \in Nat
  <2>1. CASE Swap(w)
    <3>1. Leased' = Leased \cup {w} /\ w \notin Leased
        BY <1>0, <2>1, Zenon DEF TypeOK, Leased, Swap, Go
    <3>2. Cardinality(Leased') = Cardinality(Leased) + 1
        BY <3>1, Finite, Grown, Zenon
    <3>3. active_' = active_ + 1 /\ active_ < kMaxTunnelExchanges
        BY <2>1, ZenonT(120) DEF Swap, Unchanged
    <3> QED
        BY <1>0, <3>2, <3>3, LimitsAssumption, SMTT(120) DEF LaneBounded, TypeOK
  <2>2. CASE Release(w)
    <3>1. Leased' = Leased \ {w} /\ w \in Leased
        BY <1>0, <2>2, Zenon DEF TypeOK, Leased, Release, Go
    <3>2. Cardinality(Leased') = Cardinality(Leased) - 1 /\ Cardinality(Leased) >= 1
        BY <3>1, Finite, Shrunk, ZenonT(120)
    <3>3. active_' = active_ - 1
        BY <2>2, ZenonT(120) DEF Release
    <3> QED
        BY <1>0, <3>2, <3>3, LimitsAssumption, SMTT(120) DEF LaneBounded, TypeOK
  <2> QED
    BY <2>1, <2>2, ZenonT(120)
<1>5. TypeOK'
    BY <1>0, <1>1, <1>4, ZenonT(120) DEF TypeOK, Swap, Release, Go
<1>6. WorkersBounded' /\ CountExact' /\ ShutdownOrder'
    BY <1>0, <1>1, <1>2, <1>3, ZenonT(120) DEF WorkersBounded, CountExact, ShutdownOrder
<1> QED
    BY <1>4, <1>5, <1>6, ZenonT(120) DEF IInv

\* The worker ends and uncounts itself.
LEMMA LeaveIInv ==
    ASSUME IInv, NEW w \in Workers, Leave(w)
    PROVE  IInv'
<1>0. /\ TypeOK /\ WorkersBounded /\ CountExact /\ LaneBounded /\ ShutdownOrder
      /\ worker[w] = "leave" /\ worker' = [worker EXCEPT ![w] = "none"]
      /\ gActiveWorkers' = gActiveWorkers - 1
      /\ UNCHANGED <<gRunning, active_, ingress, kind, requests, seen>>
    BY Zenon DEF IInv, Leave, Go
<1>1. Claims' = Claims /\ Overdrawn' = Overdrawn
    BY <1>0, Zenon DEF Claims, Overdrawn
<1>2. Alive' = Alive \ {w} /\ w \in Alive /\ Leased' = Leased
    BY <1>0, ZenonT(120) DEF TypeOK, Alive, Leased
<1>3. Cardinality(Alive') = Cardinality(Alive) - 1 /\ Cardinality(Alive) >= 1
    BY <1>2, Finite, Shrunk, ZenonT(120)
<1>4. WorkersBounded' /\ CountExact' /\ gActiveWorkers' \in Nat
    BY <1>0, <1>1, <1>3, Finite, LimitsAssumption, SMTT(120) DEF WorkersBounded, CountExact, TypeOK
<1>5. TypeOK'
    BY <1>0, <1>4, ZenonT(120) DEF TypeOK
<1>6. LaneBounded' /\ ShutdownOrder'
    BY <1>0, <1>2, ZenonT(120) DEF LaneBounded, ShutdownOrder
<1> QED
    BY <1>4, <1>5, <1>6, ZenonT(120) DEF IInv

\* Every step of the main thread, the acceptor and the workers preserves the invariant.
LEMMA StepIInv == IInv /\ [Next]_vars => IInv'
<1> SUFFICES ASSUME IInv, [Next]_vars PROVE IInv'
    BY Zenon
<1>1. ASSUME NEW i \in Ingress, IngressStep(i) PROVE IInv'
    BY <1>1, QuietIngress, FetchAddIInv, TakeBackIInv, SpawnIInv, ZenonT(120) DEF IngressStep
<1>2. CASE MainStep \/ AcceptorFails \/ Stop
  <2>1. "udp" \in Ingress
    BY Zenon DEF Ingress
  <2> QED
    BY <1>2, <2>1, QuietIngress, CloseIInv, ZenonT(120) DEF MainStep
<1>3. ASSUME NEW w \in Workers, WorkerStep(w) PROVE IInv'
    BY <1>3, QuietWorker, LaneIInv, LeaveIInv, ZenonT(120) DEF WorkerStep
<1>4. CASE UNCHANGED vars
  <2>1. TypeOK' /\ ShutdownOrder'
    BY <1>4, Zenon DEF vars, IInv, TypeOK, ShutdownOrder, Alive
  <2>2. Alive' = Alive /\ Leased' = Leased /\ Claims' = Claims /\ Overdrawn' = Overdrawn
    BY <1>4, Zenon DEF vars, Alive, Leased, Claims, Overdrawn
  <2> QED
    BY <1>4, <2>1, <2>2, SameCounts, ZenonT(120) DEF vars, IInv
<1> QED
    BY <1>1, <1>2, <1>3, <1>4, ZenonT(120) DEF Next

\* The inductive invariant holds throughout.
THEOREM Invariance == Spec => []IInv
BY InitIInv, StepIInv, PTL DEF Spec

\* The type invariant, for any number of threads and any limits.
THEOREM TypeCorrect == Spec => []TypeOK
<1>1. IInv => TypeOK
    BY Zenon DEF IInv
<1> QED
    BY <1>1, Invariance, PTL

\* Whatever the number of threads and the limits, neither is exceeded and both counts are exact:
\* acquireWorker and WorkerLease for the workers, ExchangeLimit::Lease for the tunnel lane.
THEOREM LimitsAreExact == Spec => []LimitsExact
<1>1. IInv => LimitsExact
    BY Zenon DEF IInv, LimitsExact
<1> QED
    BY <1>1, Invariance, PTL

\* No worker outlives what it borrows from wmain.
THEOREM DrainIsSafe == Spec => []NothingAfterClose
<1>1. IInv => NothingAfterClose
    BY Zenon DEF IInv, ShutdownOrder, NothingAfterClose
<1> QED
    BY <1>1, Invariance, PTL
=============================================================================
