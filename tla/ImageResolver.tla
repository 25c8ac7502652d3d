---------------------------- MODULE ImageResolver ---------------------------
(***************************************************************************)
(* Finding a DNS client's image without letting one slow path stall the    *)
(* event stream: a fixed pool of workers resolves pinned process handles   *)
(* in a fixed set of slots, and the single consumer waits for an answer    *)
(* only within an allowance all processes share.  Answers live in a        *)
(* bounded cache keyed by process ID and creation time.                    *)
(*                                                                         *)
(* A process instance is <<pid, created>>, and stands for its own image    *)
(* path.  Windows gives a process ID out again only when the old process   *)
(* has no open handle.  Time is in ticks; kWait and Second are the code's  *)
(* 150 ms and 1 s in them.                                                 *)
(***************************************************************************)
EXTENDS Naturals, FiniteSets, SequencesExt

CONSTANTS
    Workers, Slots,     \* kWorkers and kSlots
    kCacheEntries, kWait, Second,
    Keys,               \* process instances <<pid, created>>
    MaxTime, MaxCalls   \* bounds: ticks, calls of identify

NoKey == <<0, 0>>
NoPath == <<0, 0>>
Pids == {k[1] : k \in Keys}

VARIABLES
    holder,         \* the process that has each process ID now
    jobs,           \* the slots
    worker,         \* each worker: what it does, in which slot
    work,           \* the semaphore's count
    stop,           \* the stop event
    cache, recent,  \* the consumer's cache and its order of use
    consumer,       \* the consumer's call
    windowStarted, waited,
    owner,          \* the resolver object: alive, joining, gone
    handles,        \* open process handles, by process
    blocked,        \* history: the ticks the consumer waited through
    answer,         \* history: the last answer, and the process asked about
    time, calls

pool == <<jobs, worker, work>>
own == <<cache, recent, windowStarted, waited>>
vars == <<holder, pool, stop, own, consumer, owner, handles, blocked, answer,
          time, calls>>

EmptyJob == [phase |-> "Empty", key |-> NoKey, process |-> "null",
             image |-> NoPath, path |-> NoPath, submitted |-> 0, started |-> 0, done |-> FALSE]
IdleConsumer == [pc |-> "idle", key |-> NoKey, process |-> NoKey,
                 slot |-> 0, now |-> 0, owned |-> FALSE, until |-> 0,
                 from |-> 0]
NoAnswer == [process |-> NoKey, path |-> NoPath, status |-> "None"]

CloseOne(k) == handles' = [handles EXCEPT ![k] = @ - 1]

-----------------------------------------------------------------------------
(* The cache.                                                              *)

(* cached(): an expired negative answer is dropped from both containers.   *)
Expired(c, k, now) == c[k].expires # 0 /\ now >= c[k].expires
Drop(c, k) == [x \in DOMAIN c \ {k} |-> c[x]]

Without(order, k) == SelectSeq(order, LAMBDA x : x # k)

(* harvest(): every finished job becomes the most recent entry, in slot    *)
(* order; at the limit the least recently used one goes first.             *)
AbsorbUnbounded(store, job) ==
    LET c1 == Drop(store.cache, job.key)
        r1 == Without(store.recent, job.key)
        entry == [path |-> job.path,
                  expires |-> IF job.path = NoPath THEN time + Second ELSE 0]
    IN  [cache |-> [x \in DOMAIN c1 \cup {job.key} |->
                        IF x = job.key THEN entry ELSE c1[x]],
         recent |-> <<job.key>> \o r1]
Absorb(store, job) ==
    LET full == Cardinality(DOMAIN store.cache) >= kCacheEntries
        c0 == IF full THEN Drop(store.cache, Last(store.recent))
              ELSE store.cache
        r0 == IF full THEN Front(store.recent) ELSE store.recent
    IN  AbsorbUnbounded([cache |-> c0, recent |-> r0], job)

Finished == SetToSortSeq({s \in Slots : jobs[s].phase = "Done"},
                         LAMBDA a, b : a < b)
Harvested == FoldLeft(LAMBDA store, s : Absorb(store, jobs[s]),
                      [cache |-> cache, recent |-> recent], Finished)
Emptied == [s \in Slots |-> IF jobs[s].phase = "Done"
                              THEN [jobs[s] EXCEPT !.phase = "Empty",
                                                   !.path = NoPath]
                              ELSE jobs[s]]

(* harvest, then cached(key, now): what the cache holds afterwards, and    *)
(* whether the key is in it.                                               *)
HarvestAndLook(k, now) ==
    LET h == Harvested
        gone == k \in DOMAIN h.cache /\ Expired(h.cache, k, now)
        hit == k \in DOMAIN h.cache /\ ~gone
    IN  [hit |-> hit,
         cache |-> IF gone THEN Drop(h.cache, k) ELSE h.cache,
         recent |-> IF gone THEN Without(h.recent, k)
                    ELSE IF hit THEN <<k>> \o Without(h.recent, k)
                    ELSE h.recent]

Answer(path, status) ==
    answer' = [process |-> consumer.process, path |-> path, status |-> status]

Known(c, k) == Answer(c[k].path,
                      IF c[k].path = NoPath THEN "Unavailable" ELSE "Known")

-----------------------------------------------------------------------------
(* The consumer.                                                           *)

KeyOf(p) == p

(* identify(): refused once stopping, otherwise the process is pinned and  *)
(* named by its ID and creation time.                                      *)
Identify(pid) ==
    /\ consumer.pc = "idle" /\ owner = "alive"
    /\ calls < MaxCalls /\ time < MaxTime
    /\ calls' = calls + 1
    /\ IF stop THEN /\ UNCHANGED <<consumer, handles>>
                    /\ answer' = NoAnswer
       ELSE /\ consumer' = [IdleConsumer EXCEPT !.pc = "look", !.now = time,
                                !.key = KeyOf(holder[pid]),
                                !.process = holder[pid], !.owned = TRUE]
            /\ handles' = [handles EXCEPT ![KeyOf(holder[pid])] = @ + 1]
            /\ UNCHANGED answer
    /\ UNCHANGED <<holder, pool, stop, own, owner, blocked, time>>

(* A call returns; a handle it still owns is closed.                       *)
Return == /\ consumer' = IdleConsumer
          /\ IF consumer.owned THEN CloseOne(consumer.key)
             ELSE UNCHANGED handles

Look ==
    /\ consumer.pc = "look"
    /\ LET l == HarvestAndLook(consumer.key, consumer.now)
       IN  /\ cache' = l.cache /\ recent' = l.recent
           /\ IF l.hit THEN Known(l.cache, consumer.key) /\ Return
              ELSE /\ consumer' = [consumer EXCEPT !.pc = "submit"]
                   /\ UNCHANGED <<answer, handles>>
    /\ jobs' = Emptied
    /\ UNCHANGED <<holder, worker, work, stop, windowStarted, waited, owner,
                   blocked, time, calls>>

(* Under the pool mutex: join the slot that has this key, or refuse when   *)
(* every worker is overdue or no slot is empty, or take one and release    *)
(* the semaphore.                                                          *)
Overdue == {w \in Workers : worker[w].pc \in {"resolve", "close", "publish"}
                /\ consumer.now >= jobs[worker[w].slot].started
                /\ consumer.now - jobs[worker[w].slot].started >= kWait}

Joined == {s \in Slots : jobs[s].phase # "Empty"
                         /\ jobs[s].key = consumer.key}
Free == {s \in Slots : jobs[s].phase = "Empty"}
Lowest(S) == CHOOSE s \in S : \A t \in S : s <= t

Join ==
    /\ consumer.pc = "submit" /\ Joined # {}
    /\ consumer' = [consumer EXCEPT !.pc = "wait", !.slot = Lowest(Joined)]
    /\ UNCHANGED <<holder, pool, stop, own, owner, handles, blocked, answer,
                   time, calls>>

Saturated == Overdue = Workers \/ Free = {}
Refuse ==
    /\ consumer.pc = "submit" /\ Joined = {} /\ Saturated
    /\ Answer(NoPath, "Pending") /\ Return
    /\ UNCHANGED <<holder, pool, stop, own, owner, blocked, time, calls>>

Submit ==
    /\ consumer.pc = "submit" /\ Joined = {} /\ ~Saturated
    /\ LET s == Lowest(Free)
       IN  /\ jobs' = [jobs EXCEPT ![s] =
                          [EmptyJob EXCEPT !.phase = "Queued", !.process = "open",
                              !.key = consumer.key, !.image = consumer.process,
                              !.submitted = consumer.now]]
           /\ consumer' = [consumer EXCEPT !.pc = "wait", !.slot = s,
                                           !.owned = FALSE]
    /\ work' = work + 1
    /\ UNCHANGED <<holder, worker, stop, own, owner, handles, blocked, answer,
                   time, calls>>

(* The allowance: what is left of this request's wait and of the window's. *)
Minimum(a, b) == IF a <= b THEN a ELSE b
Monus(a, b) == IF a > b THEN a - b ELSE 0
Allowance(elapsed, spent) == Minimum(Monus(kWait, elapsed), Monus(kWait, spent))

BeginWait ==
    /\ consumer.pc = "wait"
    /\ LET fresh == time - windowStarted >= Second
           spent == IF fresh THEN 0 ELSE waited
           elapsed == time - jobs[consumer.slot].submitted
       IN  /\ windowStarted' = IF fresh THEN time ELSE windowStarted
           /\ waited' = spent
           /\ consumer' = [consumer EXCEPT !.pc = "waiting", !.from = time,
                              !.until = time + Allowance(elapsed, spent)]
    /\ UNCHANGED <<holder, pool, stop, cache, recent, owner, handles, blocked,
                   answer, time, calls>>

EndWait ==
    /\ consumer.pc = "waiting"
    /\ stop \/ jobs[consumer.slot].done \/ time >= consumer.until
    /\ waited' = waited + (time - consumer.from)
    /\ consumer' = [consumer EXCEPT !.pc = "last"]
    /\ UNCHANGED <<holder, pool, stop, cache, recent, windowStarted, owner,
                   handles, blocked, answer, time, calls>>

LookAgain ==
    /\ consumer.pc = "last"
    /\ Return
    /\ IF stop THEN /\ answer' = NoAnswer /\ UNCHANGED <<cache, recent, jobs>>
       ELSE LET l == HarvestAndLook(consumer.key, time)
            IN  /\ cache' = l.cache /\ recent' = l.recent /\ jobs' = Emptied
                /\ IF l.hit THEN Known(l.cache, consumer.key)
                   ELSE Answer(NoPath, "Pending")
    /\ UNCHANGED <<holder, worker, work, stop, windowStarted, waited, owner,
                   blocked, time, calls>>

-----------------------------------------------------------------------------
(* A worker.                                                               *)

Set(w, pc, s) == worker' = [worker EXCEPT ![w] = [pc |-> pc, slot |-> s]]

(* The stop event is waited for first, so it wins.                         *)
Wake(w) == /\ worker[w].pc = "wait"
           /\ \/ stop /\ Set(w, "exited", 0) /\ UNCHANGED work
              \/ ~stop /\ work > 0 /\ work' = work - 1 /\ Set(w, "take", 0)
           /\ UNCHANGED <<holder, jobs, stop, own, consumer, owner, handles,
                          blocked, answer, time, calls>>

Queued == {s \in Slots : jobs[s].phase = "Queued"}
Oldest == CHOOSE s \in Queued : \A t \in Queued :
              \/ jobs[s].submitted < jobs[t].submitted
              \/ jobs[s].submitted = jobs[t].submitted /\ s <= t

Take(w) == /\ worker[w].pc = "take"
           /\ IF Queued = {} THEN Set(w, "wait", 0) /\ UNCHANGED jobs
              ELSE /\ jobs' = [jobs EXCEPT ![Oldest].phase = "Running",
                                           ![Oldest].started = time]
                   /\ Set(w, "resolve", Oldest)
           /\ UNCHANGED <<holder, work, stop, own, consumer, owner, handles,
                          blocked, answer, time, calls>>

(* The image path, or nothing when it cannot be read; it may take any      *)
(* time.                                                                   *)
Resolve(w) == /\ worker[w].pc = "resolve"
              /\ \E found \in {jobs[worker[w].slot].image, NoPath} :
                     worker' = [worker EXCEPT ![w] =
                                   [pc |-> "close", slot |-> @.slot,
                                    path |-> found]]
              /\ UNCHANGED <<holder, jobs, work, stop, own, consumer, owner,
                             handles, blocked, answer, time, calls>>

(* CloseHandle outside the mutex leaves the slot's pointer behind.         *)
Close(w) == /\ worker[w].pc = "close"
            /\ LET s == worker[w].slot
               IN  /\ CloseOne(jobs[s].key)
                   /\ jobs' = [jobs EXCEPT ![s].process = "stale"]
            /\ worker' = [worker EXCEPT ![w].pc = "publish"]
            /\ UNCHANGED <<holder, work, stop, own, consumer, owner, blocked,
                           answer, time, calls>>

Publish(w) == /\ worker[w].pc = "publish"
              /\ jobs' = [jobs EXCEPT ![worker[w].slot] =
                             [@ EXCEPT !.process = "null",
                                       !.path = worker[w].path,
                                       !.phase = "Done", !.done = TRUE]]
              /\ Set(w, "wait", 0)
              /\ UNCHANGED <<holder, work, stop, own, consumer, owner, handles,
                             blocked, answer, time, calls>>

-----------------------------------------------------------------------------
(* cancel(), from any thread; the destructor, once the consumer is done:   *)
(* it waits at most a second for the workers and gives up its share.       *)

Cancel == /\ ~stop
          /\ stop' = TRUE
          /\ UNCHANGED <<holder, pool, own, consumer, owner, handles, blocked,
                         answer, time, calls>>

Destroy == /\ owner = "alive" /\ consumer.pc = "idle"
           /\ owner' = "joining" /\ stop' = TRUE
           /\ UNCHANGED <<holder, pool, own, consumer, handles, blocked,
                          answer, time, calls>>

Release == /\ owner = "joining"
           /\ owner' = "gone"
           /\ UNCHANGED <<holder, pool, stop, own, consumer, handles, blocked,
                          answer, time, calls>>

(* The last share is given up: ~Job closes what a slot still points at.    *)
Exited == \A w \in Workers : worker[w].pc = "exited"
Freed == owner = "gone" /\ Exited
FreeState == /\ Freed /\ \E s \in Slots : jobs[s].process # "null"
             /\ handles' = [k \in Keys |-> handles[k] -
                    Cardinality({s \in Slots : jobs[s].key = k
                                     /\ jobs[s].process # "null"})]
             /\ jobs' = [s \in Slots |-> [jobs[s] EXCEPT !.process = "null"]]
             /\ UNCHANGED <<holder, worker, work, stop, own, consumer, owner,
                            blocked, answer, time, calls>>

(* A process ID is given to a later process when no handle keeps the old   *)
(* one.                                                                    *)
ReusePid == \E k \in Keys :
    /\ k[2] = holder[k[1]][2] + 1 /\ handles[KeyOf(holder[k[1]])] = 0
    /\ holder' = [holder EXCEPT ![k[1]] = k]
    /\ UNCHANGED <<pool, stop, own, consumer, owner, handles, blocked, answer,
                   time, calls>>

Tick == /\ time < MaxTime \/ consumer.pc = "waiting"
        /\ consumer.pc = "waiting" => time < consumer.until
        /\ time' = time + 1
        /\ blocked' = IF consumer.pc = "waiting" THEN blocked \cup {time}
                      ELSE blocked
        /\ UNCHANGED <<holder, pool, stop, own, consumer, owner, handles,
                       answer, calls>>

-----------------------------------------------------------------------------
Init == /\ holder = [p \in Pids |-> <<p, 1>>]
        /\ jobs = [s \in Slots |-> EmptyJob]
        /\ worker = [w \in Workers |-> [pc |-> "wait", slot |-> 0]]
        /\ work = 0 /\ stop = FALSE
        /\ cache = <<>> /\ recent = <<>>
        /\ consumer = IdleConsumer
        /\ windowStarted = 0 /\ waited = 0
        /\ owner = "alive"
        /\ handles = [k \in Keys |-> 0]
        /\ blocked = {} /\ answer = NoAnswer
        /\ time = 0 /\ calls = 0

Call == Look \/ Join \/ Refuse \/ Submit \/ BeginWait \/ EndWait \/ LookAgain
Step(w) == Wake(w) \/ Take(w) \/ Resolve(w) \/ Close(w) \/ Publish(w)

Next == \/ \E p \in Pids : Identify(p)
        \/ Call
        \/ \E w \in Workers : Step(w)
        \/ Cancel \/ Destroy \/ Release \/ FreeState \/ ReusePid \/ Tick

Spec == Init /\ [][Next]_vars

-----------------------------------------------------------------------------
TypeOK ==
    /\ \A s \in Slots :
          /\ jobs[s].phase \in {"Empty", "Queued", "Running", "Done"}
          /\ jobs[s].key \in Keys \cup {NoKey}
          /\ jobs[s].process = "open" =>
                jobs[s].phase \in {"Queued", "Running"}
          /\ jobs[s].process = "stale" => jobs[s].phase = "Running"
    /\ work \in 0..Cardinality(Slots)
    /\ DOMAIN cache \subseteq Keys /\ recent \in Seq(Keys)
    /\ \A k \in Keys : handles[k] \in Nat
    /\ time \in 0..(MaxTime + kWait) /\ calls \in 0..MaxCalls


(* The cache stays within its limit, and its order of use names exactly    *)
(* its entries, once each, so eviction always finds what it removes.       *)
CacheExact == /\ Cardinality(DOMAIN cache) <= kCacheEntries
              /\ ToSet(recent) = DOMAIN cache
              /\ Len(recent) = Cardinality(DOMAIN cache)

(* Every pinned process handle has one owner, which closes it once: the    *)
(* call, a slot, or nobody any more.                                       *)
HandlesOwned ==
    \A k \in Keys : handles[k] =
        Cardinality({s \in Slots : jobs[s].key = k /\ jobs[s].process = "open"})
        + (IF consumer.owned /\ consumer.key = k THEN 1 ELSE 0)

(* The semaphore counts the queued jobs a worker has not been woken for,   *)
(* so no job waits unseen and no worker spins on nothing.                  *)
WakeupsExact ==
    Cardinality(Queued) =
        work + Cardinality({w \in Workers : worker[w].pc = "take"})

(* One slow image cannot hold the event stream up: in any second the       *)
(* consumer waits for at most two allowances, whatever it is asked about.  *)
WaitBounded ==
    \A t \in 0..time :
        Cardinality(blocked \cap t..(t + Second - 1)) <= 2 * kWait

(* Every call returns, even while every resolution hangs.                  *)
CallReturns == []<>(consumer.pc = "idle")
=============================================================================
