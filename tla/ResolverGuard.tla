--------------------------- MODULE ResolverGuard ----------------------------
(***************************************************************************)
(* The Linux resolver guard (resolver_guard.bpf.c): which socket and file    *)
(* operations reach a resolver, decided by hooks that run beside renames,    *)
(* binds and guard-slot edits of the loader.  Three caches make the hooks    *)
(* cheap: a label on each stream, a "no role" entry on each inode, and the   *)
(* role committed to an inode.  A rename or bind changes what they were      *)
(* computed from while other tasks are inside the hooks.                     *)
(*                                                                           *)
(* A role is one bit here: the roles of a slot match the kind of the object  *)
(* in it.  A verdict is "safe" (the hook returns 0) or "guarded" (the task's *)
(* executable decides, see PolicySelect).  A stream stands for both of its   *)
(* sockets, which are labelled alike.  Every inode has one link: the guard   *)
(* caches nothing for others, and a link made in a slot is outside what it   *)
(* covers (docs/linux.md:126).  The loader attached every hook before the    *)
(* behaviour starts; a rename or bind may have entered before that.          *)
(***************************************************************************)
EXTENDS Integers, Sequences, FiniteSets, TLC

CONSTANTS
    Sockets,        \* inodes of bound Unix sockets
    Files,          \* inodes of regular files
    Streams,        \* stream sockets
    Readers,        \* tasks that use a stream or a file
    Mutators,       \* tasks that rename, bind or change an owner
    MaxMutations,   \* bound: renames, binds and owner changes
    MaxEdits,       \* bound: guard-slot edits and readiness changes
    MaxOps,         \* bound: stream and file operations
    Fresh           \* the guard was just attached and is not settled yet

VARIABLES
    at,             \* [Inodes -> the place (parent and name) of the inode]
    addr,           \* [Sockets -> the place its bind address spells]
    bound,          \* [Streams -> the inode the socket itself is bound to]
    peer,           \* [Streams -> the inode its published peer is bound to]
    ruled,          \* the directory of "child" has a name and an owner the built-in rules match
    slots,          \* guard_slots, endpoint_names: the enrolled places
    roles,          \* object_roles: the inodes with a committed role
    held,           \* held_roles: the inodes a rename holds a role for
    negative,       \* negative_roles: [Inodes -> stamp]
    word,           \* stream_roles: [Streams -> stamp and role, published in one store]
    generation,     \* role_generation
    config,         \* guard_config: odd during an edit; SETTLED is its bit 62
    ready,          \* policy_cfg.ready
    loader,         \* the loader command in progress: a step and a place
    mut,            \* [Mutators -> the call in progress]
    rd,             \* [Readers -> the operation in progress]
    left,           \* history: inodes renamed out of a protected place
    early,          \* history: streams bound before they connected
    count           \* mutations, edits and operations so far

cacheVars == <<roles, held, negative, word>>
fileVars == <<at, addr, bound, peer, ruled, left, early>>
loaderVars == <<slots, config, ready, loader>>
vars == <<fileVars, cacheVars, loaderVars, generation, mut, rd, count>>

Inodes == Sockets \cup Files
Nowhere == "nowhere"
\* A slot the loader seeded, one it may enrol, one with a name no rule knows, and one whose role
\* the name and the owner of its directory decide.
Places == {"slot", "custom", "plain", "child"}
None == "none"
Unnamed == "unnamed"     \* the other end of a socketpair
SETTLED == 100      \* above any count of edits and generations
Settled(c) == c >= SETTLED
Stale == [stamp |-> -1, safe |-> FALSE]
Idle == [pc |-> "idle"]

\* dentry_role(): the slot map, or the built-in rules on the names of the parents.
DentryRole(p) == p \in slots \/ (p = "child" /\ ruled)

\* Only a role from the slot map alone may be cached.
Cacheable(p) == p # "child"

\* address_role(): the immutable bind address.
AddressRole(i) == i \in Sockets /\ addr[i] \in slots

Free(p) == \A i \in Inodes : at[i] # p

\* A call that entered before its completion program attached: in its hooks, or past them.
Early ==
    {Idle} \cup
    {[pc |-> p, op |-> "rename", moves |-> {<<i, q>>}, hooks |-> IF p = "hook" THEN {<<i, q>>} ELSE {},
      seen |-> p = "hook", covered |-> FALSE, into |-> {q}] : p \in {"hook", "effect"}, i \in Inodes, q \in {"slot", "plain"}}

Init ==
    /\ at \in [Inodes -> Places \cup {Nowhere}]
    /\ \A i, j \in Inodes : i # j /\ at[i] = at[j] => at[i] = Nowhere
    /\ \A f \in Files : at[f] \in {"slot", "plain"}
    /\ addr \in [Sockets -> {"alias", "slot"}]
    /\ \A i \in Sockets : addr[i] = "slot" => at[i] = "slot"
    /\ bound = [c \in Streams |-> None]
    /\ peer = [c \in Streams |-> None]
    /\ ruled \in BOOLEAN
    /\ slots = {"slot"}
    /\ roles = {} /\ held = {} /\ left = {} /\ early = {}
    /\ negative = [i \in Inodes |-> -1]
    /\ word = [c \in Streams |-> Stale]
    /\ generation = 0 /\ config = IF Fresh THEN 0 ELSE SETTLED
    /\ ready = FALSE /\ loader = Idle
    /\ mut \in [Mutators -> Early]
    /\ \A m \in Mutators : mut[m].pc # "idle" => \A s \in mut[m].moves : at[s[1]] \in Places /\ Free(s[2])
    /\ Cardinality({m \in Mutators : mut[m].pc # "idle"}) <= IF Fresh THEN 1 ELSE 0
    /\ rd = [r \in Readers |-> Idle]
    /\ count = [mutations |-> 0, edits |-> 0, ops |-> 0]

-----------------------------------------------------------------------------
(* What is protected once every call that changed it has returned.          *)

Touches(m, i) ==
    /\ mut[m].pc # "idle"
    /\ CASE mut[m].op = "rename" -> \E s \in mut[m].moves : s[1] = i
         [] mut[m].op = "bind" -> mut[m].inode = i
         [] OTHER -> at[i] = "child"
Moving(i) == \E m \in Mutators : Touches(m, i)
Protected(i) == i \in left \/ DentryRole(at[i]) \/ AddressRole(i)
Ends(c) == {bound[c], peer[c]} \ {None, Unnamed}
Due(S) == {i \in S : Protected(i) /\ ~Moving(i)}
\* A file that a rename moved and still holds is already visible in its slot.
MovedHeld(i) == i \in held /\ \E m \in Mutators : Touches(m, i) /\ mut[m].pc = "renamed"

-----------------------------------------------------------------------------
(* Operations.  Each step is one access to state that other tasks change.    *)

Begin(r, op) ==
    /\ rd[r].pc = "idle" /\ count.ops < MaxOps
    /\ count' = [count EXCEPT !.ops = @ + 1]
    /\ rd' = [rd EXCEPT ![r] = op]
    /\ early' = IF op.kind = "connect" /\ bound[op.on] # None THEN early \cup {op.on} ELSE early
    /\ UNCHANGED <<at, addr, bound, peer, ruled, left, cacheVars, loaderVars, generation, mut>>

\* stream_guard(), for send, receive, read and descriptor receipt: role_version() reads the
\* generation first.
StreamOp(r, c) ==
    Begin(r, [pc |-> "config", kind |-> "stream", on |-> c, gen |-> generation, due |-> Due(Ends(c))])

\* guard_connect() of c to the listener bound to i; one connect of a socket at a time.
Connect(r, c, i) ==
    /\ peer[c] = None /\ at[i] # Nowhere
    /\ \A q \in Readers : rd[q].pc # "idle" /\ rd[q].kind = "connect" => rd[q].on # c
    /\ Begin(r, [pc |-> "config", kind |-> "connect", on |-> c, to |-> i, gen |-> generation,
                 due |-> Due({i})])

\* guard_pair(): a fresh pair, which no other task reaches before the call returns.
Pair(c) ==
    /\ peer[c] = None /\ bound[c] = None /\ word[c] = Stale
    /\ \A q \in Readers : rd[q].pc # "idle" => rd[q].on # c
    /\ \A m \in Mutators : mut[m].pc # "idle" /\ mut[m].op = "bind" => mut[m].on # c
    /\ peer' = [peer EXCEPT ![c] = Unnamed]
    /\ word' = IF Settled(config) THEN [word EXCEPT ![c] = [stamp |-> generation + config, safe |-> TRUE]] ELSE word
    /\ UNCHANGED <<at, addr, bound, ruled, left, early, roles, held, negative, loaderVars, generation, mut, rd, count>>

\* file_guard(), for open, mmap, read and descriptor receipt of a regular file; guard_datagram().
ObjectOp(r, i) ==
    /\ at[i] # Nowhere
    /\ Begin(r, [pc |-> "known", kind |-> "object", on |-> i, todo |-> <<i>>,
                 due |-> IF MovedHeld(i) THEN {i} ELSE Due({i})])

Go(r, state) ==
    rd' = [rd EXCEPT ![r] = state]

\* Verdict of the hook; a connect still has its peer to publish.
Decide(r, safe) ==
    Go(r, [rd[r] EXCEPT !.pc = IF safe THEN "safe" ELSE "guarded"])

\* role_version() then reads the configuration; a current label decides, otherwise the peer is read
\* once and the endpoints are resolved.
ReadConfig(r) ==
    LET op == rd[r] IN
    /\ op.pc = "config"
    /\ IF op.kind = "stream" /\ word[op.on].stamp = op.gen + config
       THEN Decide(r, config % 2 = 0 /\ word[op.on].safe)
       ELSE Go(r, [pc |-> "known", kind |-> op.kind, on |-> op.on, due |-> op.due, gen |-> op.gen, conf |-> config,
                   todo |-> IF op.kind = "stream" THEN <<bound[op.on], peer[op.on]>> ELSE <<op.to>>,
                   to |-> IF op.kind = "stream" THEN peer[op.on] ELSE op.to])
    /\ UNCHANGED <<fileVars, cacheVars, loaderVars, generation, mut, count>>

Found(r, yes) ==
    IF rd[r].kind = "object"
    THEN Decide(r, ~yes)
    ELSE Go(r, [pc |-> "label", kind |-> rd[r].kind, on |-> rd[r].on, to |-> rd[r].to, due |-> rd[r].due,
                gen |-> rd[r].gen, conf |-> rd[r].conf, found |-> yes])

\* unix_role(), peer_role(): no role of the inode, so its bind address; then the next endpoint.
NoRole(r) ==
    LET rest == Tail(rd[r].todo) IN
    IF Head(rd[r].todo) \in Inodes /\ AddressRole(Head(rd[r].todo)) THEN Found(r, TRUE)
    ELSE IF rest = <<>> THEN Found(r, FALSE)
    ELSE Go(r, [rd[r] EXCEPT !.pc = "known", !.todo = rest])


\* object_role(): a committed or held role.
Known(r) ==
    /\ rd[r].pc = "known"
    /\ LET i == Head(rd[r].todo) IN
       IF i \notin Inodes THEN NoRole(r)
       ELSE IF i \in roles \cup held THEN Found(r, TRUE)
       ELSE Go(r, [rd[r] EXCEPT !.pc = "negative"])
    /\ UNCHANGED <<fileVars, cacheVars, loaderVars, generation, mut, count>>

\* The stamp is read before the name; a current "no role" entry answers.
LookupNegative(r) ==
    LET i == Head(rd[r].todo)
        stable == config % 2 = 0 /\ Settled(config)
        epoch == config + generation IN
    /\ rd[r].pc = "negative"
    /\ IF stable /\ negative[i] = epoch
       THEN NoRole(r)
       ELSE Go(r, [pc |-> "resolve", stable |-> stable, epoch |-> epoch] @@ rd[r])
    /\ UNCHANGED <<fileVars, cacheVars, loaderVars, generation, mut, count>>

\* dentry_role(), label_inode(): a role is committed to the inode.
Resolve(r) ==
    LET i == Head(rd[r].todo) IN
    /\ rd[r].pc = "resolve"
    /\ IF DentryRole(at[i])
       THEN roles' = roles \cup {i} /\ Found(r, TRUE)
       ELSE /\ IF Cacheable(at[i]) /\ rd[r].stable
               THEN Go(r, [rd[r] EXCEPT !.pc = "cache"])
               ELSE NoRole(r)
            /\ UNCHANGED roles
    /\ UNCHANGED <<fileVars, held, negative, word, loaderVars, generation, mut, count>>


CacheNegative(r) ==
    /\ rd[r].pc = "cache"
    /\ negative' = [negative EXCEPT ![Head(rd[r].todo)] = rd[r].epoch]
    /\ NoRole(r)
    /\ UNCHANGED <<fileVars, roles, held, word, loaderVars, generation, mut, count>>

\* set_stream_role() with the version read before the peer was resolved.  A safe verdict on a
\* socket without a peer, and any verdict of an unsettled guard, is not cached.
Label(r) ==
    LET op == rd[r]
        safe == ~op.found /\ op.conf % 2 = 0 IN
    /\ op.pc = "label"
    /\ word' = IF (safe /\ op.to = None) \/ ~Settled(op.conf) THEN word
               ELSE [word EXCEPT ![op.on] = [stamp |-> op.gen + op.conf, safe |-> safe]]
    /\ Decide(r, safe)
    /\ UNCHANGED <<fileVars, roles, held, negative, loaderVars, generation, mut, count>>

\* The hook returned.  A connect that was not refused (a task outside the policy is never refused)
\* publishes the peer.
Return(r) ==
    /\ rd[r].pc \in {"safe", "guarded"}
    /\ \/ /\ rd[r].kind = "connect"
          /\ peer' = [peer EXCEPT ![rd[r].on] = rd[r].to]
       \/ /\ rd[r].kind # "connect" \/ rd[r].pc = "guarded"
          /\ UNCHANGED peer
    /\ Go(r, Idle)
    /\ UNCHANGED <<at, addr, bound, ruled, left, early, cacheVars, loaderVars, generation, mut, count>>

-----------------------------------------------------------------------------
(* Renames, binds and owner changes.                                        *)

\* An operation that overlaps a change of its object may see either side of it.
Overlapped(S) ==
    [r \in Readers |-> IF rd[r].pc = "idle" THEN rd[r] ELSE [rd[r] EXCEPT !.due = @ \ S]]

Enter(m, call, S) ==
    /\ mut[m].pc = "idle" /\ count.mutations < MaxMutations
    /\ \A i \in S : ~Moving(i)
    /\ count' = [count EXCEPT !.mutations = @ + 1]
    /\ mut' = [mut EXCEPT ![m] = call]
    /\ rd' = Overlapped(S)
    /\ UNCHANGED <<fileVars, cacheVars, loaderVars, generation>>

\* A rename to a free place, or an exchange.  The directories stay locked until it returns.
Rename(m, moves) ==
    /\ \A s \in moves : at[s[1]] # Nowhere /\ at[s[1]] # s[2]
    /\ \A s \in moves : Free(s[2]) \/ \E t \in moves : t[1] # s[1] /\ at[t[1]] = s[2] /\ at[s[1]] = t[2]
    /\ \A n \in Mutators : mut[n].pc # "idle" /\ mut[n].op \in {"rename", "bind"} =>
          {s[2] : s \in moves} \cap mut[n].into = {}
    /\ Enter(m, [pc |-> "hook", op |-> "rename", moves |-> moves, hooks |-> moves, seen |-> TRUE,
                 covered |-> TRUE, into |-> {s[2] : s \in moves}],
             {s[1] : s \in moves})

\* A connected or unconnected stream socket binds a fresh pathname, spelled by an alias or not.
Bind(m, c, i, p) ==
    /\ bound[c] = None /\ at[i] = Nowhere /\ Free(p)
    /\ \A n \in Mutators : mut[n].pc # "idle" =>
          /\ mut[n].op = "bind" => mut[n].inode # i /\ mut[n].on # c
          /\ mut[n].op \in {"rename", "bind"} => p \notin mut[n].into
    /\ Enter(m, [pc |-> "effect", op |-> "bind", on |-> c, inode |-> i, into |-> {p}, covered |-> TRUE], {})

\* The directory of "child" is renamed within a runtime directory, or its owner changes.
ChangeDirectory(m, op) ==
    Enter(m, [pc |-> "effect", op |-> op, covered |-> TRUE], {i \in Inodes : at[i] = "child"})

Step(m, call) == mut' = [mut EXCEPT ![m] = call]
HookDone(m, s) ==
    LET rest == mut[m].hooks \ {s} IN
    Step(m, [mut[m] EXCEPT !.hooks = rest, !.pc = IF rest = {} THEN "effect" ELSE "hook"])
Refused(m) == IF mut[m].covered THEN [mut[m] EXCEPT !.pc = "refused"] ELSE Idle

\* guard_rename(), once per participant: the role of the old place is committed; a role of the new
\* place is held for the time of the rename, once the guard is settled.
GuardRename(m, s) ==
    /\ mut[m].pc = "hook" /\ s \in mut[m].hooks
    /\ roles' = IF DentryRole(at[s[1]]) THEN roles \cup {s[1]} ELSE roles
    /\ IF DentryRole(s[2]) /\ Settled(config)
       THEN Step(m, [pc |-> "advance", cur |-> s] @@ mut[m])
       ELSE HookDone(m, s)
    /\ UNCHANGED <<fileVars, held, negative, word, loaderVars, generation, rd, count>>

\* Its generation is advanced before the role is held.
Advance(m) ==
    /\ mut[m].pc = "advance"
    /\ generation' = generation + 1
    /\ Step(m, [mut[m] EXCEPT !.pc = "hold"])
    /\ UNCHANGED <<fileVars, cacheVars, loaderVars, rd, count>>

Hold(m) ==
    /\ mut[m].pc = "hold"
    /\ held' = held \cup {mut[m].cur[1]}
    /\ HookDone(m, mut[m].cur)
    /\ UNCHANGED <<fileVars, roles, negative, word, loaderVars, generation, rd, count>>

\* held_roles is full, inode storage cannot be allocated, or another security module refuses.
Refuse(m) ==
    /\ mut[m].pc \in {"hook", "hold"}
    /\ Step(m, Refused(m))
    /\ UNCHANGED <<fileVars, cacheVars, loaderVars, generation, rd, count>>

\* The kernel makes the change; a rename or bind may also fail.
Effect(m) ==
    LET call == mut[m] IN
    /\ call.pc = "effect"
    /\ \/ /\ call.op = "rename"
          /\ at' = [i \in Inodes |-> IF \E s \in call.moves : s[1] = i
                                     THEN (CHOOSE s \in call.moves : s[1] = i)[2] ELSE at[i]]
          /\ left' = left \cup {i \in Inodes : call.seen /\ DentryRole(at[i]) /\ \E s \in call.moves : s[1] = i}
          /\ Step(m, IF call.covered THEN [call EXCEPT !.pc = "renamed"] ELSE Idle)
          /\ UNCHANGED <<addr, bound, peer, ruled, early>>
       \/ /\ call.op = "bind"
          /\ \E p \in call.into :
                /\ at' = [at EXCEPT ![call.inode] = p]
                /\ \E a \in {"alias", p} : addr' = [addr EXCEPT ![call.inode] = a]
          /\ bound' = [bound EXCEPT ![call.on] = call.inode]
          /\ Step(m, [call EXCEPT !.pc = "invalidate"])
          /\ UNCHANGED <<peer, ruled, left, early>>
       \/ /\ call.op \in {"directory", "owner"}
          /\ ruled' = ~ruled
          /\ Step(m, [call EXCEPT !.pc = "invalidate"])
          /\ UNCHANGED <<at, addr, bound, peer, left, early>>
       \/ /\ Step(m, IF call.op = "rename" THEN Refused(m) ELSE Idle)
          /\ UNCHANGED fileVars
    /\ UNCHANGED <<cacheVars, loaderVars, generation, rd, count>>

\* guard_renamed(), after success or failure: both participants are released; a held role or a
\* moved socket then invalidates.
GuardRenamed(m) ==
    LET inodes == {s[1] : s \in mut[m].moves} IN
    /\ mut[m].pc \in {"renamed", "refused"}
    /\ held' = held \ inodes
    /\ Step(m, IF held \cap inodes # {} \/ (mut[m].pc = "renamed" /\ inodes \cap Sockets # {})
               THEN [mut[m] EXCEPT !.pc = "invalidate"] ELSE Idle)
    /\ rd' = Overlapped(inodes)
    /\ UNCHANGED <<fileVars, roles, negative, word, loaderVars, generation, count>>

\* invalidate_streams(), from guard_renamed, guard_bound and guard_attr: the call then returns.
Invalidate(m) ==
    /\ mut[m].pc = "invalidate"
    /\ generation' = generation + 1
    /\ Step(m, Idle)
    /\ UNCHANGED <<fileVars, cacheVars, loaderVars, rd, count>>

-----------------------------------------------------------------------------
(* The loader; commands that change the guard hold its exclusive lock.       *)

\* drain() found every task outside the calls that began before the hooks attached (module Drain).
Settle ==
    /\ loader.pc = "idle" /\ ~Settled(config)
    /\ \A m \in Mutators : mut[m].pc # "idle" => mut[m].covered
    /\ config' = config + SETTLED
    /\ UNCHANGED <<fileVars, cacheVars, slots, ready, loader, generation, mut, rd, count>>

\* guard-slot: refused while ready and after an interrupted edit; the epoch becomes odd.
BeginEdit ==
    /\ loader.pc = "idle" /\ count.edits < MaxEdits
    /\ ~ready /\ config % 2 = 0
    /\ config' = config + 1
    /\ loader' = [pc |-> "edit"]
    /\ count' = [count EXCEPT !.edits = @ + 1]
    /\ UNCHANGED <<fileVars, cacheVars, slots, ready, generation, mut, rd>>

\* guard_slot_add(): the names, the slot and the object in it; or a failure on the way.
EnrolSlot ==
    /\ loader.pc = "edit"
    /\ \/ /\ slots' = slots \cup {"custom"}
          /\ roles' = roles \cup {i \in Inodes : at[i] = "custom"}
       \/ UNCHANGED <<slots, roles>>
    /\ loader' = [pc |-> "finish"]
    /\ UNCHANGED <<fileVars, held, negative, word, config, ready, generation, mut, rd, count>>

FinishEdit ==
    /\ loader.pc = "finish"
    /\ config' = config + 1
    /\ loader' = Idle
    /\ UNCHANGED <<fileVars, cacheVars, slots, ready, generation, mut, rd, count>>

LoaderDies ==
    /\ loader.pc # "idle"
    /\ loader' = Idle
    /\ UNCHANGED <<fileVars, cacheVars, slots, config, ready, generation, mut, rd, count>>

\* state ready | blocked
SetState(b) ==
    /\ loader.pc = "idle" /\ count.edits < MaxEdits
    /\ b => config % 2 = 0
    /\ ready' = b
    /\ count' = [count EXCEPT !.edits = @ + 1]
    /\ UNCHANGED <<fileVars, cacheVars, slots, config, loader, generation, mut, rd>>

-----------------------------------------------------------------------------
Operation(r) ==
    \/ \E c \in Streams : StreamOp(r, c)
    \/ \E c \in Streams, i \in Sockets : Connect(r, c, i)
    \/ \E i \in Inodes : ObjectOp(r, i)
    \/ ReadConfig(r) \/ Known(r) \/ LookupNegative(r) \/ Resolve(r) \/ CacheNegative(r) \/ Label(r)
    \/ Return(r)

Mutation(m) ==
    \/ \E i \in Inodes, p \in Places : Rename(m, {<<i, p>>})
    \/ \E i, j \in Inodes : i # j /\ at[i] # Nowhere /\ at[j] # Nowhere /\ Rename(m, {<<i, at[j]>>, <<j, at[i]>>})
    \/ \E c \in Streams, i \in Sockets, p \in Places : Bind(m, c, i, p)
    \/ \E op \in {"directory", "owner"} : ChangeDirectory(m, op)
    \/ mut[m].pc = "hook" /\ \E s \in mut[m].hooks : GuardRename(m, s)
    \/ Advance(m) \/ Hold(m) \/ Refuse(m) \/ Effect(m) \/ GuardRenamed(m) \/ Invalidate(m)

Next ==
    \/ \E r \in Readers : Operation(r)
    \/ \E c \in Streams : Pair(c)
    \/ \E m \in Mutators : Mutation(m)
    \/ Settle \/ BeginEdit \/ EnrolSlot \/ FinishEdit \/ LoaderDies
    \/ \E b \in BOOLEAN : SetState(b)

Spec == Init /\ [][Next]_vars

-----------------------------------------------------------------------------
(* Properties.                                                              *)

TypeOK ==
    /\ at \in [Inodes -> Places \cup {Nowhere}]
    /\ addr \in [Sockets -> Places \cup {"alias"}]
    /\ bound \in [Streams -> Sockets \cup {None}] /\ peer \in [Streams -> Sockets \cup {None, Unnamed}]
    /\ ruled \in BOOLEAN /\ ready \in BOOLEAN
    /\ slots \subseteq Places
    /\ roles \cup held \cup left \subseteq Inodes
    /\ \A i \in Inodes : negative[i] <= config + generation
    /\ \A c \in Streams : word[c].stamp <= config + generation
    /\ loader.pc \in {"idle", "edit", "finish"}


\* object_role's comment, "A cached "no role" is exact": an entry that would be used answers for
\* an inode whose place has no role.
NegativeExact ==
    \A i \in Inodes :
        (/\ negative[i] = config + generation /\ config % 2 = 0 /\ Settled(config)
         /\ i \notin roles \cup held /\ ~Moving(i))
            => ~DentryRole(at[i])

\* held_roles: a role is held only while the rename that holds it runs, also when the rename fails
\* or an exchange is refused for its second participant; none is left by a call that entered
\* before guard_renamed attached.
HeldWhileRenaming ==
    \A i \in held : \E m \in Mutators : Touches(m, i) /\ mut[m].covered

\* stream_guard and guard_renamed: a role that a rename held for a while, or a failed rename, leaves
\* no protected label behind.  Between operations, a current label of a connected stream that is not
\* safe means that one of its endpoints is a resolver object.
LabelJustified ==
    (/\ config % 2 = 0
     /\ \A m \in Mutators : mut[m].pc = "idle"
     /\ \A r \in Readers : rd[r].pc = "idle")
        => \A c \in Streams : peer[c] # None /\ word[c].stamp = generation + config /\ ~word[c].safe
                                 => \E i \in Ends(c) : Protected(i) \/ i \in roles

\* guard-slot and state: the classifier is ready only over whole edits.
ReadyOverWholeEdits ==
    ready => loader.pc = "idle" /\ config % 2 = 0
=============================================================================
