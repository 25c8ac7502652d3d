---------------------------- MODULE PolicySelect ----------------------------
(***************************************************************************)
(* Which executables are enrolled, and what a new socket gets (policy.bpf.h, *)
(* classify in classifier.bpf.c, the path and state commands and             *)
(* verify_context of bpf-loader.cpp).                                        *)
(*                                                                           *)
(* A call resolves the caller's executable in a buffer shared by all calls   *)
(* on its CPU, while executables are renamed and unlinked and loaders edit   *)
(* the two path maps.  A path is its identity and its length in bytes.       *)
(***************************************************************************)
EXTENDS Integers, FiniteSets, FiniteSetsExt

CONSTANTS
    Tasks,          \* processes that create sockets
    Cpus,
    Paths,          \* executable paths
    Length,         \* [Paths -> length in bytes, without the NUL]
    Loaders,        \* bpf-loader processes
    Commands,       \* what the loaders run: a subset of {"add", "del", "read", "state", "verify"}
    Capacity,       \* entries that both path maps share (1024)
    Attempts,       \* tries of verify_context (5)
    None,
    MaxCalls,       \* bound: sockets created
    MaxCommands,    \* bound: loader commands
    MaxChanges      \* bound: renames and unlinks of executables

SHORT_PATH_BYTES == 256
PATH_BYTES == 4096
DeletedBytes == 10  \* " (deleted)"

VARIABLES
    image,          \* [Tasks -> [path, state]] the caller's executable
    native,         \* [Tasks -> has the host's root and network namespace]
    match,          \* the recorded root and namespace identity is what the hooks observe
    holder,         \* [Cpus -> the task that disabled preemption there, or None]
    scratch,        \* [Cpus -> [resolved, key]] the shared buffer
    call,           \* [Tasks -> the socket_post_create call in progress]
    policy,         \* ["short", "long" -> the paths in that map]
    ready,          \* policy_cfg.ready
    stats,          \* ["DIRECT", "UNSUPPORTED_CONTEXT" -> count]
    lock,           \* [owner, readers] the flock on the pin directory
    command,        \* [Loaders -> the command in progress]
    spent           \* [calls, commands, changes] for the bounds

fileVars == <<image, native, match>>
callVars == <<holder, scratch, call>>
loaderVars == <<policy, ready, lock, command>>
vars == <<fileVars, callVars, loaderVars, stats, spent>>

NoText == [path |-> None, length |-> 0, deleted |-> FALSE]
NoKey == [head |-> None, tail |-> None]
Idle == [pc |-> "idle"]

\* path_map_spec(): the loader's choice of map.
path_map_spec(p) == IF Length[p] < SHORT_PATH_BYTES THEN "short" ELSE "long"

Enrolled == policy["short"] \cup policy["long"]

\* initialize_paths(): a load starts from distinct keys within the shared capacity.
Init ==
    /\ image \in [Tasks -> [path : Paths, state : {"linked", "synthetic"}]]
    /\ native \in [Tasks -> BOOLEAN]
    /\ match \in BOOLEAN
    /\ holder = [c \in Cpus |-> None]
    /\ scratch = [c \in Cpus |-> [resolved |-> NoText, key |-> NoKey]]
    /\ call = [t \in Tasks |-> Idle]
    /\ \E S \in SUBSET Paths :
          /\ Cardinality(S) <= Capacity
          /\ policy = [m \in {"short", "long"} |-> {p \in S : path_map_spec(p) = m}]
    /\ ready \in BOOLEAN
    /\ stats = [r \in {"DIRECT", "UNSUPPORTED_CONTEXT"} |-> 0]
    /\ lock = [owner |-> None, readers |-> {}]
    /\ command = [l \in Loaders |-> Idle]
    /\ spent = [calls |-> 0, commands |-> 0, changes |-> 0]

-----------------------------------------------------------------------------
(* Executables (external): renamed, or unlinked in two steps (the link count *)
(* drops, then the name is unhashed).                                        *)

\* The calls of task t in progress lose what the change makes untrue of them.
Disturbed(t, field) ==
    IF call[t].pc = "idle" THEN call ELSE [call EXCEPT ![t][field] = TRUE]

Rename(t, p) ==
    /\ spent.changes < MaxChanges
    /\ image[t].state = "linked" /\ p # image[t].path
    /\ image' = [image EXCEPT ![t].path = p]
    /\ call' = Disturbed(t, "moved")
    /\ spent' = [spent EXCEPT !.changes = @ + 1]
    /\ UNCHANGED <<native, match, holder, scratch, loaderVars, stats>>

DropLink(t) ==
    /\ spent.changes < MaxChanges
    /\ image[t].state = "linked"
    /\ image' = [image EXCEPT ![t].state = "dropping"]
    /\ call' = Disturbed(t, "dropped")
    /\ spent' = [spent EXCEPT !.changes = @ + 1]
    /\ UNCHANGED <<native, match, holder, scratch, loaderVars, stats>>

Unhash(t) ==
    /\ image[t].state = "dropping"
    /\ image' = [image EXCEPT ![t].state = "deleted"]
    /\ UNCHANGED <<native, match, callVars, loaderVars, stats, spent>>

-----------------------------------------------------------------------------
(* One socket_post_create call.                                             *)

\* The task runs on its CPU unless another task there disabled preemption.
Runs(t) == holder[call[t].cpu] \in {None, t}

\* result()
Result(t, reason) ==
    /\ call' = [call EXCEPT ![t].pc = "done", ![t].reason = reason]
    /\ stats' = IF reason \in DOMAIN stats THEN [stats EXCEPT ![reason] = @ + 1] ELSE stats

\* classify() and policy_select() to the context check.  The history fields record the paths
\* enrolled at every instant (always) and at some instant (ever) of the call.
Create(t, c) ==
    /\ call[t].pc = "idle" /\ holder[c] = None
    /\ spent.calls < MaxCalls
    /\ spent' = [spent EXCEPT !.calls = @ + 1]
    /\ LET begun == [pc |-> "exe", cpu |-> c, linked |-> FALSE, select |-> None, reason |-> None,
                     always |-> Enrolled, ever |-> Enrolled, moved |-> FALSE,
                     dropped |-> image[t].state = "dropping"]
       IN IF native[t] /\ match
          THEN call' = [call EXCEPT ![t] = begun] /\ UNCHANGED stats
          ELSE /\ call' = [call EXCEPT ![t] = [begun EXCEPT !.pc = "done", !.reason = "UNSUPPORTED_CONTEXT"]]
               /\ stats' = [stats EXCEPT !["UNSUPPORTED_CONTEXT"] = @ + 1]
    /\ UNCHANGED <<fileVars, holder, scratch, loaderVars>>

\* bpf_preempt_disable().  A task without an executable file is refused instead.
DisablePreempt(t) ==
    /\ call[t].pc = "exe" /\ Runs(t)
    /\ holder' = [holder EXCEPT ![call[t].cpu] = t]
    /\ call' = [call EXCEPT ![t].pc = "path"]
    /\ UNCHANGED <<fileVars, scratch, loaderVars, stats, spent>>

NoExecutable(t) ==
    /\ call[t].pc = "exe" /\ Runs(t)
    /\ Result(t, "EXE_ERROR")
    /\ UNCHANGED <<fileVars, holder, scratch, loaderVars, spent>>

\* bpf_path_d_path(): the suffix follows the unhashed name; the result must fit the buffer.
ResolvePath(t) ==
    /\ call[t].pc = "path" /\ Runs(t)
    /\ LET p == image[t].path
           deleted == image[t].state = "deleted"
           length == Length[p] + (IF deleted THEN DeletedBytes ELSE 0)
       IN /\ scratch' = [scratch EXCEPT ![call[t].cpu].resolved =
                           IF length < PATH_BYTES THEN [path |-> p, length |-> length + 1, deleted |-> deleted]
                           ELSE NoText]
          /\ call' = [call EXCEPT ![t].pc = "link"]
    /\ UNCHANGED <<fileVars, holder, loaderVars, stats, spent>>

\* bpf_preempt_enable() with the selection of resolve_policy().
Select(t, selection) ==
    /\ call' = [call EXCEPT ![t].pc = "decide", ![t].select = selection]
    /\ holder' = [holder EXCEPT ![call[t].cpu] = None]

\* linked_file(), synthetic_file() and the check of the suffix.
CheckLinked(t) ==
    LET text == scratch[call[t].cpu].resolved
        linked == image[t].state = "linked"
    IN /\ call[t].pc = "link" /\ Runs(t)
       /\ CASE text.length <= 1 -> Select(t, "PATH_ERROR") /\ UNCHANGED scratch
            [] text.length > 1 /\ linked ->
                 /\ call' = [call EXCEPT ![t].pc = "key", ![t].linked = TRUE]
                 /\ UNCHANGED <<holder, scratch>>
            [] text.length > 1 /\ image[t].state = "synthetic" -> Select(t, "UNLINKED_IMAGE") /\ UNCHANGED scratch
            [] text.length > 1 /\ image[t].state \in {"dropping", "deleted"} /\ ~text.deleted ->
                 Select(t, "PATH_ERROR") /\ UNCHANGED scratch
            [] OTHER ->
                 /\ scratch' = [scratch EXCEPT ![call[t].cpu].resolved =
                                  [path |-> text.path, length |-> text.length - DeletedBytes, deleted |-> FALSE]]
                 /\ call' = [call EXCEPT ![t].pc = "key"]
                 /\ UNCHANGED holder
       /\ UNCHANGED <<fileVars, loaderVars, stats, spent>>

\* Mutant of ZeroedKey: the bytes of the previous key stay behind the new one.
ZeroedKeyKept(p, old) == [head |-> p, tail |-> IF old.head = p THEN None ELSE old.head]

\* The key is zeroed before the copy, so nothing follows the name.
ZeroedKey(p, old) == [head |-> p, tail |-> None]

CopyKey(t) ==
    /\ call[t].pc = "key" /\ Runs(t)
    /\ scratch' = [scratch EXCEPT ![call[t].cpu].key = ZeroedKey(scratch[call[t].cpu].resolved.path, @)]
    /\ call' = [call EXCEPT ![t].pc = "lookup"]
    /\ UNCHANGED <<fileVars, holder, loaderVars, stats, spent>>

\* resolve_policy()'s choice of map; the length includes the NUL.
LookupTier(length) == IF length <= SHORT_PATH_BYTES THEN "short" ELSE "long"

Selection(found, linked) ==
    IF ~found THEN "DIRECT" ELSE IF linked THEN "INCLUDED" ELSE "UNLINKED_IMAGE"

LookupPath(t) ==
    LET work == scratch[call[t].cpu]
    IN /\ call[t].pc = "lookup" /\ Runs(t)
       /\ Select(t, Selection(/\ work.key.tail = None
                              /\ work.key.head \in policy[LookupTier(work.resolved.length)], call[t].linked))
       /\ UNCHANGED <<fileVars, scratch, loaderVars, stats, spent>>

\* The rest of classify(), for either kind of socket: only an included IPv4 TCP or UDP one is
\* marked and allowed, when ready.
Decide(t) ==
    /\ call[t].pc = "decide" /\ Runs(t)
    /\ IF call[t].select # "INCLUDED" THEN Result(t, call[t].select)
       ELSE \/ Result(t, "UNSUPPORTED_SOCKET")
            \/ ~ready /\ Result(t, "BLOCKED")
            \/ ready /\ \E reason \in {"INCLUDED", "SOCKOPT_ERROR"} : Result(t, reason)
    /\ UNCHANGED <<fileVars, holder, scratch, loaderVars, spent>>

Return(t) ==
    /\ call[t].pc = "done"
    /\ call' = [call EXCEPT ![t] = Idle]
    /\ UNCHANGED <<fileVars, holder, scratch, loaderVars, stats, spent>>

-----------------------------------------------------------------------------
(* The loader.                                                              *)

LoaderRest == UNCHANGED <<fileVars, holder, scratch>>
Goto(l, pc) == command' = [command EXCEPT ![l].pc = pc]

\* Mutant of LockDirectory: nobody waits for the lock.
LockDirectoryIgnored(l, op) == UNCHANGED lock

\* flock(): exclusive for a mutation, shared for a readback.
LockDirectory(l, op) ==
    /\ lock.owner = None
    /\ IF op = "read" THEN lock' = [lock EXCEPT !.readers = @ \cup {l}]
       ELSE lock.readers = {} /\ lock' = [lock EXCEPT !.owner = l]

Release(l) == lock' = [owner |-> IF lock.owner = l THEN None ELSE lock.owner, readers |-> lock.readers \ {l}]

\* The command ends, or the process dies: either way the lock is released.
Finish(l) == command' = [command EXCEPT ![l] = Idle] /\ Release(l)

Begin(l, op, p) ==
    /\ command[l].pc = "idle" /\ spent.commands < MaxCommands
    /\ LockDirectory(l, op)
    /\ command' = [command EXCEPT ![l] =
          [pc |-> op, op |-> op, path |-> p, entries |-> {}, attempt |-> 0, before |-> stats, truth |-> {}]]
    /\ spent' = [spent EXCEPT !.commands = @ + 1]
    /\ LoaderRest /\ UNCHANGED <<call, policy, ready, stats>>

\* change_path() for an addition: an absent key is counted against both maps.
LookupBefore(l) ==
    /\ command[l].pc = "add"
    /\ Goto(l, IF command[l].path \in policy[path_map_spec(command[l].path)] THEN "write" ELSE "count")
    /\ LoaderRest /\ UNCHANGED <<call, policy, ready, stats, lock, spent>>

OverCapacity(l) == Cardinality(Enrolled) >= Capacity

CountEntries(l) ==
    /\ command[l].pc = "count"
    /\ IF OverCapacity(l) THEN Finish(l) ELSE Goto(l, "write") /\ UNCHANGED lock
    /\ LoaderRest /\ UNCHANGED <<call, policy, ready, stats, spent>>

Updated(p, adding) == [policy EXCEPT ![path_map_spec(p)] = IF adding THEN @ \cup {p} ELSE @ \ {p}]

\* The map update or deletion, with what it changes for the calls in progress.
WritePath(l) ==
    LET p == command[l].path
        adding == command[l].op = "add"
    IN /\ command[l].pc \in {"write", "del"}
       /\ policy' = Updated(p, adding)
       /\ call' = [t \in Tasks |-> IF call[t].pc = "idle" THEN call[t]
                   ELSE IF adding THEN [call[t] EXCEPT !.ever = @ \cup {p}]
                   ELSE [call[t] EXCEPT !.always = @ \ {p}]]
       /\ Finish(l)
       /\ LoaderRest /\ UNCHANGED <<ready, stats, spent>>

\* path_key() refuses the key, the map call fails, or the process is killed.
Abandon(l) ==
    /\ command[l].pc # "idle"
    /\ Finish(l)
    /\ LoaderRest /\ UNCHANGED <<call, policy, ready, stats, spent>>

\* policy_entries(): the long map, then the short one; truth records what the policy then was.
ReadLong(l) ==
    /\ command[l].pc = "read"
    /\ command' = [command EXCEPT ![l].pc = "short", ![l].entries = policy["long"], ![l].truth = Enrolled]
    /\ LoaderRest /\ UNCHANGED <<call, policy, ready, stats, lock, spent>>

ReadShort(l) ==
    /\ command[l].pc = "short"
    /\ command' = [command EXCEPT ![l].pc = "printed", ![l].entries = @ \cup policy["short"]]
    /\ LoaderRest /\ UNCHANGED <<call, policy, ready, stats, lock, spent>>

\* The state command writes policy_cfg.
SetState(l) ==
    /\ command[l].pc = "state"
    /\ ready' \in BOOLEAN
    /\ Finish(l)
    /\ LoaderRest /\ UNCHANGED <<call, policy, stats, spent>>

\* verify_context(): the counters, a socket of this unlisted process, and the counters again.
CountBefore(l) ==
    /\ command[l].pc = "verify"
    /\ command' = [command EXCEPT ![l].pc = "before", ![l].before["DIRECT"] = stats["DIRECT"]]
    /\ LoaderRest /\ UNCHANGED <<call, policy, ready, stats, lock, spent>>

CountBeforeOther(l) ==
    /\ command[l].pc = "before"
    /\ command' = [command EXCEPT ![l].pc = "probe", ![l].before["UNSUPPORTED_CONTEXT"] = stats["UNSUPPORTED_CONTEXT"]]
    /\ LoaderRest /\ UNCHANGED <<call, policy, ready, stats, lock, spent>>

ProbeSocket(l) ==
    /\ command[l].pc = "probe"
    /\ stats' = [stats EXCEPT ![IF match THEN "DIRECT" ELSE "UNSUPPORTED_CONTEXT"] = @ + 1]
    /\ Goto(l, "after")
    /\ LoaderRest /\ UNCHANGED <<call, policy, ready, lock, spent>>

CountAfter(l) ==
    /\ command[l].pc = "after"
    /\ command' = [command EXCEPT ![l].pc = IF stats["DIRECT"] > command[l].before["DIRECT"] THEN "more" ELSE "same"]
    /\ LoaderRest /\ UNCHANGED <<call, policy, ready, stats, lock, spent>>

Verdict(l) ==
    LET other == stats["UNSUPPORTED_CONTEXT"] > command[l].before["UNSUPPORTED_CONTEXT"]
    IN CASE command[l].pc = "more" /\ ~other -> "accepted"
         [] command[l].pc = "same" /\ other -> "mismatch"
         [] OTHER -> "again"

JudgeContext(l) ==
    /\ command[l].pc \in {"more", "same"}
    /\ LET verdict == IF Verdict(l) = "again" /\ command[l].attempt + 1 = Attempts THEN "unverified" ELSE Verdict(l)
       IN command' = [command EXCEPT ![l].pc = IF verdict = "again" THEN "verify" ELSE verdict, ![l].attempt = @ + 1]
    /\ LoaderRest /\ UNCHANGED <<call, policy, ready, stats, lock, spent>>

EndReport(l) ==
    /\ command[l].pc \in {"printed", "accepted", "mismatch", "unverified"}
    /\ Finish(l)
    /\ LoaderRest /\ UNCHANGED <<call, policy, ready, stats, spent>>

-----------------------------------------------------------------------------
CallStep(t) ==
    \/ (\E c \in Cpus : Create(t, c)) \/ DisablePreempt(t) \/ NoExecutable(t) \/ ResolvePath(t) \/ CheckLinked(t)
    \/ CopyKey(t) \/ LookupPath(t) \/ Decide(t) \/ Return(t)

FileStep(t) == (\E p \in Paths : Rename(t, p)) \/ DropLink(t) \/ Unhash(t)

LoaderStep(l) ==
    \/ \E op \in Commands, p \in Paths \cup {None} : (op \in {"add", "del"} <=> p # None) /\ Begin(l, op, p)
    \/ LookupBefore(l) \/ CountEntries(l) \/ WritePath(l) \/ Abandon(l)
    \/ ReadLong(l) \/ ReadShort(l) \/ SetState(l)
    \/ CountBefore(l) \/ CountBeforeOther(l) \/ ProbeSocket(l) \/ CountAfter(l) \/ JudgeContext(l) \/ EndReport(l)

Next == (\E t \in Tasks : CallStep(t) \/ FileStep(t)) \/ \E l \in Loaders : LoaderStep(l)

Spec == Init /\ [][Next]_vars

-----------------------------------------------------------------------------
(* Properties.                                                              *)

TypeOK ==
    /\ image \in [Tasks -> [path : Paths, state : {"linked", "synthetic", "dropping", "deleted"}]]
    /\ holder \in [Cpus -> Tasks \cup {None}]
    /\ \A c \in Cpus : scratch[c].resolved.path \in Paths \cup {None} /\ scratch[c].key.head \in Paths \cup {None}
    /\ \A m \in {"short", "long"} : \A p \in policy[m] : p \in Paths /\ path_map_spec(p) = m
    /\ lock.owner \in Loaders \cup {None} /\ lock.readers \subseteq Loaders
    /\ \A t \in Tasks : call[t].pc # "idle" => call[t].cpu \in Cpus /\ call[t].always \subseteq call[t].ever

Resolved(t) == call[t].pc = "done" /\ ~call[t].moved

\* policy_select(): a process whose executable kept its path, and whose path stayed enrolled for
\* the whole call, is never taken for an unlisted one, whatever shares its CPU's buffer, whatever
\* the length of its path, and whether or not its image is replaced meanwhile.
EnrolledNeverDirect ==
    \A t \in Tasks : Resolved(t) /\ image[t].path \in call[t].always => call[t].reason # "DIRECT"

\* A process that was unlisted for the whole call is neither marked nor refused for being
\* replaced; only an image unlinked while the call reads it, a synthetic one, or a path that does
\* not fit the buffer costs it the socket.
UnlistedUntouched ==
    \A t \in Tasks :
       /\ Resolved(t) /\ image[t].path \notin call[t].ever
       /\ image[t].state # "synthetic" /\ ~call[t].dropped
       /\ Length[image[t].path] + DeletedBytes < PATH_BYTES
       => call[t].reason \in {"DIRECT", "UNSUPPORTED_CONTEXT", "EXE_ERROR"}

\* change_path(): concurrent additions never exceed the limit that both path maps share.
CapacityKept == Cardinality(Enrolled) <= Capacity

\* policy_entries(): what a readback prints is the policy of one instant.
ReadbackExact == \A l \in Loaders : command[l].pc = "printed" => command[l].entries = command[l].truth

\* verify_context(): a load passes only when the hooks really observe the recorded identity, and
\* reports a mismatch only when they do not, whatever sockets others create meanwhile.
ContextSound ==
    \A l \in Loaders :
       /\ command[l].pc = "accepted" => match
       /\ command[l].pc = "mismatch" => ~match
=============================================================================
