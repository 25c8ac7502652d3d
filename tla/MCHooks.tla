------------------------------- MODULE MCHooks ------------------------------
(***************************************************************************)
(* The kernel's side of the Linux split for TLC: the drain of early calls, *)
(* which this module extends, the hooks that guard resolver objects, and   *)
(* the hook that selects a socket's policy with the commands of the loader *)
(* that change it.                                                         *)
(*                                                                         *)
(* They share no modelled state.  A behaviour is one scenario: the         *)
(* component it is about moves, under the scenario's constants, and the    *)
(* others are empty and still.                                             *)
(***************************************************************************)
EXTENDS Drain, FiniteSets, TLC

CONSTANTS
    Scenarios,      \* the scenarios of the run
    n0, a1, a2, b1, b2, c1, p1, p2

VARIABLES
    scenario,
    at, addr, bound, peer, ruled, slots, roles, held, negative, word, generation, config,
    guardReady, loader, mut, rd, left, unsettled, count,
    image, native, match, holder, scratch, call, policy, policyReady, stats, lock, command, spent

guardVars == <<at, addr, bound, peer, ruled, slots, roles, held, negative, word, generation, config,
               guardReady, loader, mut, rd, left, unsettled, count>>
policyVars == <<image, native, match, holder, scratch, call, policy, policyReady, stats, lock, command, spent>>

-----------------------------------------------------------------------------
(* The scenarios.  Inodes, tasks and loaders are interchangeable.          *)

Symmetry == Permutations({a1, a2}) \cup Permutations({b1, b2})

NoGuard == INSTANCE ResolverGuard WITH
    Sockets <- {}, Files <- {}, Streams <- {}, Readers <- {}, Mutators <- {},
    MaxMutations <- 0, MaxEdits <- 0, MaxOps <- 0, Fresh <- FALSE,
    ready <- guardReady, early <- unsettled

\* Two bound sockets, one of which is renamed, bound or given to another owner.
Objects == INSTANCE ResolverGuard WITH
    Sockets <- {a1, a2}, Files <- {}, Streams <- {c1}, Readers <- {b1}, Mutators <- {p1},
    MaxMutations <- 1, MaxEdits <- 0, MaxOps <- 2, Fresh <- FALSE,
    ready <- guardReady, early <- unsettled

\* The guard was just attached: a rename may have begun before its completion program.
Attach == INSTANCE ResolverGuard WITH
    Sockets <- {a1}, Files <- {}, Streams <- {c1}, Readers <- {b1}, Mutators <- {p1},
    MaxMutations <- 1, MaxEdits <- 0, MaxOps <- 2, Fresh <- TRUE,
    ready <- guardReady, early <- unsettled

\* Two files that are renamed or exchange places while two tasks use them.
Exchange == INSTANCE ResolverGuard WITH
    Sockets <- {}, Files <- {a1, a2}, Streams <- {}, Readers <- {b1, b2}, Mutators <- {p1},
    MaxMutations <- 1, MaxEdits <- 0, MaxOps <- 3, Fresh <- FALSE,
    ready <- guardReady, early <- unsettled

\* Edits of the guard slots under a socket that is in use.
Edits == INSTANCE ResolverGuard WITH
    Sockets <- {a1}, Files <- {}, Streams <- {c1}, Readers <- {b1}, Mutators <- {},
    MaxMutations <- 0, MaxEdits <- 2, MaxOps <- 2, Fresh <- FALSE,
    ready <- guardReady, early <- unsettled

NoPolicy == INSTANCE PolicySelect WITH
    None <- n0, Tasks <- {}, Cpus <- {}, Paths <- {}, Length <- <<>>, Loaders <- {}, Commands <- {},
    Capacity <- 0, Attempts <- 0, MaxCalls <- 0, MaxCommands <- 0, MaxChanges <- 0, ready <- policyReady

\* The lengths on both sides of the boundary between the two path maps.
LengthAtBoundary == [p \in {p1, p2} |-> IF p = p1 THEN 255 ELSE 256]

\* Two tasks that share a CPU's buffer while a command changes the policy.
Select == INSTANCE PolicySelect WITH
    None <- n0, Tasks <- {a1, a2}, Cpus <- {c1}, Paths <- {p1, p2}, Length <- LengthAtBoundary, Loaders <- {b1},
    Commands <- {"add", "del"}, Capacity <- 2, Attempts <- 2,
    MaxCalls <- 2, MaxCommands <- 1, MaxChanges <- 0, ready <- policyReady

\* A task whose executable is renamed or unlinked meanwhile.
Replace == INSTANCE PolicySelect WITH
    None <- n0, Tasks <- {a1}, Cpus <- {c1}, Paths <- {p1, p2}, Length <- LengthAtBoundary, Loaders <- {b1},
    Commands <- {"add", "del"}, Capacity <- 2, Attempts <- 2,
    MaxCalls <- 2, MaxCommands <- 1, MaxChanges <- 1, ready <- policyReady

\* Two loaders, and a capacity that the two maps exceed together.
Manage == INSTANCE PolicySelect WITH
    None <- n0, Tasks <- {a1}, Cpus <- {c1}, Paths <- {p1, p2}, Length <- LengthAtBoundary, Loaders <- {b1, b2},
    Commands <- {"add", "del", "read", "state", "verify"}, Capacity <- 1, Attempts <- 2,
    MaxCalls <- 1, MaxCommands <- 3, MaxChanges <- 0, ready <- policyReady

-----------------------------------------------------------------------------
\* Where nothing is enrolled "custom" is another plain place, and "attach" covers "child".
HooksInit ==
    /\ scenario \in Scenarios
    /\ Init /\ (scenario # "drain" => ~groupFilter /\ \A t \in Tasks : ~alive[t])
    /\ CASE scenario = "objects" -> Objects!Init /\ \A i \in {a1, a2} : at[i] \notin {"custom", "child"}
         [] scenario = "attach" -> Attach!Init /\ at[a1] # "custom"
         [] scenario = "exchange" -> Exchange!Init
         [] scenario = "edits" -> Edits!Init
         [] OTHER -> NoGuard!Init /\ ~ruled
    /\ CASE scenario = "select" -> Select!Init
         [] scenario = "replace" -> Replace!Init
         [] scenario = "manage" -> Manage!Init
         [] OTHER -> NoPolicy!Init /\ ~match /\ ~policyReady

HooksNext ==
    /\ UNCHANGED scenario
    /\ \/ /\ scenario = "drain" /\ Next
          /\ UNCHANGED <<guardVars, policyVars>>
       \/ /\ \/ scenario = "objects" /\ Objects!Next
             \/ scenario = "attach" /\ Attach!Next
             \/ scenario = "exchange" /\ Exchange!Next
             \/ scenario = "edits" /\ Edits!Next
          /\ UNCHANGED <<vars, policyVars>>
       \/ /\ \/ scenario = "select" /\ Select!Next
             \/ scenario = "replace" /\ Replace!Next
             \/ scenario = "manage" /\ Manage!Next
          /\ UNCHANGED <<vars, guardVars>>

HooksSpec == HooksInit /\ [][HooksNext]_<<scenario, vars, guardVars, policyVars>>

-----------------------------------------------------------------------------
(* The properties of the components, each in the scenarios it is about.    *)
(* Each component's type invariant is a conjunct of one of them.           *)



\* An enrolled executable is never taken for an unlisted one, and an unlisted process is neither
\* marked nor refused for being replaced (policy_select).
SelectionExact ==
    /\ scenario = "select" => Select!EnrolledNeverDirect /\ Select!UnlistedUntouched
    /\ scenario = "replace" => Replace!EnrolledNeverDirect /\ Replace!UnlistedUntouched

\* What concurrent loader commands claim holds: ready is only set over whole edits (guard-slot,
\* state), additions never exceed the limit both path maps share (change_path), a readback is the
\* policy of one instant (policy_entries), and a load passes only when the hooks observe the
\* recorded identity (verify_context).
CommandsExact ==
    /\ scenario = "edits" => Edits!ReadyOverWholeEdits
    /\ scenario = "manage" => /\ Manage!TypeOK /\ Manage!CapacityKept
                              /\ Manage!ReadbackExact /\ Manage!ContextSound
=============================================================================
