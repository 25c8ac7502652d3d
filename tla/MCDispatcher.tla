---------------------------- MODULE MCDispatcher ----------------------------
(***************************************************************************)
(* The parts of the dispatcher for TLC: its workers, which this module     *)
(* extends, the direct resolvers and the log that the workers use, the     *)
(* image resolver of the trace consumer, and the reloading of its inputs.  *)
(*                                                                         *)
(* They share no modelled state.  A behaviour is one scenario: the         *)
(* component it is about moves, under the scenario's constants, and the    *)
(* variables of the others keep their initial values.                      *)
(***************************************************************************)
EXTENDS DispatcherWorkers, TLC

CONSTANTS
    Scenarios,      \* the scenarios of the run
    a1, a2, w1, w2, w3

VARIABLES
    scenario,
    now, loaded, resetDue, preferred_, probePrimaryAt_, query, failedAt,
    holder, jobs, poolWorker, work, stop, cache, recent, consumer, windowStarted, waited, owner,
    handles, blocked, answer, time, calls,
    slots, head, tail, count, bytes, accepting, stopping, expired, ready, dropped, writer, thread,
    message, lost, reported, destructor, written, accepted, sunk, announced,
    inputs, identities, loadedInputs, loadedIdentities, status, disp, signalled, script, pair,
    highest, writes, failures, crashes, kills

resolverVars == <<now, loaded, resetDue, preferred_, probePrimaryAt_, query, failedAt>>
imageVars == <<holder, jobs, poolWorker, work, stop, cache, recent, consumer, windowStarted, waited, owner,
               handles, blocked, answer, time, calls>>
logVars == <<slots, head, tail, count, bytes, accepting, stopping, expired, ready, dropped, writer, thread,
             message, lost, reported, destructor, written, accepted, sunk, announced>>
reloadVars == <<inputs, identities, loadedInputs, loadedIdentities, status, disp, signalled, script, pair,
                highest, writes, failures, crashes, kills>>

-----------------------------------------------------------------------------
(* The scenarios.  The threads of a component are interchangeable.         *)

Symmetry == Permutations(Workers) \cup Permutations({a1, a2})

\* Two workers, and a shorter list after a longer one.
Window == INSTANCE DirectResolvers WITH
    Queries <- {a1, a2}, Lists <- <<2, 1>>, Budget <- 2, PerResolver <- 1, PreferFor <- 1, MaxTime <- 4

\* One worker, three resolvers and the code's proportions of budget and share.
Budgets == INSTANCE DirectResolvers WITH
    Queries <- {a1}, Lists <- <<3>>, Budget <- 10, PerResolver <- 3, PreferFor <- 6, MaxTime <- 16

\* A process ID used twice, and a cache that holds one answer.
Images == INSTANCE ImageResolver WITH
    Workers <- {a1, a2}, Slots <- {1, 2}, kCacheEntries <- 1, kWait <- 1, Second <- 3,
    Keys <- {<<1, 1>>, <<1, 2>>}, MaxTime <- 2, MaxCalls <- 3, worker <- poolWorker

\* Calls for different images, one after the other.
Waits == INSTANCE ImageResolver WITH
    Workers <- {a1}, Slots <- {1}, kCacheEntries <- 3, kWait <- 1, Second <- 3,
    Keys <- {<<1, 1>>, <<2, 1>>}, MaxTime <- 3, MaxCalls <- 3, worker <- poolWorker
Returns == INSTANCE ImageResolver WITH
    Workers <- {a1}, Slots <- {1}, kCacheEntries <- 1, kWait <- 1, Second <- 3,
    Keys <- {<<1, 1>>, <<2, 1>>}, MaxTime <- 2, MaxCalls <- 2, worker <- poolWorker

\* A message that fits with another, one that does not and one that is too long.
Logs == INSTANCE AsyncLog WITH
    Writers <- {a1, a2}, kMaxMessages <- 2, kMaxBytes <- 3, kMaxMessageBytes <- 2, Sizes <- {1, 2, 3},
    MaxWrites <- 3, Faults <- {"stop", "block", "throw"}
Closes == INSTANCE AsyncLog WITH
    Writers <- {a1, a2}, kMaxMessages <- 2, kMaxBytes <- 3, kMaxMessageBytes <- 2, Sizes <- {1, 2, 3},
    MaxWrites <- 2, Faults <- {"stop", "block", "throw"}
Reports == INSTANCE AsyncLog WITH
    Writers <- {a1, a2}, kMaxMessages <- 2, kMaxBytes <- 3, kMaxMessageBytes <- 2, Sizes <- {1, 2, 3},
    MaxWrites <- 3, Faults <- {}

\* Three contents, each written once, or any of them again.
Reload == INSTANCE DispatcherReload WITH
    Versions <- {1, 2, 3}, Reuse <- FALSE, MaxWrites <- 2, MaxFailures <- 1, MaxCrashes <- 1, MaxKills <- 1
Rewrite == INSTANCE DispatcherReload WITH
    Versions <- {1, 2, 3}, Reuse <- TRUE, MaxWrites <- 2, MaxFailures <- 1, MaxCrashes <- 1, MaxKills <- 0
Converge == INSTANCE DispatcherReload WITH
    Versions <- {1, 2, 3}, Reuse <- FALSE, MaxWrites <- 2, MaxFailures <- 1, MaxCrashes <- 1, MaxKills <- 1

-----------------------------------------------------------------------------
\* A component that does not move has the initial state of one of its scenarios.
DispatcherInit ==
    /\ scenario \in Scenarios
    /\ Init /\ Logs!Init /\ Reload!Init
    /\ IF scenario = "budgets" THEN Budgets!Init ELSE Window!Init
    /\ CASE scenario = "images" -> Images!Init
         [] scenario = "returns" -> Returns!Init
         [] OTHER -> Waits!Init

DispatcherNext ==
    /\ UNCHANGED scenario
    /\ \/ /\ scenario = "workers" /\ Next
          /\ UNCHANGED <<resolverVars, imageVars, logVars, reloadVars>>
       \/ /\ \/ scenario = "window" /\ Window!Next
             \/ scenario = "budgets" /\ Budgets!Next
          /\ UNCHANGED <<vars, imageVars, logVars, reloadVars>>
       \/ /\ \/ scenario = "images" /\ Images!Next
             \/ scenario = "waits" /\ Waits!Next
             \/ scenario = "returns" /\ Returns!Next
          /\ UNCHANGED <<vars, resolverVars, logVars, reloadVars>>
       \/ /\ \/ scenario = "logs" /\ Logs!Next
             \/ scenario = "closes" /\ Closes!Next
             \/ scenario = "reports" /\ Reports!Next
          /\ UNCHANGED <<vars, resolverVars, imageVars, reloadVars>>
       \/ /\ \/ scenario = "reload" /\ Reload!Next
             \/ scenario = "rewrite" /\ Rewrite!Next
             \/ scenario = "converge" /\ Converge!Next
          /\ UNCHANGED <<vars, resolverVars, imageVars, logVars>>

DispatcherSpec == DispatcherInit /\ [][DispatcherNext]_<<scenario, vars, resolverVars, imageVars, logVars, reloadVars>>

\* Each component's fairness, in the scenarios that ask for progress.
\* Every thread keeps running: every wait in it is bounded by a deadline or by gRunning, checked at
\* least every 200 ms.  A weak swap does not fail forever.
WorkersFairness ==
    /\ WF_vars(scenario = "workers" /\ MainStep)
    /\ \A i \in Ingress : WF_vars(scenario = "workers" /\ IngressStep(i))
    /\ \A w \in Workers : /\ WF_vars(scenario = "workers" /\ WorkerStep(w))
                          /\ SF_vars(scenario = "workers" /\ Swap(w))

\* The consumer and the clock run.  Workers run too, but a resolution may hang for ever.
ImageFairness ==
    /\ WF_imageVars(scenario = "returns" /\ Returns!Call)
    /\ WF_imageVars(scenario = "returns" /\ Returns!Tick)
    /\ WF_imageVars(scenario = "returns" /\ Returns!Release)
    /\ WF_imageVars(scenario = "returns" /\
                    (Returns!Wake(a1) \/ Returns!Take(a1) \/ Returns!Close(a1) \/ Returns!Publish(a1)))

\* Threads are scheduled and time passes; the sink returns unless it blocks.
LogFairness ==
    /\ WF_logVars(scenario = "closes" /\ Closes!ThreadStep) /\ WF_logVars(scenario = "closes" /\ Closes!StopStep)
    /\ WF_logVars(scenario = "reports" /\ Reports!ThreadStep)
    /\ \A w \in {a1, a2} : /\ WF_logVars(scenario = "closes" /\ Closes!WriterStep(w))
                           /\ WF_logVars(scenario = "reports" /\ Reports!WriterStep(w))

\* The supervisor restarts the dispatcher, its reload thread runs, and the controller's repairs keep
\* calling Start, whose loop runs to its end.
ReloadFairness ==
    /\ WF_reloadVars(scenario = "converge" /\ Converge!Launch) /\ WF_reloadVars(scenario = "converge" /\ Converge!Load)
    /\ WF_reloadVars(scenario = "converge" /\ Converge!Wait) /\ SF_reloadVars(scenario = "converge" /\ Converge!Start)

FairDispatcher == DispatcherSpec /\ WorkersFairness /\ ImageFairness /\ LogFairness /\ ReloadFairness

-----------------------------------------------------------------------------
(* The properties of the components, each in the scenarios it is about.    *)
(* Each component's type invariant is a conjunct of one of them.           *)

\* A query ends within its budget, no silent resolver takes another's turn, and the answers of a
\* stand-in never extend the time it is preferred for (Deadline, Timeout, Answered).
TurnsKept ==
    /\ scenario = "budgets" => Budgets!WithinBudget /\ Budgets!EveryResolverAsked
    /\ scenario = "window" => Window!TypeOK /\ Window!WindowBounded


\* The sink, the thread's hand and the ring hold what write() accepted, once and in order; every
\* other message is counted as dropped and announced once (ReportLosses); and the thread never
\* sleeps on a queued message or an unreported loss (Signal).
LogExact ==
    scenario = "logs" => Logs!TypeOK /\ Logs!ExactlyOnceInOrder /\ Logs!LossesCounted /\ Logs!NoLostWakeup


\* While the log is not destroyed and its sink works, everything accepted is written and every loss
\* is reported, also a last one that no accepted message follows (write, ReadLosses).  Destruction
\* ends, also when the sink ignores the cancellation (Join).  Every image call of the trace consumer
\* returns, even while every resolution hangs (EndWait).
HelpersProgress ==
    /\ <>[](scenario = "reports" => sunk = accepted /\ announced = dropped)
    /\ Closes!DestructionEnds
    /\ Returns!CallReturns

=============================================================================
