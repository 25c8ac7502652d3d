-------------------------- MODULE DispatcherReload --------------------------
(***************************************************************************)
(* How the DNS dispatcher's inputs change under it: the controller writes  *)
(* the routes file (after the filter install has written the identity      *)
(* record), the dispatcher's reload thread reads both, swaps them in and   *)
(* publishes copies of what it loaded, and the component script compares   *)
(* the copies with the files before it reports ready.  None of these reads *)
(* and writes is atomic with another; each side may die at any step.       *)
(*                                                                         *)
(* A file's content is a version number; a write is one rename.  `Damaged` *)
(* is content that does not parse, `Missing` a file that is not there.     *)
(***************************************************************************)
EXTENDS Naturals

CONSTANTS
    Versions,       \* contents the controller writes, 1..n
    Reuse,          \* TRUE: an earlier content may be written again
    MaxWrites,      \* writes of either file
    MaxFailures,    \* renames that fail because a reader blocks them
    MaxCrashes,     \* ends of the dispatcher
    MaxKills        \* ends of the component script

Missing == 0
Damaged == 99
Content == Versions \cup {Missing, Damaged}

VARIABLES
    inputs, identities,         \* the two input files
    loadedInputs, loadedIdentities, status,  \* what the dispatcher published
    disp,                       \* the dispatcher process
    signalled,                  \* the auto-reset reload event
    script,                     \* the component script
    pair,                       \* history: the last pair of files read whole
    highest,                    \* history: the newest identity record
    writes, failures, crashes, kills

files == <<inputs, identities, highest>>
published == <<loadedInputs, loadedIdentities, status>>
budgets == <<writes, failures, crashes, kills>>
vars == <<files, published, disp, signalled, script, pair, budgets>>

NoProcess == [pid |-> 0, pc |-> "none", up |-> FALSE, routes |-> Missing,
              included |-> Missing, nextInputs |-> Missing,
              nextIdentities |-> Missing]
IdleScript == [pc |-> "idle", action |-> "Start", pid |-> 0,
               inputs |-> Missing, identities |-> Missing, requested |-> FALSE]

-----------------------------------------------------------------------------
(* The dispatcher.                                                         *)

(* The supervisor starts a process when there is none.  One that ended     *)
(* before its first status never named its process ID to anyone.           *)
Launch == /\ disp.pc = "none"
          /\ disp' = [NoProcess EXCEPT !.pid = crashes + 1, !.pc = "readInputs"]
          /\ UNCHANGED <<files, published, signalled, script, pair, budgets>>

After(pc) ==
    CASE pc = "readIdentities" -> "setRoutes"
      [] pc = "setRoutes" -> "setIncluded"
      [] pc = "setIncluded" -> "publishInputs"
      [] pc = "publishInputs" -> "publishIdentities"
      [] pc = "publishIdentities" -> "publishStatus"
      [] OTHER -> "wait"

(* WaitForSingleObject consumes the auto-reset event.                      *)
TakeRequest == /\ disp.pc = "wait" /\ signalled
               /\ signalled' = FALSE
               /\ disp' = [disp EXCEPT !.pc = "readInputs"]
               /\ UNCHANGED <<files, published, script, pair, budgets>>

ReadInputs == /\ disp.pc = "readInputs"
              /\ disp' = [disp EXCEPT !.nextInputs = inputs,
                                      !.pc = "readIdentities"]
              /\ UNCHANGED <<files, published, signalled, script, pair, budgets>>

(* readStateInputs throws on content that does not parse: a reload is      *)
(* rejected whole, a start ends the process.                               *)
Valid(c) == c \in Versions
ReadIdentities ==
    /\ disp.pc = "readIdentities"
    /\ IF Valid(disp.nextInputs) /\ Valid(identities)
         THEN /\ disp' = [disp EXCEPT !.nextIdentities = identities,
                                      !.pc = After("readIdentities")]
              /\ pair' = <<disp.nextInputs, identities>>
         ELSE /\ disp' = IF disp.up THEN [disp EXCEPT !.pc = "wait"]
                         ELSE NoProcess
              /\ UNCHANGED pair
    /\ UNCHANGED <<files, published, signalled, script, budgets>>

SetRoutes == /\ disp.pc = "setRoutes"
             /\ disp' = [disp EXCEPT !.routes = disp.nextInputs,
                                     !.pc = After("setRoutes")]
             /\ UNCHANGED <<files, published, signalled, script, pair, budgets>>

SetIncluded == /\ disp.pc = "setIncluded"
               /\ disp' = [disp EXCEPT !.included = disp.nextIdentities,
                                       !.pc = After("setIncluded")]
               /\ UNCHANGED <<files, published, signalled, script, pair, budgets>>

(* publishLoaded, one rename at a time.  The reload event exists once the  *)
(* first publication is complete.                                          *)
Publish ==
    /\ \/ /\ disp.pc = "publishInputs"
          /\ loadedInputs' = disp.nextInputs
          /\ UNCHANGED <<loadedIdentities, status>>
       \/ /\ disp.pc = "publishIdentities"
          /\ loadedIdentities' = disp.nextIdentities
          /\ UNCHANGED <<loadedInputs, status>>
       \/ /\ disp.pc = "publishStatus"
          /\ status' = disp.pid
          /\ UNCHANGED <<loadedInputs, loadedIdentities>>
    /\ disp' = [disp EXCEPT !.pc = After(disp.pc),
                            !.up = @ \/ disp.pc = "publishStatus"]
    /\ UNCHANGED <<files, signalled, script, pair, budgets>>

(* A rename that a reader blocks for a second: a reload stays in force     *)
(* unpublished, a start ends the process.                                  *)
PublishFails ==
    /\ disp.pc \in {"publishInputs", "publishIdentities", "publishStatus"}
    /\ failures < MaxFailures /\ failures' = failures + 1
    /\ disp' = IF disp.up THEN [disp EXCEPT !.pc = "wait"] ELSE NoProcess
    /\ UNCHANGED <<files, published, signalled, script, pair, writes, crashes,
                   kills>>

(* The process ends; its reload event goes with it.                        *)
Crash == /\ disp.pc # "none" /\ crashes < MaxCrashes
         /\ crashes' = crashes + 1
         /\ disp' = NoProcess
         /\ signalled' = FALSE
         /\ UNCHANGED <<files, published, script, pair, writes, failures, kills>>

-----------------------------------------------------------------------------
(* The controller's side.                                                  *)

Fresh(old) == {v \in Versions : Reuse \/ v > old}

(* wfp-probe.exe install writes the identity record; it may be damaged     *)
(* until the next install writes it again.                                 *)
WriteIdentities == /\ script.pc = "idle" /\ writes < MaxWrites
                   /\ writes' = writes + 1
                   /\ identities' \in Fresh(highest)
                   /\ highest' = identities'
                   /\ UNCHANGED <<inputs, published, disp, signalled, script,
                                  pair, failures, crashes, kills>>

DamageIdentities == /\ script.pc = "idle" /\ writes < MaxWrites
                    /\ writes' = writes + 1
                    /\ identities' = Damaged
                    /\ UNCHANGED <<inputs, highest, published, disp, signalled,
                                   script, pair, failures, crashes, kills>>

(* Start writes the current network's inputs, which are often what they    *)
(* were, and waits outside the lock.                                       *)
Start == /\ script.pc = "idle" /\ identities # Missing
         /\ script' = [IdleScript EXCEPT !.pc = "status"]
         /\ \/ inputs # Missing /\ UNCHANGED <<inputs, writes>>
            \/ inputs = Missing /\ inputs' = 1 /\ UNCHANGED writes
            \/ /\ inputs # Missing
               /\ writes < MaxWrites /\ writes' = writes + 1
               /\ inputs' \in Fresh(inputs)
         /\ UNCHANGED <<identities, highest, published, disp, signalled, pair,
                        failures, crashes, kills>>

(* Validate asks the same question once, without writing.                  *)
Validate == /\ script.pc = "idle"
            /\ script' = [IdleScript EXCEPT !.pc = "status",
                                            !.action = "Validate"]
            /\ UNCHANGED <<files, published, disp, signalled, pair, budgets>>

(* Test-LoadedInputs: status, then the files, then the published copies,   *)
(* each its own read.                                                      *)
NotLoaded == [script EXCEPT !.pc = IF script.action = "Start" THEN "request"
                                   ELSE "failed"]

SameProcess == disp.pid # 0 /\ status = disp.pid
CheckStatus == /\ script.pc = "status"
               /\ script' = IF SameProcess
                              THEN [script EXCEPT !.pid = disp.pid,
                                                  !.pc = "files"]
                              ELSE NotLoaded
               /\ UNCHANGED <<files, published, disp, signalled, pair, budgets>>

CheckFiles == /\ script.pc = "files"
              /\ script' = [script EXCEPT !.inputs = inputs,
                                          !.identities = identities,
                                          !.pc = "loadedInputs"]
              /\ UNCHANGED <<files, published, disp, signalled, pair, budgets>>

CheckLoadedInputs ==
    /\ script.pc = "loadedInputs"
    /\ script' = IF loadedInputs = script.inputs
                   THEN [script EXCEPT !.pc = "loadedIdentities"]
                   ELSE NotLoaded
    /\ UNCHANGED <<files, published, disp, signalled, pair, budgets>>

CheckLoadedIdentities ==
    /\ script.pc = "loadedIdentities"
    /\ script' = IF loadedIdentities = script.identities
                   THEN [script EXCEPT !.pc = "ready"]
                   ELSE NotLoaded
    /\ UNCHANGED <<files, published, disp, signalled, pair, budgets>>

Request == /\ script.pc = "request"
           /\ signalled' = (signalled \/ disp.up)
           /\ script' = [script EXCEPT !.pc = "status"]
           /\ UNCHANGED <<files, published, disp, pair, budgets>>

Report == /\ script.pc \in {"ready", "failed"}
          /\ script' = IdleScript
          /\ UNCHANGED <<files, published, disp, signalled, pair, budgets>>

(* The wait ends after twenty seconds, or the script's job is ended.       *)
GiveUp == /\ script.pc # "idle" /\ kills < MaxKills
          /\ kills' = kills + 1
          /\ script' = IdleScript
          /\ UNCHANGED <<files, published, disp, signalled, pair, writes,
                         failures, crashes>>

-----------------------------------------------------------------------------
Init == /\ inputs = Missing /\ identities = 1 /\ highest = 1
        /\ loadedInputs = Missing /\ loadedIdentities = Missing /\ status = 0
        /\ disp = NoProcess /\ signalled = FALSE
        /\ script = IdleScript
        /\ pair = <<Missing, Missing>>
        /\ writes = 0 /\ failures = 0 /\ crashes = 0 /\ kills = 0

Load == TakeRequest \/ ReadInputs \/ ReadIdentities \/ SetRoutes
        \/ SetIncluded \/ Publish
Wait == CheckStatus \/ CheckFiles \/ CheckLoadedInputs
        \/ CheckLoadedIdentities \/ Request \/ Report

Next == Launch \/ Load \/ PublishFails \/ Crash
        \/ WriteIdentities \/ DamageIdentities \/ Start \/ Validate \/ Wait
        \/ GiveUp

Spec == Init /\ [][Next]_vars

-----------------------------------------------------------------------------
TypeOK ==
    /\ inputs \in Content \ {Damaged} /\ identities \in Content
    /\ highest \in Versions
    /\ loadedInputs \in Content /\ loadedIdentities \in Content
    /\ status \in 0..MaxCrashes + 1
    /\ disp.pid \in 0..MaxCrashes + 1
    /\ disp.routes \in Versions \cup {Missing}
    /\ disp.included \in Versions \cup {Missing}
    /\ signalled => disp.up
    /\ script.pid \in 0..MaxCrashes + 1
    /\ writes \in 0..MaxWrites /\ failures \in 0..MaxFailures
    /\ crashes \in 0..MaxCrashes /\ kills \in 0..MaxKills


(* A reload validates both inputs before it swaps either in: between       *)
(* loads, the routes and the included applications in force are one pair   *)
(* that was read and accepted together, through rejected loads, failed     *)
(* publications and restarts.                                              *)
WholeOrNothing ==
    disp.pc = "wait" => <<disp.routes, disp.included>> = pair
=============================================================================
