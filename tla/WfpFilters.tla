----------------------------- MODULE WfpFilters -----------------------------
(***************************************************************************)
(* The persistent payload filters: wfp-probe.exe install, verify and       *)
(* remove, the component script that runs them, and what they leave behind *)
(* when they are killed.  Three stores must agree: the filters in the      *)
(* filter engine (BFE), each tagged with its listed entry and attribution  *)
(* path; the identity record the DNS dispatcher attributes by; and the     *)
(* marker that says owned objects may exist.                               *)
(*                                                                         *)
(* A final path is a number, which is also the order std::map keeps paths  *)
(* in.  A WFP identifier is the path and the form it was lowercased in.    *)
(* The component mutex serializes the script's actions, so one `run` is    *)
(* the script and its probe; the file system, the list, the other holder   *)
(* of the PIA callouts and kills interleave with its steps.                *)
(***************************************************************************)
EXTENDS Naturals, FiniteSets

CONSTANTS
    Entries,        \* lines of the included-app list
    Paths,          \* final paths an entry can resolve to, 1..n
    Uppercase,      \* paths with an uppercase letter that is not ASCII
    Addresses,      \* tunnel addresses
    MaxMoves,       \* changes of the file system, the list and the address
    MaxRuns,        \* actions of the script
    MaxKills,       \* times the script and its probe are killed
    MaxLosses       \* times the identity record is lost or damaged

NoPath == 0
NoAddress == "none"

(* Final paths are numbers from 1 on, and the bounds are numbers.          *)
ASSUME PathsAssumption == 1 \in Paths /\ Paths \subseteq Nat \ {NoPath}
ASSUME AddressAssumption == NoAddress \notin Addresses
ASSUME BoundsAssumption == /\ MaxMoves \in Nat /\ MaxRuns \in Nat
                           /\ MaxKills \in Nat /\ MaxLosses \in Nat

(* The identifiers of one path: the one the management API derives, and    *)
(* the fully lowercased one when that differs.  A running image is matched *)
(* with every letter lowercased.                                           *)
Api(p) == [of |-> p, form |-> "api"]
Lowered(p) == [of |-> p, form |-> "lowered"]
IdsApiOnly(p) == {Api(p)}
Ids(p) == {Api(p)} \cup {Lowered(q) : q \in {p} \cap Uppercase}
RunningId(p) == IF p \in Uppercase THEN Lowered(p) ELSE Api(p)

Id == [of : Paths, form : {"api", "lowered"}]
Row == [entry : Entries, path : Paths \cup {NoPath}, id : Id]
Kinds == {"redirect", "block", "boot"}
Filter == [entry : Entries, path : Paths \cup {NoPath}, id : Id, kind : Kinds,
           address : Addresses]
Record == [ok : BOOLEAN, rows : SUBSET Row]
NoRecord == [ok |-> FALSE, rows |-> {}]

VARIABLES
    list, address,  \* the included-app list and the configured address
    place,          \* where each entry leads, and whether that resolves
    record,         \* state\resolved-identities.tsv
    marker,         \* state\wfp-filters.installed exists
    engine,         \* the objects of the filter engine
    legacy,         \* an earlier release's filter host
    registered,     \* the PIA driver has registered its callouts
    run,            \* the script and its probe
    seen,           \* history: where an entry last resolved at a commit
    handing,        \* history: the host was there and nobody asked to stop
    moves, runs, kills, losses

fileVars == <<list, address, place>>
ghosts == <<seen, handing>>
budgets == <<moves, runs, kills, losses>>
vars == <<fileVars, record, marker, engine, legacy, registered, run, ghosts,
          budgets>>

Found == [source : {"resolved", "absent", "retained", "none"},
          rows : SUBSET Row]
Nothing == [source |-> "none", rows |-> {}]

Idle == [pc |-> "idle", action |-> "Start", listed |-> {},
         address |-> NoAddress, recorded |-> NoRecord, owned |-> {},
         todo |-> {}, found |-> [e \in Entries |-> Nothing],
         retried |-> FALSE]

Pcs == {"idle", "legacy", "mark", "load", "read", "identify", "refuse",
        "install", "record", "compare", "match", "inUse", "ready", "passed",
        "remove", "remaining", "unmark"}

-----------------------------------------------------------------------------
(* The world around the run: links are retargeted, executables come and    *)
(* go, volumes disappear, the list and the tunnel address change.          *)

Place == [at : Paths, state : {"present", "absent", "unresolved"}]

Move == /\ moves < MaxMoves /\ moves' = moves + 1
        /\ \/ \E e \in Entries, p \in Place :
                 p # place[e] /\ place' = [place EXCEPT ![e] = p]
              /\ UNCHANGED <<list, address>>
           \/ /\ list' \in (SUBSET Entries) \ {list}
              /\ UNCHANGED <<place, address>>
           \/ /\ address' \in Addresses \ {address}
              /\ UNCHANGED <<place, list>>
        /\ UNCHANGED <<record, marker, engine, legacy, registered, run, ghosts,
                       runs, kills, losses>>

(* The record is lost or damaged between runs; any malformed row makes it  *)
(* read as empty.                                                          *)
LoseRecord == /\ losses < MaxLosses /\ record.ok /\ run.pc = "idle"
              /\ losses' = losses + 1
              /\ record' = NoRecord
              /\ UNCHANGED <<fileVars, marker, engine, legacy, registered, run,
                             ghosts, moves, runs, kills>>

(* BFE ends the dynamic session of a host that has exited: its callouts    *)
(* and its redirect go with it.                                            *)
SessionEnds == /\ legacy = "ended"
               /\ legacy' = "none"
               /\ engine' = [engine EXCEPT !.callouts = "none"]
               /\ UNCHANGED <<fileVars, record, marker, registered, run, ghosts,
                              budgets>>

(* The PIA client adds its callouts while the keys are free, and leaves.   *)
ClientComesOrGoes == /\ legacy = "none" /\ moves < MaxMoves /\ moves' = moves + 1
                     /\ \/ /\ engine.callouts = "none"
                           /\ engine' = [engine EXCEPT !.callouts = "foreign"]
                        \/ /\ engine.callouts = "foreign"
                           /\ engine' = [engine EXCEPT !.callouts = "none"]
                     /\ UNCHANGED <<fileVars, record, marker, legacy,
                                    registered, run, ghosts, runs, kills,
                                    losses>>

DriverLoads == /\ ~registered
               /\ registered' = TRUE
               /\ UNCHANGED <<fileVars, record, marker, engine, legacy, run,
                              ghosts, budgets>>

-----------------------------------------------------------------------------
(* What identifyApps computes for one entry.                               *)

(* A path that resolves names its own identifiers, whether the executable  *)
(* is there (FwpmGetAppIdFromFileName0) or not (appIdFromNtPath).          *)
Resolved(e) ==
    [source |-> IF place[e].state = "present" THEN "resolved" ELSE "absent",
     rows |-> {[entry |-> e, path |-> place[e].at, id |-> i] :
                   i \in Ids(place[e].at)}]

(* A row of `rows` unless an earlier source had that identifier already.   *)
Unseen(rows, before) == {r \in rows : \A b \in before : b.id # r.id}

(* An entry that does not resolve keeps what the filters tagged with it    *)
(* have and what the record adds to that.                                  *)
Kept(e) == LET tagged == {r \in run.owned : r.entry = e}
               recorded == {r \in run.recorded.rows : r.entry = e}
           IN  tagged \cup Unseen(recorded, tagged)

(* Identifiers without a path join the first path the entry has.           *)
FirstPath(rows) == LET named == {r.path : r \in rows} \ {NoPath}
                   IN  IF named = {} THEN NoPath
                       ELSE CHOOSE p \in named : \A q \in named : p <= q

Retained(e) == LET rows == Kept(e)
               IN  IF rows = {} THEN Nothing
                   ELSE [source |-> "retained",
                         rows |-> {IF r.path = NoPath
                                     THEN [r EXCEPT !.path = FirstPath(rows)]
                                     ELSE r : r \in rows}]

IdentifyEntry(e) == IF place[e].state = "unresolved" THEN Retained(e)
                    ELSE Resolved(e)

Serialized == UNION {run.found[e].rows : e \in Entries}

(* Every rule per identifier, and a boot-time copy of each block; the      *)
(* redirect is left out while another provider holds the callouts.         *)
FilterSet(rows, ip, withRedirects) ==
    {[entry |-> r.entry, path |-> r.path, id |-> r.id, kind |-> k,
      address |-> ip] :
         r \in rows,
         k \in {"block", "boot"} \cup (IF withRedirects THEN {"redirect"}
                                       ELSE {})}

RowsOf(filters) == {[entry |-> f.entry, path |-> f.path, id |-> f.id] :
                        f \in filters}

(* describeMismatch: the owned objects are exactly the set install creates *)
(* for these inputs.                                                       *)
Matches(rows, ip) == /\ engine.provider = "persistent"
                     /\ engine.sublayer = "current"
                     /\ engine.callouts = "ours"
                     /\ engine.context = ip
                     /\ engine.filters = FilterSet(rows, ip, TRUE)

NoObjects == [provider |-> "none", sublayer |-> "none", callouts |-> "none",
              context |-> NoAddress, filters |-> {}]

-----------------------------------------------------------------------------
(* The script.                                                             *)

Goto(pc) == run' = [run EXCEPT !.pc = pc]
Finish == run' = Idle

(* The component lock is taken; Start and Validate read the configuration  *)
(* and refuse an empty list.                                               *)
Begin(action) ==
    /\ run.pc = "idle" /\ runs < MaxRuns /\ runs' = runs + 1
    /\ action # "Stop" => list # {}
    /\ run' = [Idle EXCEPT !.pc = CASE action = "Stop" -> "legacy"
                                    [] action = "Start" -> "mark"
                                    [] OTHER -> "load",
                           !.action = action, !.address = address]
    /\ UNCHANGED <<fileVars, record, marker, engine, legacy, registered,
                   ghosts, moves, kills, losses>>

(* Stop-LegacyHosts: a running host is stopped and waited for.  Stop does  *)
(* it before the removal.                                                  *)
StopLegacy(next) ==
    /\ legacy' = IF legacy = "running" THEN "ended" ELSE legacy
    /\ run' = next

StopHosts == /\ run.pc = "legacy"
             /\ StopLegacy([run EXCEPT !.pc = "remove"])
             /\ handing' = FALSE
             /\ UNCHANGED <<fileVars, record, marker, engine, registered, seen,
                            budgets>>

MarkLate == /\ run.pc = "mark"
            /\ Goto("load")
            /\ marker' = (marker \/ engine.filters # {})
            /\ UNCHANGED <<fileVars, record, engine, legacy, registered,
                           ghosts, budgets>>

(* The marker is written before the install.                               *)
Mark == /\ run.pc = "mark"
        /\ Goto("load")
        /\ marker' = TRUE
        /\ UNCHANGED <<fileVars, record, engine, legacy, registered, ghosts,
                       budgets>>

(* Exit 3: the blocks are committed without the redirect.  A host that is  *)
(* stopped now is followed by installs until BFE has ended its session, or *)
(* ten seconds are over; with no host the action fails.                    *)
CalloutInUse ==
    /\ run.pc = "inUse"
    /\ \/ /\ ~run.retried /\ legacy = "running"
          /\ StopLegacy([run EXCEPT !.pc = "load", !.retried = TRUE])
       \/ /\ run.retried
          /\ Goto("load") /\ UNCHANGED legacy
       \/ /\ run.retried \/ legacy # "running"
          /\ Finish /\ UNCHANGED legacy
    /\ UNCHANGED <<fileVars, record, marker, engine, registered, ghosts,
                   budgets>>

(* A complete install ends with the host stopped as well.                  *)
Installed == /\ run.pc = "ready"
             /\ StopLegacy(Idle)
             /\ UNCHANGED <<fileVars, record, marker, engine, registered,
                            ghosts, budgets>>

(* Validate also wants the marker, and reports.                            *)
Validated == /\ run.pc = "passed"
             /\ Finish
             /\ UNCHANGED <<fileVars, record, marker, engine, legacy,
                            registered, ghosts, budgets>>

Unmark == /\ run.pc = "unmark"
          /\ marker' = FALSE
          /\ Finish
          /\ UNCHANGED <<fileVars, record, engine, legacy, registered, ghosts,
                         budgets>>

-----------------------------------------------------------------------------
(* wfp-probe.exe.                                                          *)

(* The list is read and judged: unreadable, or naming a component of the   *)
(* stack itself, it is refused.  The address and the engine may fail too.  *)
LoadList == /\ run.pc = "load"
            /\ \/ /\ list # {}
                  /\ run' = [run EXCEPT !.pc = "read", !.listed = list]
               \/ Finish
            /\ UNCHANGED <<fileVars, record, marker, engine, legacy, registered,
                           ghosts, budgets>>

(* The record, then the committed filters' tags in a read transaction.     *)
ReadStores == /\ run.pc = "read"
              /\ run' = [run EXCEPT !.pc = "identify", !.recorded = record,
                                    !.owned = RowsOf(engine.filters),
                                    !.todo = run.listed,
                                    !.found = Idle.found]
              /\ UNCHANGED <<fileVars, record, marker, engine, legacy,
                             registered, ghosts, budgets>>

Identify(e) == /\ run.pc = "identify" /\ e \in run.todo
               /\ run' = [run EXCEPT !.todo = @ \ {e},
                                     !.found[e] = IdentifyEntry(e),
                                     !.pc = IF run.todo = {e} THEN "refuse"
                                            ELSE "identify"]
               /\ UNCHANGED <<fileVars, record, marker, engine, legacy,
                              registered, ghosts, budgets>>

(* Identifiers that no path attributes DNS by are refused.                 *)
Refused == \E r \in Serialized : r.path = NoPath
Refuse == /\ run.pc = "refuse"
          /\ IF Refused THEN Finish
             ELSE Goto(IF run.action = "Start" THEN "install" ELSE "compare")
          /\ UNCHANGED <<fileVars, record, marker, engine, legacy, registered,
                         ghosts, budgets>>

(* install: everything the project owns is replaced in one transaction.    *)
(* Stale callouts and sublayers of another release go; the redirect and    *)
(* its callouts are added only when no other provider holds the keys.      *)
Replaced(foreign) ==
    [provider |-> "persistent", sublayer |-> "current",
     callouts |-> IF foreign THEN "foreign" ELSE "ours",
     context |-> run.address,
     filters |-> FilterSet(Serialized, run.address, ~foreign)]

Install == /\ run.pc = "install" /\ engine.provider # "dynamic"
           /\ LET foreign == engine.callouts = "foreign"
              IN  /\ engine' = Replaced(foreign)
                  /\ Goto(IF foreign THEN "inUse" ELSE "record")
           /\ seen' = [e \in Entries |->
                          IF e \notin run.listed THEN NoPath
                          ELSE IF run.found[e].source \in {"resolved", "absent"}
                            THEN (CHOOSE r \in run.found[e].rows : TRUE).path
                          ELSE seen[e]]
           /\ UNCHANGED <<fileVars, record, marker, legacy, registered, handing,
                          budgets>>

(* A provider that is not persistent, another writer's transaction that    *)
(* does not end, or any other failed call: the transaction is aborted.     *)
Abort == /\ run.pc \in {"install", "remove"}
         /\ Finish
         /\ UNCHANGED <<fileVars, record, marker, engine, legacy, registered,
                        ghosts, budgets>>

(* The record is replaced by one rename after the commit, or not at all.   *)
WriteRecord == /\ run.pc = "record"
               /\ \/ /\ record' = [ok |-> TRUE, rows |-> Serialized]
                     /\ Goto("match")
                  \/ UNCHANGED record /\ Finish
               /\ UNCHANGED <<fileVars, marker, engine, legacy, registered,
                              ghosts, budgets>>

(* Verification: the record is what would be written now.                  *)
SameRecord == run.recorded = [ok |-> TRUE, rows |-> Serialized]
Compare == /\ run.pc = "compare"
           /\ IF SameRecord THEN Goto("match") ELSE Finish
           /\ UNCHANGED <<fileVars, record, marker, engine, legacy, registered,
                          ghosts, budgets>>

Match == /\ run.pc = "match"
         /\ IF ~Matches(Serialized, run.address) THEN Finish
            ELSE IF run.action = "Start" THEN Goto("ready")
            ELSE IF registered THEN Goto("passed")
            ELSE Finish
         /\ UNCHANGED <<fileVars, record, marker, engine, legacy, registered,
                        ghosts, budgets>>

(* remove: every owned object in one transaction, then a look at the       *)
(* engine.                                                                 *)
RemoveAll == /\ run.pc = "remove"
             /\ engine' = [NoObjects EXCEPT
                              !.callouts = IF engine.callouts = "foreign"
                                             THEN "foreign" ELSE "none"]
             /\ seen' = [e \in Entries |-> NoPath]
             /\ Goto("remaining")
             /\ UNCHANGED <<fileVars, record, marker, legacy, registered,
                            handing, budgets>>

Remaining == /\ run.pc = "remaining"
             /\ IF engine.provider = "none" /\ engine.filters = {}
                  THEN Goto("unmark") ELSE Finish
             /\ UNCHANGED <<fileVars, record, marker, engine, legacy,
                            registered, ghosts, budgets>>

(* The script's job ends with everything in it, at any step: an open       *)
(* transaction is aborted.                                                 *)
Killed == /\ run.pc # "idle" /\ kills < MaxKills /\ kills' = kills + 1
          /\ Finish
          /\ UNCHANGED <<fileVars, record, marker, engine, legacy, registered,
                         ghosts, moves, runs, losses>>

-----------------------------------------------------------------------------
(* A fresh machine, one that upgrades from a release with a filter host,   *)
(* and one whose earlier release committed filters without paths.          *)
Earlier(e) == [NoObjects EXCEPT
    !.provider = "persistent", !.sublayer = "stale", !.callouts = "stale",
    !.context = address,
    !.filters = {[entry |-> e, path |-> NoPath, id |-> i, kind |-> "block",
                  address |-> address] : i \in Ids(place[e].at)}]

Init == /\ list = Entries /\ address \in Addresses
        /\ place \in [Entries -> [at : {1}, state : {"present"}]]
        /\ record = NoRecord
        /\ \/ engine = NoObjects /\ legacy = "none" /\ marker = FALSE
           \/ /\ engine = [NoObjects EXCEPT !.callouts = "foreign"]
              /\ legacy = "running" /\ marker = FALSE
           \/ /\ \E e \in Entries : engine = Earlier(e)
              /\ legacy = "none" /\ marker = TRUE
           \/ /\ engine = [NoObjects EXCEPT !.provider = "dynamic"]
              /\ legacy = "none" /\ marker = TRUE
        /\ registered = FALSE
        /\ run = Idle
        /\ seen = [e \in Entries |-> NoPath]
        /\ handing = (legacy = "running")
        /\ moves = 0 /\ runs = 0 /\ kills = 0 /\ losses = 0

Next == \/ Move \/ LoseRecord \/ SessionEnds \/ ClientComesOrGoes
        \/ DriverLoads
        \/ \E a \in {"Start", "Stop", "Validate"} : Begin(a)
        \/ StopHosts \/ Mark \/ CalloutInUse \/ Installed \/ Validated
        \/ Unmark
        \/ LoadList \/ ReadStores \/ Refuse \/ Install \/ Abort
        \/ WriteRecord \/ Compare \/ Match \/ RemoveAll \/ Remaining
        \/ \E e \in Entries : Identify(e)
        \/ Killed

Spec == Init /\ [][Next]_vars

-----------------------------------------------------------------------------
TypeOK ==
    /\ list \subseteq Entries /\ address \in Addresses
    /\ place \in [Entries -> Place]
    /\ record \in Record
    /\ marker \in BOOLEAN /\ registered \in BOOLEAN /\ handing \in BOOLEAN
    /\ engine.provider \in {"none", "dynamic", "persistent"}
    /\ engine.sublayer \in {"none", "stale", "current"}
    /\ engine.callouts \in {"none", "stale", "ours", "foreign"}
    /\ engine.context \in Addresses \cup {NoAddress}
    /\ engine.filters \subseteq Filter
    /\ legacy \in {"none", "running", "ended"}
    /\ run.pc \in Pcs /\ run.listed \subseteq Entries
    /\ run.todo \subseteq run.listed
    /\ run.recorded \in Record /\ run.owned \subseteq Row
    /\ run.found \in [Entries -> Found]
    /\ seen \in [Entries -> Paths \cup {NoPath}]
    /\ moves \in 0..MaxMoves /\ runs \in 0..MaxRuns
    /\ kills \in 0..MaxKills /\ losses \in 0..MaxLosses

(* "Protection is never replaced by an omitted or guessed identity."  The  *)
(* image an entry last resolved to at a commit stays blocked, by           *)
(* persistent and by boot-time filters under the identifier the kernel     *)
(* matches, until the filters are removed, the entry leaves the list or    *)
(* the entry is seen to resolve elsewhere: through unresolvable paths, a   *)
(* lost record, and installs killed at any step.                           *)
ProtectionKept ==
    \A e \in Entries : seen[e] # NoPath =>
        \A k \in {"block", "boot"} : \E f \in engine.filters :
            f.entry = e /\ f.kind = k /\ f.id = RunningId(seen[e])

(* READY and PASS are only said when payload and DNS agree: the record the *)
(* dispatcher attributes by holds exactly the entries, paths and           *)
(* identifiers of the committed filters, each filter has its redirect, and *)
(* all of them name the tunnel address the run was given.                  *)
SuccessIsExact ==
    run.pc \in {"ready", "passed"} =>
        /\ record.ok /\ record.rows = RowsOf(engine.filters)
        /\ \A f \in engine.filters : f.path # NoPath /\ f.address = run.address
        /\ \A r \in record.rows, k \in Kinds : \E f \in engine.filters :
               f.kind = k /\ f.id = r.id /\ f.entry = r.entry

(* An install can stop between the commit and the record.  When an entry   *)
(* cannot be resolved afterwards, the next commit protects the identities  *)
(* of the record as well as those of the filters, so neither the image DNS *)
(* is attributed to nor the one whose payload was blocked goes free.       *)
RetainsBoth ==
    [][\A e \in run.listed :
          (run.pc = "install" /\ run'.pc \in {"inUse", "record"}
              /\ run.found[e].source \in {"retained", "none"}) =>
             \A r \in run.recorded.rows \cup RowsOf(engine.filters) :
                 r.entry = e => \E f \in engine'.filters :
                                    f.entry = e /\ f.id = r.id]_vars

(* The marker is present whenever owned objects may exist: it is written   *)
(* before an install and removed only after a complete removal, so a       *)
(* controller that finds no marker has nothing to remove.                  *)
MarkerCovers == engine.provider = "persistent" => marker

(* An earlier release's filter host is stopped by an install only after    *)
(* its successor's filters are committed: selected applications are behind *)
(* the host's redirect or behind the blocks, at every step of the upgrade. *)
HandoverCovered ==
    handing /\ legacy # "running" => engine.context # NoAddress

(* What is recorded agrees with the engine, through every kill, loss and   *)
(* change (install, verify, remove, Invoke-WfpFilters.ps1).  The types are *)
(* a part of it.                                                           *)
RecordTruthful ==
    /\ RetainsBoth
    /\ [](TypeOK /\ SuccessIsExact /\ MarkerCovers /\ HandoverCovered)
=============================================================================
