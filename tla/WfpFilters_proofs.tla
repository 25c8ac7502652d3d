-------------------------- MODULE WfpFilters_proofs -------------------------
(***************************************************************************)
(* Proofs about WfpFilters for any list, any paths, identifiers and        *)
(* addresses, and any number of runs, kills, losses and changes: protection*)
(* is kept, READY and PASS are exact, the marker covers what is installed, *)
(* the handover from a filter host leaves no gap, and a commit retains the *)
(* identities of an entry that does not resolve.                           *)
(***************************************************************************)
EXTENDS WfpFilters, TLAPS

RunType ==
    [pc : Pcs, action : {"Start", "Stop", "Validate"}, listed : SUBSET Entries,
     address : Addresses \cup {NoAddress}, recorded : Record, owned : SUBSET Row,
     todo : SUBSET Entries, found : [Entries -> Found], retried : BOOLEAN]

EngineType ==
    [provider : {"none", "dynamic", "persistent"}, sublayer : {"none", "stale", "current"},
     callouts : {"none", "stale", "ours", "foreign"}, context : Addresses \cup {NoAddress},
     filters : SUBSET Filter]

Budgeted ==
    moves \in 0..MaxMoves /\ runs \in 0..MaxRuns /\ kills \in 0..MaxKills /\ losses \in 0..MaxLosses

\* The type invariant, with the records whole.
Typed == TypeOK /\ run \in RunType /\ engine \in EngineType

\* A run in progress names an address; only an install that set the marker first gets past the
\* identification; and a removal is over before the marker goes.
PhaseInv ==
    /\ run.pc # "idle" => run.address \in Addresses
    /\ run.pc \in {"install", "record", "inUse", "ready"} => run.action = "Start"
    /\ run.action = "Start" /\ run.pc \notin {"idle", "mark"} => marker
    /\ run.pc = "unmark" => engine.provider = "none"

\* A removal has ended the handover; a committed install has set the context.
HandoverInv ==
    /\ run.pc \in {"remove", "remaining", "unmark"} => ~handing
    /\ run.pc \in {"inUse", "ready"} => engine.context # NoAddress

\* What the run read of the stores is still what they hold when it commits or compares, and
\* entries are left to identify only while it identifies.
FreshInv ==
    /\ run.pc \in {"identify", "refuse", "install"} => run.owned = RowsOf(engine.filters)
    /\ run.pc \in {"identify", "refuse", "install", "compare"} => run.recorded = record
    /\ run.pc # "identify" => run.todo = {}

\* An identified entry has the identifiers of the one path it resolved to, or every identifier
\* that the filters and the record have for it.
RowsAt(e, p) == {[entry |-> e, path |-> p, id |-> i] : i \in Ids(p)}
ResolvedTo(e, p) == run.found[e].rows = RowsAt(e, p)

RetainsAll(e) ==
    \A r \in run.owned \cup run.recorded.rows :
        r.entry = e => \E s \in run.found[e].rows : s.entry = e /\ s.id = r.id

Identified(e) ==
    \/ run.found[e].source \in {"resolved", "absent"} /\ \E p \in Paths : ResolvedTo(e, p)
    \/ run.found[e].source \in {"retained", "none"} /\ RetainsAll(e)

FoundInv ==
    run.pc \in {"identify", "refuse", "install"} => \A e \in run.listed \ run.todo : Identified(e)

\* Past the refusal every row has a path, and what is matched is what is recorded.
ExactInv ==
    /\ run.pc \in {"install", "record", "compare", "match"} => ~Refused
    /\ run.pc = "match" => record = [ok |-> TRUE, rows |-> Serialized]

IInv ==
    /\ Typed /\ PhaseInv /\ HandoverInv /\ FreshInv /\ FoundInv /\ ExactInv
    /\ ProtectionKept /\ SuccessIsExact /\ MarkerCovers /\ HandoverCovered
-----------------------------------------------------------------------------
(* The shapes of the records, so that the steps need only their fields.    *)

\* A jump of the script or of the probe changes the program counter only.
LEMMA Jump ==
    ASSUME NEW p \in Pcs, run \in RunType, run' = [run EXCEPT !.pc = p]
    PROVE  /\ run' \in RunType /\ run'.pc = p
           /\ run'.action = run.action /\ run'.listed = run.listed /\ run'.address = run.address
           /\ run'.recorded = run.recorded /\ run'.owned = run.owned /\ run'.todo = run.todo
           /\ run'.found = run.found /\ run'.retried = run.retried
  BY DEF RunType

\* Between runs there is nothing listed, read or found.
LEMMA IdleFacts ==
    /\ Idle \in RunType /\ Idle.pc = "idle" /\ Idle.listed = {} /\ Idle.todo = {}
    /\ Idle.recorded = NoRecord /\ Idle.owned = {} /\ Idle.action = "Start"
    /\ Idle.found \in [Entries -> Found] /\ NoRecord \in Record
<1>1. Nothing \in Found
  BY DEF Nothing, Found
<1>2. Idle.found = [e \in Entries |-> Nothing]
  BY DEF Idle
<1>3. NoRecord \in Record
  BY DEF NoRecord, Record
<1>4. [e \in Entries |-> Nothing] \in [Entries -> Found]
  BY <1>1
<1>5. Idle \in RunType
  BY <1>3, <1>4 DEF Idle, RunType, Pcs
<1>6. QED
  BY <1>2, <1>3, <1>4, <1>5 DEF Idle

\* The fields of a typed run and engine.
LEMMA Fields ==
    ASSUME Typed
    PROVE  /\ run \in RunType /\ engine \in EngineType
           /\ run.listed \subseteq Entries /\ run.todo \subseteq run.listed
           /\ run.recorded \in Record /\ run.owned \subseteq Row
           /\ run.found \in [Entries -> Found] /\ engine.filters \subseteq Filter
           /\ record \in Record /\ address \in Addresses /\ list \subseteq Entries
           /\ place \in [Entries -> Place] /\ seen \in [Entries -> Paths \cup {NoPath}]
           /\ marker \in BOOLEAN /\ registered \in BOOLEAN /\ handing \in BOOLEAN
           /\ legacy \in {"none", "running", "ended"} /\ Budgeted
  BY Zenon DEF Typed, TypeOK, Budgeted

\* The type invariant says of the run and the engine no more than their record types and that an
\* entry to identify is a listed one.
LEMMA TypedAfter ==
    ASSUME list' \subseteq Entries, address' \in Addresses, place' \in [Entries -> Place],
           record' \in Record, marker' \in BOOLEAN, registered' \in BOOLEAN, handing' \in BOOLEAN,
           legacy' \in {"none", "running", "ended"}, seen' \in [Entries -> Paths \cup {NoPath}],
           Budgeted', run' \in RunType, engine' \in EngineType, run'.todo \subseteq run'.listed
    PROVE  Typed'
<1>1. /\ run'.pc \in Pcs /\ run'.listed \subseteq Entries
      /\ run'.recorded \in Record /\ run'.owned \subseteq Row /\ run'.found \in [Entries -> Found]
  BY DEF RunType
<1>2. /\ engine'.provider \in {"none", "dynamic", "persistent"}
      /\ engine'.sublayer \in {"none", "stale", "current"}
      /\ engine'.callouts \in {"none", "stale", "ours", "foreign"}
      /\ engine'.context \in Addresses \cup {NoAddress} /\ engine'.filters \subseteq Filter
  BY DEF EngineType
<1>3. QED
  BY <1>1, <1>2, Zenon DEF Typed, TypeOK, Budgeted

\* What was found for the entries is a set of rows.
LEMMA SerializedRows == ASSUME Typed PROVE Serialized \subseteq Row
<1>1. \A e \in Entries : run.found[e].rows \subseteq Row
  BY Fields DEF Found
<1>2. QED
  BY <1>1, Zenon DEF Serialized
-----------------------------------------------------------------------------
(* Filters and rows.                                                       *)

\* Every row has its blocks, persistent and boot-time.
LEMMA FilterSetBlocks ==
    ASSUME NEW rows, NEW ip, NEW b, NEW r \in rows, NEW k \in {"block", "boot"}
    PROVE  \E f \in FilterSet(rows, ip, b) : f.entry = r.entry /\ f.kind = k /\ f.id = r.id
<1> DEFINE f == [entry |-> r.entry, path |-> r.path, id |-> r.id, kind |-> k, address |-> ip]
<1>1. f \in FilterSet(rows, ip, b)
  BY DEF FilterSet
<1>2. f.entry = r.entry /\ f.kind = k /\ f.id = r.id
  OBVIOUS
<1> HIDE DEF f
<1>3. QED
  BY <1>1, <1>2, Zenon

\* The filters of typed rows are filters.
LEMMA FilterSetType ==
    ASSUME NEW rows \in SUBSET Row, NEW ip \in Addresses, NEW b \in BOOLEAN
    PROVE  FilterSet(rows, ip, b) \subseteq Filter
<1> SUFFICES ASSUME NEW f \in FilterSet(rows, ip, b) PROVE f \in Filter
  BY Zenon
<1>1. PICK r \in rows, k \in {"block", "boot"} \cup (IF b THEN {"redirect"} ELSE {}) :
         f = [entry |-> r.entry, path |-> r.path, id |-> r.id, kind |-> k, address |-> ip]
  BY DEF FilterSet
<1>2. k \in Kinds
  BY DEF Kinds
<1>3. r.entry \in Entries /\ r.path \in Paths \cup {NoPath} /\ r.id \in Id
  BY DEF Row
<1>4. QED
  BY <1>1, <1>2, <1>3 DEF Filter

\* A typed row is its three fields.
LEMMA RowIsItsFields ==
    ASSUME NEW r \in Row
    PROVE  r = [entry |-> r.entry, path |-> r.path, id |-> r.id]
  BY DEF Row

\* With the redirects, a row has a filter of each kind, every filter comes from a row and names
\* the address, and the rows of the filters are the rows they were made of.
LEMMA FilterSetExact ==
    ASSUME NEW rows \in SUBSET Row, NEW ip
    PROVE  /\ \A r \in rows, k \in Kinds : \E f \in FilterSet(rows, ip, TRUE) :
                  f.kind = k /\ f.id = r.id /\ f.entry = r.entry
           /\ \A f \in FilterSet(rows, ip, TRUE) : f.address = ip /\ \E r \in rows : f.path = r.path
           /\ RowsOf(FilterSet(rows, ip, TRUE)) = rows
<1> DEFINE F == FilterSet(rows, ip, TRUE)
           Of(r, k) == [entry |-> r.entry, path |-> r.path, id |-> r.id, kind |-> k, address |-> ip]
<1>1. \A r \in rows, k \in Kinds : Of(r, k) \in F
  BY SMTT(120) DEF FilterSet, Kinds
<1>2. \A f \in F : \E r \in rows, k \in Kinds : f = Of(r, k)
  BY DEF FilterSet, Kinds
<1>3. \A r, k : /\ Of(r, k).kind = k /\ Of(r, k).id = r.id /\ Of(r, k).entry = r.entry
                /\ Of(r, k).path = r.path /\ Of(r, k).address = ip
  OBVIOUS
<1> HIDE DEF F, Of
<1>4. \A r \in rows, k \in Kinds : \E f \in F : f.kind = k /\ f.id = r.id /\ f.entry = r.entry
  BY <1>1, <1>3
<1>5. \A f \in F : f.address = ip /\ \E r \in rows : f.path = r.path
  BY <1>2, <1>3
<1>6. ASSUME NEW r \in rows PROVE r \in RowsOf(F)
  <2>1. "block" \in Kinds
    BY Zenon DEF Kinds
  <2>2. [entry |-> Of(r, "block").entry, path |-> Of(r, "block").path, id |-> Of(r, "block").id] \in RowsOf(F)
    BY <1>1, <2>1, Zenon DEF RowsOf
  <2>3. r = [entry |-> r.entry, path |-> r.path, id |-> r.id]
    BY RowIsItsFields, Zenon
  <2>4. QED
    BY <1>3, <2>2, <2>3
<1>7. ASSUME NEW s \in RowsOf(F) PROVE s \in rows
  <2>1. PICK f \in F : s = [entry |-> f.entry, path |-> f.path, id |-> f.id]
    BY Zenon DEF RowsOf
  <2>2. PICK r \in rows, k \in Kinds : f = Of(r, k)
    BY <1>2, Zenon
  <2>3. f.entry = r.entry /\ f.path = r.path /\ f.id = r.id
    BY <1>3, <2>2, Zenon
  <2>4. r = [entry |-> r.entry, path |-> r.path, id |-> r.id]
    BY RowIsItsFields, Zenon
  <2>5. QED
    BY <2>1, <2>3, <2>4
<1>8. QED
  BY <1>4, <1>5, <1>6, <1>7, Zenon DEF F

\* The row of a filter has its entry and its identifier.
LEMMA RowOfFilter ==
    ASSUME NEW filters, NEW f \in filters
    PROVE  \E r \in RowsOf(filters) : r.entry = f.entry /\ r.id = f.id
<1>1. [entry |-> f.entry, path |-> f.path, id |-> f.id] \in RowsOf(filters)
  BY Zenon DEF RowsOf
<1>2. QED
  BY <1>1

\* The rows of typed filters are rows.
LEMMA RowsOfType == ASSUME NEW filters \in SUBSET Filter PROVE RowsOf(filters) \subseteq Row
<1> SUFFICES ASSUME NEW r \in RowsOf(filters) PROVE r \in Row
  BY Zenon
<1>1. PICK f \in filters : r = [entry |-> f.entry, path |-> f.path, id |-> f.id]
  BY Zenon DEF RowsOf
<1>2. f.entry \in Entries /\ f.path \in Paths \cup {NoPath} /\ f.id \in Id
  BY DEF Filter
<1>3. QED
  BY <1>1, <1>2 DEF Row

\* A running image is matched by one of the identifiers of its path.
LEMMA RunningIsOne == ASSUME NEW p \in Paths PROVE RunningId(p) \in Ids(p) /\ Ids(p) \subseteq Id
<1>1. Api(p) \in Id /\ Lowered(p) \in Id
  BY DEF Api, Lowered, Id
<1>2. CASE p \in Uppercase
  <2>1. {p} \cap Uppercase = {p}
    BY <1>2, Zenon
  <2>2. QED
    BY <1>1, <1>2, <2>1, Zenon DEF RunningId, Ids
<1>3. CASE p \notin Uppercase
  <2>1. {p} \cap Uppercase = {}
    BY <1>3, Zenon
  <2>2. QED
    BY <1>1, <1>3, <2>1, Zenon DEF RunningId, Ids
<1>4. QED
  BY <1>2, <1>3, Zenon
-----------------------------------------------------------------------------
(* Identification.                                                         *)

INSTANCE WellFoundedInduction

\* The first path of an entry is one of the paths, or none.
LEMMA FirstPathType ==
    ASSUME NEW rows \in SUBSET Row
    PROVE  FirstPath(rows) \in Paths \cup {NoPath}
<1> DEFINE named == {r.path : r \in rows} \ {NoPath}
<1>1. CASE named = {}
  BY <1>1, Zenon DEF FirstPath
<1>2. CASE named # {}
  <2>1. named \subseteq Paths /\ named \subseteq Nat
    <3>1. \A r \in rows : r.path \in Paths \cup {NoPath}
      BY DEF Row
    <3>2. Paths \subseteq Nat
      BY PathsAssumption, Zenon
    <3>3. QED
      BY <3>1, <3>2, Zenon
  <2> HIDE DEF named
  <2>2. \E p \in named : \A q \in named : ~(<<q, p>> \in OpToRel(<, Nat))
    BY <1>2, <2>1, NatLessThanWellFounded, WFMin, Zenon
  <2>3. PICK p \in named : \A q \in named : ~(<<q, p>> \in OpToRel(<, Nat))
    BY <2>2, Zenon
  <2>4. ASSUME NEW q \in named PROVE p <= q
    <3>1. p \in Nat /\ q \in Nat
      BY <2>1, Zenon
    <3>2. ~(q < p)
      BY <2>3, <3>1, Zenon DEF OpToRel
    <3>3. QED
      BY <3>1, <3>2
  <2>5. (CHOOSE x \in named : \A q \in named : x <= q) \in named
    BY <2>4, Zenon
  <2>6. FirstPath(rows) = CHOOSE x \in named : \A q \in named : x <= q
    BY <1>2, Zenon DEF FirstPath, named
  <2>7. QED
    BY <2>1, <2>5, <2>6, Zenon
<1>3. QED
  BY <1>1, <1>2, Zenon

\* What is kept for an entry are its rows, and none of its identifiers is left out.
LEMMA KeptFacts ==
    ASSUME Typed, NEW e \in Entries
    PROVE  /\ Kept(e) \subseteq Row /\ \A r \in Kept(e) : r.entry = e
           /\ \A r \in run.owned \cup run.recorded.rows :
                  r.entry = e => \E q \in Kept(e) : q.id = r.id
<1> DEFINE tagged == {r \in run.owned : r.entry = e}
           recorded == {r \in run.recorded.rows : r.entry = e}
<1>1. run.owned \subseteq Row /\ run.recorded.rows \subseteq Row
  BY Fields DEF Record
<1>2. Kept(e) = tagged \cup Unseen(recorded, tagged)
  BY Zenon DEF Kept
<1>3. \A r \in recorded : r \in Unseen(recorded, tagged) \/ \E b \in tagged : b.id = r.id
  BY Zenon DEF Unseen
<1>4. Unseen(recorded, tagged) \subseteq recorded
  BY Zenon DEF Unseen
<1>5. QED
  BY <1>1, <1>2, <1>3, <1>4, ZenonT(120)

\* A row completed with the entry's first path keeps its entry and its identifier.
LEMMA CompletedRow ==
    ASSUME NEW r \in Row, NEW p \in Paths \cup {NoPath}
    PROVE  LET s == IF r.path = NoPath THEN [r EXCEPT !.path = p] ELSE r
           IN  s \in Row /\ s.entry = r.entry /\ s.id = r.id
  BY DEF Row

\* An entry that does not resolve keeps every identifier that the filters and the record have for
\* it.
LEMMA RetainedFacts ==
    ASSUME Typed, NEW e \in Entries
    PROVE  /\ Retained(e) \in Found /\ Retained(e).source \in {"retained", "none"}
           /\ \A r \in run.owned \cup run.recorded.rows :
                  r.entry = e => \E s \in Retained(e).rows : s.entry = e /\ s.id = r.id
<1> DEFINE rows == Kept(e)
           Done(r) == IF r.path = NoPath THEN [r EXCEPT !.path = FirstPath(rows)] ELSE r
           done == {Done(r) : r \in rows}
<1>1. /\ rows \in SUBSET Row /\ \A r \in rows : r.entry = e
      /\ \A r \in run.owned \cup run.recorded.rows : r.entry = e => \E q \in rows : q.id = r.id
  BY KeptFacts, Zenon
<1>2. \A r \in rows : Done(r) \in Row /\ Done(r).entry = e /\ Done(r).id = r.id
  <2>1. TAKE r \in rows
  <2>2. Done(r) \in Row /\ Done(r).entry = r.entry /\ Done(r).id = r.id
    <3>1. r \in Row /\ FirstPath(rows) \in Paths \cup {NoPath}
      BY <1>1, FirstPathType, ZenonT(120)
    <3>2. QED
      BY <3>1, CompletedRow, Zenon
  <2>3. QED
    BY <1>1, <2>2, Zenon
<1>3. CASE rows = {}
  <2>1. Retained(e) = Nothing
    BY <1>3, Zenon DEF Retained
  <2>2. QED
    BY <1>1, <1>3, <2>1, SMTT(120) DEF Nothing, Found
<1>4. CASE rows # {}
  <2>1. Retained(e) = [source |-> "retained", rows |-> done]
    BY <1>4, Zenon DEF Retained
  <2>2. done \subseteq Row
    BY <1>2, Zenon
  <2>3. \A r \in run.owned \cup run.recorded.rows :
           r.entry = e => \E s \in done : s.entry = e /\ s.id = r.id
    <3>1. SUFFICES ASSUME NEW r \in run.owned \cup run.recorded.rows, r.entry = e
                   PROVE  \E s \in done : s.entry = e /\ s.id = r.id
      BY Zenon
    <3>2. PICK q \in rows : q.id = r.id
      BY <1>1, <3>1, Zenon
    <3>3. Done(q) \in done
      BY Zenon
    <3>4. Done(q).entry = e /\ Done(q).id = r.id
      BY <1>2, <3>2, ZenonT(120)
    <3> HIDE DEF Done, done
    <3>5. QED
      BY <3>3, <3>4, ZenonT(120)
  <2> HIDE DEF done
  <2>4. Retained(e).source = "retained" /\ Retained(e).rows = done
    BY <2>1
  <2>5. Retained(e) \in Found
    BY <2>1, <2>2 DEF Found
  <2>6. QED
    BY <2>3, <2>4, <2>5, Zenon
<1>5. QED
  BY <1>3, <1>4, Zenon

\* An entry that resolves has the identifiers of its path.
LEMMA ResolvedFacts ==
    ASSUME Typed, NEW e \in Entries
    PROVE  /\ Resolved(e) \in Found /\ Resolved(e).source \in {"resolved", "absent"}
           /\ place[e].at \in Paths
           /\ Resolved(e).rows = {[entry |-> e, path |-> place[e].at, id |-> i] : i \in Ids(place[e].at)}
<1> DEFINE rows == {[entry |-> e, path |-> place[e].at, id |-> i] : i \in Ids(place[e].at)}
<1>1. place[e].at \in Paths
  BY Fields DEF Place
<1>2. Ids(place[e].at) \subseteq Id
  BY <1>1, RunningIsOne, ZenonT(120)
<1>3. rows \subseteq Row
  BY <1>1, <1>2 DEF Row
<1>4. Resolved(e) = [source |-> IF place[e].state = "present" THEN "resolved" ELSE "absent", rows |-> rows]
  BY Zenon DEF Resolved
<1> HIDE DEF rows
<1>5. Resolved(e).rows = rows /\ Resolved(e).source \in {"resolved", "absent"}
  BY <1>4
<1>6. Resolved(e) \in Found
  BY <1>3, <1>4 DEF Found
<1>7. QED
  BY <1>1, <1>5, <1>6, ZenonT(120) DEF rows
-----------------------------------------------------------------------------
(* Steps that leave the engine's filters alone.                            *)

\* An image is as protected as its filters say.
LEMMA ProtectionStays ==
    ASSUME ProtectionKept, engine'.filters = engine.filters, seen' = seen
    PROVE  ProtectionKept'
<1> SUFFICES ASSUME NEW e \in Entries, seen[e] # NoPath, NEW k \in {"block", "boot"}
             PROVE  \E f \in engine.filters : f.entry = e /\ f.kind = k /\ f.id = RunningId(seen[e])
  BY DEF ProtectionKept
<1> QED
  BY ZenonT(120) DEF ProtectionKept

\* The type invariant of a step that changes neither the stores nor the configuration.
LEMMA TypedStep ==
    ASSUME IInv, run' \in RunType, run'.todo \subseteq run'.listed, marker' \in BOOLEAN, handing' \in BOOLEAN,
           legacy' \in {"none", "running", "ended"}, Budgeted',
           UNCHANGED <<fileVars, record, engine, registered, seen>>
    PROVE  Typed'
<1>1. Typed
  BY Zenon DEF IInv
<1>2. UNCHANGED <<list, address, place, record, engine, registered, seen>>
  BY Zenon DEF fileVars
<1>3. /\ list' \subseteq Entries /\ address' \in Addresses /\ place' \in [Entries -> Place]
      /\ record' \in Record /\ registered' \in BOOLEAN /\ engine' \in EngineType
      /\ seen' \in [Entries -> Paths \cup {NoPath}]
  BY <1>1, <1>2, Fields, ZenonT(120)
<1>4. QED
  BY <1>3, TypedAfter, Zenon

\* A run that ends, by itself or killed, leaves every promise as it was.
LEMMA EndKeeps ==
    ASSUME IInv, run' = Idle, UNCHANGED <<fileVars, record, marker, engine, registered, ghosts>>,
           legacy' \in {"none", "running", "ended"}, HandoverCovered', Budgeted'
    PROVE  IInv'
<1>0. /\ Typed /\ ProtectionKept /\ MarkerCovers /\ UNCHANGED <<marker, engine, seen, handing>>
  BY Zenon DEF IInv, ghosts
<1>1. run' \in RunType /\ run'.pc = "idle" /\ run'.todo = {} /\ run'.listed = {}
  BY IdleFacts, Zenon
<1>2. Typed'
  <2>1. marker' \in BOOLEAN /\ handing' \in BOOLEAN
    BY <1>0, Fields, Zenon
  <2>2. QED
    BY <1>0, <1>1, <2>1, TypedStep, ZenonT(120) DEF ghosts
<1>3. PhaseInv' /\ HandoverInv' /\ FreshInv'
  BY <1>1, Zenon DEF PhaseInv, HandoverInv, FreshInv
<1>4. FoundInv' /\ ExactInv' /\ SuccessIsExact'
  BY <1>1, Zenon DEF FoundInv, ExactInv, SuccessIsExact
<1>5. ProtectionKept'
  BY <1>0, ProtectionStays, Zenon
<1>6. MarkerCovers'
  BY <1>0 DEF MarkerCovers
<1>7. QED
  BY <1>2, <1>3, <1>4, <1>5, <1>6, ZenonT(120) DEF IInv

\* A step of the file system, the list, the address, the driver or another owner of the callouts
\* leaves the run, its stores and the owned objects alone.
LEMMA WorldKeeps ==
    ASSUME IInv, Typed', UNCHANGED <<record, marker, run, ghosts>>, HandoverCovered',
           engine'.provider = engine.provider, engine'.context = engine.context,
           engine'.filters = engine.filters
    PROVE  IInv'
<1>0. UNCHANGED <<record, marker, run, seen, handing>>
  BY ZenonT(120) DEF ghosts
<1>1. PhaseInv' /\ HandoverInv' /\ FreshInv' /\ MarkerCovers'
  BY <1>0, SMTT(120) DEF IInv, PhaseInv, HandoverInv, FreshInv, MarkerCovers, RowsOf
<1>2. FoundInv'
  BY <1>0 DEF IInv, FoundInv, Identified, ResolvedTo, RetainsAll
<1>3. ExactInv'
  BY <1>0, ZenonT(120) DEF IInv, ExactInv, Refused, Serialized
<1>4. ProtectionKept'
  BY <1>0, ProtectionStays, Zenon DEF IInv
<1>5. SuccessIsExact'
  BY <1>0 DEF IInv, SuccessIsExact, RowsOf
<1>6. QED
  BY <1>1, <1>2, <1>3, <1>4, <1>5, ZenonT(120) DEF IInv

\* What a run found and read, and whether that is refused, depends on these of its fields.
SameFindings ==
    /\ run' \in RunType /\ run'.action = run.action /\ run'.address = run.address
    /\ run'.listed = run.listed /\ run'.todo = run.todo /\ run'.found = run.found
    /\ run'.owned = run.owned /\ run'.recorded = run.recorded

\* A jump changes none of them.
LEMMA JumpFindings ==
    ASSUME IInv, NEW p \in Pcs, run' = [run EXCEPT !.pc = p]
    PROVE  SameFindings /\ run'.pc = p
<1>1. run \in RunType
  BY Fields, Zenon DEF IInv
<1>2. QED
  BY <1>1, Jump, Zenon DEF SameFindings

\* What a step that only moves a run on leaves as it was.
LEMMA Onward ==
    ASSUME IInv, SameFindings, UNCHANGED <<fileVars, record, engine, registered, seen, budgets>>,
           marker' \in BOOLEAN, handing' \in BOOLEAN, legacy' \in {"none", "running", "ended"}
    PROVE  /\ Typed' /\ ProtectionKept' /\ Serialized' = Serialized /\ (Refused' <=> Refused)
           /\ \A e \in Entries : Identified(e) => Identified(e)'
<1>0. Typed /\ ProtectionKept
  BY Zenon DEF IInv
<1>1. Budgeted'
  BY <1>0, Fields, ZenonT(120) DEF Budgeted, budgets
<1>2. run'.todo \subseteq run'.listed
  BY <1>0, Fields, ZenonT(120) DEF SameFindings
<1>3. Typed'
  BY <1>1, <1>2, TypedStep, ZenonT(120) DEF SameFindings
<1>4. ProtectionKept'
  BY <1>0, ProtectionStays, ZenonT(120)
<1>5. Serialized' = Serialized
  BY ZenonT(120) DEF Serialized, SameFindings
<1>6. Refused' <=> Refused
  BY <1>5, Zenon DEF Refused
<1>7. ASSUME NEW e \in Entries, Identified(e) PROVE Identified(e)'
  BY <1>7, ZenonT(120) DEF Identified, ResolvedTo, RowsAt, RetainsAll, SameFindings
<1>8. QED
  BY <1>3, <1>4, <1>5, <1>6, <1>7, ZenonT(120)
-----------------------------------------------------------------------------
(* The world around the run.                                               *)

\* A change of the file system, the list or the address touches no store and no run.
LEMMA MoveStep == ASSUME IInv, Move PROVE IInv'
<1>0. Typed /\ HandoverCovered
  BY Zenon DEF IInv
<1>1. UNCHANGED <<record, marker, engine, legacy, registered, run, seen, handing, runs, kills, losses>>
  BY Zenon DEF Move, ghosts
<1>2. moves' \in 0..MaxMoves
  <2>1. moves \in 0..MaxMoves /\ moves < MaxMoves /\ moves' = moves + 1 /\ MaxMoves \in Nat
    BY <1>0, Fields, BoundsAssumption, ZenonT(120) DEF Move, Budgeted
  <2>2. QED
    BY <2>1
<1>3. Budgeted'
  BY <1>0, <1>1, <1>2, Fields, ZenonT(120) DEF Budgeted
<1>4. list' \subseteq Entries /\ address' \in Addresses /\ place' \in [Entries -> Place]
  <2>1. list \subseteq Entries /\ address \in Addresses /\ place \in [Entries -> Place]
    BY <1>0, Fields, Zenon
  <2>2. QED
    BY <2>1, ZenonT(120) DEF Move
<1>5. Typed'
  BY <1>0, <1>1, <1>3, <1>4, Fields, TypedAfter, ZenonT(120)
<1>6. HandoverCovered'
  BY <1>0, <1>1, ZenonT(120) DEF HandoverCovered
<1>7. QED
  BY <1>1, <1>5, <1>6, WorldKeeps, Zenon DEF ghosts

\* The record is lost only between runs, when nothing has been read of it.
LEMMA LoseRecordStep == ASSUME IInv, LoseRecord PROVE IInv'
<1>0. Typed /\ PhaseInv /\ HandoverInv /\ FreshInv /\ ProtectionKept /\ MarkerCovers /\ HandoverCovered
  BY Zenon DEF IInv
<1>1. /\ UNCHANGED <<list, address, place, marker, engine, legacy, registered, run, seen, handing,
                     moves, runs, kills>>
      /\ run.pc = "idle" /\ record' = NoRecord
  BY ZenonT(120) DEF LoseRecord, fileVars, ghosts
<1>2. losses' \in 0..MaxLosses
  <2>1. losses \in 0..MaxLosses /\ losses < MaxLosses /\ losses' = losses + 1 /\ MaxLosses \in Nat
    BY <1>0, Fields, BoundsAssumption, ZenonT(120) DEF LoseRecord, Budgeted
  <2>2. QED
    BY <2>1
<1>3. Budgeted'
  BY <1>0, <1>1, <1>2, Fields, ZenonT(120) DEF Budgeted
<1>4. Typed'
  BY <1>0, <1>1, <1>3, Fields, IdleFacts, TypedAfter, ZenonT(120)
<1>5. PhaseInv' /\ HandoverInv' /\ FreshInv'
  BY <1>0, <1>1, ZenonT(120) DEF PhaseInv, HandoverInv, FreshInv
<1>6. FoundInv' /\ ExactInv' /\ SuccessIsExact'
  BY <1>1, Zenon DEF FoundInv, ExactInv, SuccessIsExact
<1>7. ProtectionKept' /\ MarkerCovers' /\ HandoverCovered'
  BY <1>0, <1>1, ProtectionStays, ZenonT(120) DEF MarkerCovers, HandoverCovered
<1>8. QED
  BY <1>4, <1>5, <1>6, <1>7, ZenonT(120) DEF IInv

\* A change of who holds the callouts changes nothing else of the engine.
LEMMA CalloutsOnly ==
    ASSUME engine \in EngineType, NEW c \in {"none", "stale", "ours", "foreign"},
           engine' = [engine EXCEPT !.callouts = c]
    PROVE  /\ engine' \in EngineType /\ engine'.provider = engine.provider
           /\ engine'.context = engine.context /\ engine'.filters = engine.filters
  BY DEF EngineType

\* The end of a host's session frees the callouts; what is committed stays.
LEMMA SessionEndsStep == ASSUME IInv, SessionEnds PROVE IInv'
<1>0. Typed /\ HandoverCovered
  BY Zenon DEF IInv
<1>1. /\ UNCHANGED <<list, address, place, record, marker, registered, run, seen, handing, moves, runs,
                     kills, losses>>
      /\ legacy = "ended" /\ legacy' = "none" /\ engine' = [engine EXCEPT !.callouts = "none"]
  BY Zenon DEF SessionEnds, fileVars, ghosts, budgets
<1>2. /\ engine' \in EngineType /\ engine'.provider = engine.provider
      /\ engine'.context = engine.context /\ engine'.filters = engine.filters
  BY <1>0, <1>1, Fields, CalloutsOnly, ZenonT(120)
<1>3. Budgeted'
  BY <1>0, <1>1, Fields, ZenonT(120) DEF Budgeted
<1>4. Typed'
  BY <1>0, <1>1, <1>2, <1>3, Fields, TypedAfter, ZenonT(120)
<1>5. HandoverCovered'
  BY <1>0, <1>1, <1>2, ZenonT(120) DEF HandoverCovered
<1>6. QED
  BY <1>1, <1>2, <1>4, <1>5, WorldKeeps, ZenonT(120) DEF ghosts

\* The PIA client takes or frees the callouts; what is committed stays.
LEMMA ClientStep == ASSUME IInv, ClientComesOrGoes PROVE IInv'
<1>0. Typed /\ HandoverCovered
  BY Zenon DEF IInv
<1>1. /\ UNCHANGED <<list, address, place, record, marker, legacy, registered, run, seen, handing, runs,
                     kills, losses>>
      /\ \E c \in {"none", "foreign"} : engine' = [engine EXCEPT !.callouts = c]
  BY Zenon DEF ClientComesOrGoes, fileVars, ghosts
<1>2. /\ engine' \in EngineType /\ engine'.provider = engine.provider
      /\ engine'.context = engine.context /\ engine'.filters = engine.filters
  BY <1>0, <1>1, Fields, CalloutsOnly, ZenonT(120)
<1>3. moves' \in 0..MaxMoves
  <2>1. moves \in 0..MaxMoves /\ moves < MaxMoves /\ moves' = moves + 1 /\ MaxMoves \in Nat
    BY <1>0, Fields, BoundsAssumption, ZenonT(120) DEF ClientComesOrGoes, Budgeted
  <2>2. QED
    BY <2>1
<1>4. Budgeted'
  BY <1>0, <1>1, <1>3, Fields, ZenonT(120) DEF Budgeted
<1>5. Typed'
  BY <1>0, <1>1, <1>2, <1>4, Fields, TypedAfter, ZenonT(120)
<1>6. HandoverCovered'
  BY <1>0, <1>1, <1>2, ZenonT(120) DEF HandoverCovered
<1>7. QED
  BY <1>1, <1>2, <1>5, <1>6, WorldKeeps, ZenonT(120) DEF ghosts

\* The driver's registration changes only what Validate looks for.
LEMMA DriverLoadsStep == ASSUME IInv, DriverLoads PROVE IInv'
<1>0. Typed /\ HandoverCovered
  BY Zenon DEF IInv
<1>1. /\ UNCHANGED <<list, address, place, record, marker, engine, legacy, run, seen, handing, moves,
                     runs, kills, losses>>
      /\ registered' = TRUE
  BY Zenon DEF DriverLoads, fileVars, ghosts, budgets
<1>2. Budgeted'
  BY <1>0, <1>1, Fields, ZenonT(120) DEF Budgeted
<1>3. Typed'
  BY <1>0, <1>1, <1>2, Fields, TypedAfter, ZenonT(120)
<1>4. HandoverCovered'
  BY <1>0, <1>1, Zenon DEF HandoverCovered
<1>5. QED
  BY <1>1, <1>3, <1>4, WorldKeeps, ZenonT(120) DEF ghosts
-----------------------------------------------------------------------------
(* The script.                                                             *)

\* An action begins with nothing read and nothing found.
LEMMA BeginStep ==
    ASSUME IInv, NEW a \in {"Start", "Stop", "Validate"}, Begin(a)
    PROVE  IInv'
<1>0. Typed /\ ProtectionKept /\ MarkerCovers /\ HandoverCovered
  BY Zenon DEF IInv
<1> DEFINE first == CASE a = "Stop" -> "legacy" [] a = "Start" -> "mark" [] OTHER -> "load"
<1>1. /\ UNCHANGED <<list, address, place, record, marker, engine, legacy, registered, seen, handing,
                     moves, kills, losses>>
      /\ run' = [Idle EXCEPT !.pc = first, !.action = a, !.address = address]
      /\ runs < MaxRuns /\ runs' = runs + 1
  BY Zenon DEF Begin, fileVars, ghosts
<1>2. first \in {"legacy", "mark", "load"} /\ (a = "Start" => first = "mark")
  BY Zenon
<1> HIDE DEF first
<1>3. /\ run' \in RunType /\ run'.pc = first /\ run'.action = a /\ run'.address = address
      /\ run'.todo = {} /\ run'.listed = {}
  <2>1. address \in Addresses
    BY <1>0, Fields, ZenonT(120)
  <2>2. Idle \in RunType /\ Idle.todo = {} /\ Idle.listed = {}
    BY IdleFacts, ZenonT(120)
  <2>3. first \in Pcs
    BY <1>2, ZenonT(120) DEF Pcs
  <2>4. QED
    BY <1>1, <2>1, <2>2, <2>3, ZenonT(120) DEF RunType
<1>4. runs' \in 0..MaxRuns
  <2>1. runs \in 0..MaxRuns /\ MaxRuns \in Nat
    BY <1>0, Fields, BoundsAssumption, ZenonT(120) DEF Budgeted
  <2>2. QED
    BY <1>1, <2>1
<1>5. Budgeted'
  BY <1>0, <1>1, <1>4, Fields, ZenonT(120) DEF Budgeted
<1>6. Typed'
  BY <1>0, <1>1, <1>3, <1>5, Fields, TypedAfter, ZenonT(120)
<1>7. PhaseInv'
  <2>1. address \in Addresses
    BY <1>0, Fields, Zenon
  <2>2. QED
    BY <1>2, <1>3, <2>1, ZenonT(120) DEF PhaseInv
<1>8. HandoverInv' /\ FreshInv' /\ FoundInv' /\ ExactInv' /\ SuccessIsExact'
  BY <1>2, <1>3, ZenonT(120) DEF HandoverInv, FreshInv, FoundInv, ExactInv, SuccessIsExact
<1>9. ProtectionKept' /\ MarkerCovers' /\ HandoverCovered'
  BY <1>0, <1>1, ProtectionStays, ZenonT(120) DEF MarkerCovers, HandoverCovered
<1>10. QED
  BY <1>6, <1>7, <1>8, <1>9, ZenonT(120) DEF IInv

\* Stop ends the handover before it removes anything.
LEMMA StopHostsStep == ASSUME IInv, StopHosts PROVE IInv'
<1>0. Typed /\ PhaseInv /\ FreshInv /\ MarkerCovers
  BY Zenon DEF IInv
<1>1. /\ UNCHANGED <<fileVars, record, marker, engine, registered, seen, budgets>>
      /\ run.pc = "legacy" /\ run' = [run EXCEPT !.pc = "remove"] /\ handing' = FALSE
      /\ legacy' = IF legacy = "running" THEN "ended" ELSE legacy
  BY Zenon DEF StopHosts, StopLegacy
<1>2. SameFindings /\ run'.pc = "remove"
  BY <1>1, JumpFindings, ZenonT(120) DEF Pcs
<1>3. marker' \in BOOLEAN /\ handing' \in BOOLEAN /\ legacy' \in {"none", "running", "ended"}
  BY <1>0, <1>1, Fields, ZenonT(120)
<1>4. Typed' /\ ProtectionKept'
  BY <1>1, <1>2, <1>3, Onward, ZenonT(120)
<1>5. PhaseInv' /\ HandoverInv' /\ FreshInv' /\ MarkerCovers' /\ HandoverCovered'
  BY <1>0, <1>1, <1>2, ZenonT(120)
     DEF PhaseInv, HandoverInv, FreshInv, MarkerCovers, HandoverCovered, SameFindings
<1>6. FoundInv' /\ ExactInv' /\ SuccessIsExact'
  BY <1>2, ZenonT(120) DEF FoundInv, ExactInv, SuccessIsExact
<1>7. QED
  BY <1>4, <1>5, <1>6, ZenonT(120) DEF IInv

\* The marker is set before anything is installed.
LEMMA MarkStep == ASSUME IInv, Mark PROVE IInv'
<1>0. Typed /\ PhaseInv /\ FreshInv /\ HandoverCovered
  BY Zenon DEF IInv
<1>1. /\ UNCHANGED <<fileVars, record, engine, legacy, registered, seen, handing, budgets>>
      /\ run.pc = "mark" /\ run' = [run EXCEPT !.pc = "load"] /\ marker' = TRUE
  BY Zenon DEF Mark, Goto, ghosts
<1>2. SameFindings /\ run'.pc = "load"
  BY <1>1, JumpFindings, ZenonT(120) DEF Pcs
<1>3. marker' \in BOOLEAN /\ handing' \in BOOLEAN /\ legacy' \in {"none", "running", "ended"}
  BY <1>0, <1>1, Fields, ZenonT(120)
<1>4. Typed' /\ ProtectionKept'
  BY <1>1, <1>2, <1>3, Onward, ZenonT(120)
<1>5. PhaseInv' /\ HandoverInv' /\ FreshInv' /\ MarkerCovers' /\ HandoverCovered'
  BY <1>0, <1>1, <1>2, ZenonT(120)
     DEF PhaseInv, HandoverInv, FreshInv, MarkerCovers, HandoverCovered, SameFindings
<1>6. FoundInv' /\ ExactInv' /\ SuccessIsExact'
  BY <1>2, Zenon DEF FoundInv, ExactInv, SuccessIsExact
<1>7. QED
  BY <1>4, <1>5, <1>6, Zenon DEF IInv

\* The host is stopped over committed blocks, and the install is tried again or given up.
LEMMA CalloutInUseStep == ASSUME IInv, CalloutInUse PROVE IInv'
<1>0. Typed /\ PhaseInv /\ HandoverInv /\ FreshInv /\ MarkerCovers /\ HandoverCovered
  BY Zenon DEF IInv
<1>1. /\ UNCHANGED <<fileVars, record, marker, engine, registered, seen, handing, budgets>>
      /\ run.pc = "inUse" /\ legacy' \in {legacy, "ended"}
      /\ \/ run' = [run EXCEPT !.pc = "load", !.retried = TRUE]
         \/ run' = [run EXCEPT !.pc = "load"]
         \/ run' = Idle
  BY Zenon DEF CalloutInUse, StopLegacy, Goto, Finish, ghosts
<1>2. marker' \in BOOLEAN /\ handing' \in BOOLEAN /\ legacy' \in {"none", "running", "ended"}
  BY <1>0, <1>1, Fields, ZenonT(120)
<1>3. HandoverCovered'
  BY <1>0, <1>1, ZenonT(120) DEF HandoverInv, HandoverCovered
<1>4. CASE run' = Idle
  <2>1. Budgeted'
    BY <1>0, <1>1, Fields, ZenonT(120) DEF Budgeted, budgets
  <2>2. QED
    BY <1>1, <1>2, <1>3, <1>4, <2>1, EndKeeps, ZenonT(120) DEF ghosts
<1>5. CASE \/ run' = [run EXCEPT !.pc = "load", !.retried = TRUE]
           \/ run' = [run EXCEPT !.pc = "load"]
  <2>1. run \in RunType
    BY <1>0, Fields, ZenonT(120)
  <2>2. SameFindings /\ run'.pc = "load"
    BY <1>5, <2>1, ZenonT(120) DEF RunType, SameFindings, Pcs
  <2>3. Typed' /\ ProtectionKept'
    BY <1>1, <1>2, <2>2, Onward, Zenon
  <2>4. PhaseInv' /\ HandoverInv' /\ FreshInv' /\ MarkerCovers'
    BY <1>0, <1>1, <2>2, Zenon DEF PhaseInv, HandoverInv, FreshInv, MarkerCovers, SameFindings
  <2>5. FoundInv' /\ ExactInv' /\ SuccessIsExact'
    BY <2>2, Zenon DEF FoundInv, ExactInv, SuccessIsExact
  <2>6. QED
    BY <1>3, <2>3, <2>4, <2>5, ZenonT(120) DEF IInv
<1>6. QED
  BY <1>1, <1>4, <1>5, ZenonT(120)

\* A complete install ends over committed filters.
LEMMA InstalledStep == ASSUME IInv, Installed PROVE IInv'
<1>0. Typed /\ HandoverInv /\ HandoverCovered
  BY Zenon DEF IInv
<1>1. /\ UNCHANGED <<fileVars, record, marker, engine, registered, ghosts, budgets>>
      /\ run.pc = "ready" /\ run' = Idle /\ legacy' \in {legacy, "ended"}
  BY Zenon DEF Installed, StopLegacy
<1>2. legacy' \in {"none", "running", "ended"}
  BY <1>0, <1>1, Fields, Zenon
<1>3. HandoverCovered'
  BY <1>0, <1>1, Zenon DEF HandoverInv, HandoverCovered, ghosts
<1>4. Budgeted'
  BY <1>0, <1>1, Fields, Zenon DEF Budgeted, budgets
<1>5. QED
  BY <1>1, <1>2, <1>3, <1>4, EndKeeps, Zenon

\* The ways a run ends that leave the host alone.
LEMMA EndsStep ==
    ASSUME IInv, Finish, UNCHANGED <<fileVars, record, marker, engine, legacy, registered,
                                             ghosts, budgets>>
    PROVE  IInv'
<1>0. Typed /\ HandoverCovered
  BY Zenon DEF IInv
<1>1. legacy' \in {"none", "running", "ended"}
  BY <1>0, Fields, ZenonT(120)
<1>2. HandoverCovered'
  BY <1>0, Zenon DEF HandoverCovered, ghosts
<1>3. Budgeted'
  BY <1>0, Fields, Zenon DEF Budgeted, budgets
<1>4. QED
  BY <1>1, <1>2, <1>3, EndKeeps, Zenon DEF Finish

\* A kill at any step leaves what was committed.
LEMMA KilledStep == ASSUME IInv, Killed PROVE IInv'
<1>0. Typed /\ HandoverCovered
  BY Zenon DEF IInv
<1>1. /\ UNCHANGED <<fileVars, record, marker, engine, legacy, registered, ghosts, moves, runs, losses>>
      /\ run' = Idle /\ kills < MaxKills /\ kills' = kills + 1
  BY Zenon DEF Killed, Finish
<1>2. legacy' \in {"none", "running", "ended"}
  BY <1>0, <1>1, Fields, ZenonT(120)
<1>3. HandoverCovered'
  BY <1>0, <1>1, ZenonT(120) DEF HandoverCovered, ghosts
<1>4. kills' \in 0..MaxKills
  <2>1. kills \in 0..MaxKills /\ MaxKills \in Nat
    BY <1>0, Fields, BoundsAssumption, ZenonT(120) DEF Budgeted
  <2>2. QED
    BY <1>1, <2>1
<1>5. Budgeted'
  BY <1>0, <1>1, <1>4, Fields, ZenonT(120) DEF Budgeted
<1>6. QED
  BY <1>1, <1>2, <1>3, <1>5, EndKeeps, ZenonT(120)

\* The marker goes only when no owned object is left.
LEMMA UnmarkStep == ASSUME IInv, Unmark PROVE IInv'
<1>0. Typed /\ PhaseInv /\ ProtectionKept /\ HandoverCovered
  BY Zenon DEF IInv
<1>1. /\ UNCHANGED <<fileVars, record, engine, legacy, registered, seen, handing, budgets>>
      /\ run.pc = "unmark" /\ run' = Idle /\ marker' = FALSE
  BY Zenon DEF Unmark, Finish, ghosts
<1>2. run' \in RunType /\ run'.pc = "idle" /\ run'.todo = {} /\ run'.listed = {}
  BY <1>1, IdleFacts, Zenon
<1>3. Budgeted'
  BY <1>0, <1>1, Fields, ZenonT(120) DEF Budgeted, budgets
<1>4. marker' \in BOOLEAN /\ handing' \in BOOLEAN /\ legacy' \in {"none", "running", "ended"}
  BY <1>0, <1>1, Fields, ZenonT(120)
<1>5. Typed'
  BY <1>1, <1>2, <1>3, <1>4, TypedStep, ZenonT(120)
<1>6. MarkerCovers'
  <2>1. engine.provider = "none" /\ engine' = engine
    BY <1>0, <1>1, ZenonT(120) DEF PhaseInv
  <2>2. QED
    BY <2>1, Zenon DEF MarkerCovers
<1>7. PhaseInv' /\ HandoverInv' /\ FreshInv' /\ FoundInv' /\ ExactInv' /\ SuccessIsExact'
  BY <1>2, Zenon DEF PhaseInv, HandoverInv, FreshInv, FoundInv, ExactInv, SuccessIsExact
<1>8. ProtectionKept' /\ HandoverCovered'
  BY <1>0, <1>1, ProtectionStays, ZenonT(120) DEF HandoverCovered
<1>9. QED
  BY <1>5, <1>6, <1>7, <1>8, ZenonT(120) DEF IInv
-----------------------------------------------------------------------------
(* wfp-probe.exe.                                                          *)

\* The list read is the one to identify, or the run ends.
LEMMA LoadListStep == ASSUME IInv, LoadList PROVE IInv'
<1>0. Typed /\ PhaseInv /\ FreshInv /\ ProtectionKept /\ MarkerCovers /\ HandoverCovered
  BY Zenon DEF IInv
<1>1. /\ UNCHANGED <<fileVars, record, marker, engine, legacy, registered, ghosts, budgets>>
      /\ run.pc = "load" /\ (run' = [run EXCEPT !.pc = "read", !.listed = list] \/ Finish)
  BY Zenon DEF LoadList
<1>2. CASE Finish
  BY <1>1, <1>2, EndsStep, ZenonT(120)
<1>3. CASE run' = [run EXCEPT !.pc = "read", !.listed = list]
  <2>1. run \in RunType /\ list \subseteq Entries /\ run.todo = {}
    BY <1>0, <1>1, Fields, ZenonT(120) DEF FreshInv
  <2>2. /\ run' \in RunType /\ run'.pc = "read" /\ run'.action = run.action /\ run'.address = run.address
        /\ run'.todo = {}
    BY <1>3, <2>1, Zenon DEF RunType, Pcs
  <2>3. Budgeted' /\ UNCHANGED <<marker, engine, legacy, seen, handing>>
    BY <1>0, <1>1, Fields, ZenonT(120) DEF Budgeted, budgets, ghosts
  <2>4. marker' \in BOOLEAN /\ handing' \in BOOLEAN /\ legacy' \in {"none", "running", "ended"}
    BY <1>0, <2>3, Fields, ZenonT(120)
  <2>5. Typed'
    BY <1>1, <2>2, <2>3, <2>4, TypedStep, ZenonT(120)
  <2>6. PhaseInv' /\ HandoverInv' /\ FreshInv'
    BY <1>0, <1>1, <2>2, <2>3, SMTT(120) DEF PhaseInv, HandoverInv, FreshInv
  <2>7. FoundInv' /\ ExactInv' /\ SuccessIsExact'
    BY <2>2, Zenon DEF FoundInv, ExactInv, SuccessIsExact
  <2>8. ProtectionKept' /\ MarkerCovers' /\ HandoverCovered'
    BY <1>0, <2>3, ProtectionStays, ZenonT(120) DEF MarkerCovers, HandoverCovered
  <2>9. QED
    BY <2>5, <2>6, <2>7, <2>8, Zenon DEF IInv
<1>4. QED
  BY <1>1, <1>2, <1>3, ZenonT(120)

\* The stores are read when nothing is identified yet.
LEMMA ReadStoresStep == ASSUME IInv, ReadStores PROVE IInv'
<1>0. Typed /\ PhaseInv /\ ProtectionKept /\ MarkerCovers /\ HandoverCovered
  BY Zenon DEF IInv
<1>1. /\ UNCHANGED <<fileVars, record, marker, engine, legacy, registered, ghosts, budgets>>
      /\ run.pc = "read"
      /\ run' = [run EXCEPT !.pc = "identify", !.recorded = record, !.owned = RowsOf(engine.filters),
                            !.todo = run.listed, !.found = Idle.found]
  BY Zenon DEF ReadStores
<1>2. /\ run \in RunType /\ record \in Record /\ RowsOf(engine.filters) \subseteq Row
      /\ Idle.found \in [Entries -> Found]
  BY <1>0, Fields, RowsOfType, IdleFacts, ZenonT(120)
<1>3. /\ run' \in RunType /\ run'.pc = "identify" /\ run'.action = run.action
      /\ run'.address = run.address /\ run'.listed = run.listed /\ run'.todo = run.listed
      /\ run'.owned = RowsOf(engine.filters) /\ run'.recorded = record
  BY <1>1, <1>2, ZenonT(120) DEF RunType, Pcs
<1>4. Budgeted' /\ UNCHANGED <<record, marker, engine, legacy, seen, handing>>
  BY <1>0, <1>1, Fields, ZenonT(120) DEF Budgeted, budgets, ghosts
<1>5. marker' \in BOOLEAN /\ handing' \in BOOLEAN /\ legacy' \in {"none", "running", "ended"}
  BY <1>0, <1>4, Fields, ZenonT(120)
<1>6. Typed'
  BY <1>1, <1>3, <1>4, <1>5, TypedStep, ZenonT(120)
<1>7. PhaseInv' /\ HandoverInv'
  BY <1>0, <1>1, <1>3, <1>4, SMTT(120) DEF PhaseInv, HandoverInv
<1>8. FreshInv'
  BY <1>3, <1>4, ZenonT(120) DEF FreshInv, RowsOf
<1>9. FoundInv' /\ ExactInv' /\ SuccessIsExact'
  BY <1>3, Zenon DEF FoundInv, ExactInv, SuccessIsExact
<1>10. ProtectionKept' /\ MarkerCovers' /\ HandoverCovered'
  BY <1>0, <1>4, ProtectionStays, ZenonT(120) DEF MarkerCovers, HandoverCovered
<1>11. QED
  BY <1>6, <1>7, <1>8, <1>9, <1>10, ZenonT(120) DEF IInv

\* An identified entry names the path it resolves to, or keeps all its identifiers.
LEMMA IdentifyStep ==
    ASSUME IInv, NEW e \in Entries, Identify(e)
    PROVE  IInv'
<1>0. Typed /\ PhaseInv /\ FreshInv /\ FoundInv /\ ProtectionKept /\ MarkerCovers /\ HandoverCovered
  BY Zenon DEF IInv
<1> DEFINE next == IF run.todo = {e} THEN "refuse" ELSE "identify"
           it == IdentifyEntry(e)
<1>1. /\ UNCHANGED <<fileVars, record, marker, engine, legacy, registered, ghosts, budgets>>
      /\ run.pc = "identify" /\ e \in run.todo
      /\ run' = [run EXCEPT !.todo = @ \ {e}, !.found[e] = it, !.pc = next]
  BY Zenon DEF Identify
<1>2. /\ run \in RunType /\ run.todo \subseteq run.listed /\ run.found \in [Entries -> Found]
      /\ run.listed \subseteq Entries
  BY <1>0, Fields, ZenonT(120)
<1>3. /\ it \in Found
      /\ \/ /\ it.source \in {"resolved", "absent"}
            /\ \E p \in Paths : it.rows = {[entry |-> e, path |-> p, id |-> i] : i \in Ids(p)}
         \/ /\ it.source \in {"retained", "none"}
            /\ \A r \in run.owned \cup run.recorded.rows :
                   r.entry = e => \E s \in it.rows : s.entry = e /\ s.id = r.id
  <2>1. CASE place[e].state = "unresolved"
    <3>1. it = Retained(e)
      BY <2>1, Zenon DEF IdentifyEntry
    <3>2. QED
      BY <1>0, <3>1, RetainedFacts, ZenonT(120)
  <2>2. CASE place[e].state # "unresolved"
    <3>1. it = Resolved(e)
      BY <2>2, Zenon DEF IdentifyEntry
    <3>2. QED
      BY <1>0, <3>1, ResolvedFacts, Zenon
  <2>3. QED
    BY <2>1, <2>2, ZenonT(120)
<1>4. next \in {"refuse", "identify"} /\ (next = "refuse" => run.todo = {e})
  BY Zenon
<1> HIDE DEF next, it
<1>5. /\ run' \in RunType /\ run'.pc = next /\ run'.todo = run.todo \ {e}
      /\ run'.found = [run.found EXCEPT ![e] = it]
      /\ run'.action = run.action /\ run'.address = run.address /\ run'.listed = run.listed
      /\ run'.owned = run.owned /\ run'.recorded = run.recorded
  <2>1. next \in Pcs
    BY <1>4, Zenon DEF Pcs
  <2>2. [run.found EXCEPT ![e] = it] \in [Entries -> Found]
    BY <1>2, <1>3, Zenon
  <2>3. run' = [run EXCEPT !.todo = run.todo \ {e}, !.found = [run.found EXCEPT ![e] = it], !.pc = next]
    BY <1>1, <1>2 DEF RunType
  <2> HIDE DEF Found
  <2>4. QED
    BY <1>2, <2>1, <2>2, <2>3, Zenon DEF RunType
<1>6. run'.found[e] = it /\ \A o \in Entries \ {e} : run'.found[o] = run.found[o]
  BY <1>2, <1>5, Zenon
<1>7. Budgeted' /\ UNCHANGED <<record, marker, engine, legacy, seen, handing>>
  BY <1>0, <1>1, Fields, Zenon DEF Budgeted, budgets, ghosts
<1>8. marker' \in BOOLEAN /\ handing' \in BOOLEAN /\ legacy' \in {"none", "running", "ended"}
  BY <1>0, <1>7, Fields, Zenon
<1>9. Typed'
  <2>1. run'.todo \subseteq run'.listed
    BY <1>2, <1>5, ZenonT(120)
  <2>2. QED
    BY <1>1, <1>5, <1>7, <1>8, <2>1, TypedStep, ZenonT(120)
<1>10. PhaseInv' /\ HandoverInv'
  BY <1>0, <1>1, <1>4, <1>5, <1>7, SMTT(120) DEF PhaseInv, HandoverInv
<1>11. FreshInv'
  BY <1>0, <1>1, <1>4, <1>5, <1>7, ZenonT(120) DEF FreshInv, RowsOf
<1>12. FoundInv'
  <2>1. SUFFICES ASSUME NEW o \in run.listed \ (run.todo \ {e}) PROVE Identified(o)'
    BY <1>5, ZenonT(120) DEF FoundInv
  <2>2. CASE o = e
    BY <1>3, <1>5, <1>6, <2>2, SMTT(120) DEF Identified, ResolvedTo, RowsAt, RetainsAll
  <2>3. CASE o # e
    <3>1. Identified(o) /\ o \in Entries
      BY <1>0, <1>1, <1>2, <2>3, ZenonT(120) DEF FoundInv
    <3>2. run'.found[o] = run.found[o]
      BY <1>6, <2>3, <3>1, ZenonT(120)
    <3>3. QED
      BY <1>5, <3>1, <3>2, ZenonT(120) DEF Identified, ResolvedTo, RowsAt, RetainsAll
  <2>4. QED
    BY <2>2, <2>3, ZenonT(120)
<1>13. ExactInv' /\ SuccessIsExact'
  BY <1>4, <1>5, ZenonT(120) DEF ExactInv, SuccessIsExact
<1>14. ProtectionKept' /\ MarkerCovers' /\ HandoverCovered'
  BY <1>0, <1>7, ProtectionStays, ZenonT(120) DEF MarkerCovers, HandoverCovered
<1>15. QED
  BY <1>9, <1>10, <1>11, <1>12, <1>13, <1>14, ZenonT(120) DEF IInv
\* A jump that leaves everything else alone, from past the marking to a place whose promises hold.
LEMMA JumpKeeps ==
    ASSUME IInv, NEW p \in Pcs, run' = [run EXCEPT !.pc = p],
           UNCHANGED <<fileVars, record, marker, engine, legacy, registered, ghosts, budgets>>,
           run.pc \notin {"idle", "mark", "identify"}, p \notin {"idle", "mark", "identify", "refuse"},
           p \in {"install", "record", "inUse", "ready"} => run.action = "Start",
           p = "unmark" => engine.provider = "none",
           p \in {"remove", "remaining", "unmark"} => ~handing,
           p \in {"inUse", "ready"} => engine.context # NoAddress,
           p = "install" => run.pc = "refuse",
           p = "compare" => run.recorded = record,
           p \in {"install", "record", "compare", "match"} => ~Refused,
           p = "match" => record = [ok |-> TRUE, rows |-> Serialized],
           p \in {"ready", "passed"} =>
               /\ record.ok /\ record.rows = RowsOf(engine.filters)
               /\ \A f \in engine.filters : f.path # NoPath /\ f.address = run.address
               /\ \A r \in record.rows, k \in Kinds : \E f \in engine.filters :
                      f.kind = k /\ f.id = r.id /\ f.entry = r.entry
    PROVE  IInv'
<1>0. Typed /\ PhaseInv /\ HandoverInv /\ FreshInv /\ FoundInv /\ MarkerCovers /\ HandoverCovered
  BY Zenon DEF IInv
<1>1. SameFindings /\ run'.pc = p
  BY JumpFindings, Zenon
<1>2. UNCHANGED <<record, marker, engine, legacy, seen, handing>>
  BY Zenon DEF ghosts
<1>3. marker' \in BOOLEAN /\ handing' \in BOOLEAN /\ legacy' \in {"none", "running", "ended"}
  BY <1>0, <1>2, Fields, ZenonT(120)
<1>4. /\ Typed' /\ ProtectionKept' /\ Serialized' = Serialized /\ (Refused' <=> Refused)
      /\ \A e \in Entries : Identified(e) => Identified(e)'
  BY <1>1, <1>2, <1>3, Onward, ZenonT(120)
<1>5. PhaseInv'
  BY <1>0, <1>1, <1>2, SMTT(120) DEF PhaseInv, SameFindings
<1>6. HandoverInv' /\ MarkerCovers' /\ HandoverCovered'
  BY <1>0, <1>1, <1>2, SMTT(120) DEF HandoverInv, MarkerCovers, HandoverCovered
<1>7. FreshInv'
  BY <1>0, <1>1, <1>2, ZenonT(120) DEF FreshInv, SameFindings, RowsOf
<1>8. FoundInv'
  <2>1. run.listed \subseteq Entries
    BY <1>0, Fields, ZenonT(120)
  <2>2. QED
    BY <1>0, <1>1, <1>4, <2>1, ZenonT(120) DEF FoundInv, SameFindings
<1>9. ExactInv'
  BY <1>1, <1>2, <1>4, ZenonT(120) DEF ExactInv
<1>10. SuccessIsExact'
  BY <1>1, <1>2, SMTT(120) DEF SuccessIsExact, SameFindings, RowsOf
<1>11. QED
  BY <1>4, <1>5, <1>6, <1>7, <1>8, <1>9, <1>10, ZenonT(120) DEF IInv

\* Only rows that have a path go on to a commit or a comparison.
LEMMA RefuseStep == ASSUME IInv, Refuse PROVE IInv'
<1>0. FreshInv
  BY Zenon DEF IInv
<1>1. /\ UNCHANGED <<fileVars, record, marker, engine, legacy, registered, ghosts, budgets>>
      /\ run.pc = "refuse"
      /\ \/ Finish
         \/ ~Refused /\ run.action = "Start" /\ run' = [run EXCEPT !.pc = "install"]
         \/ ~Refused /\ run' = [run EXCEPT !.pc = "compare"]
  BY Zenon DEF Refuse, Goto
<1>2. CASE Finish
  BY <1>1, <1>2, EndsStep, ZenonT(120)
<1>3. CASE ~Refused /\ run.action = "Start" /\ run' = [run EXCEPT !.pc = "install"]
  <2>1. "install" \in Pcs
    BY Zenon DEF Pcs
  <2>2. QED
    BY <1>1, <1>3, <2>1, JumpKeeps, ZenonT(120)
<1>4. CASE ~Refused /\ run' = [run EXCEPT !.pc = "compare"]
  <2>1. "compare" \in Pcs /\ run.recorded = record
    BY <1>0, <1>1, ZenonT(120) DEF Pcs, FreshInv
  <2>2. QED
    BY <1>1, <1>4, <2>1, JumpKeeps, ZenonT(120)
<1>5. QED
  BY <1>1, <1>2, <1>3, <1>4, ZenonT(120)

\* A verification goes on only over the record it would write.
LEMMA CompareStep == ASSUME IInv, Compare PROVE IInv'
<1>0. FreshInv /\ ExactInv
  BY Zenon DEF IInv
<1>1. /\ UNCHANGED <<fileVars, record, marker, engine, legacy, registered, ghosts, budgets>>
      /\ run.pc = "compare"
      /\ Finish \/ (SameRecord /\ run' = [run EXCEPT !.pc = "match"])
  BY Zenon DEF Compare, Goto
<1>2. CASE Finish
  BY <1>1, <1>2, EndsStep, ZenonT(120)
<1>3. CASE SameRecord /\ run' = [run EXCEPT !.pc = "match"]
  <2>1. "match" \in Pcs /\ ~Refused /\ record = [ok |-> TRUE, rows |-> Serialized]
    BY <1>0, <1>1, <1>3, ZenonT(120) DEF Pcs, FreshInv, ExactInv, SameRecord
  <2>2. QED
    BY <1>1, <1>3, <2>1, JumpKeeps, ZenonT(120)
<1>4. QED
  BY <1>1, <1>2, <1>3, ZenonT(120)

\* Success is said only over the filters that install makes of the record's rows.
LEMMA MatchStep == ASSUME IInv, Match PROVE IInv'
<1>0. Typed /\ PhaseInv /\ ExactInv
  BY Zenon DEF IInv
<1>1. /\ UNCHANGED <<fileVars, record, marker, engine, legacy, registered, ghosts, budgets>>
      /\ run.pc = "match"
      /\ \/ Finish
         \/ Matches(Serialized, run.address) /\ run.action = "Start" /\ run' = [run EXCEPT !.pc = "ready"]
         \/ Matches(Serialized, run.address) /\ run' = [run EXCEPT !.pc = "passed"]
  BY Zenon DEF Match, Goto
<1>2. CASE Finish
  BY <1>1, <1>2, EndsStep, ZenonT(120)
<1>3. ASSUME Matches(Serialized, run.address)
      PROVE  /\ engine.context # NoAddress /\ record.ok /\ record.rows = RowsOf(engine.filters)
             /\ \A f \in engine.filters : f.path # NoPath /\ f.address = run.address
             /\ \A r \in record.rows, k \in Kinds : \E f \in engine.filters :
                    f.kind = k /\ f.id = r.id /\ f.entry = r.entry
  <2>1. record.ok /\ record.rows = Serialized
    BY <1>0, <1>1 DEF ExactInv
  <2>2. Serialized \in SUBSET Row /\ \A r \in Serialized : r.path # NoPath
    BY <1>0, <1>1, SerializedRows, ZenonT(120) DEF ExactInv, Refused
  <2>3. engine.context = run.address /\ engine.filters = FilterSet(Serialized, run.address, TRUE)
    BY <1>3, Zenon DEF Matches
  <2>4. run.address # NoAddress
    BY <1>0, <1>1, AddressAssumption, ZenonT(120) DEF PhaseInv
  <2>5. /\ \A r \in Serialized, k \in Kinds : \E f \in engine.filters :
               f.kind = k /\ f.id = r.id /\ f.entry = r.entry
        /\ \A f \in engine.filters : f.address = run.address /\ \E r \in Serialized : f.path = r.path
        /\ RowsOf(engine.filters) = Serialized
    <3> DEFINE F == FilterSet(Serialized, run.address, TRUE)
    <3>1. /\ \A r \in Serialized, k \in Kinds : \E f \in F : f.kind = k /\ f.id = r.id /\ f.entry = r.entry
          /\ \A f \in F : f.address = run.address /\ \E r \in Serialized : f.path = r.path
          /\ RowsOf(F) = Serialized
      BY <2>2, FilterSetExact, ZenonT(120)
    <3>2. engine.filters = F
      BY <2>3, ZenonT(120)
    <3> HIDE DEF F
    <3>3. QED
      BY <3>1, <3>2
  <2>6. QED
    BY <2>1, <2>2, <2>3, <2>4, <2>5, ZenonT(120)
<1>4. CASE Matches(Serialized, run.address) /\ run.action = "Start" /\ run' = [run EXCEPT !.pc = "ready"]
  <2>1. "ready" \in Pcs
    BY Zenon DEF Pcs
  <2>2. QED
    BY <1>1, <1>3, <1>4, <2>1, JumpKeeps, ZenonT(120)
<1>5. CASE Matches(Serialized, run.address) /\ run' = [run EXCEPT !.pc = "passed"]
  <2>1. "passed" \in Pcs
    BY Zenon DEF Pcs
  <2>2. QED
    BY <1>1, <1>3, <1>5, <2>1, JumpKeeps, ZenonT(120)
<1>6. QED
  BY <1>1, <1>2, <1>4, <1>5, ZenonT(120)

\* The record written is what the committed filters were made of.
LEMMA WriteRecordStep == ASSUME IInv, WriteRecord PROVE IInv'
<1>0. Typed /\ PhaseInv /\ FreshInv /\ ExactInv /\ ProtectionKept /\ MarkerCovers /\ HandoverCovered
  BY Zenon DEF IInv
<1>1. /\ UNCHANGED <<fileVars, marker, engine, legacy, registered, ghosts, budgets>>
      /\ run.pc = "record"
      /\ \/ Finish /\ UNCHANGED record
         \/ record' = [ok |-> TRUE, rows |-> Serialized] /\ run' = [run EXCEPT !.pc = "match"]
  BY Zenon DEF WriteRecord, Goto
<1>2. CASE Finish /\ UNCHANGED record
  BY <1>1, <1>2, EndsStep, ZenonT(120)
<1>3. CASE record' = [ok |-> TRUE, rows |-> Serialized] /\ run' = [run EXCEPT !.pc = "match"]
  <2>1. SameFindings /\ run'.pc = "match"
    BY <1>3, JumpFindings, ZenonT(120) DEF Pcs
  <2>2. UNCHANGED <<list, address, place, marker, engine, legacy, registered, seen, handing>>
    BY <1>1, Zenon DEF fileVars, ghosts
  <2>3. Budgeted'
    BY <1>0, <1>1, Fields, ZenonT(120) DEF Budgeted, budgets
  <2>4. record' \in Record
    BY <1>0, <1>3, SerializedRows, SMTT(120) DEF Record
  <2>5. Typed'
    BY <1>0, <2>1, <2>2, <2>3, <2>4, Fields, TypedAfter, ZenonT(120) DEF SameFindings
  <2>6. Serialized' = Serialized
    BY <2>1, ZenonT(120) DEF Serialized, SameFindings
  <2>7. ExactInv'
    BY <1>0, <1>1, <1>3, <2>1, <2>6, ZenonT(120) DEF ExactInv, Refused
  <2>8. PhaseInv' /\ HandoverInv' /\ FreshInv'
    BY <1>0, <1>1, <2>1, <2>2, SMTT(120) DEF PhaseInv, HandoverInv, FreshInv, SameFindings
  <2>9. FoundInv' /\ SuccessIsExact'
    BY <2>1, ZenonT(120) DEF FoundInv, SuccessIsExact
  <2>10. ProtectionKept' /\ MarkerCovers' /\ HandoverCovered'
    BY <1>0, <2>2, ProtectionStays, ZenonT(120) DEF MarkerCovers, HandoverCovered
  <2>11. QED
    BY <2>5, <2>7, <2>8, <2>9, <2>10, ZenonT(120) DEF IInv
<1>4. QED
  BY <1>1, <1>2, <1>3, ZenonT(120)

\* A removal takes the filters and the promise of protection together.
LEMMA RemoveAllStep == ASSUME IInv, RemoveAll PROVE IInv'
<1>0. Typed /\ PhaseInv /\ HandoverInv /\ FreshInv
  BY Zenon DEF IInv
<1> DEFINE left == IF engine.callouts = "foreign" THEN "foreign" ELSE "none"
<1>1. /\ UNCHANGED <<list, address, place, record, marker, legacy, registered, handing, budgets>>
      /\ run.pc = "remove" /\ run' = [run EXCEPT !.pc = "remaining"]
      /\ engine' = [NoObjects EXCEPT !.callouts = left] /\ seen' = [e \in Entries |-> NoPath]
  BY Zenon DEF RemoveAll, Goto, fileVars
<1>2. left \in {"foreign", "none"}
  BY Zenon
<1> HIDE DEF left
<1>3. engine' \in EngineType /\ engine'.provider = "none"
  BY <1>1, <1>2 DEF NoObjects, EngineType
<1>4. SameFindings /\ run'.pc = "remaining"
  BY <1>1, JumpFindings, ZenonT(120) DEF Pcs
<1>5. Budgeted'
  BY <1>0, <1>1, Fields, ZenonT(120) DEF Budgeted, budgets
<1>6. seen' \in [Entries -> Paths \cup {NoPath}]
  BY <1>1, Zenon
<1>7. Typed'
  BY <1>0, <1>1, <1>3, <1>4, <1>5, <1>6, Fields, TypedAfter, ZenonT(120) DEF SameFindings
<1>8. "persistent" # "none"
  OBVIOUS
<1>9. PhaseInv' /\ HandoverInv' /\ MarkerCovers' /\ HandoverCovered'
  BY <1>0, <1>1, <1>3, <1>4, <1>8, ZenonT(120)
     DEF PhaseInv, HandoverInv, MarkerCovers, HandoverCovered, SameFindings
<1>10. FreshInv' /\ FoundInv' /\ ExactInv' /\ SuccessIsExact'
  BY <1>0, <1>1, <1>4, ZenonT(120) DEF FreshInv, FoundInv, ExactInv, SuccessIsExact, SameFindings
<1>11. ProtectionKept'
  BY <1>1, ZenonT(120) DEF ProtectionKept
<1>12. QED
  BY <1>7, <1>9, <1>10, <1>11, ZenonT(120) DEF IInv

\* The marker's removal is reached only over an empty engine.
LEMMA RemainingStep == ASSUME IInv, Remaining PROVE IInv'
<1>0. HandoverInv
  BY Zenon DEF IInv
<1>1. /\ UNCHANGED <<fileVars, record, marker, engine, legacy, registered, ghosts, budgets>>
      /\ run.pc = "remaining"
      /\ Finish \/ (engine.provider = "none" /\ run' = [run EXCEPT !.pc = "unmark"])
  BY Zenon DEF Remaining, Goto
<1>2. CASE Finish
  BY <1>1, <1>2, EndsStep, ZenonT(120)
<1>3. CASE engine.provider = "none" /\ run' = [run EXCEPT !.pc = "unmark"]
  <2>1. "unmark" \in Pcs /\ ~handing
    BY <1>0, <1>1, ZenonT(120) DEF Pcs, HandoverInv
  <2>2. QED
    BY <1>1, <1>3, <2>1, JumpKeeps, ZenonT(120)
<1>4. QED
  BY <1>1, <1>2, <1>3, ZenonT(120)

\* The rows of an entry that resolved to a path name that path, and one of them has the identifier
\* its running image is matched by.
LEMMA RowsAtFacts ==
    ASSUME NEW e, NEW p \in Paths
    PROVE  /\ \A r \in RowsAt(e, p) : r.path = p
           /\ \E r \in RowsAt(e, p) : r.entry = e /\ r.id = RunningId(p)
<1>1. RunningId(p) \in Ids(p)
  BY RunningIsOne, Zenon
<1>2. PICK s \in RowsAt(e, p) : s = [entry |-> e, path |-> p, id |-> RunningId(p)]
  BY <1>1, ZenonT(120) DEF RowsAt
<1>3. \A r \in RowsAt(e, p) : r.path = p
  BY DEF RowsAt
<1>4. s.entry = e /\ s.id = RunningId(p)
  BY <1>2
<1>5. QED
  BY <1>3, <1>4, ZenonT(120)

\* At the commit, an identified entry has a row under every identifier its filters have now.
LEMMA RetainedAtCommit ==
    ASSUME IInv, run.pc = "install", NEW e \in run.listed,
           run.found[e].source \in {"retained", "none"},
           NEW r \in run.recorded.rows \cup RowsOf(engine.filters), r.entry = e
    PROVE  \E s \in Serialized : s.entry = e /\ s.id = r.id
<1>1. Typed /\ FreshInv /\ FoundInv
  BY Zenon DEF IInv
<1>2. run.owned = RowsOf(engine.filters) /\ Identified(e) /\ e \in Entries
  BY <1>1, Fields, ZenonT(120) DEF FreshInv, FoundInv
<1>3. RetainsAll(e)
  BY <1>2 DEF Identified
<1>4. QED
  BY <1>2, <1>3, ZenonT(120) DEF RetainsAll, Serialized

\* A commit blocks what resolved, and what was blocked of the entries that did not resolve.
LEMMA InstallStep == ASSUME IInv, Install PROVE IInv'
<1>0. Typed /\ PhaseInv /\ FreshInv /\ FoundInv /\ ExactInv /\ ProtectionKept
  BY Zenon DEF IInv
<1> DEFINE foreign == engine.callouts = "foreign"
           next == IF foreign THEN "inUse" ELSE "record"
           filters == FilterSet(Serialized, run.address, ~foreign)
           last(e) == IF e \notin run.listed THEN NoPath
                      ELSE IF run.found[e].source \in {"resolved", "absent"}
                        THEN (CHOOSE r \in run.found[e].rows : TRUE).path
                      ELSE seen[e]
<1>1. /\ UNCHANGED <<list, address, place, record, marker, legacy, registered, handing, budgets>>
      /\ run.pc = "install" /\ engine' = Replaced(foreign) /\ run' = [run EXCEPT !.pc = next]
      /\ seen' = [e \in Entries |-> last(e)]
  BY Zenon DEF Install, Goto, fileVars
<1>2. next \in {"inUse", "record"}
  BY Zenon
<1>3. SameFindings /\ run'.pc = next
  BY <1>1, <1>2, JumpFindings, ZenonT(120) DEF Pcs
<1>4. run.address \in Addresses /\ Serialized \in SUBSET Row
  BY <1>0, <1>1, SerializedRows, ZenonT(120) DEF PhaseInv
<1>5. filters \subseteq Filter
  BY <1>4, FilterSetType, ZenonT(120)
<1>6. \A s \in Serialized, k \in {"block", "boot"} :
         \E f \in filters : f.entry = s.entry /\ f.kind = k /\ f.id = s.id
  BY FilterSetBlocks
<1>7. engine' = [provider |-> "persistent", sublayer |-> "current",
                 callouts |-> IF foreign THEN "foreign" ELSE "ours",
                 context |-> run.address, filters |-> filters]
  BY <1>1, ZenonT(120) DEF Replaced
<1> HIDE DEF filters, foreign, next
<1>8. engine' \in EngineType /\ engine'.filters = filters /\ engine'.context = run.address
  BY <1>4, <1>5, <1>7, SMTT(120) DEF EngineType
<1>9. ASSUME NEW e \in Entries
      PROVE  /\ last(e) \in Paths \cup {NoPath}
             /\ last(e) # NoPath => \E s \in Serialized : s.entry = e /\ s.id = RunningId(last(e))
  <2>1. CASE e \notin run.listed
    BY <2>1, ZenonT(120)
  <2>2. CASE e \in run.listed /\ run.found[e].source \in {"resolved", "absent"}
    <3>1. \E p \in Paths : ResolvedTo(e, p)
      <4>1. Identified(e)
        BY <1>0, <1>1, <2>2, ZenonT(120) DEF FoundInv, FreshInv
      <4>2. QED
        BY <2>2, <4>1, SMTT(120) DEF Identified
    <3>2. PICK p \in Paths : run.found[e].rows = RowsAt(e, p)
      BY <3>1, ZenonT(120) DEF ResolvedTo
    <3>3. /\ (CHOOSE r \in run.found[e].rows : TRUE).path = p
          /\ \E r \in run.found[e].rows : r.entry = e /\ r.id = RunningId(p)
      <4>0. /\ \A r \in RowsAt(e, p) : r.path = p
            /\ \E r \in RowsAt(e, p) : r.entry = e /\ r.id = RunningId(p)
        BY RowsAtFacts, ZenonT(120)
      <4>1. /\ \A r \in run.found[e].rows : r.path = p
            /\ \E r \in run.found[e].rows : r.entry = e /\ r.id = RunningId(p)
        BY <3>2, <4>0, SMTT(120)
      <4>2. (CHOOSE r \in run.found[e].rows : TRUE) \in run.found[e].rows
        BY <4>1, ZenonT(120)
      <4>3. QED
        BY <4>1, <4>2, ZenonT(120)
    <3>4. last(e) = p
      BY <2>2, <3>3, ZenonT(120)
    <3> HIDE DEF last
    <3>5. QED
      BY <3>3, <3>4, ZenonT(120) DEF Serialized
  <2>3. CASE e \in run.listed /\ run.found[e].source \notin {"resolved", "absent"}
    <3>1. last(e) = seen[e]
      BY <2>3, Zenon
    <3>2. seen[e] \in Paths \cup {NoPath}
      BY <1>0, Fields, ZenonT(120)
    <3> HIDE DEF last
    <3>3. ASSUME seen[e] # NoPath
          PROVE  \E s \in Serialized : s.entry = e /\ s.id = RunningId(seen[e])
      <4>1. PICK f \in engine.filters : f.entry = e /\ f.id = RunningId(seen[e])
        BY <1>0, <3>3, ZenonT(120) DEF ProtectionKept
      <4>2. PICK r \in RowsOf(engine.filters) : r.entry = e /\ r.id = RunningId(seen[e])
        BY <4>1, RowOfFilter, ZenonT(120)
      <4>3. run.found[e].source \in {"retained", "none"}
        BY <1>0, <2>3, Fields, SMTT(120) DEF Found
      <4>4. QED
        BY <1>1, <2>3, <4>2, <4>3, RetainedAtCommit, SMTT(120)
    <3>4. QED
      BY <3>1, <3>2, <3>3, ZenonT(120)
  <2>4. QED
    BY <2>1, <2>2, <2>3, ZenonT(120)
<1> HIDE DEF last
<1>10. seen' \in [Entries -> Paths \cup {NoPath}] /\ \A e \in Entries : seen'[e] = last(e)
  BY <1>1, <1>9, ZenonT(120)
<1>11. Budgeted'
  BY <1>0, <1>1, Fields, ZenonT(120) DEF Budgeted, budgets
<1>12. Typed'
  BY <1>0, <1>1, <1>3, <1>8, <1>10, <1>11, Fields, TypedAfter, ZenonT(120) DEF SameFindings
<1>13. ProtectionKept'
  <2>1. SUFFICES ASSUME NEW e \in Entries, seen'[e] # NoPath, NEW k \in {"block", "boot"}
                 PROVE  \E f \in filters : f.entry = e /\ f.kind = k /\ f.id = RunningId(seen'[e])
    BY <1>8, ZenonT(120) DEF ProtectionKept
  <2>2. PICK s \in Serialized : s.entry = e /\ s.id = RunningId(seen'[e])
    BY <1>9, <1>10, <2>1
  <2>3. QED
    BY <1>6, <2>2, SMTT(120)
<1>14. run.address # NoAddress
  BY <1>4, AddressAssumption, Zenon
<1>15. PhaseInv' /\ HandoverInv' /\ MarkerCovers' /\ HandoverCovered'
  BY <1>0, <1>1, <1>2, <1>3, <1>4, <1>8, <1>14, Zenon
     DEF PhaseInv, HandoverInv, MarkerCovers, HandoverCovered, SameFindings
<1>16. FreshInv' /\ FoundInv' /\ SuccessIsExact'
  BY <1>0, <1>1, <1>2, <1>3, Zenon DEF FreshInv, FoundInv, SuccessIsExact, SameFindings
<1>17. ExactInv'
  <2>1. ~Refused'
    BY <1>0, <1>1, <1>3, ZenonT(120) DEF ExactInv, Refused, Serialized, SameFindings
  <2>2. QED
    BY <1>2, <1>3, <2>1, ZenonT(120) DEF ExactInv
<1>18. QED
  BY <1>12, <1>13, <1>15, <1>16, <1>17, ZenonT(120) DEF IInv
-----------------------------------------------------------------------------
(* The invariant.                                                          *)

\* The filters an earlier release left are filters.
LEMMA EarlierType ==
    ASSUME address \in Addresses, place \in [Entries -> [at : {1}, state : {"present"}]],
           NEW e \in Entries
    PROVE  Earlier(e) \in EngineType /\ Earlier(e).provider = "persistent"
<1> DEFINE left == {[entry |-> e, path |-> NoPath, id |-> i, kind |-> "block", address |-> address] :
                        i \in Ids(place[e].at)}
<1>1. place[e].at = 1 /\ 1 \in Paths
  BY PathsAssumption
<1>2. Ids(place[e].at) \subseteq Id
  BY <1>1, RunningIsOne, ZenonT(120)
<1>3. left \subseteq Filter
  BY <1>2 DEF Filter, Kinds
<1>4. Earlier(e) = [NoObjects EXCEPT !.provider = "persistent", !.sublayer = "stale", !.callouts = "stale",
                                     !.context = address, !.filters = left]
  BY Zenon DEF Earlier
<1> HIDE DEF left
<1>5. QED
  BY <1>3, <1>4, ZenonT(120) DEF NoObjects, EngineType

\* A fresh machine and the two kinds of upgrade satisfy the invariant.
LEMMA InitIInv == ASSUME Init PROVE IInv
<1>1. /\ run = Idle /\ run.pc = "idle" /\ run.todo = {} /\ run.listed = {} /\ run \in RunType
  BY IdleFacts, ZenonT(120) DEF Init
<1>2. /\ engine \in EngineType /\ legacy \in {"none", "running"} /\ marker \in BOOLEAN
      /\ engine.provider = "persistent" => marker
  <2>1. CASE engine = NoObjects /\ legacy = "none" /\ marker = FALSE
    BY <2>1, ZenonT(120) DEF NoObjects, EngineType
  <2>2. CASE engine = [NoObjects EXCEPT !.callouts = "foreign"] /\ legacy = "running" /\ marker = FALSE
    BY <2>2, ZenonT(120) DEF NoObjects, EngineType
  <2>3. CASE (\E e \in Entries : engine = Earlier(e)) /\ legacy = "none" /\ marker = TRUE
    <3>1. address \in Addresses /\ place \in [Entries -> [at : {1}, state : {"present"}]]
      BY Zenon DEF Init
    <3>2. QED
      BY <2>3, <3>1, EarlierType, ZenonT(120)
  <2>4. CASE engine = [NoObjects EXCEPT !.provider = "dynamic"] /\ legacy = "none" /\ marker = TRUE
    BY <2>4 DEF NoObjects, EngineType
  <2>5. QED
    BY <2>1, <2>2, <2>3, <2>4, ZenonT(120) DEF Init
<1>3. /\ engine.provider \in {"none", "dynamic", "persistent"}
      /\ engine.sublayer \in {"none", "stale", "current"}
      /\ engine.callouts \in {"none", "stale", "ours", "foreign"}
      /\ engine.context \in Addresses \cup {NoAddress} /\ engine.filters \subseteq Filter
  BY <1>2, SMTT(120) DEF EngineType
<1>4. /\ run.pc \in Pcs /\ run.recorded \in Record /\ run.owned \subseteq Row
      /\ run.found \in [Entries -> Found]
  BY <1>1 DEF RunType
<1>5. /\ list \subseteq Entries /\ address \in Addresses /\ record \in Record
      /\ registered \in BOOLEAN /\ seen = [e \in Entries |-> NoPath]
      /\ handing = (legacy = "running")
  BY IdleFacts, ZenonT(120) DEF Init
<1>6. place \in [Entries -> Place]
  BY PathsAssumption, SMTT(120) DEF Init, Place
<1>7. /\ moves \in 0..MaxMoves /\ runs \in 0..MaxRuns /\ kills \in 0..MaxKills /\ losses \in 0..MaxLosses
  BY BoundsAssumption DEF Init
<1>8. seen \in [Entries -> Paths \cup {NoPath}] /\ handing \in BOOLEAN
  BY <1>5, ZenonT(120)
<1>9. Typed
  BY <1>1, <1>2, <1>3, <1>4, <1>5, <1>6, <1>7, <1>8, ZenonT(120) DEF Typed, TypeOK
<1>10. PhaseInv /\ HandoverInv /\ FreshInv /\ FoundInv /\ ExactInv /\ SuccessIsExact
  BY <1>1, ZenonT(120) DEF PhaseInv, HandoverInv, FreshInv, FoundInv, ExactInv, SuccessIsExact
<1>11. ProtectionKept /\ MarkerCovers /\ HandoverCovered
  BY <1>2, <1>5, ZenonT(120) DEF ProtectionKept, MarkerCovers, HandoverCovered
<1>12. QED
  BY <1>9, <1>10, <1>11, ZenonT(120) DEF IInv

\* Every step keeps the invariant.
LEMMA NextIInv == ASSUME IInv, [Next]_vars PROVE IInv'
<1>1. CASE UNCHANGED vars
  <2>1. /\ UNCHANGED <<list, address, place, record, marker, engine, legacy, registered, run, seen, handing>>
        /\ UNCHANGED <<moves, runs, kills, losses>>
    BY <1>1, ZenonT(120) DEF vars, fileVars, ghosts, budgets
  <2>2. Typed /\ HandoverCovered
    BY ZenonT(120) DEF IInv
  <2>3. Typed' /\ HandoverCovered'
    BY <2>1, <2>2, SMTT(120) DEF Typed, TypeOK, HandoverCovered
  <2>4. QED
    BY <2>1, <2>3, WorldKeeps, ZenonT(120) DEF ghosts
<1>2. CASE Move \/ LoseRecord \/ SessionEnds \/ ClientComesOrGoes \/ DriverLoads
  BY <1>2, MoveStep, LoseRecordStep, SessionEndsStep, ClientStep, DriverLoadsStep, ZenonT(120)
<1>3. CASE \E a \in {"Start", "Stop", "Validate"} : Begin(a)
  BY <1>3, BeginStep, ZenonT(120)
<1>4. CASE StopHosts \/ Mark \/ CalloutInUse \/ Installed \/ Unmark \/ Killed
  BY <1>4, StopHostsStep, MarkStep, CalloutInUseStep, InstalledStep, UnmarkStep, KilledStep, ZenonT(120)
<1>5. CASE Validated \/ Abort
  <2>1. Finish /\ UNCHANGED <<fileVars, record, marker, engine, legacy, registered, ghosts, budgets>>
    BY <1>5, ZenonT(120) DEF Validated, Abort
  <2>2. QED
    BY <2>1, EndsStep, ZenonT(120)
<1>6. CASE LoadList \/ ReadStores \/ Refuse \/ Install \/ WriteRecord
  BY <1>6, LoadListStep, ReadStoresStep, RefuseStep, InstallStep, WriteRecordStep, ZenonT(120)
<1>7. CASE Compare \/ Match \/ RemoveAll \/ Remaining
  BY <1>7, CompareStep, MatchStep, RemoveAllStep, RemainingStep, ZenonT(120)
<1>8. CASE \E e \in Entries : Identify(e)
  BY <1>8, IdentifyStep, ZenonT(120)
<1>9. QED
  BY <1>1, <1>2, <1>3, <1>4, <1>5, <1>6, <1>7, <1>8, ZenonT(120) DEF Next

\* The inductive invariant of the filters, their record and their marker.
THEOREM Invariance == Spec => []IInv
<1>1. Init => IInv
  BY InitIInv, ZenonT(120)
<1>2. IInv /\ [Next]_vars => IInv'
  BY NextIInv, Zenon
<1>3. QED
  BY <1>1, <1>2, PTL DEF Spec
-----------------------------------------------------------------------------
\* wfp-probe install and remove, killed at any step: the image an entry last resolved to at a
\* commit stays blocked under the identifier the kernel matches it by, until the filters are
\* removed, the entry leaves the list or it is seen to resolve elsewhere.
THEOREM ProtectionIsKept == Spec => []ProtectionKept
<1>1. IInv => ProtectionKept
  BY ZenonT(120) DEF IInv
<1>2. QED
  BY <1>1, Invariance, PTL

\* READY and PASS are said only over a record that holds exactly the rows of the committed filters,
\* each with its path, its redirect and the run's address (describeMismatch, the comparison of the
\* record), whatever the file system and the PIA client do meanwhile.
THEOREM SuccessIsAlwaysExact == Spec => []SuccessIsExact
<1>1. IInv => SuccessIsExact
  BY Zenon DEF IInv
<1>2. QED
  BY <1>1, Invariance, PTL

\* Invoke-WfpFilters.ps1 finds its marker whenever persistent objects may exist, and an earlier
\* release's filter host is stopped by an install only once its successor's filters are committed.
THEOREM MarkerAndHandover == Spec => [](MarkerCovers /\ HandoverCovered)
<1>1. IInv => MarkerCovers /\ HandoverCovered
  BY Zenon DEF IInv
<1>2. QED
  BY <1>1, Invariance, PTL

\* A commit never drops an identity of an entry it could not resolve: neither one of the filters
\* it replaces nor one of the record that DNS is attributed by (identifyApps, install).
THEOREM CommitRetainsBoth == Spec => RetainsBoth
<1> DEFINE Retains ==
      \A e \in run.listed :
          (run.pc = "install" /\ run'.pc \in {"inUse", "record"}
              /\ run.found[e].source \in {"retained", "none"}) =>
             \A r \in run.recorded.rows \cup RowsOf(engine.filters) :
                 r.entry = e => \E f \in engine'.filters : f.entry = e /\ f.id = r.id
<1>1. ASSUME IInv, [Next]_vars PROVE [Retains]_vars
  <2>1. SUFFICES ASSUME NEW e \in run.listed, run.pc = "install", run'.pc \in {"inUse", "record"},
                        run.found[e].source \in {"retained", "none"},
                        NEW r \in run.recorded.rows \cup RowsOf(engine.filters), r.entry = e
                 PROVE  \E f \in engine'.filters : f.entry = e /\ f.id = r.id
    BY Zenon
  <2>2. Install
    <3>1. run' # run /\ run' # Idle
      BY <2>1, IdleFacts, ZenonT(120)
    <3>2. ~UNCHANGED vars /\ ~Move /\ ~LoseRecord /\ ~SessionEnds /\ ~ClientComesOrGoes /\ ~DriverLoads
      BY <3>1, ZenonT(120) DEF vars, Move, LoseRecord, SessionEnds, ClientComesOrGoes, DriverLoads
    <3>3. ~Killed /\ ~Abort /\ ~Validated /\ ~Installed /\ ~Unmark
      BY <3>1, ZenonT(120) DEF Killed, Abort, Validated, Installed, Unmark, StopLegacy, Finish
    <3>4. /\ ~StopHosts /\ ~Mark /\ ~CalloutInUse /\ ~LoadList /\ ~ReadStores
          /\ \A a \in {"Start", "Stop", "Validate"} : ~Begin(a)
      BY <2>1, ZenonT(120) DEF StopHosts, Mark, CalloutInUse, LoadList, ReadStores, Begin
    <3>5. /\ ~Refuse /\ ~WriteRecord /\ ~Compare /\ ~Match /\ ~RemoveAll /\ ~Remaining
          /\ \A o \in Entries : ~Identify(o)
      BY <2>1, ZenonT(120) DEF Refuse, WriteRecord, Compare, Match, RemoveAll, Remaining, Identify
    <3>6. QED
      BY <1>1, <3>2, <3>3, <3>4, <3>5, ZenonT(120) DEF Next
  <2>3. PICK b \in BOOLEAN : engine'.filters = FilterSet(Serialized, run.address, b)
    <3>1. engine' = Replaced(engine.callouts = "foreign")
      BY <2>2, ZenonT(120) DEF Install
    <3>2. engine'.filters = FilterSet(Serialized, run.address, ~(engine.callouts = "foreign"))
      BY <3>1 DEF Replaced
    <3>3. (~(engine.callouts = "foreign")) \in BOOLEAN
      BY Zenon
    <3>4. QED
      BY <3>2, <3>3, ZenonT(120)
  <2>4. PICK s \in Serialized : s.entry = e /\ s.id = r.id
    BY <1>1, <2>1, RetainedAtCommit, ZenonT(120)
  <2>5. QED
    BY <2>3, <2>4, FilterSetBlocks, SMTT(120)
<1>2. IInv /\ [Next]_vars => [Retains]_vars
  BY <1>1, ZenonT(120)
<1>3. QED
  BY <1>2, Invariance, PTL DEF Spec, RetainsBoth

\* The variables keep their types.
THEOREM TypeCorrect == Spec => []TypeOK
<1>1. IInv => TypeOK
  BY ZenonT(120) DEF IInv, Typed
<1>2. QED
  BY <1>1, Invariance, PTL

\* What is recorded agrees with the engine, through every kill, loss and change: the three results
\* above and the types, as the run over this module states them.
THEOREM RecordIsTruthful == Spec => RecordTruthful
<1>1. IInv => TypeOK /\ SuccessIsExact /\ MarkerCovers /\ HandoverCovered
  BY Zenon DEF IInv, Typed
<1>2. QED
  BY <1>1, Invariance, CommitRetainsBoth, PTL DEF RecordTruthful
=============================================================================
