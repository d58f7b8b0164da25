------------------------------- MODULE SeedRun -------------------------------
(***************************************************************************)
(* BiergartenPipelineOrchestrator::Run on top of SqliteExportService: open *)
(* the export, sample and enrich cities, generate and export one user and  *)
(* then one brewery per city, finalize.  A city whose sampling, generation *)
(* or export fails is counted and left behind; a failure outside the loops *)
(* ends the run, and the destructor of the exporter cleans up.  The        *)
(* process may die at any point.                                           *)
(***************************************************************************)
EXTENDS SqliteExport

VARIABLES phase,      \* where Run is
          cities,     \* the enriched cities, in order (repeats possible)
          next,       \* position of the loop over cities
          generated,  \* generated_users_ and generated_breweries_
          result      \* what Run returned, "none" while it has not

runVars == <<phase, cities, next, generated, result>>
allVars == <<exportVars, runVars>>

Phases == {"starting", "sampling", "users", "breweries", "finalizing",
           "reporting", "returned", "ended", "dead"}

RunInit ==
    /\ ExportInit
    /\ phase = "starting"
    /\ cities = <<>>
    /\ next = 1
    /\ generated = {}
    /\ result = "none"

\* The catch block of Run.
ReturnsFailure ==
    /\ phase' = "returned"
    /\ result' = "failure"
    /\ UNCHANGED <<cities, next, generated>>

-----------------------------------------------------------------------------
RunInitializes ==
    /\ phase = "starting"
    /\ \/ /\ InitializeSucceeds
          /\ phase' = "sampling"
          /\ UNCHANGED <<cities, next, generated, result>>
       \/ /\ InitializeFails
          /\ ReturnsFailure

\* QueryLocations and the enrichment loop: which cities are left, and in
\* which order, depends on the curated data, the sample and the lookups.
SamplesCities ==
    /\ phase = "sampling"
    /\ \E n \in 0 .. MaxRecords : cities' \in [1 .. n -> Cities]
    /\ phase' = "users"
    /\ UNCHANGED <<exportVars, next, generated, result>>

\* LoadLocations, LoadPersonas or the name fixtures throw, or there are no
\* personas: Run ends without Finalize.
CuratedDataFails ==
    /\ \/ phase = "sampling"
       \/ phase = "users" /\ next = 1
    /\ ReturnsFailure
    /\ UNCHANGED exportVars

KindOfPhase == [users |-> "user", breweries |-> "brewery"]

InLoop == phase \in {"users", "breweries"} /\ call.step = "none"

\* SampleName finds no names, or the generator or geocoding throws.
SkipsCity ==
    /\ InLoop
    /\ next <= Len(cities)
    /\ next' = next + 1
    /\ UNCHANGED <<exportVars, phase, cities, generated, result>>

GeneratesRecord ==
    /\ InLoop
    /\ next <= Len(cities)
    /\ LET r == [kind |-> KindOfPhase[phase], nr |-> next,
                 city |-> cities[next]]
       IN  /\ generated' = generated \cup {r}
           /\ StartExport(r)
    /\ next' = next + 1
    /\ UNCHANGED <<phase, cities, result>>

Exports ==
    /\ phase \in {"users", "breweries"}
    /\ ProcessRecord
    /\ UNCHANGED runVars

LoopEnds ==
    /\ InLoop
    /\ next > Len(cities)
    /\ phase' = IF phase = "users" THEN "breweries" ELSE "finalizing"
    /\ next' = 1
    /\ UNCHANGED <<exportVars, cities, generated, result>>

Finalizes ==
    /\ phase = "finalizing"
    /\ CommitSucceeds
    /\ phase' = "reporting"
    /\ UNCHANGED <<cities, next, generated, result>>

FinalizeFails ==
    /\ phase = "finalizing"
    /\ CommitFails
    /\ ReturnsFailure

\* LogResults, then return true.
ReturnsSuccess ==
    /\ phase = "reporting"
    /\ phase' = "returned"
    /\ result' = "success"
    /\ UNCHANGED <<exportVars, cities, next, generated>>

\* main leaves the try block: the orchestrator and its exporter are destroyed.
IsDestroyed ==
    /\ phase = "returned"
    /\ Destructor
    /\ phase' = "ended"
    /\ UNCHANGED <<cities, next, generated, result>>

Dies ==
    /\ phase \notin {"ended", "dead"}
    /\ Crash
    /\ phase' = "dead"
    /\ UNCHANGED <<cities, next, generated, result>>

\* Nothing more happens: any other state without a successor is a deadlock.
IsOver == phase \in {"ended", "dead"} /\ UNCHANGED allVars

RunNext ==
    \/ RunInitializes \/ SamplesCities \/ CuratedDataFails
    \/ SkipsCity \/ GeneratesRecord \/ Exports \/ LoopEnds
    \/ Finalizes \/ FinalizeFails \/ ReturnsSuccess \/ IsDestroyed
    \/ Dies \/ IsOver

RunSpec == RunInit /\ [][RunNext]_allVars

-----------------------------------------------------------------------------
(* Properties *)

TablesOK(d) ==
    /\ d = [t \in Tables |-> d[t]]
    /\ d["cities"] \in Seq(Cities)
    /\ \A t \in OwnerTables : d[t] \in Seq(Records)
    /\ \A t \in AddressTables : d[t] \in Seq(AddressRows)

CallOK ==
    /\ call.step \in {"none", "city", "owner", "address"}
    /\ call.step # "none" => call.record \in Records
    /\ call.step \in {"owner", "address"} => call.city \in Nat
    /\ call.step = "address" => call.owner \in Nat

\* The state is well typed; transaction_open_ is set exactly while the handle
\* is, and records are exported only then.
RunTypeOK ==
    /\ handle \in BOOLEAN /\ engineTx \in BOOLEAN /\ committed \in BOOLEAN
    /\ txOpen = handle
    /\ engineTx => handle
    /\ stuck \subseteq Tables
    /\ DOMAIN cache \subseteq Cities
    /\ \A c \in DOMAIN cache : cache[c] \in Nat
    /\ CallOK
    /\ call.step # "none" => handle
    /\ rejected \subseteq Records /\ generated \subseteq Records
    /\ TablesOK(db) /\ TablesOK(disk)
    /\ faults \in 0 .. MaxFaults
    /\ phase \in Phases
    /\ cities \in Seq(Cities) /\ Len(cities) <= MaxRecords
    /\ next \in 1 .. MaxRecords + 1
    /\ result \in {"none", "success", "failure"}

\* The records generated whose export is over and did not throw.
Accepted ==
    {r \in generated : /\ r \notin rejected
                       /\ call.step # "none" => call.record # r}

\* The addresses of the i-th owner of a kind.
AddressesOf(d, kind, i) ==
    {j \in 1 .. Len(d[AddressTable[kind]]) :
        d[AddressTable[kind]][j].owner = i}

\* What a reader of d finds by joining owners, addresses and cities.
Found(d) ==
    UNION {{[kind |-> k, nr |-> d[OwnerTable[k]][d[AddressTable[k]][j].owner].nr,
             city |-> d["cities"][d[AddressTable[k]][j].city]] :
               j \in 1 .. Len(d[AddressTable[k]])} : k \in Kinds}

\* No owner without an address or with two, and no record twice.
NoOrphans(d) ==
    \A k \in Kinds :
        LET owners == d[OwnerTable[k]] IN
        /\ \A i \in 1 .. Len(owners) : Cardinality(AddressesOf(d, k, i)) = 1
        /\ \A i, j \in 1 .. Len(owners) : owners[i] = owners[j] => i = j

\* Success means complete: when Run returns true, the file holds every record
\* that was generated and not counted as failed, once, in its own city.  True
\* even if the engine gives up the transaction half-way and the exporter, which
\* does not notice, goes on: COMMIT then finds no transaction.
SuccessIsComplete ==
    result = "success" => Found(disk) = Accepted /\ NoOrphans(disk)

\* The exporter's two caches agree with the engine while the transaction they
\* describe is alive: nothing is durable yet, an id in city_cache_ names the
\* row of its city, and what is in the tables is what has been accepted (plus
\* the owner row of the record being exported).
CachesAreRight ==
    engineTx =>
        /\ handle /\ txOpen
        /\ disk = Empty
        /\ \A c \in DOMAIN cache :
              cache[c] \in 1 .. Len(db["cities"]) /\ db["cities"][cache[c]] = c
        /\ Found(db) = Accepted
        /\ call.step # "address" => NoOrphans(db)

\* The file is never seen with part of a run in it, unless the engine has
\* given up a transaction.
AllOrNothing ==
    faults = 0 => Found(disk) \in {{}, Accepted} /\ NoOrphans(disk)

Export == INSTANCE AtomicExport
    WITH Record <- Records, batch <- Accepted, file <- Found(disk),
         sealed <- committed

\* Until the first engine error a run is atomic: constraint violations,
\* generator failures, a failing COMMIT and a crash leave an empty file or the
\* batch, and Run says which.
ImplementsAtomicExport ==
    Export!Init /\ [][Export!Next \/ faults' # 0]_(Export!vars)

\* ResolveCityId "returns the row id for city", for users and breweries alike:
\* an address in the file refers to the row of its record's city.
AddressIsInItsCity == Found(disk) \subseteq generated
=============================================================================
