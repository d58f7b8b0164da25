--------------------------- MODULE PipelineProofs ---------------------------
(***************************************************************************)
(* Theorems about SeedRun, for any cities, any columns that tell them      *)
(* apart, and any number of records and of engine errors; and about        *)
(* Generation, for any sizes of the window, of a batch, of a prompt and of *)
(* an answer, and any number of records.                                   *)
(***************************************************************************)
EXTENDS SeedRun, Generation, FiniteSetTheorems, TLAPS

-----------------------------------------------------------------------------
(* SeedRun: the inductive invariant. *)

Owners(k)    == db[OwnerTable[k]]
Addresses(k) == db[AddressTable[k]]

(* The record being exported has its owner's row but not its address. *)
Halfway(k) == call.step = "address" /\ call.record.kind = k

(* Where the run is says what exists already.  nr tells a record that is   *)
(* about to be generated from all earlier ones.                            *)
Progress ==
    /\ phase = "starting" =>
          /\ handle = FALSE /\ stuck = {} /\ cache = <<>>
          /\ db = Empty /\ disk = Empty /\ rejected = {}
    /\ phase \in {"starting", "sampling"} => generated = {}
    /\ phase = "users" => \A r \in generated : r.kind = "user" /\ r.nr < next
    /\ phase = "breweries" => \A r \in generated : r.kind = "brewery" => r.nr < next
    /\ rejected \subseteq generated
    /\ call.step # "none" =>
          /\ phase \in {"users", "breweries", "dead"}
          /\ call.record \in generated \ rejected

(* What the commit and the answer of Run mean. *)
Outcome ==
    /\ committed => /\ phase \in {"reporting", "returned", "ended", "dead"}
                    /\ Found(disk) = Accepted
                    /\ NoOrphans(disk)
    /\ phase = "reporting" => committed
    /\ phase \in {"starting", "sampling", "users", "breweries", "finalizing", "reporting"} =>
          result = "none"
    /\ result # "none" => (result = "success" <=> committed)

(* As long as the engine's transaction lives, its tables are those that    *)
(* the calls have written: owners are the records accepted, in the order   *)
(* of their addresses.                                                     *)
OwnersRight ==
    /\ \A k \in Kinds : \A i \in 1 .. Len(Owners(k)) :
          Owners(k)[i] \in generated \ rejected /\ Owners(k)[i].kind = k
    /\ \A k \in Kinds : \A i, j \in 1 .. Len(Owners(k)) :
          Owners(k)[i] = Owners(k)[j] => i = j
    /\ \A r \in generated \ rejected :
          \/ call.step \in {"city", "owner"} /\ call.record = r
          \/ \E i \in 1 .. Len(Owners(r.kind)) : Owners(r.kind)[i] = r
    /\ call.step \in {"city", "owner"} =>
          \A i \in 1 .. Len(Owners(call.record.kind)) :
             Owners(call.record.kind)[i] # call.record
    /\ call.step = "address" =>
          /\ call.owner = Len(Owners(call.record.kind))
          /\ call.owner >= 1
          /\ Owners(call.record.kind)[call.owner] = call.record

AddressesRight ==
    \A k \in Kinds :
        /\ Len(Addresses(k)) = IF Halfway(k) THEN Len(Owners(k)) - 1 ELSE Len(Owners(k))
        /\ \A j \in 1 .. Len(Addresses(k)) :
              /\ Addresses(k)[j].owner = j
              /\ Addresses(k)[j].city \in 1 .. Len(db["cities"])
              /\ db["cities"][Addresses(k)[j].city] = Owners(k)[j].city

CitiesRight ==
    /\ \A c \in DOMAIN cache :
          cache[c] \in 1 .. Len(db["cities"]) /\ db["cities"][cache[c]] = c
    /\ call.step \in {"owner", "address"} =>
          /\ call.city \in 1 .. Len(db["cities"])
          /\ db["cities"][call.city] = call.record.city

Alive ==
    engineTx =>
        /\ disk = Empty
        /\ phase \in {"sampling", "users", "breweries", "finalizing", "returned"}
        /\ ~committed
        /\ stuck \subseteq {"cities"}
        /\ OwnersRight
        /\ AddressesRight
        /\ CitiesRight

(* Before the first engine error the transaction is open from Initialize   *)
(* to Finalize, and nothing is durable without its commit.                 *)
Whole ==
    faults = 0 =>
        /\ phase \in {"sampling", "users", "breweries", "finalizing"} => engineTx
        /\ ~committed => disk = Empty

IInv == RunTypeOK /\ Progress /\ Outcome /\ Alive /\ Whole

-----------------------------------------------------------------------------
(* Type correctness *)

LEMMA TableNames ==
  /\ \A k \in Kinds : OwnerTable[k] \in OwnerTables /\ AddressTable[k] \in AddressTables
  /\ OwnerTables \subseteq Tables /\ AddressTables \subseteq Tables /\ "cities" \in Tables
  /\ OwnerTables \cap AddressTables = {}
  /\ "cities" \notin OwnerTables \cup AddressTables
  /\ \A k, l \in Kinds : k # l => /\ OwnerTable[k] # OwnerTable[l]
                                 /\ AddressTable[k] # AddressTable[l]
  BY DEF Kinds, OwnerTable, AddressTable, OwnerTables, AddressTables, Tables

(* What may be a row of a table. *)
RowOf(t) == IF t = "cities" THEN Cities
            ELSE IF t \in OwnerTables THEN Records ELSE AddressRows

LEMMA TablesAreSequences ==
  ASSUME NEW d
  PROVE  TablesOK(d) <=> /\ d = [t \in Tables |-> d[t]]
                         /\ \A t \in Tables : d[t] \in Seq(RowOf(t))
  BY TableNames DEF TablesOK, RowOf, Tables, OwnerTables, AddressTables

LEMMA EmptyTyped == TablesOK(Empty)
  <1>1. Empty = [t \in Tables |-> Empty[t]] /\ \A t \in Tables : Empty[t] = <<>>
    BY DEF Empty
  <1>2. \A t \in Tables : Empty[t] \in Seq(RowOf(t))
    <2> TAKE t \in Tables
    <2>1. <<>> \in Seq(RowOf(t))
      OBVIOUS
    <2> QED
      BY <1>1, <2>1
  <1> QED
    BY <1>1, <1>2, TablesAreSequences

LEMMA AppendTyped ==
  ASSUME NEW d, TablesOK(d), NEW t \in Tables, NEW row \in RowOf(t)
  PROVE  TablesOK([d EXCEPT ![t] = Append(@, row)])
  <1> DEFINE e == [d EXCEPT ![t] = Append(@, row)]
  <1>1. d = [u \in Tables |-> d[u]] /\ \A u \in Tables : d[u] \in Seq(RowOf(u))
    BY TablesAreSequences
  <1>2. \A u \in Tables : e[u] = IF u = t THEN Append(d[t], row) ELSE d[u]
    BY <1>1
  <1>3. e = [u \in Tables |-> e[u]]
    BY <1>1
  <1>4. \A u \in Tables : e[u] \in Seq(RowOf(u))
    BY <1>1, <1>2
  <1> HIDE DEF e
  <1>5. TablesOK(e)
    BY <1>3, <1>4, TablesAreSequences
  <1> QED
    BY <1>5 DEF e

LEMMA InitTyped == RunInit => RunTypeOK
  <1> SUFFICES ASSUME RunInit PROVE RunTypeOK
    OBVIOUS
  <1>1. TablesOK(db) /\ TablesOK(disk)
    BY EmptyTyped DEF RunInit, ExportInit
  <1>2. CallOK /\ call.step = "none"
    BY DEF RunInit, ExportInit, CallOK, NoCall
  <1>3. /\ DOMAIN cache = {} /\ cities \in Seq(Cities) /\ Len(cities) <= MaxRecords
        /\ next \in 1 .. MaxRecords + 1 /\ faults \in 0 .. MaxFaults
    BY ExportAssumption DEF RunInit, ExportInit
  <1> QED
    BY <1>1, <1>2, <1>3 DEF RunInit, ExportInit, RunTypeOK, Phases

(* An insert keeps the tables typed. *)
LEMMA InsertTyped ==
  ASSUME RunTypeOK, NEW t \in Tables, NEW row \in RowOf(t), InsertSucceeds(t, row)
  PROVE  TablesOK(db') /\ TablesOK(disk')
  BY AppendTyped DEF RunTypeOK, InsertSucceeds

(* The part of the type invariant that ProcessRecord may touch. *)
ExportTyped ==
    /\ handle \in BOOLEAN /\ engineTx \in BOOLEAN /\ committed \in BOOLEAN
    /\ txOpen = handle
    /\ engineTx => handle
    /\ stuck \subseteq Tables
    /\ DOMAIN cache \subseteq Cities
    /\ \A c \in DOMAIN cache : cache[c] \in Nat
    /\ CallOK
    /\ call.step # "none" => handle
    /\ rejected \subseteq Records
    /\ TablesOK(db) /\ TablesOK(disk)
    /\ faults \in 0 .. MaxFaults

RunTyped ==
    /\ generated \subseteq Records
    /\ phase \in Phases
    /\ cities \in Seq(Cities) /\ Len(cities) <= MaxRecords
    /\ next \in 1 .. MaxRecords + 1
    /\ result \in {"none", "success", "failure"}

LEMMA TypedParts == RunTypeOK <=> ExportTyped /\ RunTyped
  BY DEF RunTypeOK, ExportTyped, RunTyped

LEMMA ExportStutters == ASSUME ExportTyped, UNCHANGED exportVars PROVE ExportTyped'
  BY DEF ExportTyped, CallOK, exportVars

LEMMA CallFields ==
  ASSUME ExportTyped, call.step # "none"
  PROVE  /\ call.record \in Records
         /\ call.record.kind \in Kinds
         /\ call.record.city \in Cities
         /\ call.record.nr \in 1 .. MaxRecords
         /\ call.record = [kind |-> call.record.kind, nr |-> call.record.nr, city |-> call.record.city]
  BY DEF ExportTyped, CallOK, Records

LEMMA ThrowsTyped ==
  ASSUME ExportTyped, call.step # "none", Throws
  PROVE  /\ CallOK' /\ call'.step = "none" /\ rejected' \subseteq Records
         /\ DOMAIN cache' \subseteq Cities /\ \A c \in DOMAIN cache' : cache'[c] \in Nat
  BY CallFields DEF ExportTyped, Throws, CallOK, NoCall

LEMMA FailedInsertTyped ==
  ASSUME ExportTyped, NEW t \in Tables,
         BindFails(t) \/ InsertFaults(t) \/ InsertRejected(t)
  PROVE  /\ handle' = handle /\ txOpen' = txOpen /\ committed' = committed
         /\ engineTx' \in BOOLEAN /\ (engineTx' => engineTx)
         /\ stuck' \subseteq Tables
         /\ TablesOK(db') /\ TablesOK(disk')
         /\ faults' \in 0 .. MaxFaults
  <1>1. CASE BindFails(t)
    BY <1>1 DEF ExportTyped, BindFails, connection
  <1>2. CASE InsertFaults(t)
    <2>1. faults' \in 0 .. MaxFaults
      BY <1>2, ExportAssumption DEF ExportTyped, InsertFaults
    <2>2. TablesOK(db') /\ TablesOK(disk')
      BY <1>2 DEF ExportTyped, InsertFaults
    <2> QED
      BY <1>2, <2>1, <2>2 DEF ExportTyped, InsertFaults
  <1>3. CASE InsertRejected(t)
    BY <1>3 DEF ExportTyped, InsertRejected, connection
  <1> QED
    BY <1>1, <1>2, <1>3

LEMMA ProcessRecordTyped ==
  ASSUME ExportTyped, ProcessRecord
  PROVE  ExportTyped'
  <1>0. call.step # "none"
    BY DEF ProcessRecord, CityIsKnown, InsertsCity, CityFails, InsertsOwner, OwnerFails,
           InsertsAddress, AddressFails
  <1> USE <1>0
  <1>1. CASE CityIsKnown
    <2>1. CallOK' /\ call'.step = "owner"
      BY <1>1, CallFields DEF CityIsKnown, HasCity, CallOK, ExportTyped
    <2> QED
      BY <1>1, <2>1 DEF CityIsKnown, HasCity, ExportTyped, connection
  <1>2. CASE InsertsCity
    <2>1. InsertSucceeds("cities", call.record.city) /\ call.record.city \in RowOf("cities")
      BY <1>2, CallFields DEF InsertsCity, RowOf
    <2>2. TablesOK(db') /\ TablesOK(disk')
      BY <2>1, TableNames, AppendTyped DEF InsertSucceeds, ExportTyped
    <2>3. Len(db'["cities"]) \in Nat
      BY <2>2 DEF TablesOK
    <2>4. CallOK' /\ call'.step = "owner"
      BY <1>2, <2>3, CallFields DEF InsertsCity, HasCity, CallOK
    <2>5. DOMAIN cache' \subseteq Cities /\ \A c \in DOMAIN cache' : cache'[c] \in Nat
      BY <1>2, <2>3, CallFields DEF InsertsCity, ExportTyped
    <2>6. UNCHANGED <<handle, txOpen, engineTx, stuck, committed, faults, rejected>>
      BY <1>2, <2>1 DEF InsertsCity, InsertSucceeds, HasCity, connection
    <2> QED
      BY <2>2, <2>4, <2>5, <2>6 DEF ExportTyped
  <1>3. CASE CityFails
    <2>1. PICK t \in {"cities"} : BindFails(t) \/ InsertFaults(t) \/ InsertRejected(t)
      BY <1>3 DEF CityFails
    <2> QED
      BY <1>3, <2>1, FailedInsertTyped, ThrowsTyped, TableNames DEF CityFails, ExportTyped
  <1>4. CASE InsertsOwner
    <2> DEFINE t == OwnerTable[call.record.kind]
    <2>1. InsertSucceeds(t, call.record) /\ t \in OwnerTables /\ call.record \in RowOf(t)
      BY <1>4, CallFields, TableNames DEF InsertsOwner, RowOf
    <2>2. TablesOK(db') /\ TablesOK(disk')
      BY <2>1, TableNames, AppendTyped DEF InsertSucceeds, ExportTyped
    <2>3. Len(db'[t]) \in Nat
      BY <2>1, <2>2 DEF TablesOK
    <2>4. CallOK' /\ call'.step = "address"
      BY <1>4, <2>3, CallFields DEF InsertsOwner, CallOK, ExportTyped
    <2>5. UNCHANGED <<handle, txOpen, engineTx, stuck, committed, faults, cache, rejected>>
      BY <1>4, <2>1 DEF InsertsOwner, InsertSucceeds, connection
    <2> QED
      BY <2>2, <2>4, <2>5 DEF ExportTyped
  <1>5. CASE OwnerFails
    <2>1. PICK t \in Tables : BindFails(t) \/ InsertFaults(t) \/ InsertRejected(t)
      BY <1>5, CallFields, TableNames DEF OwnerFails
    <2> QED
      BY <1>5, <2>1, FailedInsertTyped, ThrowsTyped DEF OwnerFails, ExportTyped
  <1>6. CASE InsertsAddress
    <2> DEFINE t == AddressTable[call.record.kind]
               row == [owner |-> call.owner, city |-> call.city]
    <2>1. InsertSucceeds(t, row) /\ t \in AddressTables
      BY <1>6, CallFields, TableNames DEF InsertsAddress
    <2>2. row \in RowOf(t)
      BY <1>6, <2>1, TableNames DEF RowOf, AddressRows, ExportTyped, CallOK, InsertsAddress
    <2>3. TablesOK(db') /\ TablesOK(disk')
      BY <2>1, <2>2, TableNames, AppendTyped DEF InsertSucceeds, ExportTyped
    <2>4. CallOK' /\ call'.step = "none"
      BY <1>6 DEF InsertsAddress, CallOK, NoCall
    <2>5. UNCHANGED <<handle, txOpen, engineTx, stuck, committed, faults, cache, rejected>>
      BY <1>6, <2>1 DEF InsertsAddress, InsertSucceeds, connection
    <2> QED
      BY <2>3, <2>4, <2>5 DEF ExportTyped
  <1>7. CASE AddressFails
    <2>1. PICK t \in Tables : BindFails(t) \/ InsertFaults(t) \/ InsertRejected(t)
      BY <1>7, CallFields, TableNames DEF AddressFails
    <2> QED
      BY <1>7, <2>1, FailedInsertTyped, ThrowsTyped DEF AddressFails, ExportTyped
  <1> QED
    BY <1>1, <1>2, <1>3, <1>4, <1>5, <1>6, <1>7 DEF ProcessRecord

LEMMA ClosedTyped ==
  ASSUME ExportTyped, Closed, call.step = "none",
         TablesOK(db'), TablesOK(disk'), committed' \in BOOLEAN
  PROVE  ExportTyped'
  <1>1. call' = call /\ rejected' = rejected /\ faults' = faults
    BY DEF Closed
  <1>2. CallOK' /\ call'.step = "none"
    BY <1>1 DEF CallOK
  <1>3. handle' = FALSE /\ txOpen' = FALSE /\ engineTx' = FALSE /\ stuck' = {} /\ DOMAIN cache' = {}
    BY DEF Closed
  <1> QED
    BY <1>1, <1>2, <1>3 DEF ExportTyped

LEMMA RollbackTyped ==
  ASSUME ExportTyped, call.step = "none", RollbackAndCloseNoThrow
  PROVE  ExportTyped'
  BY ClosedTyped DEF RollbackAndCloseNoThrow, ExportTyped

LEMMA CrashTyped == ASSUME ExportTyped, Crash PROVE committed' = committed => ExportTyped'
  <1>1. CallOK'
    BY DEF ExportTyped, Crash, CallOK
  <1> QED
    BY <1>1 DEF ExportTyped, Crash

(* A record is being exported only inside the loops. *)
CallInLoop ==
    call.step # "none" => phase \in {"breweries", "dead"} \/ (phase = "users" /\ next > 1)

LEMMA StepTyped ==
  ASSUME RunTypeOK, CallInLoop, [RunNext]_allVars
  PROVE  RunTypeOK'
  <1>0. ExportTyped /\ RunTyped
    BY TypedParts
  <1> SUFFICES ExportTyped' /\ RunTyped'
    BY TypedParts DEF RunTypeOK, ExportTyped, RunTyped
  <1> USE DEF RunTyped
  <1>1. CASE RunInitializes
    <2>1. CASE InitializeSucceeds
      <3>1. ExportTyped'
        BY <1>0, <2>1 DEF InitializeSucceeds, ExportTyped, CallOK
      <3> QED
        BY <1>0, <1>1, <2>1, <3>1 DEF RunInitializes, Phases, ReturnsFailure
    <2>2. CASE InitializeFails
      <3>1. ExportTyped'
        BY <1>0, <2>2, ExportStutters DEF InitializeFails
      <3> QED
        BY <1>0, <1>1, <2>2, <3>1 DEF RunInitializes, Phases, ReturnsFailure
    <2> QED
      BY <1>1, <2>1, <2>2 DEF RunInitializes
  <1>2. CASE SamplesCities
    <2>1. PICK n \in 0 .. MaxRecords : cities' \in [1 .. n -> Cities]
      BY <1>2 DEF SamplesCities
    <2>2. cities' \in Seq(Cities) /\ Len(cities') = n
      BY <2>1
    <2>3. ExportTyped'
      BY <1>0, <1>2, ExportStutters DEF SamplesCities
    <2>4. n <= MaxRecords
      BY ExportAssumption
    <2> QED
      BY <1>0, <1>2, <2>2, <2>3, <2>4 DEF SamplesCities, Phases
  <1>3. CASE CuratedDataFails
    <2>1. ExportTyped'
      BY <1>0, <1>3, ExportStutters DEF CuratedDataFails
    <2> QED
      BY <1>0, <1>3, <2>1 DEF CuratedDataFails, ReturnsFailure, Phases
  <1>4. CASE SkipsCity
    <2>1. ExportTyped'
      BY <1>0, <1>4, ExportStutters DEF SkipsCity
    <2>2. next' \in 1 .. MaxRecords + 1
      BY <1>0, <1>4, ExportAssumption DEF SkipsCity
    <2> QED
      BY <1>0, <1>4, <2>1, <2>2 DEF SkipsCity
  <1>5. CASE GeneratesRecord
    <2> DEFINE r == [kind |-> KindOfPhase[phase], nr |-> next, city |-> cities[next]]
    <2>1. next' \in 1 .. MaxRecords + 1 /\ next \in 1 .. MaxRecords /\ cities[next] \in Cities
      BY <1>0, <1>5, ExportAssumption DEF GeneratesRecord
    <2>2. KindOfPhase[phase] \in Kinds
      BY <1>5 DEF GeneratesRecord, InLoop, KindOfPhase, Kinds
    <2>3. r \in Records /\ StartExport(r) /\ generated' = generated \cup {r}
      BY <1>5, <2>1, <2>2 DEF GeneratesRecord, Records
    <2> HIDE DEF r
    <2>4. CallOK' /\ handle
      BY <2>3 DEF StartExport, CallOK
    <2>5. ExportTyped'
      BY <1>0, <2>3, <2>4 DEF ExportTyped, StartExport, connection
    <2> QED
      BY <1>0, <1>5, <2>1, <2>3, <2>5 DEF GeneratesRecord
  <1>6. CASE Exports
    BY <1>0, <1>6, ProcessRecordTyped DEF Exports, runVars
  <1>7. CASE LoopEnds
    <2>1. ExportTyped'
      BY <1>0, <1>7, ExportStutters DEF LoopEnds
    <2> QED
      BY <1>0, <1>7, <2>1, ExportAssumption DEF LoopEnds, Phases
  <1>8. CASE Finalizes
    <2>1. ExportTyped'
      BY <1>0, <1>8, ClosedTyped DEF Finalizes, CommitSucceeds, CallInLoop, ExportTyped
    <2> QED
      BY <1>0, <1>8, <2>1 DEF Finalizes, Phases
  <1>9. CASE FinalizeFails
    <2>1. ExportTyped'
      BY <1>0, <1>9, RollbackTyped DEF FinalizeFails, CommitFails, CallInLoop
    <2> QED
      BY <1>0, <1>9, <2>1 DEF FinalizeFails, ReturnsFailure, Phases
  <1>10. CASE ReturnsSuccess
    <2>1. ExportTyped'
      BY <1>0, <1>10, ExportStutters DEF ReturnsSuccess
    <2> QED
      BY <1>0, <1>10, <2>1 DEF ReturnsSuccess, Phases
  <1>11. CASE IsDestroyed
    <2>1. ExportTyped'
      BY <1>0, <1>11, ExportStutters, RollbackTyped DEF IsDestroyed, Destructor, CallInLoop
    <2> QED
      BY <1>0, <1>11, <2>1 DEF IsDestroyed, Phases
  <1>12. CASE Dies
    <2>1. ExportTyped'
      BY <1>0, <1>12, CrashTyped DEF Dies, Crash
    <2> QED
      BY <1>0, <1>12, <2>1 DEF Dies, Phases
  <1>13. CASE UNCHANGED allVars
    <2>1. ExportTyped'
      BY <1>0, <1>13, ExportStutters DEF allVars
    <2> QED
      BY <1>0, <1>13, <2>1 DEF allVars, runVars
  <1> QED
    BY <1>1, <1>2, <1>3, <1>4, <1>5, <1>6, <1>7, <1>8, <1>9, <1>10, <1>11, <1>12, <1>13
    DEF RunNext, IsOver

LEMMA CallStaysInLoop ==
  ASSUME RunTypeOK, CallInLoop, [RunNext]_allVars
  PROVE  CallInLoop'
  <1>1. next \in Nat /\ next >= 1 /\ call.step \in {"none", "city", "owner", "address"}
    BY ExportAssumption DEF RunTypeOK, CallOK
  <1>2. CASE GeneratesRecord
    BY <1>1, <1>2 DEF GeneratesRecord, InLoop, CallInLoop
  <1>3. CASE Exports
    <2>1. call.step # "none"
      BY <1>3 DEF Exports, ProcessRecord, CityIsKnown, InsertsCity, CityFails, InsertsOwner,
             OwnerFails, InsertsAddress, AddressFails
    <2> QED
      BY <1>3, <2>1 DEF Exports, runVars, CallInLoop
  <1>4. CASE /\ call' = call
             /\ call.step = "none" \/ UNCHANGED <<phase, next>> \/ phase' = "dead"
    BY <1>4 DEF CallInLoop
  <1>5. CASE RunInitializes
    BY <1>5, <1>4 DEF RunInitializes, InitializeSucceeds, InitializeFails, exportVars, CallInLoop
  <1>6. CASE SamplesCities \/ CuratedDataFails
    BY <1>6, <1>4, <1>1 DEF SamplesCities, CuratedDataFails, exportVars, CallInLoop
  <1>7. CASE SkipsCity \/ LoopEnds
    BY <1>7, <1>4 DEF SkipsCity, LoopEnds, InLoop, exportVars
  <1>8. CASE Finalizes \/ FinalizeFails \/ ReturnsSuccess \/ IsDestroyed
    <2>1. call' = call
      BY <1>8 DEF Finalizes, FinalizeFails, ReturnsSuccess, IsDestroyed, CommitSucceeds,
             CommitFails, RollbackAndCloseNoThrow, Closed, Destructor, exportVars
    <2> QED
      BY <1>8, <1>4, <2>1 DEF Finalizes, FinalizeFails, ReturnsSuccess, IsDestroyed, CallInLoop
  <1>9. CASE Dies
    BY <1>9, <1>4 DEF Dies, Crash
  <1>10. CASE UNCHANGED allVars
    BY <1>10, <1>4 DEF allVars, exportVars, runVars
  <1> QED
    BY <1>2, <1>3, <1>5, <1>6, <1>7, <1>8, <1>9, <1>10 DEF RunNext, IsOver

(* Type correctness: the state of the run and its exporter is well typed,  *)
(* and records are exported only while the connection is open.             *)
THEOREM RunTypeCorrect == RunSpec => []RunTypeOK
  <1>1. RunInit => RunTypeOK /\ CallInLoop
    BY InitTyped DEF RunInit, ExportInit, CallInLoop, NoCall
  <1>2. RunTypeOK /\ CallInLoop /\ [RunNext]_allVars => (RunTypeOK /\ CallInLoop)'
    BY StepTyped, CallStaysInLoop
  <1> QED
    BY <1>1, <1>2, PTL DEF RunSpec

-----------------------------------------------------------------------------
(* What is in the tables while the transaction lives. *)

LEMMA OwnersTyped ==
  ASSUME RunTypeOK, NEW k \in Kinds
  PROVE  /\ Owners(k) \in Seq(Records) /\ Len(Owners(k)) \in Nat
         /\ Addresses(k) \in Seq(AddressRows) /\ Len(Addresses(k)) \in Nat
         /\ db["cities"] \in Seq(Cities) /\ Len(db["cities"]) \in Nat
  <1>1. OwnerTable[k] \in OwnerTables /\ AddressTable[k] \in AddressTables
    BY TableNames
  <1>2. Owners(k) \in Seq(Records) /\ Addresses(k) \in Seq(AddressRows) /\ db["cities"] \in Seq(Cities)
    BY <1>1 DEF RunTypeOK, TablesOK, Owners, Addresses
  <1> QED
    BY <1>2

LEMMA RecordIs ==
  ASSUME NEW r \in Records
  PROVE  /\ r = [kind |-> r.kind, nr |-> r.nr, city |-> r.city]
         /\ r.kind \in Kinds /\ r.nr \in 1 .. MaxRecords /\ r.city \in Cities
  BY DEF Records

(* The records found are those of the owners whose address is there. *)
LEMMA FoundIs ==
  ASSUME RunTypeOK, OwnersRight, AddressesRight
  PROVE  Found(db) = UNION {{Owners(k)[j] : j \in 1 .. Len(Addresses(k))} : k \in Kinds}
  <1>1. ASSUME NEW k \in Kinds, NEW j \in 1 .. Len(Addresses(k))
        PROVE  [kind |-> k, nr |-> Owners(k)[Addresses(k)[j].owner].nr,
                city |-> db["cities"][Addresses(k)[j].city]] = Owners(k)[j]
    <2>1. j \in 1 .. Len(Owners(k))
      BY <1>1, OwnersTyped DEF AddressesRight
    <2>2. Owners(k)[j] \in Records /\ Owners(k)[j].kind = k
      BY <1>1, <2>1, OwnersTyped DEF OwnersRight
    <2>3. Addresses(k)[j].owner = j /\ db["cities"][Addresses(k)[j].city] = Owners(k)[j].city
      BY <1>1 DEF AddressesRight
    <2> QED
      BY <2>2, <2>3, RecordIs
  <1>2. ASSUME NEW k \in Kinds
        PROVE  {[kind |-> k, nr |-> Owners(k)[Addresses(k)[j].owner].nr,
                 city |-> db["cities"][Addresses(k)[j].city]] : j \in 1 .. Len(Addresses(k))}
               = {Owners(k)[j] : j \in 1 .. Len(Addresses(k))}
    BY <1>1, <1>2
  <1>3. Found(db) = UNION {{[kind |-> k, nr |-> Owners(k)[Addresses(k)[j].owner].nr,
                             city |-> db["cities"][Addresses(k)[j].city]] :
                              j \in 1 .. Len(Addresses(k))} : k \in Kinds}
    BY DEF Found, Owners, Addresses
  <1> QED
    BY <1>2, <1>3

LEMMA TablesAreComplete ==
  ASSUME RunTypeOK, Progress, OwnersRight, AddressesRight
  PROVE  Found(db) = Accepted
  <1>1. ASSUME NEW k \in Kinds, NEW j \in 1 .. Len(Addresses(k)) PROVE Owners(k)[j] \in Accepted
    <2>1. /\ j \in 1 .. Len(Owners(k)) /\ Len(Owners(k)) \in Nat
          /\ Halfway(k) => j # Len(Owners(k))
      BY <1>1, OwnersTyped DEF AddressesRight
    <2>2. Owners(k)[j] \in generated \ rejected /\ Owners(k)[j].kind = k
      BY <1>1, <2>1 DEF OwnersRight
    <2>3. call.step # "none" => call.record # Owners(k)[j]
      <3> SUFFICES ASSUME call.step # "none", call.record = Owners(k)[j] PROVE FALSE
        OBVIOUS
      <3>1. call.record.kind = k
        BY <2>2
      <3>2. call.step = "address"
        BY <2>1, <3>1 DEF OwnersRight, RunTypeOK, CallOK
      <3>3. call.owner = Len(Owners(k)) /\ Owners(k)[call.owner] = Owners(k)[j] /\ call.owner >= 1
        BY <3>1, <3>2 DEF OwnersRight
      <3>4. call.owner = j
        BY <1>1, <2>1, <3>3 DEF OwnersRight
      <3> QED
        BY <2>1, <3>1, <3>2, <3>3, <3>4 DEF Halfway
    <2> QED
      BY <2>2, <2>3 DEF Accepted
  <1>2. ASSUME NEW r \in Accepted
        PROVE  \E k \in Kinds : \E j \in 1 .. Len(Addresses(k)) : r = Owners(k)[j]
    <2>1. r \in generated \ rejected /\ (call.step # "none" => call.record # r) /\ r.kind \in Kinds
      BY RecordIs DEF Accepted, RunTypeOK
    <2>2. PICK i \in 1 .. Len(Owners(r.kind)) : Owners(r.kind)[i] = r
      BY <2>1 DEF OwnersRight
    <2>3. i \in 1 .. Len(Addresses(r.kind))
      <3>1. CASE Halfway(r.kind)
        <4>1. i # Len(Owners(r.kind))
          BY <2>1, <2>2, <3>1 DEF Halfway, OwnersRight
        <4> QED
          BY <2>1, <4>1, <3>1, OwnersTyped DEF AddressesRight
      <3>2. CASE ~Halfway(r.kind)
        BY <2>1, <3>2 DEF AddressesRight
      <3> QED
        BY <3>1, <3>2
    <2> QED
      BY <2>1, <2>2, <2>3
  <1>3. Found(db) = UNION {{Owners(k)[j] : j \in 1 .. Len(Addresses(k))} : k \in Kinds}
    BY FoundIs
  <1>4. \A r \in Found(db) : r \in Accepted
    BY <1>1, <1>3
  <1>5. \A r \in Accepted : r \in Found(db)
    BY <1>2, <1>3
  <1> QED
    BY <1>4, <1>5

LEMMA NothingIsOrphaned ==
  ASSUME RunTypeOK, OwnersRight, AddressesRight, call.step # "address"
  PROVE  NoOrphans(db)
  <1> SUFFICES ASSUME NEW k \in Kinds
               PROVE  /\ \A i \in 1 .. Len(Owners(k)) : Cardinality(AddressesOf(db, k, i)) = 1
                      /\ \A i, j \in 1 .. Len(Owners(k)) : Owners(k)[i] = Owners(k)[j] => i = j
    BY DEF NoOrphans, Owners
  <1>1. Len(Addresses(k)) = Len(Owners(k))
    BY DEF AddressesRight, Halfway
  <1>2. ASSUME NEW i \in 1 .. Len(Owners(k)) PROVE AddressesOf(db, k, i) = {i}
    BY <1>1, <1>2 DEF AddressesOf, AddressesRight, Addresses
  <1>3. \A i \in 1 .. Len(Owners(k)) : Cardinality(AddressesOf(db, k, i)) = 1
    BY <1>2, FS_Singleton
  <1>4. \A i, j \in 1 .. Len(Owners(k)) : Owners(k)[i] = Owners(k)[j] => i = j
    BY DEF OwnersRight
  <1> QED
    BY <1>3, <1>4

LEMMA NothingInEmpty == Found(Empty) = {} /\ NoOrphans(Empty)
  <1>1. \A t \in Tables : Empty[t] = <<>>
    BY DEF Empty
  <1>2. \A k \in Kinds : Len(Empty[OwnerTable[k]]) = 0 /\ Len(Empty[AddressTable[k]]) = 0
    BY <1>1, TableNames
  <1>3. Found(Empty) = {}
    BY <1>2 DEF Found
  <1> QED
    BY <1>2, <1>3 DEF NoOrphans

-----------------------------------------------------------------------------
(* The steps of an export inside a living transaction. *)

AliveParts ==
    /\ disk = Empty /\ stuck \subseteq {"cities"}
    /\ OwnersRight /\ AddressesRight /\ CitiesRight

LEMMA AliveIs ==
  Alive <=> (engineTx => /\ AliveParts /\ ~committed
                         /\ phase \in {"sampling", "users", "breweries", "finalizing", "returned"})
  BY DEF Alive, AliveParts

(* The tables other than the one that gets a row stay as they are. *)
LEMMA AfterInsert ==
  ASSUME RunTypeOK, engineTx, NEW t \in Tables, NEW row \in RowOf(t), InsertSucceeds(t, row)
  PROVE  /\ disk' = disk /\ stuck' = stuck /\ committed' = committed /\ faults' = faults
         /\ engineTx' = engineTx /\ handle' = handle
         /\ \A u \in Tables : db'[u] = IF u = t THEN Append(db[u], row) ELSE db[u]
  <1>1. db = [u \in Tables |-> db[u]]
    BY DEF RunTypeOK, TablesOK
  <1> QED
    BY <1>1 DEF InsertSucceeds, connection

LEMMA GeneratesAlive ==
  ASSUME RunTypeOK, Progress, AliveParts, GeneratesRecord
  PROVE  AliveParts'
  <1> DEFINE r == [kind |-> KindOfPhase[phase], nr |-> next, city |-> cities[next]]
  <1>1. /\ call.step = "none" /\ call' = [step |-> "city", record |-> r]
        /\ generated' = generated \cup {r}
        /\ UNCHANGED <<stuck, cache, rejected, db, disk>>
    BY DEF GeneratesRecord, InLoop, StartExport
  <1>2. r \notin generated
    BY DEF GeneratesRecord, InLoop, Progress, KindOfPhase, RunTypeOK
  <1>3. r \notin rejected
    BY <1>2 DEF Progress
  <1> HIDE DEF r
  <1>4. call'.step = "city" /\ call'.record = r
    BY <1>1
  <1>5. \A k \in Kinds : Owners(k)' = Owners(k) /\ Addresses(k)' = Addresses(k) /\ ~Halfway(k) /\ ~Halfway(k)'
    BY <1>1, <1>4 DEF Owners, Addresses, Halfway
  <1>6. r.kind \in Kinds
    BY DEF r, GeneratesRecord, InLoop, KindOfPhase, Kinds
  <1>7. \A q \in generated : q.kind \in Kinds
    BY RecordIs DEF RunTypeOK
  <1>8. OwnersRight'
    <2>1. \A k \in Kinds : \A i \in 1 .. Len(Owners(k)) :
            Owners(k)[i] \in generated \ rejected /\ Owners(k)[i].kind = k /\ Owners(k)[i] # r
      BY <1>2 DEF AliveParts, OwnersRight
    <2>2. \A q \in generated \ rejected : \E i \in 1 .. Len(Owners(q.kind)) : Owners(q.kind)[i] = q
      BY <1>1 DEF AliveParts, OwnersRight
    <2>3. \A k \in Kinds : \A i \in 1 .. Len(Owners(k)') :
            Owners(k)'[i] \in generated' \ rejected' /\ Owners(k)'[i].kind = k
      BY <1>1, <1>5, <2>1
    <2>4. \A k \in Kinds : \A i, j \in 1 .. Len(Owners(k)') :
            Owners(k)'[i] = Owners(k)'[j] => i = j
      BY <1>5 DEF AliveParts, OwnersRight
    <2>5. \A q \in generated' \ rejected' :
             q = r \/ \E i \in 1 .. Len(Owners(q.kind)') : Owners(q.kind)'[i] = q
      BY <1>1, <1>5, <1>7, <2>2
    <2>6. \A k \in Kinds : \A i \in 1 .. Len(Owners(k)') : Owners(k)'[i] # call'.record
      BY <1>4, <1>5, <2>1
    <2> QED
      BY <1>4, <1>6, <2>3, <2>4, <2>5, <2>6 DEF OwnersRight
  <1>9. AddressesRight'
    BY <1>1, <1>5 DEF AliveParts, AddressesRight
  <1>10. CitiesRight'
    BY <1>1, <1>4 DEF AliveParts, CitiesRight
  <1> QED
    BY <1>1, <1>8, <1>9, <1>10 DEF AliveParts

LEMMA KnownCityAlive ==
  ASSUME RunTypeOK, AliveParts, CityIsKnown, generated' = generated
  PROVE  AliveParts'
  <1>1. /\ call.step = "city" /\ call'.step = "owner" /\ call'.record = call.record
        /\ call'.city = cache[call.record.city] /\ call.record.city \in DOMAIN cache
        /\ UNCHANGED <<stuck, cache, rejected, db, disk>>
    BY DEF CityIsKnown, HasCity
  <1>2. \A k \in Kinds : Owners(k)' = Owners(k) /\ Addresses(k)' = Addresses(k) /\ ~Halfway(k) /\ ~Halfway(k)'
    BY <1>1 DEF Owners, Addresses, Halfway
  <1>3. OwnersRight'
    BY <1>1 DEF AliveParts, OwnersRight, Owners
  <1>4. AddressesRight'
    BY <1>1, <1>2 DEF AliveParts, AddressesRight
  <1>5. CitiesRight'
    BY <1>1 DEF AliveParts, CitiesRight
  <1> QED
    BY <1>1, <1>3, <1>4, <1>5 DEF AliveParts

(* Rows are appended: what stood in a table stands where it stood. *)
LEMMA AppendKeeps ==
  ASSUME NEW S, NEW q \in Seq(S), NEW x \in S
  PROVE  /\ Len(Append(q, x)) = Len(q) + 1
         /\ \A i \in 1 .. Len(q) : i \in 1 .. Len(Append(q, x)) /\ Append(q, x)[i] = q[i]
         /\ Append(q, x)[Len(q) + 1] = x
         /\ \A i \in 1 .. Len(Append(q, x)) : i \in 1 .. Len(q) \/ i = Len(q) + 1
  OBVIOUS

LEMMA NewCityAlive ==
  ASSUME RunTypeOK, AliveParts, engineTx, InsertsCity, generated' = generated
  PROVE  AliveParts'
  <1> DEFINE c == call.record.city
             n == Len(db["cities"]) + 1
  <1>0. ExportTyped
    BY TypedParts
  <1>1. /\ call.step = "city" /\ c \notin DOMAIN cache /\ InsertSucceeds("cities", c)
        /\ cache' = [d \in DOMAIN cache \cup {c} |->
                       IF d = c THEN Len(db'["cities"]) ELSE cache[d]]
        /\ call'.step = "owner" /\ call'.record = call.record
        /\ call'.city = Len(db'["cities"]) /\ rejected' = rejected
    BY DEF InsertsCity, HasCity
  <1>2. c \in Cities /\ c \in RowOf("cities")
    BY <1>0, <1>1, CallFields DEF RowOf
  <1>3. /\ disk' = disk /\ stuck' = stuck
        /\ \A u \in Tables : db'[u] = IF u = "cities" THEN Append(db[u], c) ELSE db[u]
    <2>1. "cities" \in Tables /\ InsertSucceeds("cities", c) /\ c \in RowOf("cities")
      BY <1>1, <1>2, TableNames
    <2> HIDE DEF c
    <2> QED
      BY <2>1, AfterInsert
  <1>4. \A k \in Kinds : Owners(k)' = Owners(k) /\ Addresses(k)' = Addresses(k) /\ ~Halfway(k) /\ ~Halfway(k)'
    BY <1>1, <1>3, TableNames DEF Owners, Addresses, Halfway
  <1>5. /\ Len(db'["cities"]) = n /\ n \in Nat
        /\ \A i \in 1 .. Len(db["cities"]) :
              i \in 1 .. Len(db'["cities"]) /\ db'["cities"][i] = db["cities"][i]
        /\ n \in 1 .. Len(db'["cities"]) /\ db'["cities"][n] = c
    <2>1. db["cities"] \in Seq(Cities) /\ db'["cities"] = Append(db["cities"], c)
      BY <1>3, TableNames DEF RunTypeOK, TablesOK
    <2> QED
      BY <1>2, <2>1
  <1> HIDE DEF c, n
  <1>6. OwnersRight'
    <2>1. \A q \in generated : q.kind \in Kinds
      BY RecordIs DEF RunTypeOK
    <2>2. call.record.kind \in Kinds
      BY <1>0, <1>1, CallFields
    <2> QED
      BY <1>1, <1>4, <2>1, <2>2 DEF AliveParts, OwnersRight
  <1>7. AddressesRight'
    <2> SUFFICES ASSUME NEW k \in Kinds
                 PROVE  /\ Len(Addresses(k)) = Len(Owners(k))
                        /\ \A j \in 1 .. Len(Addresses(k)) :
                              /\ Addresses(k)[j].owner = j
                              /\ Addresses(k)[j].city \in 1 .. Len(db'["cities"])
                              /\ db'["cities"][Addresses(k)[j].city] = Owners(k)[j].city
      BY <1>4 DEF AddressesRight
    <2> QED
      BY <1>4, <1>5 DEF AliveParts, AddressesRight
  <1>8. CitiesRight'
    <2>1. \A d \in DOMAIN cache' :
            cache'[d] \in 1 .. Len(db'["cities"]) /\ db'["cities"][cache'[d]] = d
      BY <1>1, <1>5 DEF AliveParts, CitiesRight
    <2>2. call'.city \in 1 .. Len(db'["cities"]) /\ db'["cities"][call'.city] = call'.record.city
      BY <1>1, <1>5 DEF c
    <2> QED
      BY <2>1, <2>2 DEF CitiesRight
  <1> QED
    BY <1>3, <1>6, <1>7, <1>8 DEF AliveParts

(* A city that SQLite takes for another one, or whose statement is stuck.  *)
LEMMA CityFailsAlive ==
  ASSUME RunTypeOK, AliveParts, CityFails, engineTx', generated' = generated
  PROVE  AliveParts'
  <1>0. ExportTyped
    BY TypedParts
  <1>1. call.step = "city" /\ call'.step = "none" /\ rejected' = rejected \cup {call.record}
        /\ cache' = cache
    BY DEF CityFails, Throws, NoCall
  <1>2. UNCHANGED <<db, disk>> /\ stuck' \subseteq stuck \cup {"cities"}
    BY DEF CityFails, BindFails, InsertFaults, InsertRejected
  <1>3. \A k \in Kinds : Owners(k)' = Owners(k) /\ Addresses(k)' = Addresses(k) /\ ~Halfway(k) /\ ~Halfway(k)'
    BY <1>1, <1>2 DEF Owners, Addresses, Halfway
  <1>4. OwnersRight'
    <2>1. \A q \in generated : q.kind \in Kinds
      BY RecordIs DEF RunTypeOK
    <2>2. \A k \in Kinds : \A i \in 1 .. Len(Owners(k)) :
            Owners(k)[i] \in generated \ rejected' /\ Owners(k)[i].kind = k
      <3> SUFFICES ASSUME NEW k \in Kinds, NEW i \in 1 .. Len(Owners(k))
                   PROVE  Owners(k)[i] \in generated \ rejected' /\ Owners(k)[i].kind = k
        OBVIOUS
      <3>1. Owners(k)[i] \in generated \ rejected /\ Owners(k)[i].kind = k
        BY DEF AliveParts, OwnersRight
      <3>2. Owners(k)[i] # call.record
        BY <1>1, <3>1 DEF AliveParts, OwnersRight
      <3> QED
        BY <1>1, <3>1, <3>2
    <2>3. \A q \in generated \ rejected' : \E i \in 1 .. Len(Owners(q.kind)) : Owners(q.kind)[i] = q
      BY <1>1 DEF AliveParts, OwnersRight
    <2>4. \A k \in Kinds : \A i \in 1 .. Len(Owners(k)') :
            Owners(k)'[i] \in generated' \ rejected' /\ Owners(k)'[i].kind = k
      BY <1>3, <2>2
    <2>5. \A k \in Kinds : \A i, j \in 1 .. Len(Owners(k)') :
            Owners(k)'[i] = Owners(k)'[j] => i = j
      BY <1>3 DEF AliveParts, OwnersRight
    <2>6. \A q \in generated' \ rejected' :
             \E i \in 1 .. Len(Owners(q.kind)') : Owners(q.kind)'[i] = q
      BY <1>3, <2>1, <2>3
    <2> QED
      BY <1>1, <2>4, <2>5, <2>6 DEF OwnersRight
  <1>5. AddressesRight'
    BY <1>2, <1>3 DEF AliveParts, AddressesRight
  <1>6. CitiesRight'
    BY <1>1, <1>2 DEF AliveParts, CitiesRight
  <1> QED
    BY <1>2, <1>4, <1>5, <1>6 DEF AliveParts

(* Nothing is stuck at the other tables, and the city is there. *)
LEMMA LaterInsertsSucceed ==
  ASSUME RunTypeOK, AliveParts, OwnerFails \/ AddressFails
  PROVE  ~engineTx'
  <1>0. ExportTyped
    BY TypedParts
  <1>1. call.step \in {"owner", "address"} /\ call.record.kind \in Kinds
    BY <1>0, CallFields DEF OwnerFails, AddressFails
  <1>2. OwnerTable[call.record.kind] \notin stuck /\ AddressTable[call.record.kind] \notin stuck
    BY <1>1, TableNames DEF AliveParts
  <1>3. CityExists
    BY <1>1 DEF AliveParts, CitiesRight, CityExists
  <1> QED
    BY <1>2, <1>3 DEF OwnerFails, AddressFails, BindFails, InsertFaults

LEMMA OwnerAlive ==
  ASSUME RunTypeOK, Progress, AliveParts, engineTx, InsertsOwner, generated' = generated
  PROVE  AliveParts'
  <1>0. ExportTyped
    BY TypedParts
  <1>b. PICK r : r = call.record
    OBVIOUS
  <1> DEFINE t == OwnerTable[r.kind]
             n == Len(Owners(r.kind)) + 1
  <1>1. /\ call.step = "owner" /\ InsertSucceeds(t, r)
        /\ call'.step = "address" /\ call'.record = r /\ call'.city = call.city
        /\ call'.owner = Len(db'[t]) /\ cache' = cache /\ rejected' = rejected
    BY <1>b DEF InsertsOwner
  <1>2. /\ r \in Records /\ r.kind \in Kinds /\ r \in RowOf(t) /\ t \in Tables
        /\ t # "cities" /\ t \notin AddressTables /\ r \in generated \ rejected
    BY <1>b, <1>0, <1>1, CallFields, TableNames DEF RowOf, Progress
  <1>3. /\ disk' = disk /\ stuck' = stuck
        /\ \A u \in Tables : db'[u] = IF u = t THEN Append(db[u], r) ELSE db[u]
    <2>1. InsertSucceeds(t, r) /\ r \in RowOf(t) /\ t \in Tables
      BY <1>1, <1>2
    <2> HIDE DEF t
    <2> QED
      BY <2>1, AfterInsert
  <1>4. /\ db'["cities"] = db["cities"]
        /\ \A k \in Kinds : /\ Addresses(k)' = Addresses(k)
                            /\ Owners(k)' = IF k = r.kind THEN Append(Owners(k), r) ELSE Owners(k)
    BY <1>2, <1>3, TableNames DEF Owners, Addresses
  <1>5. \A k \in Kinds : ~Halfway(k) /\ (Halfway(k)' <=> k = r.kind)
    BY <1>b, <1>1 DEF Halfway
  <1>6. /\ n \in Nat /\ n >= 1 /\ n - 1 = Len(Owners(r.kind)) /\ Len(Owners(r.kind)') = n
        /\ Owners(r.kind)'[n] = r
        /\ \A i \in 1 .. Len(Owners(r.kind)) : Owners(r.kind)'[i] = Owners(r.kind)[i]
        /\ \A i \in 1 .. n : i \in 1 .. Len(Owners(r.kind)) \/ i = n
    <2>1. Owners(r.kind) \in Seq(Records) /\ Owners(r.kind)' = Append(Owners(r.kind), r)
      BY <1>2, <1>4, OwnersTyped
    <2> QED
      BY <1>2, <2>1
  <1>7. call'.owner = n
    BY <1>1, <1>6 DEF Owners
  <1> HIDE DEF t, n
  <1>8. \A i \in 1 .. Len(Owners(r.kind)) : Owners(r.kind)[i] # r
    BY <1>b, <1>1 DEF AliveParts, OwnersRight
  <1>9. \A k \in Kinds : \A i \in 1 .. Len(Owners(k)) :
          /\ i \in 1 .. Len(Owners(k)') /\ Owners(k)'[i] = Owners(k)[i]
    BY <1>2, <1>4, <1>6
  <1>10. \A k \in Kinds : \A i \in 1 .. Len(Owners(k)') :
           i \in 1 .. Len(Owners(k)) \/ (k = r.kind /\ i = n)
    BY <1>2, <1>4, <1>6
  <1>11. OwnersRight'
    <2>1. \A k \in Kinds : \A i \in 1 .. Len(Owners(k)') :
            Owners(k)'[i] \in generated \ rejected /\ Owners(k)'[i].kind = k
      BY <1>2, <1>6, <1>9, <1>10 DEF AliveParts, OwnersRight
    <2>2. \A k \in Kinds : \A i, j \in 1 .. Len(Owners(k)') :
            Owners(k)'[i] = Owners(k)'[j] => i = j
      BY <1>6, <1>8, <1>9, <1>10 DEF AliveParts, OwnersRight
    <2>3. ASSUME NEW q \in generated \ rejected
          PROVE  \E i \in 1 .. Len(Owners(q.kind)') : Owners(q.kind)'[i] = q
      <3>1. q.kind \in Kinds
        BY RecordIs DEF RunTypeOK
      <3>2. CASE q = r
        BY <1>6, <3>1, <3>2
      <3>3. CASE q # r
        <4>1. PICK i \in 1 .. Len(Owners(q.kind)) : Owners(q.kind)[i] = q
          BY <1>b, <1>1, <3>3 DEF AliveParts, OwnersRight
        <4> QED
          BY <1>9, <3>1, <4>1
      <3> QED
        BY <3>2, <3>3
    <2>4. /\ call'.owner = Len(Owners(r.kind)') /\ call'.owner >= 1
          /\ Owners(r.kind)'[call'.owner] = r
      BY <1>6, <1>7
    <2> QED
      BY <1>1, <2>1, <2>2, <2>3, <2>4 DEF OwnersRight
  <1>12. AddressesRight'
    <2> SUFFICES ASSUME NEW k \in Kinds
                 PROVE  /\ Len(Addresses(k)') = IF k = r.kind THEN Len(Owners(k)') - 1
                                                ELSE Len(Owners(k)')
                        /\ \A j \in 1 .. Len(Addresses(k)') :
                              /\ Addresses(k)'[j].owner = j
                              /\ Addresses(k)'[j].city \in 1 .. Len(db'["cities"])
                              /\ db'["cities"][Addresses(k)'[j].city] = Owners(k)'[j].city
      BY <1>5 DEF AddressesRight
    <2>1. Len(Addresses(k)) = Len(Owners(k))
      BY <1>5 DEF AliveParts, AddressesRight
    <2>2. Len(Addresses(k)') = IF k = r.kind THEN Len(Owners(k)') - 1 ELSE Len(Owners(k)')
      BY <1>4, <1>6, <2>1
    <2>3. \A j \in 1 .. Len(Addresses(k)) : Owners(k)'[j] = Owners(k)[j]
      BY <1>9, <2>1
    <2> QED
      BY <1>4, <2>2, <2>3 DEF AliveParts, AddressesRight
  <1>13. CitiesRight'
    BY <1>b, <1>1, <1>4 DEF AliveParts, CitiesRight
  <1> QED
    BY <1>3, <1>11, <1>12, <1>13 DEF AliveParts

LEMMA AddressAlive ==
  ASSUME RunTypeOK, AliveParts, engineTx, InsertsAddress, generated' = generated
  PROVE  AliveParts'
  <1>0. ExportTyped
    BY TypedParts
  <1>1. PICK r : r = call.record
    OBVIOUS
  <1>2. PICK row : row = [owner |-> call.owner, city |-> call.city]
    OBVIOUS
  <1> DEFINE t == AddressTable[r.kind]
             n == Len(Addresses(r.kind)) + 1
  <1>3. /\ call.step = "address" /\ InsertSucceeds(t, row) /\ call'.step = "none"
        /\ cache' = cache /\ rejected' = rejected
    BY <1>1, <1>2 DEF InsertsAddress, NoCall
  <1>4. /\ r.kind \in Kinds /\ row \in RowOf(t) /\ t \in Tables
        /\ t # "cities" /\ t \in AddressTables
    <2>1. r.kind \in Kinds
      BY <1>0, <1>1, <1>3, CallFields
    <2>2. t \in AddressTables /\ t # "cities" /\ t \notin OwnerTables /\ t \in Tables
      BY <2>1, TableNames
    <2>3. row \in AddressRows
      BY <1>0, <1>2, <1>3 DEF AddressRows, ExportTyped, CallOK
    <2> QED
      BY <2>1, <2>2, <2>3 DEF RowOf
  <1>5. /\ disk' = disk /\ stuck' = stuck
        /\ \A u \in Tables : db'[u] = IF u = t THEN Append(db[u], row) ELSE db[u]
    <2>1. InsertSucceeds(t, row) /\ row \in RowOf(t) /\ t \in Tables
      BY <1>3, <1>4
    <2> HIDE DEF t
    <2> QED
      BY <2>1, AfterInsert
  <1>6. /\ db'["cities"] = db["cities"]
        /\ \A k \in Kinds : /\ Owners(k)' = Owners(k)
                            /\ Addresses(k)' = IF k = r.kind THEN Append(Addresses(k), row)
                                              ELSE Addresses(k)
    BY <1>4, <1>5, TableNames DEF Owners, Addresses
  <1>7. \A k \in Kinds : ~Halfway(k)' /\ (Halfway(k) <=> k = r.kind)
    BY <1>1, <1>3 DEF Halfway
  <1>8. /\ n \in Nat /\ n >= 1 /\ Len(Addresses(r.kind)) \in Nat
        /\ n = Len(Owners(r.kind)) /\ row.owner = n
    BY <1>1, <1>2, <1>3, <1>4, <1>7, OwnersTyped DEF AliveParts, AddressesRight, OwnersRight
  <1>9. /\ Len(Addresses(r.kind)') = n /\ Addresses(r.kind)'[n] = row
        /\ \A i \in 1 .. Len(Addresses(r.kind)) : Addresses(r.kind)'[i] = Addresses(r.kind)[i]
        /\ \A i \in 1 .. n : i \in 1 .. Len(Addresses(r.kind)) \/ i = n
    <2>1. Addresses(r.kind) \in Seq(AddressRows) /\ row \in AddressRows
          /\ Addresses(r.kind)' = Append(Addresses(r.kind), row)
      BY <1>4, <1>6, OwnersTyped, TableNames DEF RowOf
    <2> QED
      BY <1>8, <2>1
  <1>10. /\ row.city \in 1 .. Len(db["cities"]) /\ db["cities"][row.city] = r.city
         /\ Owners(r.kind)[n] = r
    BY <1>1, <1>2, <1>3, <1>8 DEF AliveParts, CitiesRight, OwnersRight
  <1> HIDE DEF t, n
  <1>11. OwnersRight'
    <2>1. \A q \in generated : q.kind \in Kinds
      BY RecordIs DEF RunTypeOK
    <2> QED
      BY <1>3, <1>6, <2>1 DEF AliveParts, OwnersRight
  <1>12. AddressesRight'
    <2> SUFFICES ASSUME NEW k \in Kinds
                 PROVE  /\ Len(Addresses(k)') = Len(Owners(k))
                        /\ \A j \in 1 .. Len(Addresses(k)') :
                              /\ Addresses(k)'[j].owner = j
                              /\ Addresses(k)'[j].city \in 1 .. Len(db["cities"])
                              /\ db["cities"][Addresses(k)'[j].city] = Owners(k)[j].city
      BY <1>6, <1>7 DEF AddressesRight
    <2>1. CASE k # r.kind
      BY <1>6, <1>7, <2>1 DEF AliveParts, AddressesRight
    <2>2. CASE k = r.kind
      <3>1. Len(Addresses(k)') = Len(Owners(k))
        BY <1>8, <1>9, <2>2
      <3>2. \A j \in 1 .. Len(Addresses(k)) :
              /\ Addresses(k)[j].owner = j
              /\ Addresses(k)[j].city \in 1 .. Len(db["cities"])
              /\ db["cities"][Addresses(k)[j].city] = Owners(k)[j].city
        BY DEF AliveParts, AddressesRight
      <3> SUFFICES ASSUME NEW j \in 1 .. n
                   PROVE  /\ Addresses(k)'[j].owner = j
                          /\ Addresses(k)'[j].city \in 1 .. Len(db["cities"])
                          /\ db["cities"][Addresses(k)'[j].city] = Owners(k)[j].city
        BY <1>8, <1>9, <2>2, <3>1
      <3>3. CASE j = n
        BY <1>8, <1>9, <1>10, <2>2, <3>3
      <3>4. CASE j \in 1 .. Len(Addresses(k))
        BY <1>9, <2>2, <3>2, <3>4
      <3> QED
        BY <1>9, <2>2, <3>3, <3>4
    <2> QED
      BY <2>1, <2>2
  <1>13. CitiesRight'
    BY <1>3, <1>6 DEF AliveParts, CitiesRight
  <1> QED
    BY <1>5, <1>11, <1>12, <1>13 DEF AliveParts

LEMMA ExportsAlive ==
  ASSUME RunTypeOK, Progress, AliveParts, engineTx, engineTx', ProcessRecord, generated' = generated
  PROVE  AliveParts'
  BY KnownCityAlive, NewCityAlive, CityFailsAlive, LaterInsertsSucceed, OwnerAlive, AddressAlive
  DEF ProcessRecord

(* No step of an export begins a transaction or commits one, and one that  *)
(* loses it is an engine error.                                            *)
LEMMA ExportsFrame ==
  ASSUME ExportTyped, ProcessRecord
  PROVE  /\ committed' = committed /\ (engineTx' => engineTx)
         /\ engineTx /\ ~engineTx' => faults' # faults /\ disk' = disk
         /\ engineTx => disk' = disk
         /\ faults' = faults => engineTx' = engineTx
  <1>1. PICK t : CityIsKnown \/ (\E row : InsertSucceeds(t, row))
                 \/ BindFails(t) \/ InsertFaults(t) \/ InsertRejected(t)
    BY DEF ProcessRecord, InsertsCity, CityFails, InsertsOwner, OwnerFails, InsertsAddress, AddressFails
  <1>2. CASE CityIsKnown
    BY <1>2 DEF CityIsKnown, connection
  <1>3. CASE \E row : InsertSucceeds(t, row)
    BY <1>3 DEF InsertSucceeds, connection
  <1>4. CASE BindFails(t) \/ InsertRejected(t)
    BY <1>4 DEF BindFails, InsertRejected, connection
  <1>5. CASE InsertFaults(t)
    BY <1>5 DEF InsertFaults, ExportTyped
  <1> QED
    BY <1>1, <1>2, <1>3, <1>4, <1>5

-----------------------------------------------------------------------------
(* The invariant holds at first and is kept. *)

LEMMA StartsRight == RunInit => IInv
  <1> SUFFICES ASSUME RunInit PROVE IInv
    OBVIOUS
  <1>1. RunTypeOK
    BY InitTyped
  <1>2. Progress
    BY DEF RunInit, ExportInit, Progress, NoCall
  <1>3. Outcome
    BY DEF RunInit, ExportInit, Outcome
  <1>4. Alive /\ Whole
    BY DEF RunInit, ExportInit, Alive, Whole
  <1> QED
    BY <1>1, <1>2, <1>3, <1>4 DEF IInv

LEMMA ProgressInLoop ==
  ASSUME RunTypeOK, Progress
  PROVE  CallInLoop
  <1> SUFFICES ASSUME call.step # "none", phase = "users" PROVE next > 1
    BY DEF Progress, CallInLoop
  <1>1. call.record.nr < next /\ call.record.nr \in 1 .. MaxRecords /\ next \in Nat
    BY TypedParts, CallFields DEF Progress, RunTypeOK
  <1> QED
    BY <1>1, ExportAssumption

(* A call keeps its record until it ends; a record that is refused was     *)
(* generated.                                                              *)
LEMMA CallKeepsRecord ==
  ASSUME ProcessRecord
  PROVE  /\ call.step # "none"
         /\ \/ rejected' = rejected /\ (call'.step # "none" => call'.record = call.record)
            \/ rejected' = rejected \cup {call.record} /\ call'.step = "none"
  <1>1. CASE CityIsKnown \/ InsertsCity
    BY <1>1 DEF CityIsKnown, InsertsCity, HasCity
  <1>2. CASE CityFails \/ OwnerFails \/ AddressFails
    BY <1>2 DEF CityFails, OwnerFails, AddressFails, Throws, NoCall
  <1>3. CASE InsertsOwner \/ InsertsAddress
    BY <1>3 DEF InsertsOwner, InsertsAddress, NoCall
  <1> QED
    BY <1>1, <1>2, <1>3 DEF ProcessRecord

LEMMA ProgressIsMade ==
  ASSUME RunTypeOK, Progress, [RunNext]_allVars
  PROVE  Progress'
  <1>0. CallInLoop
    BY ProgressInLoop
  <1>1. CASE RunInitializes
    BY <1>1 DEF RunInitializes, InitializeSucceeds, InitializeFails, ReturnsFailure, exportVars, Progress
  <1>2. CASE SamplesCities
    BY <1>2 DEF SamplesCities, exportVars, Progress
  <1>3. CASE CuratedDataFails
    BY <1>0, <1>3 DEF CuratedDataFails, ReturnsFailure, exportVars, Progress, CallInLoop
  <1>4. CASE SkipsCity
    <2>1. /\ UNCHANGED <<rejected, generated, call, phase>> /\ phase \in {"users", "breweries"}
          /\ next' = next + 1 /\ next \in Nat
      BY <1>4 DEF SkipsCity, InLoop, exportVars, RunTypeOK
    <2>2. \A r \in generated : r.nr \in Nat
      BY RecordIs DEF RunTypeOK
    <2> QED
      BY <2>1, <2>2 DEF Progress
  <1>5. CASE GeneratesRecord
    <2> DEFINE r == [kind |-> KindOfPhase[phase], nr |-> next, city |-> cities[next]]
    <2>1. /\ phase \in {"users", "breweries"} /\ call' = [step |-> "city", record |-> r]
          /\ generated' = generated \cup {r} /\ UNCHANGED <<rejected, phase>>
          /\ next' = next + 1 /\ next \in Nat
      BY <1>5 DEF GeneratesRecord, InLoop, StartExport, RunTypeOK
    <2>2. \A q \in generated : q.nr \in Nat
      BY RecordIs DEF RunTypeOK
    <2>3. r \notin generated
      BY <2>1 DEF Progress, KindOfPhase
    <2>4. r.nr = next /\ (phase = "users" => r.kind = "user")
      BY DEF KindOfPhase
    <2> HIDE DEF r
    <2>5. call'.step = "city" /\ call'.record = r
      BY <2>1
    <2> QED
      BY <2>1, <2>2, <2>3, <2>4, <2>5 DEF Progress
  <1>6. CASE Exports
    <2>1. /\ UNCHANGED <<phase, next, generated>> /\ phase \in {"users", "breweries"}
      BY <1>6 DEF Exports, runVars
    <2>2. /\ call.step # "none"
          /\ \/ rejected' = rejected /\ (call'.step # "none" => call'.record = call.record)
             \/ rejected' = rejected \cup {call.record} /\ call'.step = "none"
      BY <1>6, CallKeepsRecord DEF Exports
    <2> QED
      BY <2>1, <2>2 DEF Progress
  <1>7. CASE LoopEnds
    BY <1>7 DEF LoopEnds, InLoop, exportVars, Progress
  <1>8. CASE Finalizes \/ FinalizeFails
    BY <1>0, <1>8 DEF Finalizes, FinalizeFails, CommitSucceeds, CommitFails, Closed,
       RollbackAndCloseNoThrow, ReturnsFailure, CallInLoop, Progress
  <1>9. CASE ReturnsSuccess \/ IsDestroyed
    BY <1>0, <1>9 DEF ReturnsSuccess, IsDestroyed, Destructor, Closed,
       RollbackAndCloseNoThrow, exportVars, CallInLoop, Progress
  <1>10. CASE Dies
    BY <1>10 DEF Dies, Crash, Progress
  <1>11. CASE UNCHANGED allVars
    BY <1>11 DEF allVars, exportVars, runVars, Progress
  <1> QED
    BY <1>1, <1>2, <1>3, <1>4, <1>5, <1>6, <1>7, <1>8, <1>9, <1>10, <1>11 DEF RunNext, IsOver

LEMMA AliveStays ==
  ASSUME Alive, UNCHANGED <<disk, committed, stuck, db, cache, call, rejected, generated>>,
         engineTx' => engineTx /\ phase' \in {"users", "breweries", "finalizing", "returned"}
  PROVE  Alive'
  BY DEF Alive, OwnersRight, AddressesRight, CitiesRight, Owners, Addresses, Halfway

LEMMA StaysAlive ==
  ASSUME IInv, [RunNext]_allVars
  PROVE  Alive'
  <1> SUFFICES ASSUME engineTx' PROVE Alive'
    BY DEF Alive
  <1> USE DEF IInv
  <1>1. CASE RunInitializes
    <2>1. CASE InitializeSucceeds
      <3>1. /\ stuck' = {} /\ cache' = <<>> /\ db' = Empty /\ disk' = Empty /\ rejected' = {}
            /\ generated' = {} /\ call'.step = "none" /\ phase' = "sampling" /\ committed' = FALSE
        BY <1>1, <2>1 DEF RunInitializes, InitializeSucceeds, InitializeFails, Progress, Outcome,
           RunTypeOK, exportVars
      <3>2. \A k \in Kinds : Len(Empty[OwnerTable[k]]) = 0 /\ Len(Empty[AddressTable[k]]) = 0
        BY TableNames DEF Empty
      <3>3. \A k \in Kinds : Len(Owners(k)') = 0 /\ Len(Addresses(k)') = 0 /\ ~Halfway(k)'
        BY <3>1, <3>2 DEF Owners, Addresses, Halfway
      <3>4. OwnersRight' /\ AddressesRight' /\ CitiesRight'
        BY <3>1, <3>3 DEF OwnersRight, AddressesRight, CitiesRight
      <3> QED
        BY <3>1, <3>4 DEF Alive
    <2>2. CASE InitializeFails
      BY <2>2, <1>1 DEF InitializeFails, exportVars, Alive, RunInitializes, ReturnsFailure, RunTypeOK
    <2> QED
      BY <1>1, <2>1, <2>2 DEF RunInitializes
  <1>2. CASE SamplesCities \/ CuratedDataFails \/ SkipsCity \/ LoopEnds
    BY <1>2, AliveStays DEF SamplesCities, CuratedDataFails, SkipsCity, LoopEnds, InLoop,
       ReturnsFailure, exportVars
  <1>3. CASE GeneratesRecord
    <2>1. engineTx /\ UNCHANGED <<committed, phase>>
      BY <1>3 DEF GeneratesRecord, StartExport, connection
    <2>2. AliveParts'
      BY <1>3, <2>1, AliveIs, GeneratesAlive
    <2> QED
      BY <2>1, <2>2, AliveIs DEF Alive, AliveParts
  <1>4. CASE Exports
    <2>1. ProcessRecord /\ UNCHANGED <<phase, generated>>
      BY <1>4 DEF Exports, runVars
    <2>2. engineTx /\ committed' = committed
      BY <2>1, ExportsFrame, TypedParts
    <2>3. AliveParts'
      BY <2>1, <2>2, AliveIs, ExportsAlive
    <2> QED
      BY <2>1, <2>2, <2>3, AliveIs DEF Alive, AliveParts
  <1>5. CASE Finalizes \/ FinalizeFails \/ Dies
    BY <1>5 DEF Finalizes, FinalizeFails, CommitSucceeds, CommitFails, Closed,
       RollbackAndCloseNoThrow, Dies, Crash
  <1>6. CASE ReturnsSuccess
    BY <1>6 DEF ReturnsSuccess, Alive, exportVars
  <1>7. CASE IsDestroyed
    <2>1. handle
      BY <1>7 DEF IsDestroyed, Destructor, RunTypeOK, exportVars
    <2> QED
      BY <1>7, <2>1 DEF IsDestroyed, Destructor, RollbackAndCloseNoThrow, Closed
  <1>8. CASE UNCHANGED allVars
    <2>1. UNCHANGED <<disk, committed, stuck, db, cache, call, rejected, generated, engineTx, phase>>
      BY <1>8 DEF allVars, exportVars, runVars
    <2>2. OwnersRight' <=> OwnersRight
      BY <2>1 DEF OwnersRight, Owners
    <2>3. AddressesRight' <=> AddressesRight
      BY <2>1 DEF AddressesRight, Owners, Addresses, Halfway
    <2>4. CitiesRight' <=> CitiesRight
      BY <2>1 DEF CitiesRight
    <2> QED
      BY <2>1, <2>2, <2>3, <2>4 DEF Alive
  <1> QED
    BY <1>1, <1>2, <1>3, <1>4, <1>5, <1>6, <1>7, <1>8 DEF RunNext, IsOver

(* What is committed is what has been accepted. *)
LEMMA CommitIsComplete ==
  ASSUME IInv, Finalizes
  PROVE  /\ Found(disk') = Accepted /\ NoOrphans(disk') /\ Accepted' = Accepted
         /\ call.step = "none" /\ ~committed /\ committed' /\ result = "none" /\ result' = "none"
  <1>1. engineTx /\ disk' = db /\ committed' = TRUE /\ UNCHANGED <<call, rejected, generated, result>>
    BY DEF Finalizes, CommitSucceeds, Closed
  <1>2. call.step = "none" /\ result = "none"
    BY DEF IInv, Progress, Finalizes, Outcome
  <1> QED
    BY <1>1, <1>2, TablesAreComplete, NothingIsOrphaned DEF IInv, Alive, Accepted

LEMMA AcceptedSame ==
  ASSUME UNCHANGED <<generated, rejected, call>>
  PROVE  Accepted' = Accepted
  BY DEF Accepted

LEMMA OutcomeIsKept ==
  ASSUME IInv, [RunNext]_allVars
  PROVE  Outcome'
  <1> USE DEF IInv
  <1>0. committed \in BOOLEAN
    BY DEF RunTypeOK
  <1>1. CASE Finalizes
    BY <1>1, CommitIsComplete DEF Finalizes, Outcome
  <1>2. CASE RunInitializes
    <2>1. committed' = committed /\ ~committed
      BY <1>0, <1>2 DEF RunInitializes, InitializeSucceeds, InitializeFails, exportVars, Outcome
    <2> QED
      BY <1>2, <2>1 DEF RunInitializes, ReturnsFailure, Outcome
  <1>3. CASE SamplesCities \/ CuratedDataFails \/ SkipsCity \/ LoopEnds
    <2>1. committed' = committed /\ ~committed
      BY <1>0, <1>3 DEF SamplesCities, CuratedDataFails, SkipsCity, LoopEnds, InLoop, exportVars, Outcome
    <2> QED
      BY <1>3, <2>1 DEF SamplesCities, CuratedDataFails, SkipsCity, LoopEnds, InLoop, ReturnsFailure, Outcome
  <1>4. CASE GeneratesRecord
    BY <1>0, <1>4 DEF GeneratesRecord, InLoop, StartExport, Outcome
  <1>5. CASE Exports
    <2>1. committed' = committed
      BY <1>5, ExportsFrame, TypedParts DEF Exports
    <2> QED
      BY <1>0, <1>5, <2>1 DEF Exports, runVars, Outcome
  <1>6. CASE FinalizeFails
    BY <1>0, <1>6 DEF FinalizeFails, CommitFails, RollbackAndCloseNoThrow, ReturnsFailure, Outcome
  <1>7. CASE ReturnsSuccess \/ IsDestroyed \/ Dies \/ UNCHANGED allVars
    <2>1. UNCHANGED <<generated, rejected, call, committed, disk>>
      BY <1>7 DEF ReturnsSuccess, IsDestroyed, Destructor, RollbackAndCloseNoThrow, Closed, Dies, Crash,
         allVars, exportVars, runVars
    <2>2. Accepted' = Accepted
      BY <2>1, AcceptedSame
    <2>3. committed => Found(disk)' = Accepted' /\ NoOrphans(disk)'
      BY <2>1, <2>2 DEF Outcome
    <2>4. CASE ReturnsSuccess
      BY <2>1, <2>3, <2>4 DEF ReturnsSuccess, Outcome
    <2>5. CASE IsDestroyed
      BY <2>1, <2>3, <2>5 DEF IsDestroyed, Outcome
    <2>6. CASE Dies
      BY <2>1, <2>3, <2>6 DEF Dies, Outcome
    <2>7. CASE UNCHANGED allVars
      BY <2>1, <2>3, <2>7 DEF allVars, runVars, Outcome
    <2> QED
      BY <1>7, <2>4, <2>5, <2>6, <2>7
  <1> QED
    BY <1>1, <1>2, <1>3, <1>4, <1>5, <1>6, <1>7 DEF RunNext, IsOver

LEMMA StaysWhole ==
  ASSUME IInv, [RunNext]_allVars
  PROVE  Whole'
  <1> USE DEF IInv
  <1>0. committed \in BOOLEAN /\ faults \in Nat
    BY DEF RunTypeOK
  <1>1. CASE Finalizes
    BY <1>1 DEF Finalizes, CommitSucceeds, Whole
  <1>2. CASE RunInitializes
    BY <1>2 DEF RunInitializes, InitializeSucceeds, InitializeFails, ReturnsFailure, exportVars, Whole
  <1>3. CASE SamplesCities \/ CuratedDataFails \/ SkipsCity \/ LoopEnds
    BY <1>3 DEF SamplesCities, CuratedDataFails, SkipsCity, LoopEnds, InLoop, ReturnsFailure, exportVars, Whole
  <1>4. CASE GeneratesRecord
    BY <1>4 DEF GeneratesRecord, InLoop, StartExport, connection, Whole
  <1>5. CASE Exports
    <2>1. /\ committed' = committed /\ phase' = phase /\ phase \in {"users", "breweries"}
          /\ engineTx => disk' = disk
          /\ faults' = faults => engineTx' = engineTx
      BY <1>5, ExportsFrame, TypedParts DEF Exports, runVars
    <2>2. faults' = 0 => faults = 0
      <3>1. ExportTyped' /\ ExportTyped
        BY <1>5, TypedParts, ProcessRecordTyped DEF Exports
      <3>2. PICK t : CityIsKnown \/ (\E row : InsertSucceeds(t, row))
                     \/ BindFails(t) \/ InsertFaults(t) \/ InsertRejected(t)
        BY <1>5 DEF Exports, ProcessRecord, InsertsCity, CityFails, InsertsOwner, OwnerFails,
           InsertsAddress, AddressFails
      <3> QED
        BY <1>0, <3>2 DEF CityIsKnown, InsertSucceeds, BindFails, InsertFaults, InsertRejected
    <2> QED
      BY <2>1, <2>2 DEF Whole
  <1>6. CASE FinalizeFails
    BY <1>6 DEF FinalizeFails, CommitFails, RollbackAndCloseNoThrow, Closed, ReturnsFailure, Whole
  <1>7. CASE ReturnsSuccess
    BY <1>7 DEF ReturnsSuccess, exportVars, Whole
  <1>8. CASE IsDestroyed
    BY <1>8 DEF IsDestroyed, Destructor, RollbackAndCloseNoThrow, Closed, exportVars, Whole
  <1>9. CASE Dies
    BY <1>9 DEF Dies, Crash, Whole
  <1>10. CASE UNCHANGED allVars
    BY <1>10 DEF allVars, exportVars, runVars, Whole
  <1> QED
    BY <1>1, <1>2, <1>3, <1>4, <1>5, <1>6, <1>7, <1>8, <1>9, <1>10 DEF RunNext, IsOver

LEMMA RunContinues == IInv /\ [RunNext]_allVars => IInv'
  BY StepTyped, ProgressInLoop, ProgressIsMade, OutcomeIsKept, StaysAlive, StaysWhole DEF IInv

LEMMA RunInvariant == RunSpec => []IInv
  <1> QED
    BY StartsRight, RunContinues, PTL DEF RunSpec

-----------------------------------------------------------------------------
(* The theorems. *)

(* While the engine's transaction lives, city_cache_ names the rows of its *)
(* cities and the tables hold the records accepted, each with its address. *)
THEOREM CachesStayRight == RunSpec => []CachesAreRight
  <1>1. IInv => CachesAreRight
    BY TablesAreComplete, NothingIsOrphaned DEF IInv, CachesAreRight, Alive, CitiesRight, RunTypeOK
  <1> QED
    BY <1>1, RunInvariant, PTL

(* When Run returns true the file holds every record that was accepted,    *)
(* whatever the engine did to the transaction on the way.                  *)
THEOREM SuccessMeansComplete == RunSpec => []SuccessIsComplete
  <1>1. IInv => SuccessIsComplete
    BY DEF IInv, Outcome, SuccessIsComplete
  <1> QED
    BY <1>1, RunInvariant, PTL

(* Without engine errors the file holds nothing or the whole batch,        *)
(* wherever the process dies.                                              *)
THEOREM RunIsAllOrNothing == RunSpec => []AllOrNothing
  <1>1. IInv => AllOrNothing
    BY NothingInEmpty DEF IInv, Outcome, Whole, AllOrNothing, RunTypeOK
  <1> QED
    BY <1>1, RunInvariant, PTL

-----------------------------------------------------------------------------
(* The refinement. *)

LEMMA StartsLikeAtomicExport == RunInit => Export!Init
  BY NothingInEmpty DEF RunInit, ExportInit, Export!Init, Accepted

LEMMA Unseen ==
  ASSUME UNCHANGED <<Accepted, disk, committed, result>>
  PROVE  UNCHANGED Export!vars
  BY DEF Export!vars

LEMMA ReportsFailure ==
  ASSUME IInv, UNCHANGED <<generated, rejected, call, disk, committed>>, ReturnsFailure,
         result = "none", ~committed
  PROVE  Export!Report
  BY AcceptedSame DEF ReturnsFailure, Export!Report

(* Only an insert of an address adds to the batch, and nothing to the file. *)
LEMMA ExportAccepts ==
  ASSUME IInv, Exports, faults' = 0
  PROVE  (\E r \in Records : Export!Accept(r)) \/ UNCHANGED Export!vars
  <1> USE DEF IInv
  <1>1. /\ ProcessRecord /\ UNCHANGED <<generated, result>> /\ phase \in {"users", "breweries"}
    BY DEF Exports, runVars
  <1>2. ExportTyped /\ faults \in Nat /\ committed \in BOOLEAN
    BY TypedParts DEF ExportTyped
  <1>3. PICK r : r = call.record
    OBVIOUS
  <1>4. call.step # "none" /\ r \in Records /\ r \in generated \ rejected
    BY <1>1, <1>2, <1>3, CallKeepsRecord, CallFields DEF Progress
  <1>5. result = "none" /\ ~committed
    BY <1>1, <1>2 DEF Outcome
  <1>6. committed' = committed /\ disk' = disk
    <2>1. faults = 0
      <3>1. PICK t : CityIsKnown \/ (\E row : InsertSucceeds(t, row))
                     \/ BindFails(t) \/ InsertFaults(t) \/ InsertRejected(t)
        BY <1>1 DEF ProcessRecord, InsertsCity, CityFails, InsertsOwner, OwnerFails,
           InsertsAddress, AddressFails
      <3> QED
        BY <1>2, <3>1 DEF CityIsKnown, InsertSucceeds, BindFails, InsertFaults, InsertRejected
    <2> QED
      BY <1>1, <1>2, <2>1, ExportsFrame DEF Whole
  <1>7. CASE InsertsAddress
    <2>1. call'.step = "none" /\ rejected' = rejected
      BY <1>7 DEF InsertsAddress, NoCall
    <2>2. Accepted' = Accepted \cup {r}
      BY <1>1, <1>3, <1>4, <2>1 DEF Accepted
    <2>3. Export!Accept(r)
      BY <1>1, <1>5, <1>6, <2>2 DEF Export!Accept
    <2> QED
      BY <1>4, <2>3
  <1>8. CASE CityFails \/ OwnerFails \/ AddressFails
    <2>1. call'.step = "none" /\ rejected' = rejected \cup {r}
      BY <1>3, <1>8 DEF CityFails, OwnerFails, AddressFails, Throws, NoCall
    <2>2. Accepted' = Accepted
      BY <1>1, <1>3, <1>4, <2>1 DEF Accepted
    <2> QED
      BY <1>1, <1>6, <2>2, Unseen
  <1>9. CASE CityIsKnown \/ InsertsCity \/ InsertsOwner
    <2>1. call'.step # "none" /\ call'.record = r /\ rejected' = rejected
      BY <1>3, <1>9 DEF CityIsKnown, InsertsCity, InsertsOwner, HasCity
    <2>2. Accepted' = Accepted
      BY <1>1, <1>3, <1>4, <2>1 DEF Accepted
    <2> QED
      BY <1>1, <1>6, <2>2, Unseen
  <1> QED
    BY <1>1, <1>7, <1>8, <1>9 DEF ProcessRecord

LEMMA StepRefines ==
  ASSUME IInv, [RunNext]_allVars
  PROVE  [Export!Next \/ faults' # 0]_(Export!vars)
  <1> USE DEF IInv
  <1>0. committed \in BOOLEAN
    BY DEF RunTypeOK
  <1>1. CASE RunInitializes
    <2>1. UNCHANGED <<generated, rejected, call, disk, committed>> /\ result = "none" /\ ~committed
      BY <1>0, <1>1 DEF RunInitializes, InitializeSucceeds, InitializeFails, ReturnsFailure, exportVars, Outcome
    <2>2. CASE ReturnsFailure
      BY <2>1, <2>2, ReportsFailure DEF Export!Next
    <2>3. CASE result' = result
      BY <2>1, <2>3, AcceptedSame, Unseen
    <2> QED
      BY <1>1, <2>2, <2>3 DEF RunInitializes
  <1>2. CASE SamplesCities \/ SkipsCity \/ LoopEnds
    <2>1. UNCHANGED <<generated, rejected, call, disk, committed, result>>
      BY <1>2 DEF SamplesCities, SkipsCity, LoopEnds, exportVars
    <2> QED
      BY <2>1, AcceptedSame, Unseen
  <1>3. CASE CuratedDataFails
    <2>1. UNCHANGED <<generated, rejected, call, disk, committed>> /\ result = "none" /\ ~committed
      BY <1>0, <1>3 DEF CuratedDataFails, ReturnsFailure, exportVars, Outcome
    <2> QED
      BY <1>3, <2>1, ReportsFailure DEF CuratedDataFails, Export!Next
  <1>4. CASE GeneratesRecord
    <2>1. PICK r : /\ generated' = generated \cup {r} /\ call' = [step |-> "city", record |-> r]
                   /\ r = [kind |-> KindOfPhase[phase], nr |-> next, city |-> cities[next]]
      BY <1>4 DEF GeneratesRecord, StartExport
    <2>2. r \notin generated
      BY <1>4, <2>1 DEF GeneratesRecord, InLoop, Progress, KindOfPhase, RunTypeOK
    <2>3. call.step = "none" /\ call'.step # "none" /\ call'.record = r /\ rejected' = rejected
      BY <1>4, <2>1 DEF GeneratesRecord, InLoop, StartExport
    <2>4. Accepted' = Accepted
      BY <2>1, <2>2, <2>3 DEF Accepted
    <2> QED
      BY <1>4, <2>4, Unseen DEF GeneratesRecord, StartExport
  <1>5. CASE Exports
    BY <1>5, ExportAccepts DEF Export!Next
  <1>6. CASE Finalizes
    BY <1>6, CommitIsComplete DEF Export!Next, Export!Seal
  <1>7. CASE FinalizeFails
    <2>1. UNCHANGED <<generated, rejected, call, disk, committed>> /\ result = "none" /\ ~committed
      BY <1>0, <1>7 DEF FinalizeFails, CommitFails, RollbackAndCloseNoThrow, Closed, ReturnsFailure, Outcome
    <2> QED
      BY <1>7, <2>1, ReportsFailure DEF FinalizeFails, Export!Next
  <1>8. CASE ReturnsSuccess
    <2>1. UNCHANGED <<generated, rejected, call, disk, committed>> /\ result = "none" /\ committed
          /\ result' = "success"
      BY <1>8 DEF ReturnsSuccess, exportVars, Outcome
    <2> QED
      BY <2>1, AcceptedSame DEF Export!Next, Export!Report
  <1>9. CASE IsDestroyed \/ Dies \/ UNCHANGED allVars
    <2>1. UNCHANGED <<generated, rejected, call, disk, committed, result>>
      BY <1>9 DEF IsDestroyed, Destructor, RollbackAndCloseNoThrow, Closed, Dies, Crash,
         allVars, exportVars, runVars
    <2> QED
      BY <2>1, AcceptedSame, Unseen
  <1> QED
    BY <1>1, <1>2, <1>3, <1>4, <1>5, <1>6, <1>7, <1>8, <1>9 DEF RunNext, IsOver

(* Until the first engine error every step of a run is a step of the       *)
(* atomic export, or none of its business.                                 *)
THEOREM RunIsAtomic == RunSpec => ImplementsAtomicExport
  <1>1. IInv /\ [RunNext]_allVars => [Export!Next \/ faults' # 0]_(Export!vars)
    BY StepRefines
  <1> QED
    BY <1>1, StartsLikeAtomicExport, RunInvariant, PTL DEF RunSpec, ImplementsAtomicExport

-----------------------------------------------------------------------------
(* Generation: the inductive invariant. *)

Attempted == Nat \X Nat
Endings == [end : {"record", "malformed", "failed", "transient"},
            of : Attempted]

GenerationTypeOK ==
    /\ backend \in {"llama", "openai"}
    /\ n_ctx \in Nat
    /\ n_batch \in Nat
    /\ memory \in [filled : Nat, of : SUBSET Attempted]
    /\ stage \in {"idle", "infer", "decode", "sample", "validate"}
    /\ asked \in Nat
    /\ wanted \in Wanted
    /\ attempt \in Nat
    /\ prompt \in [about : Nat, errorsOf : SUBSET Nat]
    /\ pending \in Nat
    /\ sampled \in Nat
    /\ raw \in [of : Attempted, heard : SUBSET Attempted]
    /\ refused \in SUBSET Attempted
    /\ outcomes \in Seq(Endings)

(* While the answer is generated, the window has room for the batch that   *)
(* is being decoded and for all tokens that may still be sampled.          *)
RoomIsLeft ==
    /\ stage \in {"decode", "sample"} =>
         n_ctx > 1 /\ n_batch > 0 /\ sampled <= EffectiveMaxTokens
    /\ stage = "decode" =>
         /\ pending \in 1 .. n_batch
         /\ memory.filled + pending + (EffectiveMaxTokens - sampled) <= n_ctx
    /\ stage = "sample" =>
         memory.filled + (EffectiveMaxTokens - sampled) <= n_ctx

(* The calls that have ended are those before the current one, and of its  *)
(* attempts just those before the current one have been refused.           *)
AttemptsCounted ==
    /\ Len(outcomes) = (IF stage = "idle" THEN asked ELSE asked - 1)
    /\ \A c, a \in Nat : <<c, a>> \in refused => c <= asked /\ a < MaxAttempts
    /\ stage # "idle" =>
         /\ attempt < MaxAttempts
         /\ \A a \in Nat : <<asked, a>> \in refused <=> a < attempt

GenerationIInv ==
    GenerationTypeOK /\ RoomIsLeft /\ HearsOnlyItself /\ AttemptsCounted
        /\ FirstValidAnswer

(* The answer's share of the window leaves the prompt a token, and the     *)
(* prompt's share leaves the answer its own.                               *)
LEMMA BudgetsShareTheWindow ==
    ASSUME n_ctx \in Nat, n_batch \in Nat, wanted \in Wanted,
           n_ctx > 1, n_batch > 0
    PROVE  /\ EffectiveMaxTokens \in 1 .. n_ctx - 1
           /\ PromptBudget \in 1 .. n_batch
           /\ PromptBudget + EffectiveMaxTokens <= n_ctx
<1>1. InitialMaxTokens[wanted] \in Nat
  BY GenerationAssumption
<1>2. EffectiveMaxTokens \in 1 .. n_ctx - 1
  BY <1>1 DEF EffectiveMaxTokens, Lesser, Greater
<1>3. PromptBudget \in 1 .. n_batch /\ PromptBudget <= n_ctx - EffectiveMaxTokens
  BY <1>2 DEF PromptBudget, Lesser, Greater
<1> QED
  BY <1>2, <1>3

LEMMA GenerationTyped ==
    ASSUME GenerationTypeOK, [GenerationNext]_genVars
    PROVE  GenerationTypeOK'
<1>u. CASE UNCHANGED genVars
  BY <1>u DEF GenerationTypeOK, genVars, contextVars, callVars
<1>e. ASSUME NEW how \in {"record", "malformed", "failed", "transient"},
             NEW of \in Attempted, Ends(how, of)
      PROVE  stage' = "idle" /\ outcomes' \in Seq(Endings)
  BY <1>e DEF Ends, Endings, GenerationTypeOK
<1>t. This \in Attempted
  BY DEF This, Attempted, GenerationTypeOK
<1>1. ASSUME NEW kind \in Wanted, Asks(kind) PROVE GenerationTypeOK'
  BY <1>1 DEF Asks, GenerationTypeOK, contextVars, NoAnswer, Attempted
<1>2. CASE TokenizesPrompt
  <2>1. PromptBudget \in Nat
    BY <1>2, BudgetsShareTheWindow DEF TokenizesPrompt, GenerationTypeOK
  <2>2. pending' \in Nat
    BY <2>1, <1>2, GenerationAssumption DEF TokenizesPrompt, Lesser
  <2> QED
    BY <1>2, <2>2 DEF TokenizesPrompt, GenerationTypeOK, contextVars, callVars,
       Cleared
<1>3. CASE InferThrows
  BY <1>3, <1>e, <1>t DEF InferThrows, GenerationTypeOK, contextVars, callVars,
     Cleared
<1>4. CASE Decodes
  BY <1>4, <1>t DEF Decodes, Holding, GenerationTypeOK, contextVars, callVars
<1>5. CASE DecodeThrows
  BY <1>5, <1>e, <1>t DEF DecodeThrows, Holding, GenerationTypeOK, contextVars,
     callVars
<1>6. CASE SamplesToken
  BY <1>6 DEF SamplesToken, GenerationTypeOK, contextVars, callVars
<1>7. CASE StopsSampling
  BY <1>7, <1>t DEF StopsSampling, GenerationTypeOK, contextVars, callVars
<1>8. CASE SampleThrows
  BY <1>8, <1>e, <1>t DEF SampleThrows, GenerationTypeOK, contextVars, callVars
<1>9. CASE CallAnswers
  BY <1>9, <1>t DEF CallAnswers, GenerationTypeOK, contextVars, callVars
<1>10. CASE CallThrows
  BY <1>10, <1>e, <1>t DEF CallThrows, GenerationTypeOK, contextVars, callVars
<1>11. CASE ReturnsRecord
  BY <1>11, <1>e DEF ReturnsRecord, GenerationTypeOK, contextVars, callVars
<1>12. CASE RefusesAnswer
  <2>1. stage' \in {"idle", "infer"} /\ outcomes' \in Seq(Endings)
    BY <1>12, <1>e DEF RefusesAnswer, GenerationTypeOK
  <2> QED
    BY <1>12, <2>1 DEF RefusesAnswer, GenerationTypeOK, contextVars
<1> QED
  BY <1>u, <1>1, <1>2, <1>3, <1>4, <1>5, <1>6, <1>7, <1>8, <1>9, <1>10, <1>11,
     <1>12 DEF GenerationNext, IsDone

LEMMA RoomStays ==
    ASSUME GenerationIInv, [GenerationNext]_genVars
    PROVE  RoomIsLeft'
<1> USE DEF GenerationIInv, GenerationTypeOK
<1>l. ASSUME stage \in {"decode", "sample"}
      PROVE  EffectiveMaxTokens \in Nat
  BY <1>l, BudgetsShareTheWindow DEF RoomIsLeft
<1>s. ASSUME UNCHANGED <<n_ctx, wanted>> PROVE EffectiveMaxTokens' = EffectiveMaxTokens
  BY <1>s DEF EffectiveMaxTokens
<1>i. ASSUME stage' \notin {"decode", "sample"} PROVE RoomIsLeft'
  BY <1>i DEF RoomIsLeft
<1>u. CASE UNCHANGED genVars
  BY <1>u, <1>s DEF RoomIsLeft, genVars, contextVars, callVars
<1>1. CASE TokenizesPrompt
  <2>1. /\ EffectiveMaxTokens \in 1 .. n_ctx - 1
        /\ PromptBudget \in 1 .. n_batch
        /\ PromptBudget + EffectiveMaxTokens <= n_ctx
    BY <1>1, BudgetsShareTheWindow DEF TokenizesPrompt
  <2>2. pending' \in 1 .. PromptBudget
    BY <1>1, <2>1, GenerationAssumption DEF TokenizesPrompt, Lesser
  <2>3. EffectiveMaxTokens' = EffectiveMaxTokens
    BY <1>1, <1>s DEF TokenizesPrompt, contextVars, callVars
  <2> QED
    BY <1>1, <2>1, <2>2, <2>3 DEF TokenizesPrompt, Cleared, RoomIsLeft,
       contextVars, callVars
<1>2. CASE Decodes
  <2>1. EffectiveMaxTokens' = EffectiveMaxTokens
    BY <1>2, <1>s DEF Decodes, contextVars, callVars
  <2> QED
    BY <1>2, <1>l, <2>1 DEF Decodes, Holding, RoomIsLeft, contextVars, callVars
<1>3. CASE SamplesToken
  <2>1. EffectiveMaxTokens' = EffectiveMaxTokens
    BY <1>3, <1>s DEF SamplesToken, contextVars, callVars
  <2> QED
    BY <1>3, <1>l, <2>1 DEF SamplesToken, RoomIsLeft, contextVars, callVars
<1>4. ASSUME \/ \E kind \in Wanted : Asks(kind)
             \/ InferThrows \/ DecodeThrows \/ StopsSampling \/ SampleThrows
             \/ CallAnswers \/ CallThrows \/ ReturnsRecord \/ RefusesAnswer
      PROVE  RoomIsLeft'
  BY <1>4, <1>i DEF Asks, InferThrows, DecodeThrows, StopsSampling, SampleThrows,
     CallAnswers, CallThrows, ReturnsRecord, RefusesAnswer, Ends
<1> QED
  BY <1>u, <1>1, <1>2, <1>3, <1>4 DEF GenerationNext, IsDone

LEMMA OnlyItselfIsHeard ==
    ASSUME GenerationIInv, [GenerationNext]_genVars
    PROVE  HearsOnlyItself'
<1> USE DEF GenerationIInv, GenerationTypeOK, HearsOnlyItself
<1>s. ASSUME UNCHANGED callVars PROVE This' = This
  BY <1>s DEF This, callVars
<1>i. ASSUME stage' = "idle" PROVE HearsOnlyItself'
  BY <1>i
<1>u. CASE UNCHANGED genVars
  BY <1>u, <1>s DEF genVars, contextVars, callVars
<1>1. ASSUME NEW kind \in Wanted, Asks(kind) PROVE HearsOnlyItself'
  <2>1. attempt' = 0 /\ stage' = "infer"
        /\ prompt' = [about |-> asked', errorsOf |-> {}]
    BY <1>1 DEF Asks
  <2>2. {a \in {attempt' - 1} : a >= 0} = {}
    BY <2>1
  <2> QED
    BY <2>1, <2>2
<1>2. CASE TokenizesPrompt
  BY <1>2, <1>s DEF TokenizesPrompt, Cleared, callVars
<1>3. CASE Decodes
  BY <1>3, <1>s DEF Decodes, Holding, callVars
<1>4. CASE SamplesToken
  BY <1>4, <1>s DEF SamplesToken, callVars
<1>5. CASE StopsSampling
  BY <1>5, <1>s DEF StopsSampling, callVars
<1>6. CASE CallAnswers
  BY <1>6, <1>s DEF CallAnswers, callVars
<1>7. CASE RefusesAnswer
  <2>1. /\ attempt' = attempt + 1
        /\ stage' \in {"infer", "idle"}
        /\ prompt' = [about |-> asked', errorsOf |-> {attempt}]
    BY <1>7 DEF RefusesAnswer, Ends
  <2>2. {a \in {attempt' - 1} : a >= 0} = {attempt}
    BY <2>1
  <2> QED
    BY <2>1, <2>2
<1>8. ASSUME \/ InferThrows \/ DecodeThrows \/ SampleThrows \/ CallThrows
             \/ ReturnsRecord
      PROVE  HearsOnlyItself'
  BY <1>8, <1>i DEF InferThrows, DecodeThrows, SampleThrows, CallThrows,
     ReturnsRecord, Ends
<1> QED
  BY <1>u, <1>1, <1>2, <1>3, <1>4, <1>5, <1>6, <1>7, <1>8 DEF GenerationNext, IsDone

(* What FirstValidAnswer says of one call that has ended. *)
EndedWell(c, o, r) ==
    LET tried == {a \in 0 .. MaxAttempts : <<c, a>> \in r}
    IN  /\ o.of[1] = c
        /\ o.end # "malformed" => tried = 0 .. o.of[2] - 1
        /\ o.end = "malformed" => tried = 0 .. MaxAttempts - 1
        /\ o.of[2] < MaxAttempts

LEMMA AttemptsStayCounted ==
    ASSUME GenerationIInv, [GenerationNext]_genVars
    PROVE  AttemptsCounted' /\ FirstValidAnswer'
<1> USE DEF GenerationIInv
<1>m. MaxAttempts \in {2, 3}
  BY DEF MaxAttempts
<1>b. MaxAttempts' = MaxAttempts
  BY DEF MaxAttempts, GenerationNext, genVars, contextVars, Asks,
     TokenizesPrompt, InferThrows, Decodes, DecodeThrows, SamplesToken,
     StopsSampling, SampleThrows, CallAnswers, CallThrows, ReturnsRecord,
     RefusesAnswer, IsDone
<1>f. FirstValidAnswer <=> \A c \in DOMAIN outcomes : EndedWell(c, outcomes[c], refused)
  BY DEF FirstValidAnswer, EndedWell
<1>g. FirstValidAnswer' <=>
        \A c \in DOMAIN outcomes' : EndedWell(c, outcomes'[c], refused')
  BY <1>b DEF FirstValidAnswer, EndedWell
<1>t. /\ outcomes \in Seq(Endings)
      /\ asked \in Nat
      /\ attempt \in Nat
      /\ refused \subseteq Attempted
  BY DEF GenerationTypeOK
<1>s. ASSUME UNCHANGED <<asked, attempt, refused, outcomes>>,
             stage = "idle" <=> stage' = "idle"
      PROVE  AttemptsCounted' /\ FirstValidAnswer'
  BY <1>s, <1>b, <1>f, <1>g DEF AttemptsCounted
(* A call that ends with refused answers r. *)
<1>e. ASSUME NEW how, stage # "idle", Ends(how, This), UNCHANGED asked,
             refused' = refused \/ refused' = refused \cup {This},
             refused' = refused => how # "malformed",
             refused' # refused => how = "malformed" /\ attempt = MaxAttempts - 1
      PROVE  AttemptsCounted' /\ FirstValidAnswer'
  <2>1. /\ asked >= 1 /\ Len(outcomes) = asked - 1
        /\ attempt < MaxAttempts
        /\ \A a \in Nat : <<asked, a>> \in refused <=> a < attempt
        /\ \A c, a \in Nat : <<c, a>> \in refused => c <= asked /\ a < MaxAttempts
    BY <1>e, <1>t DEF AttemptsCounted
  <2>2. /\ stage' = "idle"
        /\ DOMAIN outcomes' = 1 .. asked
        /\ Len(outcomes') = asked
        /\ outcomes'[asked] = [end |-> how, of |-> This]
        /\ \A c \in DOMAIN outcomes : c < asked /\ outcomes'[c] = outcomes[c]
        /\ DOMAIN outcomes = 1 .. asked - 1
    BY <1>e, <1>t, <2>1 DEF Ends
  <2>3. AttemptsCounted'
    BY <1>e, <1>b, <1>m, <1>t, <2>1, <2>2 DEF AttemptsCounted, This
  <2>4. ASSUME NEW c \in DOMAIN outcomes
        PROVE  EndedWell(c, outcomes'[c], refused')
    <3>1. \A a \in 0 .. MaxAttempts : <<c, a>> \in refused' <=> <<c, a>> \in refused
      BY <1>e, <2>2 DEF This
    <3> QED
      BY <1>f, <2>2, <3>1 DEF EndedWell
  <2>5. EndedWell(asked, outcomes'[asked], refused')
    <3>1. CASE refused' = refused
      BY <1>e, <1>m, <1>t, <2>1, <2>2, <3>1 DEF EndedWell, This
    <3>2. CASE refused' # refused
      <4>1. \A a \in 0 .. MaxAttempts : <<asked, a>> \in refused' <=> a < MaxAttempts
        BY <1>e, <1>m, <1>t, <2>1, <3>2 DEF This
      <4> QED
        BY <1>e, <1>m, <1>t, <2>1, <2>2, <3>2, <4>1 DEF EndedWell, This
    <3> QED
      BY <3>1, <3>2
  <2> QED
    BY <1>g, <2>1, <2>2, <2>3, <2>4, <2>5
<1>1. ASSUME NEW kind \in Wanted, Asks(kind)
      PROVE  AttemptsCounted' /\ FirstValidAnswer'
  <2>1. /\ UNCHANGED <<refused, outcomes>>
        /\ stage = "idle" /\ stage' = "infer"
        /\ asked' = asked + 1 /\ attempt' = 0
    BY <1>1 DEF Asks
  <2>2. \A c, a \in Nat : <<c, a>> \in refused => c <= asked /\ a < MaxAttempts
    BY DEF AttemptsCounted
  <2>3. \A a \in Nat : <<asked', a>> \notin refused
    BY <1>t, <2>1, <2>2
  <2>4. AttemptsCounted'
    BY <1>b, <1>m, <1>t, <2>1, <2>2, <2>3 DEF AttemptsCounted
  <2> QED
    BY <1>f, <1>g, <2>1, <2>4
<1>2. CASE RefusesAnswer
  <2>1. /\ raw.of = This
        /\ stage = "validate"
        /\ refused' = refused \cup {This}
        /\ attempt' = attempt + 1
        /\ UNCHANGED asked
    BY <1>2 DEF RefusesAnswer, HearsOnlyItself
  <2>2. /\ attempt < MaxAttempts
        /\ This \notin refused
    BY <1>t, <2>1 DEF AttemptsCounted, This
  <2>3. CASE attempt + 1 < MaxAttempts
    <3>1. stage' = "infer" /\ UNCHANGED outcomes
      BY <1>2, <2>3 DEF RefusesAnswer
    <3>2. \A c, a \in Nat :
             <<c, a>> \in refused' <=>
                <<c, a>> \in refused \/ (c = asked /\ a = attempt)
      BY <1>t, <2>1 DEF This
    <3>3. AttemptsCounted'
      BY <1>b, <1>m, <1>t, <2>1, <2>2, <2>3, <3>1, <3>2 DEF AttemptsCounted
    <3>4. ASSUME NEW c \in DOMAIN outcomes
          PROVE  EndedWell(c, outcomes[c], refused')
      <4>1. c \in Nat /\ c < asked
        BY <1>t, <2>1 DEF AttemptsCounted
      <4>2. \A a \in 0 .. MaxAttempts : <<c, a>> \in refused' <=> <<c, a>> \in refused
        BY <1>m, <3>2, <4>1
      <4> QED
        BY <1>f, <4>2 DEF EndedWell
    <3> QED
      BY <1>g, <3>1, <3>3, <3>4
  <2>4. CASE ~(attempt + 1 < MaxAttempts)
    <3>1. Ends("malformed", This)
      BY <1>2, <2>1, <2>4 DEF RefusesAnswer
    <3>2. attempt = MaxAttempts - 1
      BY <1>m, <1>t, <2>2, <2>4
    <3> QED
      BY <1>e, <2>1, <2>2, <3>1, <3>2
  <2> QED
    BY <2>3, <2>4
<1>3. CASE ReturnsRecord
  <2>1. raw.of = This
    BY <1>3 DEF ReturnsRecord, HearsOnlyItself
  <2> QED
    BY <1>3, <1>e, <2>1 DEF ReturnsRecord, callVars
<1>4. CASE InferThrows
  BY <1>4, <1>e DEF InferThrows, callVars
<1>5. CASE DecodeThrows
  BY <1>5, <1>e DEF DecodeThrows, callVars
<1>6. CASE SampleThrows
  BY <1>6, <1>e DEF SampleThrows, callVars
<1>7. CASE CallThrows
  BY <1>7, <1>e DEF CallThrows, callVars
<1>8. ASSUME \/ UNCHANGED genVars
             \/ TokenizesPrompt \/ Decodes \/ SamplesToken \/ StopsSampling
             \/ CallAnswers
      PROVE  AttemptsCounted' /\ FirstValidAnswer'
  BY <1>8, <1>s DEF TokenizesPrompt, Decodes, SamplesToken, StopsSampling,
     CallAnswers, genVars, callVars
<1> QED
  BY <1>1, <1>2, <1>3, <1>4, <1>5, <1>6, <1>7, <1>8 DEF GenerationNext, IsDone

(* GenerationIInv holds initially and is kept by every step. *)
LEMMA GenerationInvariant == GenerationSpec => []GenerationIInv
<1>1. ASSUME GenerationInit PROVE GenerationIInv
  <2>1. n_ctx \in Nat /\ n_batch \in Nat
    BY <1>1, GenerationAssumption DEF GenerationInit, Lesser
  <2>2. GenerationTypeOK
    BY <1>1, <2>1 DEF GenerationInit, GenerationTypeOK, Cleared, NoAnswer,
       Attempted, Wanted
  <2> QED
    BY <1>1, <2>2 DEF GenerationInit, GenerationIInv, RoomIsLeft,
       HearsOnlyItself, AttemptsCounted, FirstValidAnswer
<1>2. ASSUME GenerationIInv, [GenerationNext]_genVars PROVE GenerationIInv'
  BY <1>2, GenerationTyped, RoomStays, OnlyItselfIsHeard, AttemptsStayCounted
     DEF GenerationIInv
<1> QED
  BY <1>1, <1>2, PTL DEF GenerationSpec

(* Whatever the sizes, llama_decode gets no batch that it has no room for. *)
THEOREM WindowHolds == GenerationSpec => []DecodeFits
<1>1. ASSUME GenerationIInv PROVE DecodeFits
  BY <1>1, BudgetsShareTheWindow
     DEF GenerationIInv, GenerationTypeOK, RoomIsLeft, DecodeFits
<1> QED
  BY <1>1, GenerationInvariant, PTL

(* No answer is given in a context that holds another attempt. *)
THEOREM ContextHolds == GenerationSpec => []HearsOnlyItself
<1>1. ASSUME GenerationIInv PROVE HearsOnlyItself
  BY <1>1 DEF GenerationIInv
<1> QED
  BY <1>1, GenerationInvariant, PTL

(* A record is the first valid answer of its own call, and only a call all *)
(* of whose attempts were refused gives up as malformed.                   *)
THEOREM AnswersHold == GenerationSpec => []FirstValidAnswer
<1>1. ASSUME GenerationIInv PROVE FirstValidAnswer
  BY <1>1 DEF GenerationIInv
<1> QED
  BY <1>1, GenerationInvariant, PTL
=============================================================================
