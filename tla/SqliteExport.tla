---------------------------- MODULE SqliteExport ----------------------------
(***************************************************************************)
(* SqliteExportService (services/sqlite) and the SQLite connection it      *)
(* drives: Initialize, both overloads of ProcessRecord with the shared     *)
(* ResolveCityId, Finalize and the destructor.                             *)
(*                                                                         *)
(* The exporter keeps its own idea of the transaction (transaction_open_)  *)
(* and of the city rows (city_cache_) beside the engine's.  One action is  *)
(* one call into SQLite with the C++ around it, so that a crash or an      *)
(* engine error can fall between any two inserts of a record.              *)
(*                                                                         *)
(* External, modelled from how the code uses it: the engine.  Row ids are  *)
(* AUTOINCREMENT keys of tables nothing is deleted from, so a table is a   *)
(* sequence and an id a position in it (sqlite_sequence is rolled back     *)
(* with the rows).  A constraint violation undoes the statement.  Running  *)
(* out of disk or memory, or an I/O error, undoes the whole transaction    *)
(* and leaves the connection in autocommit mode.  A commit is atomic.      *)
(***************************************************************************)
EXTENDS Naturals, Sequences, FiniteSets

CONSTANTS Cities,      \* values of BuildCityKey
          Identity,    \* Identity[c]: the columns of the UNIQUE of cities
          MaxRecords,  \* bound: records of either kind
          MaxFaults    \* bound: engine errors other than constraints

ASSUME ExportAssumption ==
    /\ Cities = DOMAIN Identity
    /\ MaxRecords \in Nat
    /\ MaxFaults \in Nat

Kinds == {"user", "brewery"}

\* The nr-th generated record of a kind, addressed in a city.
Records == [kind : Kinds, nr : 1 .. MaxRecords, city : Cities]

OwnerTable   == [user |-> "users", brewery |-> "breweries"]
AddressTable == [user |-> "user_addresses", brewery |-> "brewery_addresses"]

OwnerTables   == {"users", "breweries"}
AddressTables == {"user_addresses", "brewery_addresses"}
Tables == {"cities"} \cup OwnerTables \cup AddressTables

\* A row of an owner table stands for its record, a row of an address table
\* for its two foreign keys.
AddressRows == [owner : Nat, city : Nat]

Empty == [t \in Tables |-> <<>>]

\* No ProcessRecord is on the stack.
NoCall == [step |-> "none"]

VARIABLES handle,    \* db_handle_ is set
          txOpen,    \* transaction_open_
          stuck,     \* tables whose insert statement has not been reset
          cache,     \* city_cache_
          call,      \* the ProcessRecord in progress: its next step and locals
          rejected,  \* history: the records whose ProcessRecord threw
          engineTx,  \* the engine has a transaction open
          db,        \* the tables as this connection sees them
          disk,      \* the tables as they are durable
          committed, \* history: COMMIT has succeeded
          faults     \* engine errors so far

connection == <<handle, txOpen, engineTx>>
exportVars == <<handle, txOpen, stuck, cache, call, rejected, engineTx, db,
                disk, committed, faults>>

ExportInit ==
    /\ handle = FALSE
    /\ txOpen = FALSE
    /\ stuck = {}
    /\ cache = <<>>
    /\ call = NoCall
    /\ rejected = {}
    /\ engineTx = FALSE
    /\ db = Empty
    /\ disk = Empty
    /\ committed = FALSE
    /\ faults = 0

-----------------------------------------------------------------------------
(* The engine: sqlite3_step of an insert, and the end of a process. *)

\* The row is there; outside a transaction it is durable at once.
InsertSucceeds(t, row) ==
    /\ t \notin stuck
    /\ db' = [db EXCEPT ![t] = Append(@, row)]
    /\ disk' = IF engineTx THEN disk ELSE db'
    /\ UNCHANGED <<connection, stuck, committed, faults>>

\* A constraint is violated.  StepStatement throws before ResetStatement.
InsertRejected(t) ==
    /\ t \notin stuck
    /\ stuck' = stuck \cup {t}
    /\ UNCHANGED <<connection, db, disk, committed, faults>>

\* The engine fails and gives the whole transaction up.
InsertFaults(t) ==
    /\ t \notin stuck
    /\ faults < MaxFaults
    /\ faults' = faults + 1
    /\ stuck' = stuck \cup {t}
    /\ engineTx' = FALSE
    /\ db' = disk
    /\ UNCHANGED <<handle, txOpen, disk, committed>>

\* The first Bind on a statement that was not reset fails.  (Binding text
\* also releases the buffer a second time, which is undefined behaviour: the
\* process goes on and Bind throws, or it is aborted, which is a Crash.)
BindFails(t) ==
    /\ t \in stuck
    /\ UNCHANGED <<connection, stuck, db, disk, committed, faults>>

\* The process dies and an open transaction with it.
Crash ==
    /\ engineTx' = FALSE
    /\ db' = disk
    /\ UNCHANGED <<handle, txOpen, stuck, cache, call, rejected, disk, committed,
                   faults>>

-----------------------------------------------------------------------------
(* Initialize *)

\* Slip: BEGIN is left out, every insert commits on its own.
InitializeWithoutBegin ==
    /\ ~handle
    /\ handle' = TRUE
    /\ txOpen' = TRUE
    /\ UNCHANGED <<stuck, cache, call, rejected, engineTx, db, disk, committed,
                   faults>>

InitializeSucceeds ==
    /\ ~handle
    /\ handle' = TRUE
    /\ txOpen' = TRUE
    /\ engineTx' = TRUE
    /\ UNCHANGED <<stuck, cache, call, rejected, db, disk, committed, faults>>

\* Opening, creating the tables, preparing or BEGIN fails: all is closed
\* again, and a file without rows may be left.
InitializeFails ==
    /\ ~handle
    /\ UNCHANGED exportVars

-----------------------------------------------------------------------------
(* ProcessRecord *)

StartExport(r) ==
    /\ call.step = "none"
    /\ handle
    /\ txOpen
    /\ call' = [step |-> "city", record |-> r]
    /\ UNCHANGED <<connection, stuck, cache, rejected, db, disk, committed,
                   faults>>

\* The exception leaves ProcessRecord; the orchestrator counts it.
Throws ==
    /\ call' = NoCall
    /\ rejected' = rejected \cup {call.record}
    /\ UNCHANGED cache

HasCity(id) ==
    /\ call' = [step |-> "owner", record |-> call.record, city |-> id]
    /\ UNCHANGED rejected

CityIsKnown ==
    /\ call.step = "city"
    /\ call.record.city \in DOMAIN cache
    /\ HasCity(cache[call.record.city])
    /\ UNCHANGED <<connection, stuck, cache, db, disk, committed, faults>>

\* The UNIQUE of cities is narrower than the key of the cache.
CityIsTaken(c) ==
    \E i \in 1 .. Len(db["cities"]) : Identity[db["cities"][i]] = Identity[c]

\* Slip: the id is cached before the row is known to be there.
InsertsCityCachedFirst ==
    /\ call.step = "city"
    /\ call.record.city \notin DOMAIN cache
    /\ cache' = [c \in DOMAIN cache \cup {call.record.city} |->
                    IF c = call.record.city THEN Len(db["cities"]) + 1
                    ELSE cache[c]]
    /\ \/ /\ ~CityIsTaken(call.record.city)
          /\ InsertSucceeds("cities", call.record.city)
          /\ HasCity(Len(db'["cities"]))
       \/ /\ CityIsTaken(call.record.city)
          /\ InsertRejected("cities")
          /\ call' = NoCall
          /\ rejected' = rejected \cup {call.record}

InsertsCity ==
    /\ call.step = "city"
    /\ call.record.city \notin DOMAIN cache
    /\ ~CityIsTaken(call.record.city)
    /\ InsertSucceeds("cities", call.record.city)
    /\ cache' = [c \in DOMAIN cache \cup {call.record.city} |->
                    IF c = call.record.city THEN Len(db'["cities"])
                    ELSE cache[c]]
    /\ HasCity(Len(db'["cities"]))

CityFails ==
    /\ call.step = "city"
    /\ call.record.city \notin DOMAIN cache
    /\ \/ BindFails("cities")
       \/ InsertFaults("cities")
       \/ CityIsTaken(call.record.city) /\ InsertRejected("cities")
    /\ Throws

InsertsOwner ==
    /\ call.step = "owner"
    /\ LET t == OwnerTable[call.record.kind] IN
          /\ InsertSucceeds(t, call.record)
          /\ call' = [step |-> "address", record |-> call.record,
                      city |-> call.city, owner |-> Len(db'[t])]
    /\ UNCHANGED <<cache, rejected>>

\* No constraint is in the way: emails are made unique by BuildEmail.
OwnerFails ==
    /\ call.step = "owner"
    /\ LET t == OwnerTable[call.record.kind] IN BindFails(t) \/ InsertFaults(t)
    /\ Throws

\* PRAGMA foreign_keys is on.
CityExists == call.city \in 1 .. Len(db["cities"])

InsertsAddress ==
    /\ call.step = "address"
    /\ CityExists
    /\ InsertSucceeds(AddressTable[call.record.kind],
                      [owner |-> call.owner, city |-> call.city])
    /\ call' = NoCall
    /\ UNCHANGED <<cache, rejected>>

AddressFails ==
    /\ call.step = "address"
    /\ LET t == AddressTable[call.record.kind] IN
          BindFails(t) \/ InsertFaults(t) \/ (~CityExists /\ InsertRejected(t))
    /\ Throws

ProcessRecord ==
    \/ CityIsKnown \/ InsertsCity \/ CityFails
    \/ InsertsOwner \/ OwnerFails
    \/ InsertsAddress \/ AddressFails

-----------------------------------------------------------------------------
(* Finalize and the destructor *)

\* Slip: transaction_open_ is not reset.
ClosedKeepsFlag ==
    /\ handle' = FALSE
    /\ engineTx' = FALSE
    /\ stuck' = {}
    /\ cache' = <<>>
    /\ UNCHANGED <<txOpen, call, rejected, faults>>

Closed ==
    /\ handle' = FALSE
    /\ txOpen' = FALSE
    /\ engineTx' = FALSE
    /\ stuck' = {}
    /\ cache' = <<>>
    /\ UNCHANGED <<call, rejected, faults>>

\* Slip: the flag is trusted and a failed COMMIT is not noticed.
CommitSucceedsUnchecked ==
    /\ handle
    /\ Closed
    /\ disk' = db
    /\ committed' = TRUE
    /\ UNCHANGED db

CommitSucceeds ==
    /\ handle
    /\ txOpen
    /\ engineTx
    /\ Closed
    /\ disk' = db
    /\ committed' = TRUE
    /\ UNCHANGED db

\* Slip: the connection is closed with what it has instead of rolled back.
RollbackAndCloseKeepsRows ==
    /\ Closed
    /\ disk' = db
    /\ UNCHANGED <<db, committed>>

RollbackAndCloseNoThrow ==
    /\ Closed
    /\ db' = disk
    /\ UNCHANGED <<disk, committed>>

\* COMMIT fails: a reader holds the file, the disk is full, or there is no
\* transaction any more.  Nothing is rolled back then but the exception goes
\* its way all the same.
CommitFails == handle /\ RollbackAndCloseNoThrow

Destructor ==
    IF handle THEN RollbackAndCloseNoThrow ELSE UNCHANGED exportVars
=============================================================================
