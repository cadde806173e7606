----------------------------- MODULE TenantStore -----------------------------
(***************************************************************************)
(* One tenant other than "default": its row in global.db, its database     *)
(* file, and the Storage the process keeps for it (tenant/manager.py,      *)
(* storage/global_store.py, storage/storage_manager.py, the lazy           *)
(* initialisation in ws_endpoint.py, init_db of storage/storage.py with    *)
(* the schema of storage/schema.py).                                       *)
(*                                                                         *)
(* Two first requests both run init_db on the file, statement by           *)
(* statement: statements that change the schema are committed one by one,  *)
(* and the version is recorded when all are through.  Of a schema the      *)
(* model keeps what init_db can trip over: the tables that migrations      *)
(* alter, and the columns they add.                                        *)
(***************************************************************************)
EXTENDS Naturals, Sequences, FiniteSets, FiniteSetsExt

CONSTANTS
    Visitors,      \* coroutines: REST requests about the tenant, first WebSockets of its agents
    FileVersions,  \* schema versions the file may have at the start; 0 is no file
    NoStorage,
    MaxRestarts

ASSUME VisitorsAssumption ==
    FileVersions \subseteq Nat /\ NoStorage \notin Visitors /\ MaxRestarts \in Nat

SchemaVersion == 14

\* The ALTER TABLE statements of the migrations, in the order of init_db.
Alters == <<
    [version |-> 7,  table |-> "agents",        column |-> "agent_type"],
    [version |-> 7,  table |-> "agents",        column |-> "active_tasks"],
    [version |-> 8,  table |-> "agents",        column |-> "tpm_limit"],
    [version |-> 9,  table |-> "task_graphs",   column |-> "parallel_mode"],
    [version |-> 10, table |-> "agents",        column |-> "allowed_discussion_roles"],
    [version |-> 14, table |-> "pipeline_runs", column |-> "failed_phase"] >>

\* The tables they alter, in the order in which SCHEMA_SQL creates them.
Creates == <<"agents", "task_graphs", "pipeline_runs">>
Tables == {Creates[i] : i \in DOMAIN Creates}
Columns == {Alters[i].column : i \in DOMAIN Alters}
ColumnsOf(t) == {Alters[i].column : i \in {j \in DOMAIN Alters : Alters[j].table = t}}
ColumnsAt(v) == {Alters[i].column : i \in {j \in DOMAIN Alters : Alters[j].version <= v}}

\* A file as the program of version v left it: pipeline_runs came with version 12.
FileOf(v) ==
    IF v = 0 THEN [tables |-> {}, columns |-> {}, recorded |-> 0, roles |-> FALSE]
    ELSE LET ts == IF v >= 12 THEN Tables ELSE Tables \ {"pipeline_runs"} IN
         [tables |-> ts, recorded |-> v, roles |-> v >= 9,
          columns |-> ColumnsAt(v) \cap UNION {ColumnsOf(t) : t \in ts}]

VARIABLES
    began,     \* the version of the file at the start
    row,       \* the row in global.db: "none", "active", "deleted"
    file,      \* the database file
    cached,    \* StorageManager._tenants: NoStorage or the visitor that made the Storage
    deps,      \* the storage of the tenant's ConnectionHub
    vpc,       \* [Visitors -> place]
    next,      \* [Visitors -> index of the next ALTER statement]
    failed,    \* init_db has raised
    restarts

tenantVars == <<began, row, file, cached, deps, vpc, next, failed, restarts>>

InitDbPlaces == {"script", "version", "alter", "record", "roles"}
For == {"create", "connect"}
Idle == <<"none", "idle">>
VisitorPlaces == {Idle, <<"create", "insert">>, <<"delete", "evict">>}
                     \cup (For \X (InitDbPlaces \cup {"lookup"}))

TenantInit ==
    /\ began \in FileVersions
    /\ file = FileOf(began)
    /\ row = IF began = 0 THEN "none" ELSE "active"
    /\ cached = NoStorage /\ deps = NoStorage
    /\ vpc = [v \in Visitors |-> Idle]
    /\ next = [v \in Visitors |-> 1]
    /\ failed = FALSE
    /\ restarts = 0

Step(v, from, to) == vpc[v] = from /\ vpc' = [vpc EXCEPT ![v] = to]

-----------------------------------------------------------------------------
(* create_tenant, delete_tenant.                                             *)

\* get_tenant finds active rows only.
CreateTenant(v) ==
    /\ row # "active"
    /\ Step(v, Idle, <<"create", "insert">>)
    /\ UNCHANGED <<began, row, file, cached, deps, next, failed, restarts>>

\* The primary key lets one INSERT through; the other request ends with an error.
InsertTenant(v) ==
    /\ \/ row = "none" /\ row' = "active" /\ Step(v, <<"create", "insert">>, <<"create", "lookup">>)
       \/ row # "none" /\ row' = row /\ Step(v, <<"create", "insert">>, Idle)
    /\ UNCHANGED <<began, file, cached, deps, next, failed, restarts>>

\* The row is kept; whether it was active is not looked at.
DeleteTenant(v) ==
    /\ row # "none"
    /\ row' = "deleted"
    /\ Step(v, Idle, <<"delete", "evict">>)
    /\ UNCHANGED <<began, file, cached, deps, next, failed, restarts>>

RemoveTenantStorage(v) ==
    /\ Step(v, <<"delete", "evict">>, Idle)
    /\ cached' = NoStorage
    /\ UNCHANGED <<began, row, file, deps, next, failed, restarts>>

\* websocket_endpoint on a hub without storage: for whatever tenant_id the client names.
LazyConnect(v) ==
    /\ deps = NoStorage
    /\ Step(v, Idle, <<"connect", "lookup">>)
    /\ UNCHANGED <<began, row, file, cached, deps, next, failed, restarts>>

-----------------------------------------------------------------------------
(* get_tenant_storage and, on a miss, init_db; why says for whom.            *)

\* What the visitor does with the storage it gets.
Got(v, why, storage) ==
    /\ vpc' = [vpc EXCEPT ![v] = Idle]
    /\ deps' = IF why = "connect" THEN storage ELSE deps

\* MUTANT of GetTenantStorage: the storage is kept before it is initialised.
GetEagerly(v, why) ==
    /\ vpc[v] = <<why, "lookup">>
    /\ \/ cached # NoStorage /\ Got(v, why, cached) /\ UNCHANGED cached
       \/ /\ cached = NoStorage
          /\ cached' = v
          /\ Step(v, <<why, "lookup">>, <<why, "script">>)
          /\ UNCHANGED deps
    /\ UNCHANGED <<began, row, file, next, failed, restarts>>

GetTenantStorage(v, why) ==
    /\ vpc[v] = <<why, "lookup">>
    /\ \/ /\ cached # NoStorage
          /\ Got(v, why, cached)
       \/ /\ cached = NoStorage
          /\ Step(v, <<why, "lookup">>, <<why, "script">>)
          /\ UNCHANGED deps
    /\ UNCHANGED <<began, row, file, cached, next, failed, restarts>>

\* SCHEMA_SQL: CREATE TABLE IF NOT EXISTS, one committed statement at a time; a table that is missing
\* is made as of today.
Script(v, why) ==
    /\ \/ \E i \in DOMAIN Creates :
             /\ Creates[i] \notin file.tables /\ \A n \in 1..(i - 1) : Creates[n] \in file.tables
             /\ file' = [file EXCEPT !.tables = @ \cup {Creates[i]}, !.columns = @ \cup ColumnsOf(Creates[i])]
             /\ vpc[v] = <<why, "script">> /\ UNCHANGED vpc
       \/ /\ file.tables = Tables
          /\ Step(v, <<why, "script">>, <<why, "version">>)
          /\ UNCHANGED file
    /\ UNCHANGED <<began, row, cached, deps, next, failed, restarts>>

\* MAX(version), and the first migration above it; a file without a version counts as current.
ReadVersion(v, why) ==
    /\ Step(v, <<why, "version">>, <<why, "alter">>)
    /\ LET current == IF file.recorded = 0 THEN SchemaVersion ELSE file.recorded
           due == {i \in DOMAIN Alters : Alters[i].version > current}
       IN next' = [next EXCEPT ![v] = IF due = {} THEN Len(Alters) + 1 ELSE Min(due)]
    /\ UNCHANGED <<began, row, file, cached, deps, failed, restarts>>

\* ALTER TABLE ... ADD COLUMN raises when the column is there.
Alter(v, why) ==
    /\ vpc[v] = <<why, "alter">>
    /\ \/ /\ next[v] > Len(Alters)
          /\ Step(v, <<why, "alter">>, <<why, "record">>)
          /\ UNCHANGED <<file, next, failed>>
       \/ /\ next[v] <= Len(Alters) /\ Alters[next[v]].column \notin file.columns
          /\ file' = [file EXCEPT !.columns = @ \cup {Alters[next[v]].column}]
          /\ next' = [next EXCEPT ![v] = @ + 1]
          /\ UNCHANGED <<vpc, failed>>
       \/ /\ next[v] <= Len(Alters) /\ Alters[next[v]].column \in file.columns
          /\ failed' = TRUE
          /\ Step(v, <<why, "alter">>, Idle)
          /\ UNCHANGED <<file, next>>
    /\ UNCHANGED <<began, row, cached, deps, restarts>>

\* INSERT OR IGNORE INTO schema_version, and the commit.
Record(v, why) ==
    /\ Step(v, <<why, "record">>, <<why, "roles">>)
    /\ file' = [file EXCEPT !.recorded = SchemaVersion]
    /\ UNCHANGED <<began, row, cached, deps, next, failed, restarts>>

\* Default roles are seeded when there are none; then the storage is handed out.
SeedRoles(v, why) ==
    /\ vpc[v] = <<why, "roles">>
    /\ file' = [file EXCEPT !.roles = TRUE]
    /\ cached' = v
    /\ Got(v, why, v)
    /\ UNCHANGED <<began, row, next, failed, restarts>>

Restart ==
    /\ restarts < MaxRestarts
    /\ restarts' = restarts + 1
    /\ vpc' = [v \in Visitors |-> Idle]
    /\ next' = [v \in Visitors |-> 1]
    /\ cached' = NoStorage /\ deps' = NoStorage
    /\ UNCHANGED <<began, row, file, failed>>

InitDb(v, why) ==
    Script(v, why) \/ ReadVersion(v, why) \/ Alter(v, why) \/ Record(v, why) \/ SeedRoles(v, why)

VisitorStep(v) ==
    \/ InsertTenant(v)
    \/ RemoveTenantStorage(v)
    \/ \E why \in For : GetTenantStorage(v, why) \/ InitDb(v, why)

TenantNext ==
    \/ \E v \in Visitors : CreateTenant(v) \/ DeleteTenant(v) \/ LazyConnect(v) \/ VisitorStep(v)
    \/ Restart

TenantSpec == TenantInit /\ [][TenantNext]_tenantVars

-----------------------------------------------------------------------------
TenantTypes ==
    /\ began \in FileVersions
    /\ row \in {"none", "active", "deleted"}
    /\ file \in [tables : SUBSET Tables, columns : SUBSET Columns, recorded : Nat, roles : BOOLEAN]
    /\ cached \in Visitors \cup {NoStorage}
    /\ deps \in Visitors \cup {NoStorage}
    /\ vpc \in [Visitors -> VisitorPlaces]
    /\ next \in [Visitors -> 1..(Len(Alters) + 1)]
    /\ failed \in BOOLEAN
    /\ restarts \in 0..MaxRestarts

Complete == file.columns = Columns /\ file.recorded = SchemaVersion /\ file.roles

\* A Storage that a hub or the cache holds is one of a file that is complete,
\* whoever initialised it, after whatever interrupted or concurrent attempts
\* (get_tenant_storage stores it after init_db has returned).
ServedIsComplete == cached # NoStorage \/ deps # NoStorage => Complete

\* A file made by this version of the program is never too much for init_db, not
\* even one that a crash left half made and that two visitors then set up at once.
FreshNeverFails == failed => began \notin {0, SchemaVersion}

\* What the program serves is a whole database, and one of its own making opens.
TenantFilesSound == ServedIsComplete /\ FreshNeverFails

\* storage/storage.py:59, "Initialize database tables and run pending migrations": a
\* database of an earlier version is brought up to date, when nobody interferes.
UpgradeWorks == ~ failed
=============================================================================
