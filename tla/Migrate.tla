------------------------------ MODULE Migrate -------------------------------
(***************************************************************************)
(* The schema migrations at boot (src/repo/sqlite/pool.rs).  A database of *)
(* any earlier version is brought to the current one step by step, every   *)
(* step in a transaction with its version number; the daemon may be killed *)
(* at any moment and tries again at the next boot.  Some steps cannot be   *)
(* run twice.                                                              *)
(***************************************************************************)
EXTENDS Naturals, FiniteSets

CONSTANTS
  Rows,         \* services in the database that is migrated
  MaxKills      \* bound: boots that are cut short

ASSUME MigrateAssumption == MaxKills \in Nat

VARIABLES
  db,           \* the file: version rows, tables, columns and the rows of interest
  tx,           \* the open transaction: what it has written so far
  boot,         \* "down", "open", "step", "write", "up" or "failed"
  schema,       \* the version that this boot has read
  origin,       \* the database as the first boot found it
  kills

migrateVars == <<db, tx, boot, schema, origin, kills>>

Latest == 12
MaxOf(S) == CHOOSE x \in S : \A y \in S : y <= x

(* The steps.  A service row is [json, project, hosts]: whether its JSON    *)
(* can be read, whether it has a project, the host names it lists.          *)
AddTables(d, ts) == [d EXCEPT !.tables = @ \cup ts]

step_1(d) == AddTables(d, {"credentials", "services", "deployments", "artifacts", "promoted"})

(* The services are copied into a table with a project column, all into the *)
(* project "default"; what cannot be read is not copied.                    *)
step_2(d) ==
  [AddTables(d, {"projects"}) EXCEPT
     !.services = [r \in {q \in DOMAIN @ : @[q].json} |-> [@[r] EXCEPT !.project = TRUE]]]

step_3(d) == AddTables(d, {"users", "sessions", "api_tokens", "project_members"})
step_4(d) == AddTables(d, {"jobs", "job_runs"})

(* Every host name becomes a verified row; the first service keeps a name   *)
(* that two of them list.                                                   *)
step_5(d) ==
  [AddTables(d, {"service_domains"}) EXCEPT
     !.domains = UNION {d.services[r].hosts : r \in {q \in DOMAIN d.services : d.services[q].json}}]

step_6(d) == AddTables(d, {"registries"})
step_7(d) == AddTables(d, {"system_settings"})
step_8(d) == AddTables(d, {"autoscale_desired"})
step_9(d) == [d EXCEPT !.columns = @ \cup {"artifact_digest"}]
step_10(d) == [d EXCEPT !.columns = @ \cup {"created_at"}]

(* demote_stale_healthy_deployments_q: only what is promoted stays Healthy. *)
step_11(d) == [d EXCEPT !.healthy = @ \cap d.promoted]

step_12(d) == AddTables(d, {"hosted"})

Step(n, d) ==
  CASE n = 1 -> step_1(d) [] n = 2 -> step_2(d) [] n = 3 -> step_3(d) [] n = 4 -> step_4(d)
    [] n = 5 -> step_5(d) [] n = 6 -> step_6(d) [] n = 7 -> step_7(d) [] n = 8 -> step_8(d)
    [] n = 9 -> step_9(d) [] n = 10 -> step_10(d) [] n = 11 -> step_11(d) [] n = 12 -> step_12(d)

(* A column cannot be added twice, nor a missing table be read or altered. *)
CanRun(n, d) ==
  /\ n = 2 => "services" \in d.tables
  /\ n = 5 => "services" \in d.tables
  /\ n = 9 => "deployments" \in d.tables /\ "artifact_digest" \notin d.columns
  /\ n = 10 => "sessions" \in d.tables /\ "created_at" \notin d.columns
  /\ n = 11 => {"deployments", "promoted"} \subseteq d.tables

-----------------------------------------------------------------------------
(* The databases that earlier releases left: all steps up to some version,  *)
(* the version in one row or, before the table had an id, in several.       *)
Blank == [single |-> TRUE, versions |-> {}, tables |-> {}, columns |-> {}, services |-> <<>>,
          domains |-> {}, healthy |-> {}, promoted |-> {}]

Since(k, n, names) == IF n >= k THEN names ELSE {}

TablesUpto(n) ==
  Since(1, n, {"credentials", "services", "deployments", "artifacts", "promoted"})
    \cup Since(2, n, {"projects"})
    \cup Since(3, n, {"users", "sessions", "api_tokens", "project_members"})
    \cup Since(4, n, {"jobs", "job_runs"})
    \cup Since(5, n, {"service_domains"}) \cup Since(6, n, {"registries"})
    \cup Since(7, n, {"system_settings"}) \cup Since(8, n, {"autoscale_desired"})
    \cup Since(12, n, {"hosted"})

ColumnsUpto(n) == Since(9, n, {"artifact_digest"}) \cup Since(10, n, {"created_at"})

Upto(n) == [Blank EXCEPT !.tables = TablesUpto(n), !.columns = ColumnsUpto(n)]

Legacy(n, svcs, live) ==
  [Upto(n) EXCEPT
     !.services = [r \in DOMAIN svcs |-> [svcs[r] EXCEPT !.project = n >= 2]],
     !.domains = IF n >= 5 THEN UNION {svcs[r].hosts : r \in DOMAIN svcs} ELSE {},
     !.healthy = IF n >= 11 THEN {CHOOSE r \in live : TRUE} ELSE live,
     !.promoted = {CHOOSE r \in live : TRUE}]

MigrateInit ==
  /\ \E n \in 0 .. Latest, known \in SUBSET Rows, bad \in SUBSET Rows, one \in BOOLEAN :
       LET svcs == [r \in known |-> [json |-> r \notin bad, project |-> FALSE, hosts |-> {r}]]
           old == IF n = 0 \/ known = {} THEN Upto(n) ELSE Legacy(n, svcs, known) IN
       /\ n >= 2 => bad = {}
       /\ db = [old EXCEPT !.single = one, !.versions =
                  IF n = 0 THEN {} ELSE IF one THEN {n} ELSE {n, n - 1}]
  /\ origin = db /\ tx = db
  /\ boot = "down" /\ schema = 0 /\ kills = 0

(* A boot opens the file and rebuilds an old version table with the highest *)
(* version in it.                                                           *)
migrate_schema_version_table ==
  /\ boot = "down" /\ boot' = "open"
  /\ db' = IF db.single THEN db
           ELSE [db EXCEPT !.single = TRUE,
                           !.versions = {IF @ = {} THEN 0 ELSE MaxOf(@)}]
  /\ UNCHANGED <<tx, schema, origin, kills>>

(* The version is read once; the steps above it follow in order. *)
run_migrations ==
  /\ boot = "open" /\ boot' = "step"
  /\ schema' = IF db.versions = {} THEN 0 ELSE MaxOf(db.versions)
  /\ UNCHANGED <<db, tx, origin, kills>>

BeginStep ==
  /\ boot = "step" /\ schema < Latest
  /\ IF CanRun(schema + 1, db)
     THEN boot' = "write" /\ tx' = Step(schema + 1, db)
     ELSE boot' = "failed" /\ UNCHANGED tx
  /\ UNCHANGED <<db, schema, origin, kills>>

(* Slip: the version is recorded outside of the step's transaction. *)
Commit_VersionLater ==
  /\ boot = "write"
  /\ \/ db' = tx /\ db # tx /\ UNCHANGED <<boot, schema>>
     \/ /\ db = tx /\ db' = [tx EXCEPT !.versions = {schema + 1}]
        /\ boot' = "step" /\ schema' = schema + 1
  /\ UNCHANGED <<tx, origin, kills>>

(* set_schema_version, and the commit of both. *)
Commit ==
  /\ boot = "write" /\ boot' = "step" /\ schema' = schema + 1
  /\ db' = [tx EXCEPT !.versions = {schema + 1}]
  /\ UNCHANGED <<tx, origin, kills>>

EndMigrations ==
  /\ boot = "step" /\ schema = Latest /\ boot' = "up"
  /\ UNCHANGED <<db, tx, schema, origin, kills>>

(* The daemon is killed; what is not committed is gone. *)
Kill ==
  /\ boot # "down" /\ kills < MaxKills /\ kills' = kills + 1 /\ boot' = "down"
  /\ UNCHANGED <<db, tx, schema, origin>>

MigrateNext ==
  \/ migrate_schema_version_table \/ run_migrations \/ BeginStep \/ Commit \/ EndMigrations \/ Kill

MigrateSpec == MigrateInit /\ [][MigrateNext]_migrateVars

-----------------------------------------------------------------------------
(* "a crash, SQLITE_BUSY, or I/O error partway through a step rolls the     *)
(* step back entirely" (run_migrations): no boot ever finds a step that it  *)
(* cannot run, and a boot that succeeds has every table and column, every   *)
(* service that could be read, with a project, and no Healthy deployment    *)
(* besides the promoted ones.                                               *)
UpgradeKeepsData ==
  /\ boot # "failed"
  /\ boot = "up" =>
       /\ db.tables = TablesUpto(Latest) /\ db.columns = ColumnsUpto(Latest)
       /\ DOMAIN db.services = {r \in DOMAIN origin.services : origin.services[r].json}
       /\ \A r \in DOMAIN db.services : db.services[r].project /\ db.services[r].hosts \subseteq db.domains
       /\ db.healthy \subseteq db.promoted
=============================================================================
