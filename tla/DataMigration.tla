---------------------------- MODULE DataMigration ----------------------------
(***************************************************************************)
(* Schema startup of the SQLite and of the PostgreSQL store, and the       *)
(* offline copy of the one into the other (internal/datamigration).        *)
(*                                                                         *)
(* SQLite applies one migration per transaction; a process may stop        *)
(* between two of them, and two processes may start on one file.           *)
(* PostgreSQL applies all of them in one transaction under an advisory     *)
(* lock; the copy holds the same lock, so the transaction in progress is   *)
(* one value, work, that nobody else sees before it commits.               *)
(***************************************************************************)
EXTENDS Integers, FiniteSets, Functions, SqliteSchema, PostgresSchema

CONSTANTS
  Server,        \* processes that open the SQLite file
  PgServer,      \* processes that open the PostgreSQL database
  Copier,        \* migration utilities
  Nobody,        \* the advisory lock is free
  Setup,         \* the schema versions the databases have before, and
                 \* whether the PostgreSQL one is used
  MaxEdits,      \* a bound on writes of the source
  MaxDowns       \* a bound on stops of processes

schemaVersion == Len(SqliteMigrations)
postgresFoundationSchemaVersion == Len(PostgresMigrations)

ASSUME MigrationAssumption ==
  /\ Setup \subseteq Nat \X Nat \X BOOLEAN
  /\ {MaxEdits, MaxDowns} \subseteq Nat
  /\ Nobody \notin PgServer \cup Copier /\ PgServer \cap Copier = {}

VARIABLES
  source,   \* the SQLite file: the rows of schema_migrations, the tables
  edits,    \* the state of its data: how often it was written
  opening,  \* the processes that open it
  target,   \* the PostgreSQL database as committed
  lock,     \* the holder of postgresMigrationLockID
  work,     \* what the transaction of the holder has made of target
  pgserver, \* the processes that open the PostgreSQL database
  copier,   \* the migration utilities
  downs     \* how many processes have stopped

migrationVars == <<source, edits, opening, target, lock, work, pgserver, copier, downs>>

-----------------------------------------------------------------------------
(***************************************************************************)
(* What a migration makes of the tables.  The statements of a migration    *)
(* run in order; one that does not fit rolls the transaction back.         *)
(***************************************************************************)
TablesCreated(statements) == {s.table : s \in {x \in statements : x.op = "create"}}
On(statements, t) == {s \in statements : s.op \in {"create", "add"} /\ s.table = t}
ColumnsOn(statements, t) == UNION {s.columns : s \in On(statements, t)}
ParentsOn(statements, t) == UNION {s.parents : s \in On(statements, t)}

\* SQLite: a table is created once, a column is added once.
MigrationFits(tables, migration) ==
  \A i \in DOMAIN migration :
    LET s == migration[i]
        before == DOMAIN tables \cup TablesCreated({migration[j] : j \in 1..(i - 1)}) IN
    CASE s.op = "create" -> s.table \notin before
      [] s.op = "add" -> s.table \in before /\ s.columns \cap tables[s.table].columns = {}
      [] OTHER -> s.parents \subseteq before
Migrated(tables, statements) ==
  LET created == TablesCreated(statements)
      old(t) == IF t \in created THEN [columns |-> {}, parents |-> {}] ELSE tables[t] IN
  [t \in DOMAIN tables \cup created |->
    [columns |-> old(t).columns \cup ColumnsOn(statements, t),
     parents |-> old(t).parents \cup ParentsOn(statements, t)]]

\* The tables after the first v migrations.
Statements(migrations, v) == UNION {Range(migrations[i]) : i \in 1..v}
NoTables == [t \in {} |-> {}]
Catalogs ==
  [v \in 0..schemaVersion |-> Migrated(NoTables, Statements(SqliteMigrations, v))]

\* PostgreSQL also needs the tables a foreign key names.
PgFits(tables, migration) ==
  \A i \in DOMAIN migration :
    LET s == migration[i]
        before == DOMAIN tables \cup TablesCreated({migration[j] : j \in 1..(i - 1)}) IN
    CASE s.op = "create" -> s.table \notin before /\ s.parents \subseteq before \cup {s.table}
      [] s.op = "add" -> {s.table} \cup s.parents \subseteq before
      [] OTHER -> s.parents \subseteq before
PgCatalogs ==
  [v \in 0..postgresFoundationSchemaVersion |->
    LET statements == Statements(PostgresMigrations, v) IN
    [t \in TablesCreated(statements) |->
      [required |-> UNION {s.required : s \in On(statements, t)},
       optional |-> UNION {s.optional : s \in On(statements, t)},
       parents |-> ParentsOn(statements, t)]]]
PgSeeds(v) == UNION {s.parents : s \in {x \in Statements(PostgresMigrations, v) : x.op = "seed"}}

None == <<"none", 0>>
Default == <<"default", 0>>
Used == <<"used", 0>>
Copy(n) == <<"copy", n>>

\* A later release has at least the tables of this one.
Known(v) == IF v > postgresFoundationSchemaVersion THEN postgresFoundationSchemaVersion ELSE v

PgSchema(v) ==
  [version |-> v,
   contents |-> [t \in DOMAIN PgCatalogs[Known(v)] |->
                   IF t \in PgSeeds(Known(v)) THEN Default ELSE None]]
Empty == PgSchema(0)
PgTables == PgCatalogs[postgresFoundationSchemaVersion]

\* InitializePostgreSQLTransaction: the migrations that are not recorded.
MigrationsApply ==
  \A v \in 1..postgresFoundationSchemaVersion : PgFits(PgCatalogs[v - 1], PostgresMigrations[v])
InitializeTransaction(db) ==
  LET new == PgSchema(postgresFoundationSchemaVersion).contents IN
  [version |-> postgresFoundationSchemaVersion,
   contents |-> [t \in DOMAIN db.contents \cup DOMAIN new |->
                  IF t \in DOMAIN db.contents THEN db.contents[t] ELSE new[t]]]

MigrationInit ==
  /\ edits = 0 /\ opening = [s \in Server |-> [pc |-> "off", next |-> 0]]
  /\ lock = Nobody /\ downs = 0
  /\ \E setup \in Setup :
       LET v == setup[1]  w == setup[2]  used == setup[3] IN
       /\ source = [applied |-> 1..v,
                    tables |-> Catalogs[IF v > schemaVersion THEN schemaVersion ELSE v]]
       /\ target = PgSchema(w) /\ work = PgSchema(w)
       /\ pgserver = [p \in PgServer |-> IF used THEN "off" ELSE "stopped"]
       /\ copier = [c \in Copier |-> [pc |-> IF used THEN "off" ELSE "unused", version |-> 0,
                                      snapshot |-> 0, done |-> {}]]

-----------------------------------------------------------------------------
(***************************************************************************)
(* NewSQLiteStore.                                                         *)
(***************************************************************************)
sqliteSide == <<source, edits, opening>>
postgresSide == <<target, lock, work, pgserver>>

Recorded == IF source.applied = {} THEN 0
            ELSE CHOOSE v \in source.applied : source.applied \subseteq 1..v

\* migrate reads the version once, before the first migration.
ReadVersion(s) ==
  /\ opening[s].pc = "off"
  /\ opening' = [opening EXCEPT ![s] = IF Recorded > schemaVersion
                                       THEN [pc |-> "failed", next |-> 0]
                                       ELSE [pc |-> "migrating", next |-> Recorded + 1]]
  /\ UNCHANGED <<source, edits, postgresSide, copier, downs>>

\* Mutant: the record of a migration is not part of its transaction.
ApplyMigrationTorn(s) ==
  LET v == opening[s].next IN
  /\ opening[s].pc = "migrating" /\ v <= schemaVersion
  /\ IF v \in source.applied \/ ~MigrationFits(source.tables, SqliteMigrations[v])
     THEN /\ opening' = [opening EXCEPT ![s].pc = "failed"] /\ UNCHANGED source
     ELSE \E recorded \in BOOLEAN :
            /\ source' = [applied |-> source.applied \cup {w \in {v} : recorded},
                          tables |-> Migrated(source.tables, Range(SqliteMigrations[v]))]
            /\ opening' = [opening EXCEPT ![s].next = v + 1]
  /\ UNCHANGED <<edits, postgresSide, copier, downs>>

\* apply...Migration: one transaction with the row of schema_migrations,
\* whose version is its primary key.
ApplyMigration(s) ==
  LET v == opening[s].next IN
  /\ opening[s].pc = "migrating" /\ v <= schemaVersion
  /\ IF v \in source.applied \/ ~MigrationFits(source.tables, SqliteMigrations[v])
     THEN /\ opening' = [opening EXCEPT ![s].pc = "failed"] /\ UNCHANGED source
     ELSE /\ source' = [applied |-> source.applied \cup {v},
                        tables |-> Migrated(source.tables, Range(SqliteMigrations[v]))]
          /\ opening' = [opening EXCEPT ![s].next = v + 1]
  /\ UNCHANGED <<edits, postgresSide, copier, downs>>

Opened(s) ==
  /\ opening[s].pc = "migrating" /\ opening[s].next > schemaVersion
  /\ opening' = [opening EXCEPT ![s].pc = "running"]
  /\ UNCHANGED <<source, edits, postgresSide, copier, downs>>

\* A store call of a running server.
EditSource(s) ==
  /\ opening[s].pc = "running" /\ edits < MaxEdits /\ edits' = edits + 1
  /\ UNCHANGED <<source, opening, postgresSide, copier, downs>>

ServerStops(s) ==
  /\ opening[s].pc # "off" /\ downs < MaxDowns /\ downs' = downs + 1
  /\ opening' = [opening EXCEPT ![s] = [pc |-> "off", next |-> 0]]
  /\ UNCHANGED <<source, edits, postgresSide, copier>>

-----------------------------------------------------------------------------
(***************************************************************************)
(* OpenPostgreSQL.                                                         *)
(***************************************************************************)
LockSchema(owner) == lock = Nobody /\ lock' = owner
RollBack(owner) == lock = owner /\ lock' = Nobody /\ work' = target
Commit(owner) == lock = owner /\ lock' = Nobody /\ target' = work

\* A schema newer than this build is refused.
PgInitialize(p) ==
  /\ pgserver[p] = "off" /\ LockSchema(p)
  /\ IF target.version <= postgresFoundationSchemaVersion /\ MigrationsApply
     THEN /\ work' = InitializeTransaction(target)
          /\ pgserver' = [pgserver EXCEPT ![p] = "initialized"]
     ELSE pgserver' = [pgserver EXCEPT ![p] = "failed"] /\ UNCHANGED work
  /\ UNCHANGED <<sqliteSide, target, copier, downs>>
PgCommit(p) ==
  /\ pgserver[p] = "initialized" /\ Commit(p)
  /\ pgserver' = [pgserver EXCEPT ![p] = "running"]
  /\ UNCHANGED <<sqliteSide, work, copier, downs>>
PgFails(p) ==
  /\ pgserver[p] \in {"initialized", "failed"} /\ RollBack(p)
  /\ pgserver' = [pgserver EXCEPT ![p] = "stopped"]
  /\ UNCHANGED <<sqliteSide, target, copier, downs>>

\* A store call of a running server: it does not take the advisory lock.
PgWrites(p) ==
  /\ pgserver[p] = "running"
  /\ target' = [target EXCEPT !.contents["users"] = Used]
  /\ work' = [work EXCEPT !.contents["users"] = Used]
  /\ UNCHANGED <<sqliteSide, lock, pgserver, copier, downs>>

-----------------------------------------------------------------------------
(***************************************************************************)
(* CopySQLiteToPostgreSQL.                                                 *)
(***************************************************************************)
CopierGoes(c, pc) == copier' = [copier EXCEPT ![c].pc = pc]

\* PreflightSQLiteSource, on a connection of its own.
\* sqliteCopyOrder finds an order: no table refers to one that is missing, and
\* the foreign keys form no cycle.
HasCopyOrder(tables) ==
  LET ordered[rest \in SUBSET DOMAIN tables] ==
        LET ready == {t \in rest : (tables[t].parents \ {t}) \cap rest = {}} IN
        rest = {} \/ (ready # {} /\ ordered[rest \ ready])
  IN  /\ \A t \in DOMAIN tables : tables[t].parents \subseteq DOMAIN tables
      /\ ordered[DOMAIN tables]

\* A damaged file, which the integrity and foreign-key checks refuse, is not
\* modelled.
PreflightSource(c) ==
  /\ copier[c].pc = "off"
  /\ IF Recorded = schemaVersion /\ HasCopyOrder(source.tables)
     THEN copier' = [copier EXCEPT ![c] = [pc |-> "destination", version |-> Recorded,
                                           snapshot |-> 0, done |-> {}]]
     ELSE CopierGoes(c, "refused")
  /\ UNCHANGED <<sqliteSide, postgresSide, downs>>

PreflightDestination(c) ==
  /\ copier[c].pc = "destination"
  /\ CopierGoes(c, IF target = Empty THEN "snapshot" ELSE "refused")
  /\ UNCHANGED <<sqliteSide, postgresSide, downs>>

\* The transaction that reads the source starts, after the preflights.
OpenSnapshot(c) ==
  /\ copier[c].pc = "snapshot"
  /\ copier' = [copier EXCEPT ![c].pc = IF Recorded = copier[c].version THEN "lock" ELSE "refused",
                              ![c].snapshot = edits]
  /\ UNCHANGED <<sqliteSide, postgresSide, downs>>

\* Mutant: the preflight is trusted once the lock is held.
LockTargetUnchecked(c) ==
  /\ copier[c].pc = "lock" /\ LockSchema(c)
  /\ CopierGoes(c, "initialize")
  /\ UNCHANGED <<sqliteSide, target, work, pgserver, downs>>

\* The lock, and whether the destination became occupied before.
LockTarget(c) ==
  /\ copier[c].pc = "lock" /\ LockSchema(c)
  /\ CopierGoes(c, IF target = Empty THEN "initialize" ELSE "occupied")
  /\ UNCHANGED <<sqliteSide, target, work, pgserver, downs>>

\* migrationColumnName.
ColumnName(table, column) ==
  IF table = "scanner_worker_dispatch_settings" /\ column = "id" THEN "singleton" ELSE column

SourceColumns(tables, t) == {ColumnName(t, column) : column \in tables[t].columns}

\* validateDestination, ValidateCopyColumns: both ways.
Compatible(tables, db) ==
  /\ DOMAIN tables = DOMAIN db
  /\ \A t \in DOMAIN tables :
       /\ SourceColumns(tables, t) \subseteq db[t].required \cup db[t].optional
       /\ db[t].required \subseteq SourceColumns(tables, t)

\* The tables that can be copied once those in done are.
Ready(parents, done) ==
  {t \in DOMAIN parents \ done : parents[t] \ {t} \subseteq done}

\* destinationCopyOrder: the foreign keys of the destination decide.
DestinationCopyOrder(tables, db) == [t \in DOMAIN db |-> db[t].parents]

\* The rounds in which the tables are copied, and the round of a table.
CopyRound[n \in Nat] ==
  IF n = 0 THEN {}
  ELSE LET done == CopyRound[n - 1] IN
       done \cup Ready(DestinationCopyOrder(Catalogs[schemaVersion], PgTables), done)
CopyRank ==
  [t \in DOMAIN PgTables |->
    CHOOSE n \in 1..Cardinality(DOMAIN PgTables) : t \in CopyRound[n] \ CopyRound[n - 1]]

\* What is true of the two schemas as they are written: every migration fits
\* the tables of those before it, the schemas have the same tables and
\* columns, and the foreign keys of the destination form no cycle.
ASSUME SchemasAssumption ==
  /\ schemaVersion \in Nat /\ postgresFoundationSchemaVersion \in Nat \ {0}
  /\ \A v \in 1..schemaVersion :
       /\ Len(SqliteMigrations[v]) \in Nat
       /\ DOMAIN SqliteMigrations[v] = 1..Len(SqliteMigrations[v])
       /\ MigrationFits(Catalogs[v - 1], SqliteMigrations[v])
  /\ MigrationsApply
  /\ Compatible(Catalogs[schemaVersion], PgTables)
  /\ \A t \in DOMAIN PgTables :
       /\ CopyRank[t] \in Nat
       /\ \A parent \in PgTables[t].parents \ {t} :
            parent \in DOMAIN PgTables /\ CopyRank[parent] < CopyRank[t]
  /\ "users" \in DOMAIN PgTables

PrepareTarget(c) ==
  /\ copier[c].pc = "initialize" /\ lock = c
  /\ IF ~MigrationsApply \/ ~Compatible(Catalogs[copier[c].version], PgTables)
     THEN CopierGoes(c, "incompatible") /\ UNCHANGED work
     ELSE /\ work' = [InitializeTransaction(target) EXCEPT
                        !.contents = [t \in DOMAIN PgTables |-> None]]
          /\ CopierGoes(c, "copy")
  /\ UNCHANGED <<sqliteSide, target, lock, pgserver, downs>>

\* Mutant: the rows are read outside of the transaction.
CopiedNow(c) == Copy(edits)

\* What SELECT * of a table returns to the copy.
Copied(c) == Copy(copier[c].snapshot)

\* copyTable for the tables that are next; PostgreSQL checks foreign keys
\* as the rows are inserted.
CopyTables(c) ==
  LET order == DestinationCopyOrder(Catalogs[copier[c].version], PgTables)
      next == Ready(order, copier[c].done) IN
  /\ copier[c].pc = "copy" /\ lock = c /\ next # {}
  /\ IF \A t \in next : \A parent \in PgTables[t].parents \ {t} : parent \in copier[c].done
     THEN /\ work' = [work EXCEPT !.contents =
                      [t \in DOMAIN @ |-> IF t \in next THEN Copied(c) ELSE @[t]]]
          /\ copier' = [copier EXCEPT ![c].done = @ \cup next]
     ELSE CopierGoes(c, "orphan") /\ UNCHANGED work
  /\ UNCHANGED <<sqliteSide, target, lock, pgserver, downs>>

\* Nothing is left, or what is left is a cycle; one organization is there.
CommitCopy(c) ==
  LET order == DestinationCopyOrder(Catalogs[copier[c].version], PgTables) IN
  /\ copier[c].pc = "copy" /\ lock = c /\ Ready(order, copier[c].done) = {}
  /\ IF copier[c].done # DOMAIN PgTables
     THEN CopierGoes(c, "cyclic") /\ UNCHANGED <<target, lock>>
     ELSE Commit(c) /\ CopierGoes(c, "verified")
  /\ UNCHANGED <<sqliteSide, work, pgserver, downs>>

\* An error after the lock, a value that cannot be converted, or a stop.
CopyFails(c) ==
  /\ copier[c].pc \in {"occupied", "incompatible", "orphan", "cyclic", "initialize", "copy"}
  /\ RollBack(c) /\ CopierGoes(c, "failed")
  /\ UNCHANGED <<sqliteSide, target, pgserver, downs>>

\* The utility is run again.
CopyAgain(c) ==
  /\ copier[c].pc \in {"refused", "failed"} /\ downs < MaxDowns /\ downs' = downs + 1
  /\ CopierGoes(c, "off")
  /\ UNCHANGED <<sqliteSide, postgresSide>>

MigrationNext ==
  \/ \E s \in Server :
       \/ ReadVersion(s) \/ ApplyMigration(s) \/ Opened(s) \/ EditSource(s) \/ ServerStops(s)
  \/ \E p \in PgServer : PgInitialize(p) \/ PgCommit(p) \/ PgFails(p) \/ PgWrites(p)
  \/ \E c \in Copier :
       \/ PreflightSource(c) \/ PreflightDestination(c) \/ OpenSnapshot(c) \/ LockTarget(c)
       \/ PrepareTarget(c) \/ CopyTables(c) \/ CommitCopy(c) \/ CopyFails(c) \/ CopyAgain(c)

MigrationSpec == MigrationInit /\ [][MigrationNext]_migrationVars

-----------------------------------------------------------------------------
\* However often a start is interrupted and however many processes start on
\* one file, the tables are those of the versions it records, without a gap
\* (SQLiteStore.migrate).
SchemaMatchesRecord ==
  Recorded <= schemaVersion =>
    source.applied = 1..Recorded /\ source.tables = Catalogs[Recorded]

\* The two schemas have the same tables and columns, the migrations apply, and
\* the order of the copy satisfies every foreign key.
SchemasAgree == \A c \in Copier : copier[c].pc \notin {"incompatible", "orphan", "cyclic"}

(* CopySQLiteToPostgreSQL copies all or nothing: the destination is empty, *)
(* or has the schema and no copied row, or has every table of the source   *)
(* as it was at one moment, while servers write to the source, start and   *)
(* stop; and no copy of a current source is refused for the two schemas,   *)
(* which are maintained apart.                                             *)
CopyWhole ==
  /\ SchemasAgree
  /\ \/ target = Empty
     \/ LET rows == target.contents
            unwritten == {t \in DOMAIN rows : rows[t] # Used} IN
        /\ DOMAIN rows = DOMAIN PgCatalogs[Known(target.version)] /\ DOMAIN rows \ unwritten \subseteq {"users"}
        /\ \/ \A t \in unwritten : rows[t] \in {None, Default}
           \/ \E n \in 0..edits : \A t \in unwritten : rows[t] = Copy(n)

\* No copy removes what was copied or written before: CopySQLiteToPostgreSQL
\* looks again for an occupied destination once it holds the schema lock.
NothingOverwritten ==
  [][\A t \in DOMAIN target.contents :
       target.contents[t] \notin {None, Default} =>
         target'.contents[t] \in {target.contents[t], Used}]_migrationVars
=============================================================================
