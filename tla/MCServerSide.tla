---------------------------- MODULE MCServerSide ----------------------------
(***************************************************************************)
(* What keeps the server's data, in components that share no state: every  *)
(* two calls of the PostgreSQL store (MCPostgresStore), the schemas and    *)
(* the move to PostgreSQL, and backup, restore and key rotation.  A        *)
(* behaviour takes up one of them; the others stay in an initial state.    *)
(***************************************************************************)
EXTENDS MCPostgresStore, DataMigration, ServerRecovery

\* A new file; files that are one migration behind, and current, beside an older
\* PostgreSQL schema or one of a later release; and a file of a later release.
MCSetup ==
  {<<0, 0, FALSE>>, <<65, 0, TRUE>>, <<66, 20, TRUE>>, <<66, 25, TRUE>>, <<67, 0, TRUE>>}

\* Nothing is claimed of an installation that has gone astray.
OnCourse == ~astray

VARIABLE part

ServerSideInit ==
  /\ part \in {"store", "migration", "recovery"}
  /\ MigrationInit /\ (part # "migration" => source.applied = {})
  /\ RecoveryInit /\ (part # "recovery" => backend = "sqlite")
  /\ IF part = "store" THEN MCStoreInit
     ELSE StoreInit(NoAccounts, [s \in Session |-> CHOOSE c \in BootstrapCalls(s) : TRUE])

ServerSideNext ==
  /\ UNCHANGED part
  /\ \/ part = "store" /\ StoreNext /\ UNCHANGED <<migrationVars, recoveryVars>>
     \/ part = "migration" /\ MigrationNext /\ UNCHANGED <<sqlVars, recoveryVars>>
     \/ part = "recovery" /\ RecoveryNext /\ UNCHANGED <<sqlVars, migrationVars>>

ServerSideSpec == ServerSideInit /\ [][ServerSideNext]_<<part, sqlVars, migrationVars, recoveryVars>>
=============================================================================
