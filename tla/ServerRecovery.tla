--------------------------- MODULE ServerRecovery ---------------------------
(***************************************************************************)
(* The files a server lives on and the commands that replace them: the     *)
(* database with its write-ahead log, the identity key file, mossward      *)
(* backup create and restore (internal/serverbackup), and mossward         *)
(* identity-key rotate (internal/auth/secretbox.go and                     *)
(* internal/store/identity_rotation.go), for SQLite and for PostgreSQL.    *)
(*                                                                         *)
(* Every step may be the last one of its process, and any number of        *)
(* commands run at once.  What the manuals ask for is in the guards: a     *)
(* rotation and a backup of PostgreSQL begin with the server stopped, and  *)
(* nothing runs beside a restore.  What neither the manuals nor the code   *)
(* exclude happens, and what it costs is the matter of astray and aligned. *)
(* The ACME cache and the agent PKI are treated like the key file by this  *)
(* code and are not modelled.                                              *)
(***************************************************************************)
EXTENDS Naturals, Sequences, FiniteSets

CONSTANTS
  Secret,        \* values the store keeps encrypted
  Command,       \* maintenance processes
  MaxKey,        \* a bound on generated identity keys
  MaxLineage,    \* a bound on databases that come into being
  MaxArchives,   \* a bound on backup archives
  MaxAside       \* a bound on files set aside before another restore begins

ASSUME RecoveryAssumption == {MaxKey, MaxLineage, MaxArchives, MaxAside} \subseteq Nat \ {0}

VARIABLES
  backend,      \* "sqlite" or "postgresql"
  live,         \* what is at the configured places
  aside,        \* .pre-restore and .pre-rotation copies, and retained staging
  archives,
  server,       \* the keys of the running server, or NotServing
  commands,
  born,         \* history: per database that came into being, the secrets stored in it
  keysMade,
  torn,         \* history: the last restore was cut short
  astray        \* history: a server or a command was started on a torn installation,
                \* an archive with a key of another time was restored, or two
                \* rotations ran at once

recoveryVars ==
  <<backend, live, aside, archives, server, commands, born, keysMade, torn, astray>>

Missing == [kind |-> "missing"]
Partial == [kind |-> "partial"]    \* a file whose copy has not finished
NotServing == [kind |-> "down"]
Idle == [op |-> "idle"]

\* A ciphertext names its key, or has no envelope and is the legacy key's.
NoValue == [key |-> 0, envelope |-> FALSE]
Database(lineage, values) == [kind |-> "db", lineage |-> lineage, values |-> values]
KeyRing(keys, active, legacy) == [kind |-> "key", keys |-> keys, active |-> active, legacy |-> legacy]
Stored(db) == {s \in Secret : db.values[s] # NoValue}

Encrypt(box) == [key |-> box.active, envelope |-> TRUE]
ciphertextKey(box, c) == IF c.envelope THEN c.key ELSE box.legacy
Decrypts(box, c) == ciphertextKey(box, c) = c.key /\ c.key \in box.keys
Opens(key, db) == \A s \in Stored(db) : Decrypts(key, db.values[s])

\* What the database says, its write-ahead log included.
CurrentRows == IF live.wal # Missing THEN live.wal ELSE live.db

\* An installation of an earlier release, with its raw key and a raw ciphertext.
RecoveryInit ==
  /\ backend \in {"sqlite", "postgresql"}
  /\ LET old == Database(1, [s \in Secret |-> IF s = CHOOSE t \in Secret : TRUE
                                              THEN [key |-> 1, envelope |-> FALSE] ELSE NoValue])
     IN  /\ live = [db |-> old, wal |-> Missing, key |-> KeyRing({1}, 1, 1)]
         /\ born = <<Stored(old)>>
  /\ aside = {} /\ archives = {} /\ server = NotServing /\ keysMade = 1
  /\ commands = [c \in Command |-> Idle] /\ torn = FALSE /\ astray = FALSE

Restoring == \E c \in Command : commands[c].op \in {"restore", "rollback", "pgrestore"}
Rotating == \E c \in Command : commands[c].op = "rotate"

\* Opening a database that is not there makes one, and drops a stale log.  A
\* restored copy counts as a database of its own (lineage) once it is opened.
NewDatabase == live.db = Missing \/ (live.db # Partial /\ live.db.lineage = 0)
Opened1st ==
  IF live.db = Missing
  THEN [live EXCEPT !.db = Database(Len(born) + 1, [s \in Secret |-> NoValue]), !.wal = Missing]
  ELSE IF NewDatabase THEN [live EXCEPT !.db.lineage = Len(born) + 1] ELSE live
OpenRepository ==
  /\ live.db # Partial /\ (NewDatabase => Len(born) < MaxLineage)
  /\ born' = IF NewDatabase THEN Append(born, Stored(Opened1st.db)) ELSE born

\* A commit of SQLite goes to the log; the last clean close empties it.
Committed(db) ==
  IF backend = "sqlite" THEN [live EXCEPT !.wal = db] ELSE [live EXCEPT !.db = db]
LogEmptied(l) == IF l.wal = Missing THEN l ELSE [l EXCEPT !.db = l.wal, !.wal = Missing]

-----------------------------------------------------------------------------
\* The server.

\* LoadOrCreateSecretBox: a missing key file is created.
StartServer ==
  /\ server = NotServing /\ ~Restoring /\ ~Rotating
  /\ OpenRepository /\ live.key # Partial
  /\ live.key = Missing => keysMade < MaxKey
  /\ LET fresh == keysMade + 1
         key == IF live.key = Missing THEN KeyRing({fresh}, fresh, fresh) ELSE live.key
     IN  /\ live' = [Opened1st EXCEPT !.key = key]
         /\ server' = key
         /\ keysMade' = IF live.key = Missing THEN fresh ELSE keysMade
  /\ astray' = (astray \/ torn)
  /\ UNCHANGED <<backend, aside, archives, commands, torn>>

StoreSecret(s) ==
  /\ server # NotServing /\ CurrentRows.values[s] = NoValue
  /\ live' = Committed([CurrentRows EXCEPT !.values[s] = Encrypt(server)])
  /\ born' = [born EXCEPT ![CurrentRows.lineage] = @ \cup {s}]
  /\ UNCHANGED <<backend, aside, archives, server, commands, keysMade, torn, astray>>

StopServer ==
  /\ server # NotServing /\ server' = NotServing
  /\ live' = IF \A c \in Command : commands[c] = Idle THEN LogEmptied(live) ELSE live
  /\ UNCHANGED <<backend, aside, archives, commands, born, keysMade, torn, astray>>

ServerCrash ==
  /\ server # NotServing /\ server' = NotServing
  /\ UNCHANGED <<backend, live, aside, archives, commands, born, keysMade, torn, astray>>

-----------------------------------------------------------------------------
\* Backup, and the rotation that begins with one.

GoesOn(c, cmd) == commands' = [commands EXCEPT ![c] = cmd]

\* A snapshot of the database is taken first; PostgreSQL's has to be there.
BeginCommand(c, op) ==
  /\ commands[c] = Idle /\ ~Restoring /\ Cardinality(archives) < MaxArchives
  /\ server # NotServing => op = "backup" /\ backend = "sqlite"
  /\ backend = "postgresql" => live.db # Missing
  /\ OpenRepository /\ live' = Opened1st
  /\ GoesOn(c, [op |-> op, step |-> "archive", aligned |-> TRUE,
              snapshot |-> IF NewDatabase THEN Opened1st.db ELSE CurrentRows])
  /\ astray' = (astray \/ torn \/ (op = "rotate" /\ Rotating))
  /\ UNCHANGED <<backend, aside, archives, server, keysMade, torn>>

\* The connection of a command closes; the last one empties the log.
ClosedLog(c, l) ==
  IF server = NotServing /\ \A d \in Command \ {c} : commands[d] = Idle
  THEN LogEmptied(l) ELSE l
CommandEnds(c) == GoesOn(c, Idle) /\ live' = ClosedLog(c, live)

\* The key file is read into the archive after the snapshot.
WriteArchive(c) ==
  /\ commands[c].op \in {"backup", "rotate"} /\ commands[c].step = "archive"
  /\ live.key \notin {Missing, Partial}
  /\ archives' = archives \cup
       {[db |-> commands[c].snapshot, key |-> live.key, aligned |-> commands[c].aligned]}
  /\ IF commands[c].op = "backup" THEN CommandEnds(c)
     ELSE GoesOn(c, [op |-> "rotate", step |-> "begin"]) /\ UNCHANGED live
  /\ UNCHANGED <<backend, aside, server, born, keysMade, torn, astray>>

CommandFails(c) ==
  /\ commands[c].op \in {"backup", "rotate"} /\ CommandEnds(c)
  /\ UNCHANGED <<backend, aside, archives, server, born, keysMade, torn, astray>>

\* As BeginIdentityKeyRotation, with a key file that holds the new key only.
BeginIdentityKeyRotationAlone(c) ==
  /\ commands[c].op = "rotate" /\ commands[c].step = "begin" /\ keysMade < MaxKey
  /\ LET ring == KeyRing({keysMade + 1}, keysMade + 1, keysMade + 1) IN
       /\ keysMade' = keysMade + 1 /\ aside' = aside \cup {live.key}
       /\ live' = [live EXCEPT !.key = ring]
       /\ GoesOn(c, [op |-> "rotate", step |-> "ciphertexts", box |-> live.key])
  /\ UNCHANGED <<backend, archives, server, born, torn, astray>>

\* A second key joins the first, unless an earlier rotation left two.
BeginIdentityKeyRotation(c) ==
  /\ commands[c].op = "rotate" /\ commands[c].step = "begin"
  /\ LET fresh == keysMade + 1
         ring == IF Cardinality(live.key.keys) = 1
                 THEN KeyRing(live.key.keys \cup {fresh}, fresh, live.key.legacy) ELSE live.key
     IN  /\ ring # live.key => keysMade < MaxKey
         /\ keysMade' = IF ring = live.key THEN keysMade ELSE fresh
         /\ aside' = IF ring = live.key THEN aside ELSE aside \cup {live.key}
         /\ live' = [live EXCEPT !.key = ring]
         /\ GoesOn(c, [op |-> "rotate", step |-> "ciphertexts", box |-> ring])
  /\ UNCHANGED <<backend, archives, server, born, torn, astray>>

\* One transaction over every encrypted column.
RotateIdentityCiphertexts(c) ==
  LET box == commands[c].box IN
  /\ commands[c].op = "rotate" /\ commands[c].step = "ciphertexts"
  /\ Opens(box, CurrentRows)
  /\ live' = Committed([CurrentRows EXCEPT !.values =
               [s \in Secret |-> IF @[s] = NoValue THEN NoValue ELSE Encrypt(box)]])
  /\ GoesOn(c, [op |-> "rotate", step |-> "finalize", box |-> box])
  /\ UNCHANGED <<backend, aside, archives, server, born, keysMade, torn, astray>>

\* The other keys leave the key file.  A snapshot that another command has taken
\* gets a key of another time.
FinalizeIdentityKeyRotation(c) ==
  LET active == commands[c].box.active IN
  /\ commands[c].op = "rotate" /\ commands[c].step = "finalize"
  /\ live' = ClosedLog(c, [live EXCEPT !.key = KeyRing({active} \cap live.key.keys, active, active)])
  /\ commands' = [d \in Command |->
       IF d = c THEN Idle
       ELSE IF commands[d].op \in {"backup", "rotate"} /\ commands[d].step = "archive"
            THEN [commands[d] EXCEPT !.aligned = FALSE] ELSE commands[d]]
  /\ UNCHANGED <<backend, aside, archives, server, born, keysMade, torn, astray>>

-----------------------------------------------------------------------------
\* Restore of a SQLite installation.

RestorePart == {"db", "wal", "key"}

MovedBy(cmd) == {cmd.moved[p] : p \in RestorePart} \ {Missing}

BeginRestore(c) ==
  /\ backend = "sqlite" /\ server = NotServing /\ \A d \in Command : commands[d] = Idle
  /\ Cardinality(aside) < MaxAside
  /\ \E a \in archives :
       GoesOn(c, [op |-> "restore", archive |-> a, moved |-> [p \in RestorePart |-> Missing],
                todo |-> <<"db", "key", "wal">>, copy |-> <<"db", "key">>])
  /\ UNCHANGED <<backend, live, aside, archives, server, born, keysMade, torn, astray>>

\* As Preserve, leaving the write-ahead log where it is.
PreserveWithoutLog(c) ==
  LET cmd == commands[c]  p == Head(cmd.todo) IN
  /\ cmd.op = "restore" /\ cmd.todo # <<>>
  /\ IF p = "wal" THEN GoesOn(c, [cmd EXCEPT !.todo = Tail(@)]) /\ UNCHANGED live
     ELSE /\ live' = [live EXCEPT ![p] = Missing]
          /\ GoesOn(c, [cmd EXCEPT !.todo = Tail(@), !.moved[p] = live[p]])
  /\ UNCHANGED <<backend, aside, archives, server, born, keysMade, torn, astray>>

\* os.Rename of a destination to its .pre-restore path.
Preserve(c) ==
  LET cmd == commands[c]  p == Head(cmd.todo) IN
  /\ cmd.op = "restore" /\ cmd.todo # <<>>
  /\ live' = [live EXCEPT ![p] = Missing]
  /\ GoesOn(c, [cmd EXCEPT !.todo = Tail(@), !.moved[p] = live[p]])
  /\ UNCHANGED <<backend, aside, archives, server, born, keysMade, torn, astray>>

\* os.MkdirAll fails: the command returns and what it moved stays moved.
PreserveMkdirFails(c) ==
  LET cmd == commands[c] IN
  /\ cmd.op = "restore" /\ cmd.todo # <<>> /\ Head(cmd.todo) # "wal"
  /\ GoesOn(c, Idle)
  /\ aside' = aside \cup MovedBy(cmd)
  /\ torn' = (torn \/ cmd.moved["db"] # Missing)
  /\ UNCHANGED <<backend, live, archives, server, born, keysMade, astray>>

Installed(cmd, p) ==
  IF p = "key" THEN cmd.archive.key ELSE Database(0, cmd.archive.db.values)

BeginCopy(c) ==
  LET cmd == commands[c] IN
  /\ cmd.op = "restore" /\ cmd.todo = <<>> /\ cmd.copy # <<>>
  /\ live[Head(cmd.copy)] = Missing
  /\ live' = [live EXCEPT ![Head(cmd.copy)] = Partial]
  /\ UNCHANGED <<backend, aside, archives, server, commands, born, keysMade, torn, astray>>

\* The last file ends the command.
EndCopy(c) ==
  LET cmd == commands[c]  p == Head(cmd.copy) IN
  /\ cmd.op = "restore" /\ cmd.todo = <<>> /\ cmd.copy # <<>> /\ live[p] = Partial
  /\ live' = [live EXCEPT ![p] = Installed(cmd, p)]
  /\ IF Tail(cmd.copy) = <<>>
     THEN /\ GoesOn(c, Idle) /\ aside' = aside \cup MovedBy(cmd)
          /\ torn' = FALSE /\ astray' = (astray \/ ~cmd.archive.aligned)
     ELSE GoesOn(c, [cmd EXCEPT !.copy = Tail(@)]) /\ UNCHANGED <<aside, torn, astray>>
  /\ UNCHANGED <<backend, archives, server, born, keysMade>>

\* A failed rename moves everything back; a failed copy first removes the copies.
RestoreFails(c) ==
  LET cmd == commands[c] IN
  /\ cmd.op = "restore"
  /\ live' = IF cmd.todo = <<>> THEN [live EXCEPT !.db = Missing, !.key = Missing] ELSE live
  /\ GoesOn(c, [op |-> "rollback", moved |-> cmd.moved,
              back |-> {p \in RestorePart : cmd.moved[p] # Missing}])
  /\ UNCHANGED <<backend, aside, archives, server, born, keysMade, torn, astray>>

\* os.RemoveAll of the destination and os.Rename of its copy, in any order of files.
rollbackRestore(c) ==
  LET cmd == commands[c] IN
  /\ cmd.op = "rollback"
  /\ IF cmd.back = {} THEN GoesOn(c, Idle) /\ UNCHANGED live
     ELSE \E p \in cmd.back :
            /\ live' = [live EXCEPT ![p] = cmd.moved[p]]
            /\ GoesOn(c, [cmd EXCEPT !.back = @ \ {p}, !.moved[p] = Missing])
  /\ UNCHANGED <<backend, aside, archives, server, born, keysMade, torn, astray>>

-----------------------------------------------------------------------------
\* Restore of a PostgreSQL installation: into an empty database and to new files.

\* The operator gives the installation a new database and new places.
NewInstallation ==
  /\ backend = "postgresql" /\ server = NotServing /\ archives # {}
  /\ \A c \in Command : commands[c] = Idle
  /\ live.db # Missing /\ Cardinality(aside) < MaxAside
  /\ aside' = aside \cup {live.db, live.key}
  /\ live' = [db |-> Missing, wal |-> Missing, key |-> Missing]
  /\ UNCHANGED <<backend, archives, server, commands, born, keysMade, torn, astray>>

\* requireEmptyPostgreSQLDatabase and stagePostgreSQLFiles
StagePostgreSQLFiles(c) ==
  /\ backend = "postgresql" /\ server = NotServing /\ \A d \in Command : commands[d] = Idle
  /\ live.db = Missing /\ live.key = Missing
  /\ \E a \in archives : GoesOn(c, [op |-> "pgrestore", step |-> "load", archive |-> a])
  /\ UNCHANGED <<backend, live, aside, archives, server, born, keysMade, torn, astray>>

\* pg_restore runs in a single transaction; staging is kept from here on.
RunPgRestore(c) ==
  LET cmd == commands[c] IN
  /\ cmd.op = "pgrestore" /\ cmd.step = "load"
  /\ live' = [live EXCEPT !.db = Installed(cmd, "db")]
  /\ GoesOn(c, [cmd EXCEPT !.step = "publish"])
  /\ UNCHANGED <<backend, aside, archives, server, born, keysMade, torn, astray>>

BeginPublish(c) ==
  LET cmd == commands[c] IN
  /\ cmd.op = "pgrestore" /\ cmd.step = "publish" /\ live.key = Missing
  /\ live' = [live EXCEPT !.key = Partial]
  /\ UNCHANGED <<backend, aside, archives, server, commands, born, keysMade, torn, astray>>

EndPublish(c) ==
  LET cmd == commands[c] IN
  /\ cmd.op = "pgrestore" /\ cmd.step = "publish" /\ live.key = Partial
  /\ live' = [live EXCEPT !.key = cmd.archive.key]
  /\ GoesOn(c, Idle) /\ torn' = FALSE /\ astray' = (astray \/ ~cmd.archive.aligned)
  /\ UNCHANGED <<backend, aside, archives, server, born, keysMade>>

PgRestoreFails(c) ==
  LET cmd == commands[c] IN
  /\ cmd.op = "pgrestore" /\ GoesOn(c, Idle)
  /\ aside' = aside \cup {cmd.archive.key}
  /\ torn' = (torn \/ cmd.step = "publish")
  /\ UNCHANGED <<backend, live, archives, server, born, keysMade, astray>>

\* The process of a command ends between two steps; the files stay as they are.
CommandCrash(c) ==
  LET cmd == commands[c] IN
  /\ cmd # Idle /\ GoesOn(c, Idle)
  /\ aside' = aside \cup CASE cmd.op \in {"restore", "rollback"} -> MovedBy(cmd)
                            [] cmd.op = "pgrestore" -> {cmd.archive.key}
                            [] OTHER -> {}
  /\ torn' = \/ torn
             \/ cmd.op \in {"restore", "rollback"} /\ MovedBy(cmd) # {}
             \/ cmd.op = "pgrestore" /\ cmd.step = "publish"
  /\ UNCHANGED <<backend, live, archives, server, born, keysMade, astray>>

-----------------------------------------------------------------------------
RecoveryNext ==
  \/ StartServer \/ StopServer \/ ServerCrash \/ NewInstallation
  \/ \E s \in Secret : StoreSecret(s)
  \/ \E c \in Command :
       \/ \E op \in {"backup", "rotate"} : BeginCommand(c, op)
       \/ WriteArchive(c) \/ CommandFails(c) \/ BeginIdentityKeyRotation(c)
       \/ RotateIdentityCiphertexts(c) \/ FinalizeIdentityKeyRotation(c)
       \/ BeginRestore(c) \/ Preserve(c) \/ PreserveMkdirFails(c) \/ BeginCopy(c) \/ EndCopy(c)
       \/ RestoreFails(c) \/ rollbackRestore(c)
       \/ StagePostgreSQLFiles(c) \/ RunPgRestore(c) \/ BeginPublish(c) \/ EndPublish(c)
       \/ PgRestoreFails(c) \/ CommandCrash(c)

RecoverySpec == RecoveryInit /\ [][RecoveryNext]_recoveryVars

-----------------------------------------------------------------------------
InUse(c) ==
  CASE commands[c].op \in {"restore", "rollback"} -> MovedBy(commands[c])
    [] commands[c].op = "pgrestore" -> {commands[c].archive.key}
    [] OTHER -> {}
OnDisk == aside \cup {live.db, live.wal, live.key} \cup UNION {InUse(c) : c \in Command}
Databases == {f \in OnDisk : f.kind = "db"}
Keys == {f \in OnDisk : f.kind = "key"}

RecoveryTypeOK ==
  /\ backend \in {"sqlite", "postgresql"} /\ {torn, astray} \subseteq BOOLEAN
  /\ live.db.kind \in {"db", "missing", "partial"} /\ live.wal.kind \in {"db", "missing"}
  /\ live.key.kind \in {"key", "missing", "partial"}
  /\ backend = "postgresql" => live.wal = Missing

(* Wherever a backup, a rotation or a restore stops, the key file in place *)
(* decrypts every encrypted value of the database in place, as the running *)
(* server does; and every archive holds a key that decrypts its own        *)
(* snapshot, unless a rotation ended while the archive was being made      *)
(* (secretbox.go, Create of backup.go, identity_rotation.go).              *)
SecretsReadable ==
  ~astray =>
    /\ ~torn /\ ~Restoring /\ live.db # Missing /\ live.key # Missing =>
         Opens(live.key, CurrentRows)
    /\ server # NotServing => Opens(server, CurrentRows)
    /\ \A a \in archives : a.aligned => Opens(a.key, a.db)

(* A restore never costs the data it replaces: wherever it stops, for      *)
(* every database that ever served here there is a copy with all that was  *)
(* stored in it, and a key file that opens it, in place or set aside.      *)
NothingLost ==
  ~astray =>
    \A n \in DOMAIN born :
      \E db \in Databases, key \in Keys :
        db.lineage = n /\ Stored(db) = born[n] /\ Opens(key, db)

(* Every archive has the key that matches its database, as                 *)
(* docs/BACKUP_RESTORE.md says.  It does not hold: nothing keeps a         *)
(* rotation from ending between the two copies of a backup.                *)
ArchivesMatch == \A a \in archives : Opens(a.key, a.db)
=============================================================================
