------------------------ MODULE ServerRecoveryProofs ------------------------
(***************************************************************************)
(* The files of a server stay readable and complete through backup,        *)
(* restore, key rotation and the crashes between their steps, for any      *)
(* secrets, bounds and number of commands: RecoveryInv holds initially, is *)
(* kept by every step that does not lead astray and implies the            *)
(* properties.                                                             *)
(***************************************************************************)
EXTENDS ServerRecovery, TLAPS

-----------------------------------------------------------------------------
\* What the files and the commands can be.
Ciphertexts == [key : Nat, envelope : BOOLEAN]
DatabaseFiles == [kind : {"db"}, lineage : Nat, values : [Secret -> Ciphertexts]]
KeyFiles ==
  {k \in [kind : {"key"}, keys : SUBSET Nat, active : Nat, legacy : Nat] : k.active \in k.keys}
Places == [db : DatabaseFiles \cup {Missing, Partial}, wal : DatabaseFiles \cup {Missing},
           key : KeyFiles \cup {Missing, Partial}]
Nowhere == [db |-> Missing, wal |-> Missing, key |-> Missing]
Archived == [db : DatabaseFiles, key : KeyFiles, aligned : BOOLEAN]

Snapshots == [op : {"backup", "rotate"}, step : {"archive"}, aligned : BOOLEAN,
              snapshot : DatabaseFiles]
Rotations == [op : {"rotate"}, step : {"begin"}]
             \cup [op : {"rotate"}, step : {"ciphertexts", "finalize"}, box : KeyFiles]
ToMove == {<<"db", "key", "wal">>, <<"key", "wal">>, <<"wal">>, <<>>}
ToCopy == {<<"db", "key">>, <<"key">>}
Replacements ==
  [op : {"restore"}, archive : Archived, moved : Places, todo : ToMove, copy : ToCopy]
Rollbacks == [op : {"rollback"}, moved : Places, back : SUBSET RestorePart]
PgRestores == [op : {"pgrestore"}, step : {"load", "publish"}, archive : Archived]
Commands == {Idle} \cup Snapshots \cup Rotations \cup Replacements \cup Rollbacks \cup PgRestores

RecoveryTypes ==
  /\ backend \in {"sqlite", "postgresql"} /\ torn \in BOOLEAN
  /\ live \in Places /\ (backend = "postgresql" => live.wal = Missing)
  /\ archives \in SUBSET Archived
  /\ server \in KeyFiles \cup {NotServing}
  /\ commands \in [Command -> Commands]
  /\ born \in Seq(SUBSET Secret) /\ keysMade \in Nat

-----------------------------------------------------------------------------
\* What is in three places l, with the files set aside a and the histories b
\* of the databases.
Rows(l) == IF l.wal # Missing THEN l.wal ELSE l.db
Three(l) == {l.db, l.wal, l.key}

\* Files hold a database with its history, and a key that opens it.
Kept(n, stored, files) ==
  \E db \in files, key \in files :
    /\ db.kind = "db" /\ key.kind = "key"
    /\ db.lineage = n /\ Stored(db) = stored /\ Opens(key, db)
Covered(l, a, b) == \A n \in DOMAIN b : Kept(n, b[n], a \cup Three(l))

\* A whole installation: its key opens it, and every database that is not
\* the one in place is kept aside.
Whole(l, a, b) ==
  /\ l.db \in DatabaseFiles /\ l.key \in KeyFiles /\ Opens(l.key, Rows(l))
  /\ l.wal # Missing => l.wal.lineage # 0 /\ l.db.lineage # 0
  /\ Rows(l).lineage # 0 =>
       Rows(l).lineage \in DOMAIN b /\ Stored(Rows(l)) = b[Rows(l).lineage]
  /\ \A n \in DOMAIN b \ {Rows(l).lineage} : Kept(n, b[n], a)
Vacant(l, a, b, kind) ==
  l = Nowhere /\ kind = "postgresql" /\ \A n \in DOMAIN b : Kept(n, b[n], a)
Intact(l, a, b, kind, cut) ==
  Covered(l, a, b) /\ (~cut => Whole(l, a, b) \/ Vacant(l, a, b, kind))

\* What was in place when a restore began.
Before(cmd, l) ==
  CASE cmd.op = "restore" ->
         [db |-> IF cmd.todo = <<"db", "key", "wal">> THEN l.db ELSE cmd.moved.db,
          wal |-> IF cmd.todo = <<>> THEN cmd.moved.wal ELSE l.wal,
          key |-> IF cmd.todo \in {<<"db", "key", "wal">>, <<"key", "wal">>}
                  THEN l.key ELSE cmd.moved.key]
    [] cmd.op = "rollback" ->
         [db |-> IF "db" \in cmd.back THEN cmd.moved.db ELSE l.db,
          wal |-> IF "wal" \in cmd.back THEN cmd.moved.wal ELSE l.wal,
          key |-> IF "key" \in cmd.back THEN cmd.moved.key ELSE l.key]
    [] OTHER -> Nowhere

-----------------------------------------------------------------------------
\* The inductive invariant.
InService(l) == l.db \in DatabaseFiles /\ l.db.lineage # 0 /\ l.key \in KeyFiles

ServingInv ==
  server # NotServing => ~Restoring /\ ~Rotating /\ ~torn /\ InService(live) /\ server = live.key
CalmInv == ~Restoring => Intact(live, aside, born, backend, torn)
ArchivesInv == \A a \in archives : a.aligned => Opens(a.key, a.db)

\* Nothing runs beside a restore, and one rotation at a time.
ApartInv ==
  \A c, d \in Command : c # d =>
    /\ commands[c].op \in {"restore", "rollback", "pgrestore"} => commands[d] = Idle
    /\ commands[c].op = "rotate" => commands[d].op # "rotate"

\* A backup or a rotation works on a whole installation.
MaintenanceInv(cmd) ==
  cmd.op \in {"backup", "rotate"} =>
    /\ ~torn /\ InService(live)
    /\ cmd.step = "archive" => (cmd.aligned => Opens(live.key, cmd.snapshot))
    /\ cmd.step \in {"ciphertexts", "finalize"} => cmd.box = live.key
    /\ cmd.step = "finalize" =>
         \A s \in Stored(CurrentRows) : CurrentRows.values[s] = Encrypt(cmd.box)

\* A restore has what it took away, and where it was there is nothing.
ReplacementInv(cmd) ==
  cmd.op = "restore" =>
    /\ cmd.archive \in archives /\ backend = "sqlite"
    /\ Intact(Before(cmd, live), aside, born, backend, torn)
    /\ cmd.todo # <<>> => cmd.moved.wal = Missing /\ cmd.copy = <<"db", "key">>
    /\ IF cmd.todo = <<"db", "key", "wal">> THEN cmd.moved.db = Missing
       ELSE cmd.todo # <<>> => live.db = Missing
    /\ IF cmd.todo \in {<<"db", "key", "wal">>, <<"key", "wal">>} THEN cmd.moved.key = Missing
       ELSE cmd.todo # <<>> => live.key = Missing
    /\ cmd.todo = <<>> =>
         /\ live.wal = Missing
         /\ IF cmd.copy = <<"key">>
            THEN live.key \in {Missing, Partial} /\ live.db = Installed(cmd, "db")
            ELSE live.key = Missing /\ live.db \in {Missing, Partial}
RollbackInv(cmd) ==
  cmd.op = "rollback" =>
    /\ backend = "sqlite" /\ Intact(Before(cmd, live), aside, born, backend, torn)
    /\ \A p \in RestorePart : IF p \in cmd.back THEN cmd.moved[p] # Missing /\ live[p] = Missing
                              ELSE cmd.moved[p] = Missing
PgRestoreInv(cmd) ==
  cmd.op = "pgrestore" =>
    /\ cmd.archive \in archives /\ backend = "postgresql"
    /\ Intact(Nowhere, aside, born, backend, torn)
    /\ IF cmd.step = "load" THEN live = Nowhere
       ELSE live.db = Installed(cmd, "db") /\ live.key \in {Missing, Partial}

CommandInv(cmd) ==
  MaintenanceInv(cmd) /\ ReplacementInv(cmd) /\ RollbackInv(cmd) /\ PgRestoreInv(cmd)

RecoveryInv ==
  /\ RecoveryTypes /\ ServingInv /\ CalmInv /\ ArchivesInv /\ ApartInv
  /\ \A c \in Command : CommandInv(commands[c])
CourseInv == ~astray => RecoveryInv

\* The commands besides c: what they do, and what a step of c does to them.
OthersIdle(c) == \A d \in Command \ {c} : commands[d] = Idle
NoOtherRotates(c) == \A d \in Command \ {c} : commands[d].op # "rotate"
OthersStay(c) == \A d \in Command \ {c} : commands'[d] = commands[d]
OthersMaintain(c) ==
  \A d \in Command \ {c} : commands'[d].op = commands[d].op /\ MaintenanceInv(commands[d])'

-----------------------------------------------------------------------------
\* Files and what they keep.

\* A kept database stays kept as long as its files are somewhere.
LEMMA KeptMoves ==
  ASSUME NEW n, NEW stored, NEW F, NEW G, Kept(n, stored, F),
         \A f \in F : f.kind \in {"db", "key"} => f \in G
  PROVE  Kept(n, stored, G)
BY Zenon DEF Kept

\* What was in place is covered by the files that have it now.
LEMMA CoveredMoves ==
  ASSUME NEW l, NEW a, NEW b, NEW m, NEW x, Covered(l, a, b), a \subseteq x,
         \A f \in Three(l) : f.kind \in {"db", "key"} => f \in x \cup Three(m)
  PROVE  Covered(m, x, b)
<1>1. \A f \in a \cup Three(l) : f.kind \in {"db", "key"} => f \in x \cup Three(m)
  BY Zenon
<1> QED BY <1>1, KeptMoves, Zenon DEF Covered

\* More files set aside do no harm.
LEMMA AsideGrows ==
  ASSUME NEW l, NEW a, NEW b, NEW kind, NEW cut, NEW x, a \subseteq x,
         Intact(l, a, b, kind, cut)
  PROVE  Intact(l, x, b, kind, cut)
<1>1. Covered(l, x, b)
  BY CoveredMoves, Zenon DEF Intact
<1>2. ASSUME NEW n, NEW s, Kept(n, s, a) PROVE Kept(n, s, x)
  BY <1>2, KeptMoves, Zenon
<1>3. Whole(l, a, b) => Whole(l, x, b)
  BY <1>2, Zenon DEF Whole
<1>4. Vacant(l, a, b, kind) => Vacant(l, x, b, kind)
  BY <1>2, Zenon DEF Vacant
<1> QED BY <1>1, <1>3, <1>4, Zenon DEF Intact

\* A whole installation keeps its own database, the others are aside.
LEMMA WholeIsIntact ==
  ASSUME NEW l \in Places, NEW a, NEW b \in Seq(SUBSET Secret), NEW kind, NEW cut,
         Whole(l, a, b)
  PROVE  Intact(l, a, b, kind, cut)
<1>1. ASSUME NEW n \in DOMAIN b, n # Rows(l).lineage PROVE Kept(n, b[n], a \cup Three(l))
  <2>1. Kept(n, b[n], a)
    BY <1>1, Zenon DEF Whole
  <2> QED BY <2>1, KeptMoves, Zenon
<1>2. ASSUME NEW n \in DOMAIN b, n = Rows(l).lineage, n # 0 PROVE Kept(n, b[n], a \cup Three(l))
  <2>1. Rows(l) \in Three(l) /\ l.key \in Three(l)
    BY Zenon DEF Rows, Three
  <2>2. Rows(l).kind = "db" /\ l.key.kind = "key"
    BY SMT DEF Whole, Rows, DatabaseFiles, KeyFiles, Places, Missing
  <2>3. Stored(Rows(l)) = b[n] /\ Opens(l.key, Rows(l))
    BY <1>2, Zenon DEF Whole
  <2> QED BY <1>2, <2>1, <2>2, <2>3, Zenon DEF Kept
<1>3. 0 \notin DOMAIN b
  <2>1. DOMAIN b = 1..Len(b) /\ Len(b) \in Nat
    BY SMT
  <2> QED BY <2>1, SMT
<1> QED BY <1>1, <1>2, <1>3, Zenon DEF Covered, Intact

\* A vacant installation is covered by what is aside.
LEMMA VacantIsIntact ==
  ASSUME NEW l, NEW a, NEW b, NEW kind, NEW cut, Vacant(l, a, b, kind)
  PROVE  Intact(l, a, b, kind, cut)
<1>1. ASSUME NEW n \in DOMAIN b PROVE Kept(n, b[n], a \cup Three(l))
  <2>1. Kept(n, b[n], a)
    BY Zenon DEF Vacant
  <2> QED BY <2>1, KeptMoves, Zenon
<1> QED BY <1>1, Zenon DEF Covered, Intact

\* Where nothing is in place, everything is aside.
LEMMA NothingInPlace ==
  ASSUME NEW a, NEW b, Covered(Nowhere, a, b), NEW n \in DOMAIN b
  PROVE  Kept(n, b[n], a)
<1>1. \A f \in a \cup Three(Nowhere) : f.kind \in {"db", "key"} => f \in a
  BY DEF Three, Nowhere, Missing
<1>2. Kept(n, b[n], a \cup Three(Nowhere))
  BY Zenon DEF Covered
<1> QED BY <1>1, <1>2, KeptMoves, Zenon

\* A database and a key that opens it, both of an archive, make a whole
\* installation once everything else is aside.
LEMMA InstalledIsWhole ==
  ASSUME NEW l \in Places, NEW a, NEW b \in Seq(SUBSET Secret), Covered(Nowhere, a, b),
         NEW d \in Archived, Opens(d.key, d.db),
         l.db = Database(0, d.db.values), l.wal = Missing, l.key = d.key
  PROVE  Whole(l, a, b)
<1>1. l.db \in DatabaseFiles /\ l.key \in KeyFiles /\ l.db.lineage = 0
  BY SMT DEF Archived, Database, DatabaseFiles
<1>2. Rows(l) = l.db
  BY Zenon DEF Rows
<1>3. Opens(l.key, Rows(l))
  <2>1. l.db.values = d.db.values
    BY SMT DEF Database
  <2> QED BY <1>2, <2>1, Zenon DEF Opens, Stored
<1>4. \A n \in DOMAIN b : Kept(n, b[n], a)
  BY NothingInPlace, Zenon
<1> QED BY <1>1, <1>2, <1>3, <1>4, Zenon DEF Whole

\* A database opened for the first time gets a history of its own.
LEMMA OpenedIsWhole ==
  ASSUME NEW l \in Places, NEW a, NEW b \in Seq(SUBSET Secret),
         l.db \in DatabaseFiles, l.wal = Missing, l.key \in KeyFiles,
         l.db.lineage = Len(b) + 1, Opens(l.key, l.db),
         \A n \in DOMAIN b : Kept(n, b[n], a)
  PROVE  Whole(l, a, Append(b, Stored(l.db)))
<1> DEFINE x == Append(b, Stored(l.db))
<1>1. /\ Len(b) + 1 \in DOMAIN x /\ x[Len(b) + 1] = Stored(l.db)
      /\ \A n \in DOMAIN x \ {Len(b) + 1} : n \in DOMAIN b /\ x[n] = b[n]
  <2>1. Stored(l.db) \in SUBSET Secret
    BY Zenon DEF Stored
  <2> QED BY <2>1, SMT
<1>2. Rows(l) = l.db
  BY Zenon DEF Rows
<1> HIDE DEF x
<1>3. Whole(l, a, x)
  BY <1>1, <1>2, Zenon DEF Whole
<1> QED BY <1>3, Zenon DEF x

\* A commit of rows that the key opens leaves the installation whole.
LEMMA CommitIsWhole ==
  ASSUME NEW l \in Places, NEW a, NEW b \in Seq(SUBSET Secret), Whole(l, a, b),
         l.db.lineage # 0, NEW d \in DatabaseFiles, d.lineage = Rows(l).lineage,
         Opens(l.key, d), NEW m \in Places, m.key = l.key,
         \/ m.wal = d /\ m.db = l.db
         \/ m.wal = Missing /\ l.wal = Missing /\ m.db = d,
         NEW x, DOMAIN x = DOMAIN b, x[d.lineage] = Stored(d),
         \A n \in DOMAIN b \ {d.lineage} : x[n] = b[n]
  PROVE  Whole(m, a, x) /\ Rows(m) = d /\ m.db.lineage # 0
<1>1. d # Missing
  BY SMT DEF DatabaseFiles, Missing
<1>2. Rows(m) = d
  BY <1>1, Zenon DEF Rows
<1>3. d.lineage # 0 /\ d.lineage \in DOMAIN b
  BY Zenon DEF Whole, Rows
<1>4. m.db \in DatabaseFiles /\ m.db.lineage # 0
  BY <1>3, Zenon DEF Whole
<1> QED BY <1>2, <1>3, <1>4, Zenon DEF Whole

\* The last connection moves the log into the database.
LEMMA EmptiedIsWhole ==
  ASSUME NEW l \in Places, NEW a, NEW b, Whole(l, a, b)
  PROVE  /\ LogEmptied(l) \in Places /\ Whole(LogEmptied(l), a, b)
         /\ Rows(LogEmptied(l)) = Rows(l) /\ LogEmptied(l).key = l.key
         /\ l.db.lineage # 0 => LogEmptied(l).db.lineage # 0
         /\ LogEmptied(l).wal = Missing
<1>1. CASE l.wal = Missing
  BY <1>1, Zenon DEF LogEmptied
<1>2. CASE l.wal # Missing
  <2> DEFINE m == LogEmptied(l)
  <2>1. m \in Places /\ m.db = l.wal /\ m.wal = Missing /\ m.key = l.key
    <3>1. m = [l EXCEPT !.db = l.wal, !.wal = Missing]
      BY <1>2, Zenon DEF LogEmptied
    <3>2. DOMAIN l = {"db", "wal", "key"} /\ l.wal \in DatabaseFiles /\ l.key \in KeyFiles \cup {Missing, Partial}
      BY <1>2, SMT DEF Places
    <3>3. m \in Places
      BY <3>1, <3>2, Zenon DEF Places
    <3> QED BY <3>1, <3>2, <3>3, SMT
  <2>2. m.db \in DatabaseFiles /\ m.db.lineage # 0
    BY <1>2, <2>1, SMT DEF Whole, Places
  <2> HIDE DEF m
  <2>3. Rows(m) = Rows(l)
    BY <1>2, <2>1, Zenon DEF Rows
  <2>4. Whole(m, a, b)
    BY <2>1, <2>2, <2>3, Zenon DEF Whole
  <2> QED BY <2>1, <2>2, <2>3, <2>4, Zenon DEF m
<1> QED BY <1>1, <1>2, Zenon

-----------------------------------------------------------------------------
\* Commands.

\* What a command holds depends on what it does.
LEMMA CommandShapes ==
  ASSUME NEW cmd \in Commands
  PROVE  /\ cmd.op \in {"backup", "rotate"} /\ cmd.step = "archive" => cmd \in Snapshots
         /\ cmd.op = "rotate" /\ cmd.step = "begin" => cmd \in [op : {"rotate"}, step : {"begin"}]
         /\ cmd.op = "rotate" /\ cmd.step \in {"ciphertexts", "finalize"} =>
              cmd \in [op : {"rotate"}, step : {"ciphertexts", "finalize"}, box : KeyFiles]
         /\ cmd.op = "restore" => cmd \in Replacements
         /\ cmd.op = "rollback" => cmd \in Rollbacks
         /\ cmd.op = "pgrestore" => cmd \in PgRestores
<1>1. CASE cmd \in {Idle}
  BY <1>1, SMT DEF Idle
<1>2. CASE cmd \in Snapshots
  BY <1>2, SMT DEF Snapshots
<1>3. CASE cmd \in Rotations
  BY <1>3, SMT DEF Rotations
<1>4. CASE cmd \in Replacements
  BY <1>4, SMT DEF Replacements
<1>5. CASE cmd \in Rollbacks
  BY <1>5, SMT DEF Rollbacks
<1>6. CASE cmd \in PgRestores
  BY <1>6, SMT DEF PgRestores
<1> QED BY <1>1, <1>2, <1>3, <1>4, <1>5, <1>6, Zenon DEF Commands

\* Beside idle commands one command has to be looked at.
LEMMA NobodyElse ==
  ASSUME NEW c \in Command, \A d \in Command \ {c} : commands'[d] = Idle, CommandInv(commands[c])'
  PROVE  ApartInv' /\ \A d \in Command : CommandInv(commands[d])'
<1>1. Idle.op = "idle"
  BY SMT DEF Idle
<1>2. ASSUME NEW d \in Command, d # c PROVE CommandInv(commands[d])'
  <2>1. commands'[d] = Idle
    BY <1>2, Zenon
  <2> QED BY <1>1, <2>1, SMT DEF CommandInv, MaintenanceInv, ReplacementInv, RollbackInv, PgRestoreInv
<1>3. ApartInv'
  <2>1. "idle" \notin {"restore", "rollback", "pgrestore"} /\ "idle" # "rotate"
    BY SMT
  <2> QED BY <1>1, <2>1, Zenon DEF ApartInv
<1> QED BY <1>2, <1>3, Zenon

\* A command that goes on is the only one that changes.
LEMMA GoingOn ==
  ASSUME RecoveryTypes, NEW c \in Command, NEW cmd \in Commands, GoesOn(c, cmd)
  PROVE  commands' \in [Command -> Commands] /\ commands'[c] = cmd /\ OthersStay(c)
BY Zenon DEF RecoveryTypes, GoesOn, OthersStay

\* In service the rows are a database.
LEMMA RowsInService ==
  ASSUME RecoveryTypes, Whole(live, aside, born)
  PROVE  CurrentRows \in DatabaseFiles /\ CurrentRows = Rows(live)
<1>1. CurrentRows = Rows(live)
  BY Zenon DEF CurrentRows, Rows
<1>2. Rows(live) \in DatabaseFiles
  BY SMT DEF RecoveryTypes, Whole, Rows, Places
<1> QED BY <1>1, <1>2, Zenon

\* A rotation, a backup or a server works on a whole installation.
LEMMA WholeInService ==
  ASSUME RecoveryInv, ~Restoring, ~torn, live.db # Missing
  PROVE  Whole(live, aside, born)
<1>1. Nowhere.db = Missing
  BY SMT DEF Nowhere
<1> QED BY <1>1, Zenon DEF RecoveryInv, CalmInv, Intact, Vacant

\* The installation after a repository was opened.
LEMMA OpenedInstallation ==
  ASSUME RecoveryInv, ~Restoring, ~torn, NEW key \in KeyFiles, live.key \in {Missing, key},
         NEW m, m = [Opened1st EXCEPT !.key = key],
         NEW x, x = IF NewDatabase THEN Append(born, Stored(Opened1st.db)) ELSE born
  PROVE  /\ m \in Places /\ (backend = "postgresql" => m.wal = Missing)
         /\ Whole(m, aside, x) /\ InService(m) /\ m.key = key
         /\ x \in Seq(SUBSET Secret)
         /\ ~NewDatabase => m = live /\ x = born
         /\ Rows(m) = IF NewDatabase THEN Opened1st.db ELSE CurrentRows
<1>1. /\ live \in Places /\ born \in Seq(SUBSET Secret)
      /\ backend = "postgresql" => live.wal = Missing
      /\ \/ Whole(live, aside, born)
         \/ Vacant(live, aside, born, backend)
  BY Zenon DEF RecoveryInv, RecoveryTypes, CalmInv, Intact
<1>2. CASE Vacant(live, aside, born, backend)
  <2>1. live = Nowhere /\ \A n \in DOMAIN born : Kept(n, born[n], aside)
    BY <1>2, Zenon DEF Vacant
  <2> DEFINE new == Database(Len(born) + 1, [s \in Secret |-> NoValue])
  <2>2. new \in DatabaseFiles /\ new.lineage = Len(born) + 1 /\ Stored(new) = {}
    <3>1. NoValue \in Ciphertexts
      BY SMT DEF NoValue, Ciphertexts
    <3>2. Len(born) + 1 \in Nat
      BY <1>1, SMT
    <3> QED BY <3>1, <3>2, SMT DEF Database, DatabaseFiles, Stored
  <2>3. NewDatabase /\ Opened1st = [live EXCEPT !.db = new, !.wal = Missing]
    BY <2>1, SMT DEF NewDatabase, Opened1st, Nowhere
  <2> HIDE DEF new
  <2>4. /\ m.db = new /\ m.wal = Missing /\ m.key = key
        /\ Opened1st.db = new /\ m \in Places
    <3>1. Opened1st \in Places
      BY <1>1, <2>2, <2>3, Zenon DEF Places
    <3>2. m \in Places
      BY <3>1, Zenon DEF Places
    <3>3. Opened1st.db = new /\ Opened1st.wal = Missing
      BY <1>1, <2>3, SMT DEF Places
    <3>4. m.db = Opened1st.db /\ m.wal = Opened1st.wal /\ m.key = key
      BY <3>1, SMT DEF Places
    <3> QED BY <3>2, <3>3, <3>4, Zenon
  <2>5. Opens(m.key, m.db)
    BY <2>2, <2>4, Zenon DEF Opens
  <2>6. Whole(m, aside, x)
    <3>1. x = Append(born, Stored(m.db))
      BY <2>3, <2>4, Zenon
    <3> QED BY <3>1, <1>1, <2>1, <2>2, <2>4, <2>5, OpenedIsWhole, Zenon
  <2>7. x \in Seq(SUBSET Secret)
    BY <1>1, <2>2, <2>3, <2>4, SMT
  <2>8. m.db.lineage # 0
    BY <1>1, <2>2, <2>4, SMT
  <2>9. InService(m) /\ Rows(m) = Opened1st.db
    BY <2>2, <2>4, <2>8, Zenon DEF Rows, InService
  <2> QED BY <2>3, <2>4, <2>6, <2>7, <2>9, Zenon
<1>3. CASE Whole(live, aside, born)
  <2>1. live.db \in DatabaseFiles /\ live.key = key /\ live.db # Missing /\ live.db # Partial
    BY <1>3, SMT DEF Whole, DatabaseFiles, KeyFiles, Missing, Partial
  <2>2. CASE live.db.lineage = 0
    <3>1. live.wal = Missing /\ Rows(live) = live.db
      BY <1>3, <2>2, Zenon DEF Whole, Rows
    <3>2. NewDatabase /\ Opened1st = [live EXCEPT !.db.lineage = Len(born) + 1]
      BY <2>1, <2>2, Zenon DEF NewDatabase, Opened1st
    <3>3. Len(born) + 1 \in Nat \ {0}
      BY <1>1, SMT
    <3> DEFINE d == [live.db EXCEPT !.lineage = Len(born) + 1]
    <3>4. d \in DatabaseFiles /\ d.lineage = Len(born) + 1 /\ d.values = live.db.values
      BY <2>1, <3>3, SMT DEF DatabaseFiles
    <3>5. Opened1st = [live EXCEPT !.db = d]
      BY <3>2, <1>1, SMT DEF Places
    <3> HIDE DEF d
    <3>6. m \in Places /\ m.db = d /\ m.wal = Missing /\ m.key = key /\ Opened1st.db = d
      <4>1. Opened1st \in Places
        BY <1>1, <3>4, <3>5, Zenon DEF Places
      <4>2. m \in Places
        BY <4>1, Zenon DEF Places
      <4>3. Opened1st.db = d /\ Opened1st.wal = live.wal
        BY <1>1, <3>5, SMT DEF Places
      <4>4. m.db = Opened1st.db /\ m.wal = Opened1st.wal /\ m.key = key
        BY <4>1, SMT DEF Places
      <4> QED BY <3>1, <4>2, <4>3, <4>4, Zenon
    <3>7. Opens(m.key, m.db)
      BY <1>3, <2>1, <3>1, <3>4, <3>6, Zenon DEF Whole, Opens, Stored
    <3>8. \A n \in DOMAIN born : Kept(n, born[n], aside)
      <4>1. 0 \notin DOMAIN born
        BY <1>1, SMT
      <4> QED BY <4>1, <1>3, <2>2, <3>1, Zenon DEF Whole
    <3>9. x = Append(born, Stored(m.db))
      BY <3>2, <3>6, Zenon
    <3>10. Whole(m, aside, x)
      BY <1>1, <3>4, <3>6, <3>7, <3>8, <3>9, OpenedIsWhole, Zenon
    <3>11. Stored(m.db) \in SUBSET Secret
      BY Zenon DEF Stored
    <3>12. x \in Seq(SUBSET Secret)
      BY <1>1, <3>9, <3>11, SMT
    <3>13. m.db.lineage # 0
      BY <3>3, <3>4, <3>6, SMT
    <3>14. InService(m) /\ Rows(m) = Opened1st.db
      BY <3>4, <3>6, <3>13, Zenon DEF Rows, InService
    <3> QED BY <3>2, <3>6, <3>10, <3>12, <3>14, Zenon
  <2>3. CASE live.db.lineage # 0
    <3>1. ~NewDatabase /\ Opened1st = live
      BY <2>1, <2>3, Zenon DEF NewDatabase, Opened1st
    <3>2. m = live
      BY <1>1, <2>1, <3>1, SMT DEF Places
    <3> QED BY <1>1, <1>3, <2>1, <2>3, <3>1, <3>2, Zenon DEF Rows, InService, CurrentRows
  <2> QED BY <2>2, <2>3, Zenon
<1> QED BY <1>1, <1>2, <1>3, Zenon

-----------------------------------------------------------------------------
\* The server.

\* The invariant of an idle command says nothing.
LEMMA IdleCommand ==
  ASSUME NEW cmd, cmd = Idle
  PROVE  CommandInv(cmd)
BY SMT DEF CommandInv, MaintenanceInv, ReplacementInv, RollbackInv, PgRestoreInv, Idle

\* A running server is alone with backups: what is on its disk is whole.
LEMMA WhileServing ==
  ASSUME RecoveryInv, server # NotServing
  PROVE  /\ ~Restoring /\ ~torn /\ Whole(live, aside, born) /\ InService(live)
         /\ server = live.key /\ CurrentRows \in DatabaseFiles /\ CurrentRows = Rows(live)
         /\ \A c \in Command :
              commands[c].op \notin {"restore", "rollback", "pgrestore", "rotate"}
<1>1. ~Restoring /\ ~Rotating /\ ~torn /\ InService(live) /\ server = live.key
  BY Zenon DEF RecoveryInv, ServingInv
<1>2. live.db # Missing
  BY <1>1, SMT DEF InService, DatabaseFiles, Missing
<1>3. Whole(live, aside, born)
  BY <1>1, <1>2, WholeInService, Zenon
<1>4. CurrentRows \in DatabaseFiles /\ CurrentRows = Rows(live)
  BY <1>3, RowsInService, Zenon DEF RecoveryInv
<1> QED BY <1>1, <1>3, <1>4, Zenon DEF Restoring, Rotating

\* While no command restores or rotates, a whole installation with the same
\* key is all the commands need.
LEMMA BackupsGoOn ==
  ASSUME RecoveryInv, NEW c \in Command, commands'[c] = commands[c], torn' = torn,
         commands[c].op \notin {"restore", "rollback", "pgrestore", "rotate"},
         InService(live'), live'.key = live.key
  PROVE  CommandInv(commands[c])'
<1>1. CommandInv(commands[c])
  BY Zenon DEF RecoveryInv
<1>2. CASE commands[c].op = "backup"
  <2>1. ~torn /\ commands[c].step = "archive"
    <3>1. commands[c] \in Commands
      BY Zenon DEF RecoveryInv, RecoveryTypes
    <3>2. commands[c].step = "archive"
      BY <1>2, <3>1, SMT
      DEF Commands, Snapshots, Rotations, Replacements, Rollbacks, PgRestores, Idle
    <3> QED BY <1>1, <1>2, <3>2, Zenon DEF CommandInv, MaintenanceInv
  <2>2. MaintenanceInv(commands[c])'
    <3>1. commands[c].aligned => Opens(live.key, commands[c].snapshot)
      BY <1>1, <1>2, <2>1, Zenon DEF CommandInv, MaintenanceInv
    <3>2. /\ commands'[c].step = "archive" /\ ~torn'
          /\ commands'[c].aligned => Opens(live'.key, commands'[c].snapshot)
      BY <2>1, <3>1, Zenon
    <3> QED BY <3>2, SMT DEF MaintenanceInv
  <2> QED BY <1>2, <2>2, SMT DEF CommandInv, ReplacementInv, RollbackInv, PgRestoreInv
<1>3. CASE commands[c].op # "backup"
  BY <1>3, SMT DEF CommandInv, MaintenanceInv, ReplacementInv, RollbackInv, PgRestoreInv
<1> QED BY <1>2, <1>3, Zenon

\* A server that starts makes what is missing and leaves the rest alone.
LEMMA StartKeeps ==
  ASSUME RecoveryInv, StartServer, ~astray'
  PROVE  RecoveryInv'
<1> DEFINE fresh == keysMade + 1
           key == IF live.key = Missing THEN KeyRing({fresh}, fresh, fresh) ELSE live.key
<1>1. /\ server = NotServing /\ ~Restoring /\ ~Rotating /\ ~torn
      /\ live' = [Opened1st EXCEPT !.key = key] /\ server' = key
      /\ keysMade' = (IF live.key = Missing THEN fresh ELSE keysMade)
      /\ born' = (IF NewDatabase THEN Append(born, Stored(Opened1st.db)) ELSE born)
      /\ live.key # Partial
      /\ backend' = backend /\ aside' = aside /\ archives' = archives
      /\ commands' = commands /\ torn' = torn
  BY Zenon DEF StartServer, OpenRepository
<1>2. key \in KeyFiles /\ fresh \in Nat
  <2>1. live.key \in KeyFiles \cup {Missing, Partial} /\ keysMade \in Nat
    BY SMT DEF RecoveryInv, RecoveryTypes, Places
  <2>2. fresh \in Nat
    BY <2>1, SMT
  <2>3. KeyRing({fresh}, fresh, fresh) \in KeyFiles
    BY <2>2, SMT DEF KeyRing, KeyFiles
  <2> QED BY <1>1, <2>1, <2>2, <2>3, Zenon
<1>3. live.key \in {Missing, key}
  OBVIOUS
<1> HIDE DEF key, fresh
<1>4. /\ live' \in Places /\ (backend = "postgresql" => live'.wal = Missing)
      /\ Whole(live', aside, born') /\ InService(live') /\ live'.key = key
      /\ born' \in Seq(SUBSET Secret)
      /\ ~NewDatabase => live' = live /\ born' = born
  BY <1>1, <1>2, <1>3, OpenedInstallation, Zenon
<1>5. ~Restoring' /\ ~Rotating'
  BY <1>1, Zenon DEF Restoring, Rotating
<1>6. RecoveryTypes'
  BY <1>1, <1>2, <1>4, Zenon DEF RecoveryInv, RecoveryTypes
<1>7. ServingInv'
  BY <1>1, <1>4, <1>5, Zenon DEF ServingInv
<1>8. CalmInv'
  BY <1>1, <1>4, WholeIsIntact, Zenon DEF CalmInv
<1>9. ArchivesInv' /\ ApartInv'
  BY <1>1, Zenon DEF RecoveryInv, ArchivesInv, ApartInv
<1>10. ASSUME NEW c \in Command PROVE CommandInv(commands[c])'
  <2>1. commands[c].op \notin {"restore", "rollback", "pgrestore", "rotate"}
    BY <1>1, Zenon DEF Restoring, Rotating
  <2>2. CASE commands[c].op = "backup"
    <3>1. InService(live)
      BY <2>2, SMT DEF RecoveryInv, CommandInv, MaintenanceInv
    <3>2. live'.key = live.key
      BY <1>4, <3>1, SMT DEF InService, NewDatabase, DatabaseFiles, Missing
    <3> QED BY <1>1, <1>4, <2>1, <3>2, BackupsGoOn, Zenon
  <2>3. CASE commands[c].op # "backup"
    BY <1>1, <2>1, <2>3, SMT
    DEF CommandInv, MaintenanceInv, ReplacementInv, RollbackInv, PgRestoreInv
  <2> QED BY <2>2, <2>3, Zenon
<1> QED BY <1>6, <1>7, <1>8, <1>9, <1>10, Zenon DEF RecoveryInv

\* A value is stored under the key of the server, which is the key in place.
LEMMA StoreKeeps ==
  ASSUME RecoveryInv, NEW s \in Secret, StoreSecret(s)
  PROVE  RecoveryInv'
<1> DEFINE d == [CurrentRows EXCEPT !.values[s] = Encrypt(server)]
<1>1. /\ server # NotServing /\ CurrentRows.values[s] = NoValue /\ live' = Committed(d)
      /\ born' = [born EXCEPT ![CurrentRows.lineage] = @ \cup {s}]
      /\ backend' = backend /\ aside' = aside /\ archives' = archives /\ server' = server
      /\ commands' = commands /\ keysMade' = keysMade /\ torn' = torn
  BY Zenon DEF StoreSecret
<1>2. /\ ~Restoring /\ ~torn /\ Whole(live, aside, born) /\ InService(live)
      /\ server = live.key /\ CurrentRows \in DatabaseFiles /\ CurrentRows = Rows(live)
      /\ \A c \in Command : commands[c].op \notin {"restore", "rollback", "pgrestore", "rotate"}
  BY <1>1, WhileServing, Zenon
<1>3. /\ live \in Places /\ born \in Seq(SUBSET Secret)
      /\ backend \in {"sqlite", "postgresql"}
      /\ backend = "postgresql" => live.wal = Missing
  BY Zenon DEF RecoveryInv, RecoveryTypes
<1>4. Encrypt(server) \in Ciphertexts /\ Encrypt(server) # NoValue
  BY <1>2, SMT DEF InService, KeyFiles, Encrypt, Ciphertexts, NoValue
<1>5. /\ d \in DatabaseFiles /\ d.lineage = CurrentRows.lineage
      /\ d.values = [CurrentRows.values EXCEPT ![s] = Encrypt(server)]
  BY <1>2, <1>4, SMT DEF DatabaseFiles
<1> HIDE DEF d
<1>6. d.values[s] = Encrypt(server) /\ \A t \in Secret \ {s} : d.values[t] = CurrentRows.values[t]
  BY <1>2, <1>5, SMT DEF DatabaseFiles
<1>7. Stored(d) = Stored(CurrentRows) \cup {s}
  BY <1>4, <1>6, SMT DEF Stored
<1>8. Opens(live.key, d)
  <2>1. Decrypts(live.key, Encrypt(server))
    BY <1>2, SMT DEF InService, KeyFiles, Encrypt, Decrypts, ciphertextKey
  <2>2. \A t \in Stored(CurrentRows) : Decrypts(live.key, CurrentRows.values[t])
    BY <1>2, Zenon DEF Whole, Opens
  <2>3. \A t \in Stored(d) : t = s \/ (t \in Stored(CurrentRows) /\ t \in Secret \ {s})
    BY <1>7, SMT DEF Stored
  <2> QED BY <1>6, <2>1, <2>2, <2>3, Zenon DEF Opens
<1>9. /\ live' \in Places /\ live'.key = live.key
      /\ backend = "postgresql" => live'.wal = Missing
      /\ \/ live'.wal = d /\ live'.db = live.db
         \/ live'.wal = Missing /\ live.wal = Missing /\ live'.db = d
  <2>1. CASE backend = "sqlite"
    <3>1. live' = [live EXCEPT !.wal = d]
      BY <1>1, <2>1, Zenon DEF Committed
    <3>2. live' \in Places
      BY <1>3, <1>5, <3>1, Zenon DEF Places
    <3> QED BY <1>3, <2>1, <3>1, <3>2, SMT DEF Places
  <2>2. CASE backend = "postgresql"
    <3>1. live' = [live EXCEPT !.db = d]
      BY <1>1, <2>2, Zenon DEF Committed
    <3>2. live' \in Places
      BY <1>3, <1>5, <3>1, Zenon DEF Places
    <3> QED BY <1>3, <2>2, <3>1, <3>2, SMT DEF Places
  <2> QED BY <1>3, <2>1, <2>2, Zenon
<1>10. CurrentRows.lineage \in DOMAIN born /\ Stored(CurrentRows) = born[CurrentRows.lineage]
  BY <1>2, Zenon DEF Whole, InService, Rows
<1>11. /\ born' \in Seq(SUBSET Secret) /\ DOMAIN born' = DOMAIN born
       /\ born'[d.lineage] = Stored(d)
       /\ \A n \in DOMAIN born \ {d.lineage} : born'[n] = born[n]
  <2>1. Stored(d) \in SUBSET Secret
    BY Zenon DEF Stored
  <2>2. born' = [born EXCEPT ![d.lineage] = Stored(d)]
    BY <1>1, <1>5, <1>7, <1>10, SMT
  <2> QED BY <1>3, <1>5, <1>10, <2>1, <2>2, SMT
<1>12. /\ Whole(live', aside, born') /\ live'.db.lineage # 0
  <2>1. d.lineage = Rows(live).lineage /\ live.db.lineage # 0
    BY <1>2, <1>5, Zenon DEF InService
  <2> QED BY <1>2, <1>3, <1>5, <1>8, <1>9, <1>11, <2>1, CommitIsWhole, SMT
<1>13. InService(live')
  BY <1>12, Zenon DEF Whole, InService
<1>14. ~Restoring' /\ ~Rotating'
  BY <1>1, <1>2, Zenon DEF Restoring, Rotating
<1>15. RecoveryTypes'
  BY <1>1, <1>9, <1>11, Zenon DEF RecoveryInv, RecoveryTypes
<1>16. ServingInv'
  BY <1>1, <1>2, <1>9, <1>13, <1>14, Zenon DEF ServingInv
<1>17. CalmInv'
  BY <1>1, <1>9, <1>11, <1>12, WholeIsIntact, Zenon DEF CalmInv
<1>18. ArchivesInv' /\ ApartInv'
  BY <1>1, Zenon DEF RecoveryInv, ArchivesInv, ApartInv
<1>19. ASSUME NEW c \in Command PROVE CommandInv(commands[c])'
  BY <1>1, <1>2, <1>9, <1>13, BackupsGoOn, Zenon
<1> QED BY <1>15, <1>16, <1>17, <1>18, <1>19, Zenon DEF RecoveryInv

\* A server that stops or is killed leaves what it had committed.
LEMMA StopKeeps ==
  ASSUME RecoveryInv, StopServer \/ ServerCrash
  PROVE  RecoveryInv'
<1>1. /\ server # NotServing /\ server' = NotServing /\ live' \in {live, LogEmptied(live)}
      /\ backend' = backend /\ aside' = aside /\ archives' = archives /\ born' = born
      /\ commands' = commands /\ keysMade' = keysMade /\ torn' = torn
  BY Zenon DEF StopServer, ServerCrash
<1>2. /\ ~Restoring /\ Whole(live, aside, born) /\ InService(live)
      /\ \A c \in Command : commands[c].op \notin {"restore", "rollback", "pgrestore", "rotate"}
  BY <1>1, WhileServing, Zenon
<1>3. /\ live \in Places /\ born \in Seq(SUBSET Secret)
      /\ backend = "postgresql" => live.wal = Missing
  BY Zenon DEF RecoveryInv, RecoveryTypes
<1>4. /\ live' \in Places /\ Whole(live', aside, born) /\ live'.key = live.key
      /\ live'.db.lineage # 0 /\ (backend = "postgresql" => live'.wal = Missing)
  BY <1>1, <1>2, <1>3, EmptiedIsWhole, Zenon DEF InService
<1>5. InService(live')
  BY <1>4, Zenon DEF Whole, InService
<1>6. RecoveryTypes'
  BY <1>1, <1>4, Zenon DEF RecoveryInv, RecoveryTypes
<1>7. ServingInv'
  BY <1>1, Zenon DEF ServingInv
<1>8. CalmInv'
  BY <1>1, <1>3, <1>4, WholeIsIntact, Zenon DEF CalmInv
<1>9. ArchivesInv' /\ ApartInv'
  BY <1>1, Zenon DEF RecoveryInv, ArchivesInv, ApartInv
<1>10. ASSUME NEW c \in Command PROVE CommandInv(commands[c])'
  BY <1>1, <1>2, <1>4, <1>5, BackupsGoOn, Zenon
<1> QED BY <1>6, <1>7, <1>8, <1>9, <1>10, Zenon DEF RecoveryInv

\* A new installation leaves the old files aside.
LEMMA NewKeeps ==
  ASSUME RecoveryInv, NewInstallation
  PROVE  RecoveryInv'
<1>1. /\ backend = "postgresql" /\ server = NotServing /\ \A c \in Command : commands[c] = Idle
      /\ aside' = aside \cup {live.db, live.key} /\ live' = Nowhere
      /\ backend' = backend /\ archives' = archives /\ server' = server /\ born' = born
      /\ commands' = commands /\ keysMade' = keysMade /\ torn' = torn
  BY Zenon DEF NewInstallation, Nowhere
<1>2. ~Restoring
  BY <1>1, SMT DEF Restoring, Idle
<1>3. Covered(live, aside, born) /\ live.wal = Missing
  BY <1>1, <1>2, Zenon DEF RecoveryInv, RecoveryTypes, CalmInv, Intact
<1>4. Covered(Nowhere, aside', born)
  <2>1. \A f \in Three(live) : f.kind \in {"db", "key"} => f \in aside' \cup Three(Nowhere)
    BY <1>1, <1>3, SMT DEF Three, Missing
  <2>2. aside \subseteq aside'
    BY <1>1, Zenon
  <2> QED BY <1>3, <2>1, <2>2, CoveredMoves, Zenon
<1>5. Intact(Nowhere, aside', born, backend, torn)
  BY <1>1, <1>4, NothingInPlace, VacantIsIntact, Zenon DEF Vacant
<1>6. RecoveryTypes'
  <2>1. Nowhere \in Places /\ Nowhere.wal = Missing
    BY SMT DEF Nowhere, Places
  <2> QED BY <1>1, <2>1, Zenon DEF RecoveryInv, RecoveryTypes
<1>7. ServingInv'
  BY <1>1, Zenon DEF ServingInv
<1>8. CalmInv'
  BY <1>1, <1>5, Zenon DEF CalmInv
<1>9. ArchivesInv' /\ ApartInv'
  BY <1>1, Zenon DEF RecoveryInv, ArchivesInv, ApartInv
<1>10. ASSUME NEW c \in Command PROVE CommandInv(commands[c])'
  <2>1. commands'[c] = Idle
    BY <1>1, Zenon
  <2> QED BY <2>1, SMT
    DEF CommandInv, MaintenanceInv, ReplacementInv, RollbackInv, PgRestoreInv, Idle
<1> QED BY <1>6, <1>7, <1>8, <1>9, <1>10, Zenon DEF RecoveryInv

-----------------------------------------------------------------------------
\* Backup and rotation.

\* A backup or a rotation finds a whole installation.
LEMMA WhileMaintaining ==
  ASSUME RecoveryInv, NEW c \in Command, commands[c].op \in {"backup", "rotate"}
  PROVE  /\ ~Restoring /\ ~torn /\ Whole(live, aside, born) /\ InService(live)
         /\ CurrentRows \in DatabaseFiles /\ CurrentRows = Rows(live)
         /\ commands[c].op = "rotate" => server = NotServing /\ NoOtherRotates(c)
         /\ MaintenanceInv(commands[c])
<1>1. MaintenanceInv(commands[c]) /\ ~torn /\ InService(live)
  BY Zenon DEF RecoveryInv, CommandInv, MaintenanceInv
<1>2. ~Restoring
  <2>1. commands[c] # Idle /\ commands[c].op \notin {"restore", "rollback", "pgrestore"}
    BY SMT DEF Idle
  <2> QED BY <2>1, Zenon DEF RecoveryInv, ApartInv, Restoring
<1>3. live.db # Missing
  BY <1>1, SMT DEF InService, DatabaseFiles, Missing
<1>4. Whole(live, aside, born)
  BY <1>1, <1>2, <1>3, WholeInService, Zenon
<1>5. CurrentRows \in DatabaseFiles /\ CurrentRows = Rows(live)
  BY <1>4, RowsInService, Zenon DEF RecoveryInv
<1>6. commands[c].op = "rotate" => server = NotServing /\ NoOtherRotates(c)
  BY Zenon DEF RecoveryInv, ServingInv, Rotating, ApartInv, NoOtherRotates
<1> QED BY <1>1, <1>2, <1>4, <1>5, <1>6, Zenon

\* The other commands go on if the key file still opens what it opened, and if
\* a rotation among them finds its key file and its rows as they were.
LEMMA OthersGoOn ==
  ASSUME RecoveryInv, NEW c \in Command, OthersStay(c), ~torn', InService(live'),
         \A d \in DatabaseFiles : Opens(live.key, d) => Opens(live'.key, d),
         NoOtherRotates(c) \/ (live'.key = live.key /\ CurrentRows' = CurrentRows)
  PROVE  OthersMaintain(c)
<1>1. SUFFICES ASSUME NEW d \in Command, d # c, commands[d].op \in {"backup", "rotate"}
               PROVE  MaintenanceInv(commands[d])'
  BY Zenon DEF OthersMaintain, OthersStay, MaintenanceInv
<1>2. commands'[d] = commands[d]
  BY <1>1, Zenon DEF OthersStay
<1>3. MaintenanceInv(commands[d]) /\ commands[d] \in Commands
  BY Zenon DEF RecoveryInv, RecoveryTypes, CommandInv
<1>4. PICK cmd : cmd = commands[d]
  OBVIOUS
<1>5. cmd.step = "archive" => (cmd.aligned => Opens(live'.key, cmd.snapshot))
  <2>1. cmd.step = "archive" => cmd.snapshot \in DatabaseFiles
    BY <1>1, <1>3, <1>4, CommandShapes, SMT DEF Snapshots
  <2> QED BY <1>1, <1>3, <1>4, <2>1, Zenon DEF MaintenanceInv
<1>6. /\ cmd.step \in {"ciphertexts", "finalize"} => cmd.box = live'.key
      /\ cmd.step = "finalize" =>
           \A s \in Stored(CurrentRows') : CurrentRows'.values[s] = Encrypt(cmd.box)
  <2>1. CASE cmd.op = "rotate"
    <3>1. live'.key = live.key /\ CurrentRows' = CurrentRows
      BY <1>1, <1>4, <2>1, Zenon DEF NoOtherRotates
    <3> QED BY <1>1, <1>3, <1>4, <3>1, Zenon DEF MaintenanceInv
  <2>2. CASE cmd.op = "backup"
    <3>1. cmd.step = "archive"
      BY <1>3, <1>4, <2>2, SMT
      DEF Commands, Snapshots, Rotations, Replacements, Rollbacks, PgRestores, Idle
    <3> QED BY <3>1, SMT
  <2> QED BY <1>1, <1>4, <2>1, <2>2, Zenon
<1> QED BY <1>2, <1>4, <1>5, <1>6, Zenon DEF MaintenanceInv

\* A step of a backup or a rotation keeps the invariant if it leaves the
\* installation whole, for the other commands as well.
LEMMA Maintained ==
  ASSUME RecoveryInv, NEW c \in Command, ~Restoring, RecoveryTypes', ~torn', server' = server,
         Whole(live', aside', born'), InService(live'), ArchivesInv',
         commands'[c] = Idle \/ commands'[c].op \in {"backup", "rotate"},
         MaintenanceInv(commands[c])', OthersMaintain(c),
         commands'[c].op = "rotate" => NoOtherRotates(c),
         server # NotServing => live'.key = live.key /\ commands'[c].op # "rotate"
  PROVE  RecoveryInv'
<1>1. commands'[c].op \in {"idle", "backup", "rotate"}
  BY SMT DEF Idle
<1>2. \A d \in Command : commands'[d].op \notin {"restore", "rollback", "pgrestore"}
  <2>1. commands'[c].op \notin {"restore", "rollback", "pgrestore"}
    BY <1>1, SMT
  <2> QED BY <2>1, Zenon DEF OthersMaintain, Restoring
<1>3. ServingInv'
  <2>1. server # NotServing => ~Rotating'
    BY Zenon DEF RecoveryInv, ServingInv, Rotating, OthersMaintain
  <2>2. ~Restoring'
    BY <1>2, Zenon DEF Restoring
  <2> QED BY <2>1, <2>2, Zenon DEF RecoveryInv, ServingInv
<1>4. CalmInv'
  <2>1. live' \in Places /\ born' \in Seq(SUBSET Secret)
    BY Zenon DEF RecoveryTypes
  <2> QED BY <2>1, WholeIsIntact, Zenon DEF CalmInv
<1>5. \A d \in Command : CommandInv(commands[d])'
  <2>1. \A d \in Command : MaintenanceInv(commands[d])'
    BY Zenon DEF OthersMaintain
  <2>2. ASSUME NEW d \in Command
        PROVE  ReplacementInv(commands[d])' /\ RollbackInv(commands[d])' /\ PgRestoreInv(commands[d])'
    BY <1>2, Zenon DEF ReplacementInv, RollbackInv, PgRestoreInv
  <2> QED BY <2>1, <2>2, Zenon DEF CommandInv
<1>6. ApartInv'
  <2>1. ASSUME NEW d \in Command, NEW e \in Command, d # e, commands'[d].op = "rotate"
        PROVE  commands'[e].op # "rotate"
    BY <2>1, Zenon DEF OthersMaintain, NoOtherRotates, RecoveryInv, ApartInv
  <2> QED BY <1>2, <2>1, Zenon DEF ApartInv
<1> QED BY <1>3, <1>4, <1>5, <1>6, Zenon DEF RecoveryInv

\* A command begins with a snapshot that the key in place opens.
LEMMA BeginKeeps ==
  ASSUME RecoveryInv, NEW c \in Command, NEW op \in {"backup", "rotate"},
         BeginCommand(c, op), ~astray'
  PROVE  RecoveryInv'
<1> DEFINE snapshot == IF NewDatabase THEN Opened1st.db ELSE CurrentRows
           cmd == [op |-> op, step |-> "archive", aligned |-> TRUE, snapshot |-> snapshot]
<1>1. /\ ~Restoring /\ ~torn /\ live' = Opened1st
      /\ op = "rotate" => ~Rotating
      /\ server # NotServing => op = "backup"
      /\ backend = "postgresql" => live.db # Missing
      /\ GoesOn(c, cmd)
      /\ born' = (IF NewDatabase THEN Append(born, Stored(Opened1st.db)) ELSE born)
      /\ backend' = backend /\ aside' = aside /\ archives' = archives /\ server' = server
      /\ keysMade' = keysMade /\ torn' = torn
  BY Zenon DEF BeginCommand, OpenRepository
<1>2. Whole(live, aside, born)
  <2>1. Intact(live, aside, born, backend, torn)
    BY <1>1, Zenon DEF RecoveryInv, CalmInv
  <2>2. Nowhere.db = Missing
    BY SMT DEF Nowhere
  <2> QED BY <1>1, <2>1, <2>2, Zenon DEF Intact, Vacant
<1>3. live \in Places /\ live.key \in KeyFiles /\ live.db \in DatabaseFiles
  BY <1>2, Zenon DEF RecoveryInv, RecoveryTypes, Whole
<1>4. live' = [Opened1st EXCEPT !.key = live.key]
  <2>1. live.db # Missing
    BY <1>3, SMT DEF DatabaseFiles, Missing
  <2>2. CASE NewDatabase
    <3>1. live' = [live EXCEPT !.db.lineage = Len(born) + 1]
      BY <1>1, <2>1, <2>2, Zenon DEF Opened1st
    <3> DEFINE d == [live.db EXCEPT !.lineage = Len(born) + 1]
    <3>2. live' = [live EXCEPT !.db = d]
      BY <1>3, <3>1, SMT DEF Places
    <3> HIDE DEF d
    <3>3. live' = [db |-> d, wal |-> live.wal, key |-> live.key]
      BY <1>3, <3>2, SMT DEF Places
    <3>4. live' = [live' EXCEPT !.key = live.key]
      BY <3>3, SMT
    <3> QED BY <1>1, <3>4, Zenon
  <2>3. CASE ~NewDatabase
    <3>1. live' = live
      BY <1>1, <2>1, <2>3, Zenon DEF Opened1st
    <3> QED BY <1>1, <1>3, <3>1, SMT DEF Places
  <2> QED BY <2>2, <2>3, Zenon
<1>5. /\ live' \in Places /\ (backend = "postgresql" => live'.wal = Missing)
      /\ Whole(live', aside, born') /\ InService(live') /\ live'.key = live.key
      /\ born' \in Seq(SUBSET Secret) /\ Rows(live') = snapshot
      /\ ~NewDatabase => live' = live
  BY <1>1, <1>3, <1>4, OpenedInstallation, Zenon
<1>6. snapshot \in DatabaseFiles
  BY <1>5, SMT DEF Places, Whole, Rows
<1> HIDE DEF snapshot
<1>7. /\ cmd \in Commands /\ cmd.op = op /\ cmd.step = "archive" /\ cmd.snapshot = snapshot
  BY <1>6, SMT DEF Commands, Snapshots
<1> HIDE DEF cmd
<1>8. commands' \in [Command -> Commands] /\ commands'[c] = cmd /\ OthersStay(c)
  BY <1>1, <1>7, GoingOn, Zenon DEF RecoveryInv
<1>9. RecoveryTypes'
  BY <1>1, <1>5, <1>8, Zenon DEF RecoveryInv, RecoveryTypes
<1>10. ArchivesInv'
  BY <1>1, Zenon DEF RecoveryInv, ArchivesInv
<1>11. MaintenanceInv(commands[c])'
  <2>1. Opens(live'.key, commands'[c].snapshot) /\ commands'[c].step = "archive"
    BY <1>5, <1>7, <1>8, Zenon DEF Whole
  <2> QED BY <1>1, <1>5, <2>1, SMT DEF MaintenanceInv
<1>12. server # NotServing => live'.key = live.key /\ commands'[c].op # "rotate"
  BY <1>1, <1>5, <1>7, <1>8, SMT
<1>13. commands'[c].op \in {"backup", "rotate"}
  BY <1>7, <1>8, Zenon
<1>14. OthersMaintain(c)
  <2>1. ASSUME NEW d \in Command, commands[d].op = "rotate"
        PROVE  live'.key = live.key /\ CurrentRows' = CurrentRows
    <3>1. InService(live)
      BY <2>1, WhileMaintaining, SMT
    <3>2. ~NewDatabase
      BY <3>1, SMT DEF InService, NewDatabase, DatabaseFiles, Missing
    <3> QED BY <1>5, <3>2, Zenon DEF CurrentRows
  <2>2. NoOtherRotates(c) \/ (live'.key = live.key /\ CurrentRows' = CurrentRows)
    BY <2>1, Zenon DEF NoOtherRotates
  <2> QED BY <1>1, <1>5, <1>8, <2>2, OthersGoOn, Zenon
<1>15. commands'[c].op = "rotate" => NoOtherRotates(c)
  BY <1>1, <1>7, <1>8, Zenon DEF Rotating, NoOtherRotates
<1> QED BY <1>1, <1>5, <1>9, <1>10, <1>11, <1>12, <1>13, <1>14, <1>15, Maintained, Zenon

\* A connection that closes leaves the installation whole.
LEMMA ClosedIsWhole ==
  ASSUME NEW c, NEW l \in Places, backend = "postgresql" => l.wal = Missing,
         Whole(l, aside, born), InService(l), NEW m, m = ClosedLog(c, l)
  PROVE  /\ m \in Places /\ (backend = "postgresql" => m.wal = Missing)
         /\ Whole(m, aside, born) /\ InService(m) /\ m.key = l.key /\ Rows(m) = Rows(l)
<1>1. m \in {l, LogEmptied(l)}
  BY Zenon DEF ClosedLog
<1>2. /\ m \in Places /\ Whole(m, aside, born) /\ m.key = l.key /\ Rows(m) = Rows(l)
      /\ m.db.lineage # 0 /\ (backend = "postgresql" => m.wal = Missing)
  BY <1>1, EmptiedIsWhole, Zenon DEF InService
<1> QED BY <1>2, Zenon DEF Whole, InService

\* A command that ends leaves the installation whole.
LEMMA CommandEnding ==
  ASSUME RecoveryInv, NEW c \in Command, commands[c].op \in {"backup", "rotate"},
         GoesOn(c, Idle), live' \in {live, ClosedLog(c, live)},
         backend' = backend, aside' = aside, server' = server, born' = born,
         keysMade' = keysMade, torn' = torn, archives' \in SUBSET Archived, ArchivesInv'
  PROVE  RecoveryInv'
<1>1. /\ ~Restoring /\ ~torn /\ Whole(live, aside, born) /\ InService(live)
      /\ CurrentRows = Rows(live)
  BY WhileMaintaining, Zenon
<1>2. live \in Places /\ (backend = "postgresql" => live.wal = Missing)
  BY Zenon DEF RecoveryInv, RecoveryTypes
<1>3. /\ live' \in Places /\ (backend = "postgresql" => live'.wal = Missing)
      /\ Whole(live', aside, born) /\ InService(live') /\ live'.key = live.key
      /\ Rows(live') = Rows(live)
  BY <1>1, <1>2, ClosedIsWhole, Zenon
<1>4. Idle \in Commands /\ Idle.op \notin {"backup", "rotate"}
  BY SMT DEF Commands, Idle
<1>5. commands' \in [Command -> Commands] /\ commands'[c] = Idle /\ OthersStay(c)
  BY <1>4, GoingOn, Zenon DEF RecoveryInv
<1>6. RecoveryTypes'
  BY <1>3, <1>5, Zenon DEF RecoveryInv, RecoveryTypes
<1>7. MaintenanceInv(commands[c])' /\ commands'[c].op # "rotate"
  BY <1>4, <1>5, Zenon DEF MaintenanceInv
<1>8. OthersMaintain(c)
  <2>1. CurrentRows' = CurrentRows
    BY <1>1, <1>3, Zenon DEF CurrentRows, Rows
  <2> QED BY <1>1, <1>3, <1>5, <2>1, OthersGoOn, Zenon
<1> QED BY <1>1, <1>3, <1>5, <1>6, <1>7, <1>8, Maintained, Zenon

\* The archive gets the snapshot and the key in place, which opens it.
LEMMA ArchiveKeeps ==
  ASSUME RecoveryInv, NEW c \in Command, WriteArchive(c)
  PROVE  RecoveryInv'
<1> DEFINE a == [db |-> commands[c].snapshot, key |-> live.key, aligned |-> commands[c].aligned]
<1>1. /\ commands[c].op \in {"backup", "rotate"} /\ commands[c].step = "archive"
      /\ archives' = archives \cup {a}
      /\ backend' = backend /\ aside' = aside /\ server' = server /\ born' = born
      /\ keysMade' = keysMade /\ torn' = torn
      /\ IF commands[c].op = "backup" THEN GoesOn(c, Idle) /\ live' = ClosedLog(c, live)
         ELSE GoesOn(c, [op |-> "rotate", step |-> "begin"]) /\ live' = live
  BY Zenon DEF WriteArchive, CommandEnds
<1>2. /\ ~Restoring /\ ~torn /\ Whole(live, aside, born) /\ InService(live)
      /\ commands[c].op = "rotate" => server = NotServing /\ NoOtherRotates(c)
      /\ MaintenanceInv(commands[c])
  BY <1>1, WhileMaintaining, Zenon
<1>3. live \in Places /\ commands[c] \in Commands /\ (backend = "postgresql" => live.wal = Missing)
  BY Zenon DEF RecoveryInv, RecoveryTypes
<1>4. commands[c].snapshot \in DatabaseFiles /\ commands[c].aligned \in BOOLEAN
  BY <1>1, <1>3, CommandShapes, SMT DEF Snapshots
<1>5. /\ a \in Archived /\ a.db = commands[c].snapshot /\ a.key = live.key
      /\ a.aligned = commands[c].aligned
  BY <1>2, <1>4, SMT DEF Archived, InService
<1> HIDE DEF a
<1>6. a.aligned => Opens(a.key, a.db)
  BY <1>1, <1>2, <1>5, Zenon DEF MaintenanceInv
<1>7. archives' \in SUBSET Archived
  BY <1>1, <1>5, Zenon DEF RecoveryInv, RecoveryTypes
<1>8. ArchivesInv'
  BY <1>1, <1>6, Zenon DEF RecoveryInv, ArchivesInv
<1>9. CASE commands[c].op = "backup"
  BY <1>1, <1>7, <1>8, <1>9, CommandEnding, Zenon
<1>10. CASE commands[c].op = "rotate"
  <2> DEFINE cmd == [op |-> "rotate", step |-> "begin"]
  <2>1. GoesOn(c, cmd) /\ live' = live /\ server = NotServing
    BY <1>1, <1>2, <1>10, SMT
  <2>2. cmd \in Commands /\ cmd.op = "rotate" /\ cmd.step = "begin"
    BY SMT DEF Commands, Rotations
  <2> HIDE DEF cmd
  <2>3. commands' \in [Command -> Commands] /\ commands'[c] = cmd /\ OthersStay(c)
    BY <2>1, <2>2, GoingOn, Zenon DEF RecoveryInv
  <2>4. RecoveryTypes'
    BY <1>1, <1>7, <2>1, <2>3, Zenon DEF RecoveryInv, RecoveryTypes
  <2>5. MaintenanceInv(commands[c])'
    BY <1>1, <1>2, <2>1, <2>2, <2>3, SMT DEF MaintenanceInv
  <2>6. commands'[c].op = "rotate"
    BY <2>2, <2>3, Zenon
  <2>7. OthersMaintain(c)
    BY <1>1, <1>2, <1>10, <2>1, <2>3, OthersGoOn, Zenon
  <2> QED BY <1>1, <1>2, <1>8, <1>10, <2>1, <2>4, <2>5, <2>6, <2>7, Maintained, Zenon
<1> QED BY <1>1, <1>9, <1>10, Zenon

\* A command that fails closes its connection.
LEMMA FailureKeeps ==
  ASSUME RecoveryInv, NEW c \in Command, CommandFails(c)
  PROVE  RecoveryInv'
<1>1. /\ commands[c].op \in {"backup", "rotate"} /\ GoesOn(c, Idle) /\ live' = ClosedLog(c, live)
      /\ backend' = backend /\ aside' = aside /\ archives' = archives /\ server' = server
      /\ born' = born /\ keysMade' = keysMade /\ torn' = torn
  BY Zenon DEF CommandFails, CommandEnds
<1>2. ArchivesInv' /\ archives' \in SUBSET Archived
  BY <1>1, Zenon DEF RecoveryInv, RecoveryTypes, ArchivesInv
<1> QED BY <1>1, <1>2, CommandEnding, Zenon

\* A key file with one more key opens what it opened.
LEMMA MoreKeysOpen ==
  ASSUME NEW key, NEW ring, key.keys \subseteq ring.keys, ring.legacy = key.legacy,
         NEW d, Opens(key, d)
  PROVE  Opens(ring, d)
BY Zenon DEF Opens, Decrypts, ciphertextKey

\* Another key file leaves the installation whole if it opens the rows.
LEMMA RekeyedIsWhole ==
  ASSUME NEW l \in Places, NEW a, NEW b, Whole(l, a, b), InService(l),
         NEW key \in KeyFiles, Opens(key, Rows(l)),
         NEW m, m = [l EXCEPT !.key = key]
  PROVE  /\ m \in Places /\ Whole(m, a, b) /\ InService(m) /\ m.key = key /\ Rows(m) = Rows(l)
         /\ m.wal = l.wal /\ m.db = l.db
<1>1. m \in Places
  BY Zenon DEF Places
<1>2. m.db = l.db /\ m.wal = l.wal /\ m.key = key
  BY SMT DEF Places
<1>3. Rows(m) = Rows(l)
  BY <1>2, Zenon DEF Rows
<1> QED BY <1>1, <1>2, <1>3, Zenon DEF Whole, InService

\* Rotation begins by adding a key; the old file is kept aside.
LEMMA BeginRotationKeeps ==
  ASSUME RecoveryInv, NEW c \in Command, BeginIdentityKeyRotation(c)
  PROVE  RecoveryInv'
<1> DEFINE fresh == keysMade + 1
           ring == IF Cardinality(live.key.keys) = 1
                   THEN KeyRing(live.key.keys \cup {fresh}, fresh, live.key.legacy) ELSE live.key
           cmd == [op |-> "rotate", step |-> "ciphertexts", box |-> ring]
<1>1. /\ commands[c].op = "rotate" /\ keysMade' \in {keysMade, fresh}
      /\ aside' \in {aside, aside \cup {live.key}} /\ live' = [live EXCEPT !.key = ring]
      /\ GoesOn(c, cmd)
      /\ backend' = backend /\ archives' = archives /\ server' = server /\ born' = born
      /\ torn' = torn
  BY Zenon DEF BeginIdentityKeyRotation
<1>2. /\ ~Restoring /\ ~torn /\ Whole(live, aside, born) /\ InService(live)
      /\ server = NotServing /\ CurrentRows = Rows(live) /\ NoOtherRotates(c)
  BY <1>1, WhileMaintaining, Zenon
<1>3. /\ live \in Places /\ born \in Seq(SUBSET Secret) /\ fresh \in Nat
      /\ backend = "postgresql" => live.wal = Missing
  BY SMT DEF RecoveryInv, RecoveryTypes
<1>4. ring \in KeyFiles /\ live.key.keys \subseteq ring.keys /\ ring.legacy = live.key.legacy
  <2>1. KeyRing(live.key.keys \cup {fresh}, fresh, live.key.legacy) \in KeyFiles
    BY <1>2, <1>3, SMT DEF InService, KeyFiles, KeyRing
  <2>2. live.key \in KeyFiles
    BY <1>2, Zenon DEF InService
  <2>3. CASE Cardinality(live.key.keys) = 1
    BY <2>1, <2>3, SMT DEF KeyRing
  <2>4. CASE Cardinality(live.key.keys) # 1
    BY <2>2, <2>4, Zenon
  <2> QED BY <2>3, <2>4, Zenon
<1> HIDE DEF ring, fresh
<1>5. Opens(ring, Rows(live))
  BY <1>2, <1>4, MoreKeysOpen, Zenon DEF Whole
<1>6. /\ live' \in Places /\ Whole(live', aside, born) /\ InService(live') /\ live'.key = ring
      /\ live'.wal = live.wal
  BY <1>1, <1>2, <1>3, <1>4, <1>5, RekeyedIsWhole, SMT
<1>7. Whole(live', aside', born')
  <2>1. aside \subseteq aside'
    BY <1>1, Zenon
  <2>2. Intact(live', aside, born, backend, FALSE)
    BY <1>3, <1>6, WholeIsIntact, Zenon
  <2>3. Intact(live', aside', born, backend, FALSE)
    BY <2>1, <2>2, AsideGrows, Zenon
  <2>4. live' # Nowhere
    BY <1>6, SMT DEF InService, DatabaseFiles, Nowhere, Missing
  <2> QED BY <1>1, <2>3, <2>4, Zenon DEF Intact, Vacant
<1>8. cmd \in Commands /\ cmd.op = "rotate" /\ cmd.step = "ciphertexts" /\ cmd.box = ring
  BY <1>4, SMT DEF Commands, Rotations
<1> HIDE DEF cmd
<1>9. commands' \in [Command -> Commands] /\ commands'[c] = cmd /\ OthersStay(c)
  BY <1>1, <1>8, GoingOn, Zenon DEF RecoveryInv
<1>10. RecoveryTypes'
  BY <1>1, <1>3, <1>6, <1>9, Zenon DEF RecoveryInv, RecoveryTypes
<1>11. ArchivesInv'
  BY <1>1, Zenon DEF RecoveryInv, ArchivesInv
<1>12. MaintenanceInv(commands[c])'
  BY <1>1, <1>2, <1>6, <1>8, <1>9, SMT DEF MaintenanceInv
<1>13. commands'[c].op \in {"backup", "rotate"}
  BY <1>8, <1>9, SMT
<1>14. OthersMaintain(c)
  <2>1. \A d \in DatabaseFiles : Opens(live.key, d) => Opens(live'.key, d)
    BY <1>4, <1>6, MoreKeysOpen, Zenon
  <2> QED BY <1>1, <1>2, <1>6, <1>9, <2>1, OthersGoOn, Zenon
<1> QED BY <1>1, <1>2, <1>6, <1>7, <1>10, <1>11, <1>12, <1>13, <1>14, Maintained, Zenon

\* Every ciphertext is rewritten under the active key, in one commit.
LEMMA CiphertextsKeep ==
  ASSUME RecoveryInv, NEW c \in Command, RotateIdentityCiphertexts(c)
  PROVE  RecoveryInv'
<1> DEFINE box == commands[c].box
           d == [CurrentRows EXCEPT !.values =
                  [s \in Secret |-> IF @[s] = NoValue THEN NoValue ELSE Encrypt(box)]]
           cmd == [op |-> "rotate", step |-> "finalize", box |-> box]
<1>1. /\ commands[c].op = "rotate" /\ commands[c].step = "ciphertexts"
      /\ live' = Committed(d) /\ GoesOn(c, cmd)
      /\ backend' = backend /\ aside' = aside /\ archives' = archives /\ server' = server
      /\ born' = born /\ keysMade' = keysMade /\ torn' = torn
  BY Zenon DEF RotateIdentityCiphertexts
<1>2. /\ ~Restoring /\ ~torn /\ Whole(live, aside, born) /\ InService(live)
      /\ server = NotServing /\ NoOtherRotates(c)
      /\ CurrentRows \in DatabaseFiles /\ CurrentRows = Rows(live)
      /\ MaintenanceInv(commands[c])
  BY <1>1, WhileMaintaining, SMT
<1>3. /\ live \in Places /\ born \in Seq(SUBSET Secret)
      /\ backend \in {"sqlite", "postgresql"}
      /\ backend = "postgresql" => live.wal = Missing
  BY Zenon DEF RecoveryInv, RecoveryTypes
<1>4. box = live.key /\ box \in KeyFiles
  BY <1>1, <1>2, SMT DEF MaintenanceInv, InService
<1>5. Encrypt(box) \in Ciphertexts /\ Encrypt(box) # NoValue /\ NoValue \in Ciphertexts
  BY <1>4, SMT DEF KeyFiles, Encrypt, Ciphertexts, NoValue
<1> HIDE DEF box
<1> DEFINE v == [s \in Secret |->
                  IF CurrentRows.values[s] = NoValue THEN NoValue ELSE Encrypt(box)]
<1>6. d = [CurrentRows EXCEPT !.values = v]
  BY SMT
<1>7. v \in [Secret -> Ciphertexts]
  BY <1>5, SMT
<1> HIDE DEF d
<1>8. d \in DatabaseFiles /\ d.lineage = CurrentRows.lineage /\ d.values = v
  <2> HIDE DEF v
  <2>1. d \in DatabaseFiles
    BY <1>2, <1>6, <1>7, Zenon DEF DatabaseFiles
  <2> QED BY <1>2, <1>6, <2>1, SMT DEF DatabaseFiles
<1>9. Stored(d) = Stored(CurrentRows) /\ \A s \in Stored(d) : d.values[s] = Encrypt(box)
  BY <1>5, <1>8, SMT DEF Stored
<1> HIDE DEF v
<1>10. Opens(live.key, d)
  <2>1. Decrypts(box, Encrypt(box))
    BY <1>4, SMT DEF KeyFiles, Encrypt, Decrypts, ciphertextKey
  <2> QED BY <1>4, <1>9, <2>1, Zenon DEF Opens
<1>11. /\ live' \in Places /\ live'.key = live.key
       /\ backend = "postgresql" => live'.wal = Missing
       /\ \/ live'.wal = d /\ live'.db = live.db
          \/ live'.wal = Missing /\ live.wal = Missing /\ live'.db = d
  <2>1. CASE backend = "sqlite"
    <3>1. live' = [live EXCEPT !.wal = d]
      BY <1>1, <2>1, Zenon DEF Committed
    <3>2. live' \in Places
      BY <1>3, <1>8, <3>1, Zenon DEF Places
    <3> QED BY <1>3, <2>1, <3>1, <3>2, SMT DEF Places
  <2>2. CASE backend = "postgresql"
    <3>1. live' = [live EXCEPT !.db = d]
      BY <1>1, <2>2, Zenon DEF Committed
    <3>2. live' \in Places
      BY <1>3, <1>8, <3>1, Zenon DEF Places
    <3> QED BY <1>3, <2>2, <3>1, <3>2, SMT DEF Places
  <2> QED BY <1>3, <2>1, <2>2, Zenon
<1>12. Stored(CurrentRows) = born[CurrentRows.lineage]
  BY <1>2, Zenon DEF Whole, InService, Rows
<1>13. Whole(live', aside, born) /\ Rows(live') = d /\ live'.db.lineage # 0
  <2>1. d.lineage = Rows(live).lineage /\ live.db.lineage # 0 /\ born[d.lineage] = Stored(d)
    BY <1>2, <1>8, <1>9, <1>12, Zenon DEF InService
  <2> QED BY <1>2, <1>3, <1>8, <1>10, <1>11, <2>1, CommitIsWhole, SMT
<1>14. InService(live')
  BY <1>13, Zenon DEF Whole, InService
<1>15. cmd \in Commands /\ cmd.op = "rotate" /\ cmd.step = "finalize" /\ cmd.box = box
  BY <1>4, SMT DEF Commands, Rotations
<1> HIDE DEF cmd
<1>16. commands' \in [Command -> Commands] /\ commands'[c] = cmd /\ OthersStay(c)
  BY <1>1, <1>15, GoingOn, Zenon DEF RecoveryInv
<1>17. RecoveryTypes'
  BY <1>1, <1>11, <1>16, Zenon DEF RecoveryInv, RecoveryTypes
<1>18. ArchivesInv'
  BY <1>1, Zenon DEF RecoveryInv, ArchivesInv
<1>19. MaintenanceInv(commands[c])'
  <2>1. CurrentRows' = d
    BY <1>13, Zenon DEF CurrentRows, Rows
  <2>2. /\ commands'[c].step = "finalize" /\ commands'[c].box = live'.key /\ ~torn'
        /\ \A s \in Stored(CurrentRows') : CurrentRows'.values[s] = Encrypt(commands'[c].box)
    BY <1>1, <1>2, <1>4, <1>9, <1>11, <1>15, <1>16, <2>1, Zenon
  <2> QED BY <1>14, <2>2, SMT DEF MaintenanceInv
<1>20. commands'[c].op \in {"backup", "rotate"}
  BY <1>15, <1>16, SMT
<1>21. OthersMaintain(c)
  BY <1>1, <1>2, <1>11, <1>14, <1>16, OthersGoOn, Zenon
<1> QED BY <1>1, <1>2, <1>13, <1>14, <1>17, <1>18, <1>19, <1>20, <1>21, Maintained, Zenon

\* The old key goes once no ciphertext needs it.  The snapshots that other
\* commands have taken are no longer aligned with the key file.
LEMMA FinalizeKeeps ==
  ASSUME RecoveryInv, NEW c \in Command, FinalizeIdentityKeyRotation(c)
  PROVE  RecoveryInv'
<1>1. PICK active, ring, l :
        /\ active = commands[c].box.active
        /\ ring = KeyRing({active} \cap live.key.keys, active, active)
        /\ l = [live EXCEPT !.key = ring]
  OBVIOUS
<1>2. /\ commands[c].op = "rotate" /\ commands[c].step = "finalize" /\ live' = ClosedLog(c, l)
      /\ commands' = [d \in Command |->
           IF d = c THEN Idle
           ELSE IF commands[d].op \in {"backup", "rotate"} /\ commands[d].step = "archive"
                THEN [commands[d] EXCEPT !.aligned = FALSE] ELSE commands[d]]
      /\ backend' = backend /\ aside' = aside /\ archives' = archives /\ server' = server
      /\ born' = born /\ keysMade' = keysMade /\ torn' = torn
  BY <1>1, Zenon DEF FinalizeIdentityKeyRotation
<1>3. /\ ~Restoring /\ ~torn /\ Whole(live, aside, born) /\ InService(live)
      /\ server = NotServing /\ NoOtherRotates(c)
      /\ CurrentRows \in DatabaseFiles /\ CurrentRows = Rows(live)
      /\ MaintenanceInv(commands[c])
  BY <1>2, WhileMaintaining, SMT
<1>4. /\ live \in Places /\ (backend = "postgresql" => live.wal = Missing)
      /\ commands \in [Command -> Commands]
  BY Zenon DEF RecoveryInv, RecoveryTypes
<1>5. /\ active \in Nat /\ {active} \cap live.key.keys = {active}
      /\ \A s \in Stored(CurrentRows) : CurrentRows.values[s] = Encrypt(commands[c].box)
  <2>1. commands[c].box = live.key
    BY <1>2, <1>3, SMT DEF MaintenanceInv
  <2>2. \A s \in Stored(CurrentRows) : CurrentRows.values[s] = Encrypt(commands[c].box)
    BY <1>2, <1>3, SMT DEF MaintenanceInv
  <2>3. active \in Nat /\ active \in live.key.keys
    BY <1>1, <1>3, <2>1, SMT DEF InService, KeyFiles
  <2> QED BY <2>2, <2>3, Zenon
<1>6. ring = KeyRing({active}, active, active) /\ ring \in KeyFiles
  <2>1. ring = KeyRing({active}, active, active)
    BY <1>1, <1>5, Zenon
  <2> QED BY <1>5, <2>1, SMT DEF KeyRing, KeyFiles
<1>7. Opens(ring, CurrentRows)
  <2>1. Decrypts(ring, Encrypt(commands[c].box))
    BY <1>1, <1>6, SMT DEF Decrypts, ciphertextKey, Encrypt, KeyRing
  <2> QED BY <1>5, <2>1, Zenon DEF Opens
<1>8. l \in Places /\ Whole(l, aside, born) /\ InService(l) /\ l.wal = live.wal
  BY <1>1, <1>3, <1>4, <1>6, <1>7, RekeyedIsWhole, SMT
<1>9. /\ live' \in Places /\ (backend = "postgresql" => live'.wal = Missing)
      /\ Whole(live', aside, born) /\ InService(live')
  BY <1>2, <1>4, <1>8, ClosedIsWhole, Zenon
<1>10. commands'[c] = Idle /\ Idle \in Commands /\ Idle.op \notin {"backup", "rotate"}
  <2>1. Idle \in Commands /\ Idle.op \notin {"backup", "rotate"}
    BY SMT DEF Commands, Idle
  <2> QED BY <1>2, <2>1, Zenon
<1>11. ASSUME NEW d \in Command, d # c
       PROVE  /\ commands'[d] \in Commands /\ commands'[d].op = commands[d].op
              /\ MaintenanceInv(commands[d])'
  <2>1. PICK old : old = commands[d]
    OBVIOUS
  <2>2. old \in Commands /\ old.op # "rotate"
    BY <1>3, <1>4, <1>11, <2>1, Zenon DEF NoOtherRotates
  <2>3. CASE old.op = "backup"
    <3>1. old \in Snapshots /\ old.step = "archive"
      <4>1. old.step = "archive"
        BY <2>2, <2>3, SMT
        DEF Commands, Snapshots, Rotations, Replacements, Rollbacks, PgRestores, Idle
      <4> QED BY <2>2, <2>3, <4>1, CommandShapes, SMT
    <3>2. PICK new : new = [old EXCEPT !.aligned = FALSE]
      OBVIOUS
    <3>3. commands'[d] = new
      BY <1>2, <1>11, <2>1, <2>3, <3>1, <3>2, Zenon
    <3>4. new \in Snapshots /\ new.op = "backup" /\ new.step = "archive" /\ new.aligned = FALSE
      <4>1. new \in Snapshots
        BY <3>1, <3>2, Zenon DEF Snapshots
      <4> QED BY <2>3, <3>1, <3>2, <4>1, SMT DEF Snapshots
    <3>5. MaintenanceInv(commands[d])'
      <4>1. new.step \notin {"ciphertexts", "finalize"} /\ new.step # "finalize"
        BY <3>4, SMT
      <4> QED BY <1>2, <1>3, <1>9, <3>3, <3>4, <4>1, Zenon DEF MaintenanceInv
    <3> QED BY <2>1, <2>3, <3>3, <3>4, <3>5, Zenon DEF Commands
  <2>4. CASE old.op # "backup"
    <3>1. commands'[d] = old /\ old.op \notin {"backup", "rotate"}
      BY <1>2, <1>11, <2>1, <2>2, <2>4, Zenon
    <3> QED BY <2>1, <2>2, <3>1, Zenon DEF MaintenanceInv
  <2> QED BY <2>3, <2>4, Zenon
<1>12. commands' \in [Command -> Commands]
  <2>1. \A d \in Command : commands'[d] \in Commands
    BY <1>10, <1>11, Zenon
  <2> QED BY <1>2, <2>1, Zenon
<1>13. RecoveryTypes'
  BY <1>2, <1>9, <1>12, Zenon DEF RecoveryInv, RecoveryTypes
<1>14. ArchivesInv'
  BY <1>2, Zenon DEF RecoveryInv, ArchivesInv
<1>15. MaintenanceInv(commands[c])' /\ commands'[c].op # "rotate"
  BY <1>10, Zenon DEF MaintenanceInv
<1>16. OthersMaintain(c)
  BY <1>11, Zenon DEF OthersMaintain
<1> QED BY <1>2, <1>3, <1>9, <1>10, <1>13, <1>14, <1>15, <1>16, Maintained, Zenon

-----------------------------------------------------------------------------
\* Restore.

\* Nobody serves and no other command runs during a restore.
LEMMA WhileRestoring ==
  ASSUME RecoveryInv, NEW c \in Command, commands[c].op \in {"restore", "rollback", "pgrestore"}
  PROVE  /\ server = NotServing /\ CommandInv(commands[c]) /\ commands[c] \in Commands
         /\ OthersIdle(c)
<1>1. Restoring
  BY Zenon DEF Restoring
<1>2. OthersIdle(c)
  BY Zenon DEF RecoveryInv, ApartInv, OthersIdle
<1> QED BY <1>1, <1>2, Zenon DEF RecoveryInv, RecoveryTypes, ServingInv

\* A restore goes on.
LEMMA Replaced ==
  ASSUME RecoveryInv, NEW c \in Command, OthersIdle(c), OthersStay(c), RecoveryTypes',
         server' = NotServing, archives' = archives,
         commands'[c].op \in {"restore", "rollback", "pgrestore"},
         ReplacementInv(commands[c])', RollbackInv(commands[c])', PgRestoreInv(commands[c])'
  PROVE  RecoveryInv'
<1>1. Restoring'
  BY Zenon DEF Restoring
<1>2. ServingInv' /\ CalmInv'
  BY <1>1, Zenon DEF ServingInv, CalmInv
<1>3. ArchivesInv'
  BY Zenon DEF RecoveryInv, ArchivesInv
<1>4. MaintenanceInv(commands[c])'
  BY SMT DEF MaintenanceInv
<1>5. CommandInv(commands[c])'
  BY <1>4, Zenon DEF CommandInv
<1>6. ApartInv' /\ \A d \in Command : CommandInv(commands[d])'
  BY <1>5, NobodyElse, Zenon DEF OthersIdle, OthersStay
<1> QED BY <1>2, <1>3, <1>6, Zenon DEF RecoveryInv

\* A restore has ended.
LEMMA Restored ==
  ASSUME RecoveryInv, NEW c \in Command, OthersIdle(c), OthersStay(c), RecoveryTypes',
         server' = NotServing, archives' = archives, commands'[c] = Idle,
         Intact(live', aside', born', backend', torn')
  PROVE  RecoveryInv'
<1>1. ServingInv' /\ CalmInv'
  BY Zenon DEF ServingInv, CalmInv
<1>2. ArchivesInv'
  BY Zenon DEF RecoveryInv, ArchivesInv
<1>3. CommandInv(commands[c])'
  BY SMT DEF CommandInv, MaintenanceInv, ReplacementInv, RollbackInv, PgRestoreInv, Idle
<1>4. ApartInv' /\ \A d \in Command : CommandInv(commands[d])'
  BY <1>3, NobodyElse, Zenon DEF OthersIdle, OthersStay
<1> QED BY <1>1, <1>2, <1>4, Zenon DEF RecoveryInv

\* What is to do is one of four lists.
LEMMA ToMoveLists ==
  /\ Head(<<"db", "key", "wal">>) = "db" /\ Tail(<<"db", "key", "wal">>) = <<"key", "wal">>
  /\ Head(<<"key", "wal">>) = "key" /\ Tail(<<"key", "wal">>) = <<"wal">>
  /\ Head(<<"wal">>) = "wal" /\ Tail(<<"wal">>) = <<>>
  /\ <<"db", "key", "wal">> # <<"key", "wal">> /\ <<"db", "key", "wal">> # <<"wal">>
  /\ <<"db", "key", "wal">> # <<>> /\ <<"key", "wal">> # <<"wal">>
  /\ <<"key", "wal">> # <<>> /\ <<"wal">> # <<>>
BY SMT

\* What is to copy is one of three.
LEMMA ToCopyLists ==
  /\ Head(<<"db", "key">>) = "db" /\ Tail(<<"db", "key">>) = <<"key">>
  /\ Head(<<"key">>) = "key" /\ Tail(<<"key">>) = <<>>
  /\ <<"db", "key">> # <<"key">> /\ <<"db", "key">> # <<>> /\ <<"key">> # <<>>
BY SMT

\* The three places, one by one.
LEMMA PlacesAre ==
  ASSUME NEW l \in Places
  PROVE  /\ l = [db |-> l.db, wal |-> l.wal, key |-> l.key]
         /\ l["db"] = l.db /\ l["wal"] = l.wal /\ l["key"] = l.key
BY SMT DEF Places

\* A restore of an archive begins: nothing is moved yet.
LEMMA BeginRestoreKeeps ==
  ASSUME RecoveryInv, NEW c \in Command, BeginRestore(c)
  PROVE  RecoveryInv'
<1>1. PICK a \in archives :
        GoesOn(c, [op |-> "restore", archive |-> a, moved |-> [p \in RestorePart |-> Missing],
                   todo |-> <<"db", "key", "wal">>, copy |-> <<"db", "key">>])
  BY Zenon DEF BeginRestore
<1>2. /\ server = NotServing /\ backend = "sqlite" /\ \A d \in Command : commands[d] = Idle
      /\ backend' = backend /\ live' = live /\ aside' = aside /\ archives' = archives
      /\ server' = server /\ born' = born /\ keysMade' = keysMade /\ torn' = torn
  BY Zenon DEF BeginRestore
<1>idle. ~Restoring /\ OthersIdle(c)
  <2>1. Idle.op \notin {"restore", "rollback", "pgrestore"}
    BY SMT DEF Idle
  <2> QED BY <1>2, <2>1, Zenon DEF Restoring, OthersIdle
<1>3. Intact(live, aside, born, backend, torn) /\ live \in Places /\ a \in Archived
  BY <1>2, <1>idle, Zenon DEF RecoveryInv, RecoveryTypes, CalmInv
<1>4. Nowhere \in Places /\ [p \in RestorePart |-> Missing] = Nowhere
  BY SMT DEF Places, Nowhere, RestorePart
<1> DEFINE cmd == [op |-> "restore", archive |-> a, moved |-> Nowhere,
                   todo |-> <<"db", "key", "wal">>, copy |-> <<"db", "key">>]
<1>5. cmd \in Replacements
  BY <1>3, <1>4, Zenon DEF Replacements, ToMove, ToCopy
<1>6. /\ cmd.op = "restore" /\ cmd.archive = a /\ cmd.moved = Nowhere
      /\ cmd.todo = <<"db", "key", "wal">> /\ cmd.copy = <<"db", "key">>
  BY SMT
<1>7. GoesOn(c, cmd)
  BY <1>1, <1>4, Zenon
<1> HIDE DEF cmd
<1>8. commands' \in [Command -> Commands] /\ commands'[c] = cmd /\ OthersStay(c)
  BY <1>5, <1>7, GoingOn, Zenon DEF RecoveryInv, Commands
<1>9. RecoveryTypes'
  BY <1>2, <1>8, Zenon DEF RecoveryInv, RecoveryTypes
<1>10. Before(cmd, live) = live
  <2>1. live = [db |-> live.db, wal |-> live.wal, key |-> live.key]
    BY <1>3, PlacesAre, Zenon
  <2>2. Before(cmd, live) = [db |-> live.db, wal |-> live.wal, key |-> live.key]
    BY <1>6, ToMoveLists, SMT DEF Before
  <2> QED BY <2>1, <2>2, Zenon
<1>11. ReplacementInv(commands[c])'
  <2>1. Nowhere.db = Missing /\ Nowhere.wal = Missing /\ Nowhere.key = Missing
    BY SMT DEF Nowhere
  <2>2. Intact(Before(cmd, live'), aside', born', backend', torn')
    BY <1>2, <1>3, <1>10, Zenon
  <2> QED BY <1>2, <1>6, <1>8, <2>1, <2>2, ToMoveLists, Zenon DEF ReplacementInv
<1>12. RollbackInv(commands[c])' /\ PgRestoreInv(commands[c])' /\ commands'[c].op = "restore"
  BY <1>6, <1>8, SMT DEF RollbackInv, PgRestoreInv
<1> QED BY <1>2, <1>8, <1>9, <1>11, <1>12, <1>idle, Replaced, Zenon

\* A file moved to its .pre-restore path is held by the command.
LEMMA PreserveKeeps ==
  ASSUME RecoveryInv, NEW c \in Command, Preserve(c)
  PROVE  RecoveryInv'
<1>1. PICK cmd : cmd = commands[c]
  OBVIOUS
<1>2. PICK p : p = Head(cmd.todo)
  OBVIOUS
<1>3. PICK next : next = [cmd EXCEPT !.todo = Tail(@), !.moved[p] = live[p]]
  OBVIOUS
<1>4. /\ cmd.op = "restore" /\ cmd.todo # <<>> /\ live' = [live EXCEPT ![p] = Missing]
      /\ GoesOn(c, next)
      /\ backend' = backend /\ aside' = aside /\ archives' = archives /\ server' = server
      /\ born' = born /\ keysMade' = keysMade /\ torn' = torn
  BY <1>1, <1>2, <1>3, Zenon DEF Preserve
<1>5. server = NotServing /\ OthersIdle(c) /\ CommandInv(cmd) /\ cmd \in Replacements
  BY <1>1, <1>4, WhileRestoring, CommandShapes, SMT
<1>6. /\ cmd.archive \in archives /\ backend = "sqlite" /\ cmd.moved.wal = Missing
      /\ cmd.copy = <<"db", "key">> /\ Intact(Before(cmd, live), aside, born, backend, torn)
      /\ cmd.todo = <<"db", "key", "wal">> => cmd.moved.db = Missing /\ cmd.moved.key = Missing
      /\ cmd.todo = <<"key", "wal">> => live.db = Missing /\ cmd.moved.key = Missing
      /\ cmd.todo = <<"wal">> => live.db = Missing /\ live.key = Missing
  <2>1. ReplacementInv(cmd)
    BY <1>5, Zenon DEF CommandInv
  <2>2. cmd.todo = <<"db", "key", "wal">> => cmd.moved.db = Missing /\ cmd.moved.key = Missing
    BY <1>4, <2>1, Zenon DEF ReplacementInv
  <2>3. cmd.todo = <<"key", "wal">> => live.db = Missing /\ cmd.moved.key = Missing
    BY <1>4, <2>1, ToMoveLists, Zenon DEF ReplacementInv
  <2>4. cmd.todo = <<"wal">> => live.db = Missing /\ live.key = Missing
    BY <1>4, <2>1, ToMoveLists, Zenon DEF ReplacementInv
  <2> QED BY <1>4, <2>1, <2>2, <2>3, <2>4, Zenon DEF ReplacementInv
<1>7. live \in Places /\ cmd.moved \in Places /\ cmd.todo \in ToMove
  BY <1>5, SMT DEF RecoveryInv, RecoveryTypes, Replacements
<1>8. /\ live["db"] = live.db /\ live["wal"] = live.wal /\ live["key"] = live.key
      /\ live.db \in DatabaseFiles \cup {Missing, Partial} /\ live.wal \in DatabaseFiles \cup {Missing}
      /\ live.key \in KeyFiles \cup {Missing, Partial}
  BY <1>7, SMT DEF Places
<1>9. ASSUME NEW rest \in ToMove, rest = Tail(cmd.todo), NEW places \in Places,
             places = [cmd.moved EXCEPT ![p] = live[p]], live' \in Places,
             rest # <<>> => places.wal = Missing,
             rest # <<>> => live'.db = Missing,
             IF rest = <<"key", "wal">> THEN places.key = Missing
             ELSE rest # <<>> => live'.key = Missing,
             rest = <<>> => live'.wal = Missing /\ live'.key = Missing /\ live'.db = Missing,
             rest # <<"db", "key", "wal">>,
             ASSUME NEW n, n.op = "restore", n.moved = places, n.todo = rest
             PROVE  Before(n, live') = Before(cmd, live)
      PROVE  RecoveryInv'
  <2>1. next = [cmd EXCEPT !.todo = rest, !.moved = places]
    BY <1>3, <1>5, <1>9, SMT DEF Replacements
  <2>2. /\ next \in Replacements /\ next.op = "restore" /\ next.archive = cmd.archive
        /\ next.moved = places /\ next.todo = rest /\ next.copy = cmd.copy
    <3>1. next \in Replacements
      BY <1>5, <1>9, <2>1, Zenon DEF Replacements
    <3> QED BY <1>4, <1>5, <2>1, <3>1, SMT DEF Replacements
  <2>3. commands' \in [Command -> Commands] /\ commands'[c] = next /\ OthersStay(c)
    BY <1>4, <2>2, GoingOn, Zenon DEF RecoveryInv, Commands
  <2>4. RecoveryTypes'
    BY <1>4, <1>6, <1>9, <2>3, SMT DEF RecoveryInv, RecoveryTypes
  <2>5. Intact(Before(next, live'), aside', born', backend', torn')
    BY <1>4, <1>6, <1>9, <2>2, Zenon
  <2>6. ReplacementInv(commands[c])'
    <3>1. ReplacementInv(cmd)
      BY <1>5, Zenon DEF CommandInv
    <3>2. rest \in {<<"key", "wal">>, <<"wal">>, <<>>}
      BY <1>9, Zenon DEF ToMove
    <3>3. /\ next.archive \in archives' /\ backend' = "sqlite" /\ next.copy = <<"db", "key">>
          /\ next.copy # <<"key">> /\ rest # <<"db", "key", "wal">>
      BY <1>4, <1>6, <1>9, <2>2, ToCopyLists, Zenon
    <3>4. CASE rest = <<"key", "wal">>
      BY <1>9, <2>2, <2>3, <2>5, <3>3, <3>4, ToMoveLists, Zenon DEF ReplacementInv
    <3>5. CASE rest = <<"wal">>
      BY <1>9, <2>2, <2>3, <2>5, <3>3, <3>5, ToMoveLists, Zenon DEF ReplacementInv
    <3>6. CASE rest = <<>>
      BY <1>9, <2>2, <2>3, <2>5, <3>3, <3>6, ToMoveLists, Zenon DEF ReplacementInv
    <3> QED BY <3>2, <3>4, <3>5, <3>6, Zenon
  <2>7. RollbackInv(commands[c])' /\ PgRestoreInv(commands[c])' /\ commands'[c].op = "restore"
    BY <2>2, <2>3, SMT DEF RollbackInv, PgRestoreInv
  <2> QED BY <1>4, <1>5, <2>3, <2>4, <2>6, <2>7, Replaced, Zenon
<1>10. CASE cmd.todo = <<"db", "key", "wal">>
  <2>1. p = "db" /\ Tail(cmd.todo) = <<"key", "wal">>
    BY <1>2, <1>10, ToMoveLists, Zenon
  <2>2. /\ live' \in Places /\ live'.db = Missing /\ live'.wal = live.wal /\ live'.key = live.key
    BY <1>4, <1>7, <2>1, SMT DEF Places
  <2>3. PICK places : places = [cmd.moved EXCEPT ![p] = live[p]]
    OBVIOUS
  <2>4. /\ places \in Places /\ places.db = live.db /\ places.wal = Missing /\ places.key = Missing
    BY <1>6, <1>7, <1>8, <1>10, <2>1, <2>3, SMT DEF Places
  <2>5. ASSUME NEW n, n.op = "restore", n.moved = places, n.todo = <<"key", "wal">>
        PROVE  Before(n, live') = Before(cmd, live)
    BY <1>4, <1>10, <2>2, <2>4, <2>5, ToMoveLists, SMT DEF Before
  <2>6. <<"key", "wal">> \in ToMove
    BY Zenon DEF ToMove
  <2> QED BY <1>9, <2>1, <2>2, <2>3, <2>4, <2>5, <2>6, ToMoveLists, Zenon
<1>11. CASE cmd.todo = <<"key", "wal">>
  <2>1. p = "key" /\ Tail(cmd.todo) = <<"wal">>
    BY <1>2, <1>11, ToMoveLists, Zenon
  <2>2. /\ live' \in Places /\ live'.db = Missing /\ live'.wal = live.wal /\ live'.key = Missing
    BY <1>4, <1>6, <1>7, <1>11, <2>1, SMT DEF Places
  <2>3. PICK places : places = [cmd.moved EXCEPT ![p] = live[p]]
    OBVIOUS
  <2>4. /\ places \in Places /\ places.db = cmd.moved.db /\ places.wal = Missing
        /\ places.key = live.key
    BY <1>6, <1>7, <1>8, <2>1, <2>3, SMT DEF Places
  <2>5. ASSUME NEW n, n.op = "restore", n.moved = places, n.todo = <<"wal">>
        PROVE  Before(n, live') = Before(cmd, live)
    BY <1>4, <1>11, <2>2, <2>4, <2>5, ToMoveLists, SMT DEF Before
  <2>6. <<"wal">> \in ToMove
    BY Zenon DEF ToMove
  <2> QED BY <1>9, <2>1, <2>2, <2>3, <2>4, <2>5, <2>6, ToMoveLists, Zenon
<1>12. CASE cmd.todo = <<"wal">>
  <2>1. p = "wal" /\ Tail(cmd.todo) = <<>>
    BY <1>2, <1>12, ToMoveLists, Zenon
  <2>2. /\ live' \in Places /\ live'.db = Missing /\ live'.wal = Missing /\ live'.key = Missing
    BY <1>4, <1>6, <1>7, <1>12, <2>1, SMT DEF Places
  <2>3. PICK places : places = [cmd.moved EXCEPT ![p] = live[p]]
    OBVIOUS
  <2>4. /\ places \in Places /\ places.db = cmd.moved.db /\ places.wal = live.wal
        /\ places.key = cmd.moved.key
    BY <1>7, <1>8, <2>1, <2>3, SMT DEF Places
  <2>5. ASSUME NEW n, n.op = "restore", n.moved = places, n.todo = <<>>
        PROVE  Before(n, live') = Before(cmd, live)
    BY <1>4, <1>12, <2>2, <2>4, <2>5, ToMoveLists, SMT DEF Before
  <2>6. <<>> \in ToMove
    BY Zenon DEF ToMove
  <2> QED BY <1>9, <2>1, <2>2, <2>3, <2>4, <2>5, <2>6, ToMoveLists, Zenon
<1> QED BY <1>4, <1>7, <1>10, <1>11, <1>12, Zenon DEF ToMove

\* What a restore or a rollback found in place is in place or in its hands.
LEMMA TakenOrInPlace ==
  ASSUME NEW l, NEW cmd, cmd.op \in {"restore", "rollback"}, cmd.moved \in Places
  PROVE  \A f \in Three(Before(cmd, l)) : f.kind \in {"db", "key"} => f \in MovedBy(cmd) \cup Three(l)
<1>1. PICK moved \in Places : moved = cmd.moved
  OBVIOUS
<1>2. \A f \in Three(moved) : f # Missing => f \in MovedBy(cmd)
  <2>1. moved["db"] = moved.db /\ moved["wal"] = moved.wal /\ moved["key"] = moved.key
    BY PlacesAre, Zenon
  <2> QED BY <1>1, <2>1, Zenon DEF Three, MovedBy, RestorePart
<1>3. Missing.kind \notin {"db", "key"}
  BY SMT DEF Missing
<1>4. PICK b : b = Before(cmd, l)
  OBVIOUS
<1>5. b.db \in {moved.db, l.db} /\ b.wal \in {moved.wal, l.wal} /\ b.key \in {moved.key, l.key}
  BY <1>1, <1>4, SMT DEF Before
<1>6. \A f \in Three(b) : f \in Three(moved) \cup Three(l)
  BY <1>5, Zenon DEF Three
<1> QED BY <1>2, <1>3, <1>4, <1>6, Zenon

\* A restore or a rollback of SQLite files is cut short.
LEMMA CutShortKeeps ==
  ASSUME RecoveryInv, NEW c \in Command, NEW cmd, cmd = commands[c],
         cmd.op \in {"restore", "rollback"}, GoesOn(c, Idle), aside' = aside \cup MovedBy(cmd),
         torn' \in BOOLEAN, torn => torn',
         cmd.op = "restore" /\ cmd.moved.db # Missing => torn',
         cmd.op = "rollback" /\ MovedBy(cmd) # {} => torn',
         backend' = backend, live' = live, archives' = archives, server' = server,
         born' = born, keysMade' = keysMade
  PROVE  RecoveryInv'
<1>1. server = NotServing /\ OthersIdle(c) /\ CommandInv(cmd) /\ cmd \in Commands
  BY WhileRestoring, SMT
<1>2. cmd.moved \in Places /\ live \in Places
  <2>1. cmd \in Replacements \cup Rollbacks
    BY <1>1, CommandShapes, SMT
  <2> QED BY <2>1, SMT DEF Replacements, Rollbacks, RecoveryInv, RecoveryTypes
<1>3. backend = "sqlite" /\ Intact(Before(cmd, live), aside, born, backend, torn)
  BY <1>1, Zenon DEF CommandInv, ReplacementInv, RollbackInv
<1>4. Covered(live', aside', born')
  <2>1. \A f \in Three(Before(cmd, live)) : f.kind \in {"db", "key"} => f \in aside' \cup Three(live')
    <3>1. \A f \in Three(Before(cmd, live)) : f.kind \in {"db", "key"} => f \in MovedBy(cmd) \cup Three(live)
      BY <1>2, TakenOrInPlace, SMT
    <3> QED BY <3>1, Zenon
  <2>2. aside \subseteq aside'
    BY Zenon
  <2> QED BY <1>3, <2>1, <2>2, CoveredMoves, Zenon DEF Intact
<1>5. ASSUME ~torn' PROVE Intact(live', aside', born', backend', torn')
  <2>1. Before(cmd, live) = live
    <3>1. CASE cmd.op = "restore"
      <4>1. cmd.moved.db = Missing /\ ~torn
        BY <1>5, <3>1
      <4>2. Whole(Before(cmd, live), aside, born)
        BY <1>3, <4>1, SMT DEF Intact, Vacant
      <4>3. Before(cmd, live).db # Missing
        BY <4>2, SMT DEF Whole, DatabaseFiles, Missing
      <4>4. cmd.todo = <<"db", "key", "wal">>
        BY <3>1, <4>1, <4>3, SMT DEF Before
      <4>5. Before(cmd, live) = [db |-> live.db, wal |-> live.wal, key |-> live.key]
        BY <3>1, <4>4, ToMoveLists, SMT DEF Before
      <4> QED BY <1>2, <4>5, PlacesAre, Zenon
    <3>2. CASE cmd.op = "rollback"
      <4>1. \A p \in RestorePart : cmd.moved[p] = Missing
        BY <1>5, <3>2, Zenon DEF MovedBy
      <4>2. \A p \in RestorePart : p \notin cmd.back
        BY <1>1, <3>2, <4>1, Zenon DEF CommandInv, RollbackInv
      <4>3. Before(cmd, live) = [db |-> live.db, wal |-> live.wal, key |-> live.key]
        BY <3>2, <4>2, SMT DEF Before, RestorePart
      <4> QED BY <1>2, <4>3, PlacesAre, Zenon
    <3> QED BY <3>1, <3>2, Zenon
  <2>2. torn' = torn
    BY <1>5, Zenon DEF RecoveryInv, RecoveryTypes
  <2>3. aside \subseteq aside' /\ Intact(live, aside, born, backend, torn)
    BY <1>3, <2>1, Zenon
  <2>4. Intact(live, aside', born, backend, torn)
    BY <2>3, AsideGrows, Zenon
  <2> QED BY <2>2, <2>4, Zenon
<1>6. Intact(live', aside', born', backend', torn')
  BY <1>4, <1>5, Zenon DEF Intact
<1>7. commands' \in [Command -> Commands] /\ commands'[c] = Idle /\ OthersStay(c)
  BY GoingOn, Zenon DEF RecoveryInv, Commands
<1>8. RecoveryTypes'
  BY <1>7, Zenon DEF RecoveryInv, RecoveryTypes
<1> QED BY <1>1, <1>6, <1>7, <1>8, Restored, Zenon

\* A restore that cannot make a directory leaves what it moved where it is.
LEMMA MkdirFailureKeeps ==
  ASSUME RecoveryInv, NEW c \in Command, PreserveMkdirFails(c)
  PROVE  RecoveryInv'
<1>1. PICK cmd : cmd = commands[c]
  OBVIOUS
<1>2. /\ cmd.op = "restore" /\ GoesOn(c, Idle) /\ aside' = aside \cup MovedBy(cmd)
      /\ torn' = (torn \/ cmd.moved["db"] # Missing)
      /\ backend' = backend /\ live' = live /\ archives' = archives /\ server' = server
      /\ born' = born /\ keysMade' = keysMade
  BY <1>1, Zenon DEF PreserveMkdirFails
<1>3. torn' \in BOOLEAN /\ (torn => torn')
  BY <1>2, SMT DEF RecoveryInv, RecoveryTypes
<1>4. cmd.moved.db # Missing => torn'
  <2>1. cmd \in Replacements
    BY <1>1, <1>2, WhileRestoring, CommandShapes, SMT
  <2>2. cmd.moved["db"] = cmd.moved.db
    BY <2>1, PlacesAre, SMT DEF Replacements
  <2> QED BY <1>2, <2>2, Zenon
<1>5. cmd.op # "rollback"
  BY <1>2, SMT
<1> QED BY <1>1, <1>2, <1>3, <1>4, <1>5, CutShortKeeps, SMT

\* A copy begins where nothing is.
LEMMA BeginCopyKeeps ==
  ASSUME RecoveryInv, NEW c \in Command, BeginCopy(c)
  PROVE  RecoveryInv'
<1>1. PICK cmd : cmd = commands[c]
  OBVIOUS
<1>2. PICK p : p = Head(cmd.copy)
  OBVIOUS
<1>3. /\ cmd.op = "restore" /\ cmd.todo = <<>> /\ live[p] = Missing
      /\ live' = [live EXCEPT ![p] = Partial] /\ commands' = commands
      /\ backend' = backend /\ aside' = aside /\ archives' = archives /\ server' = server
      /\ born' = born /\ keysMade' = keysMade /\ torn' = torn
  BY <1>1, <1>2, Zenon DEF BeginCopy
<1>4. server = NotServing /\ OthersIdle(c) /\ ReplacementInv(cmd) /\ cmd \in Replacements
  BY <1>1, <1>3, WhileRestoring, CommandShapes, SMT DEF CommandInv
<1>5. live \in Places /\ cmd.copy \in ToCopy
  BY <1>4, SMT DEF RecoveryInv, RecoveryTypes, Replacements
<1>6. /\ cmd.archive \in archives /\ backend = "sqlite"
      /\ Intact(Before(cmd, live), aside, born, backend, torn) /\ live.wal = Missing
      /\ cmd.copy = <<"key">> => live.key \in {Missing, Partial} /\ live.db = Installed(cmd, "db")
      /\ cmd.copy = <<"db", "key">> => live.key = Missing /\ live.db \in {Missing, Partial}
  BY <1>3, <1>4, ToCopyLists, SMT DEF ReplacementInv
<1>7. /\ live' \in Places /\ live'.wal = Missing
      /\ cmd.copy = <<"key">> => live'.key \in {Missing, Partial} /\ live'.db = Installed(cmd, "db")
      /\ cmd.copy = <<"db", "key">> => live'.key = Missing /\ live'.db \in {Missing, Partial}
  <2>1. CASE cmd.copy = <<"key">>
    <3>1. p = "key"
      BY <1>2, <2>1, ToCopyLists, Zenon
    <3> QED BY <1>3, <1>5, <1>6, <2>1, <3>1, ToCopyLists, SMT DEF Places
  <2>2. CASE cmd.copy = <<"db", "key">>
    <3>1. p = "db"
      BY <1>2, <2>2, ToCopyLists, Zenon
    <3> QED BY <1>3, <1>5, <1>6, <2>2, <3>1, ToCopyLists, SMT DEF Places
  <2> QED BY <1>5, <2>1, <2>2, Zenon DEF ToCopy
<1>8. RecoveryTypes'
  BY <1>3, <1>7, Zenon DEF RecoveryInv, RecoveryTypes
<1>9. Before(cmd, live') = Before(cmd, live)
  BY <1>3, ToMoveLists, SMT DEF Before
<1>10. ReplacementInv(commands[c])'
  <2>1. Intact(Before(cmd, live'), aside', born', backend', torn')
    BY <1>3, <1>6, <1>9, Zenon
  <2>2. commands'[c] = cmd
    BY <1>1, <1>3, Zenon
  <2>3. cmd.copy = <<"key">> \/ cmd.copy = <<"db", "key">>
    BY <1>5, Zenon DEF ToCopy
  <2> QED BY <1>3, <1>6, <1>7, <2>1, <2>2, <2>3, ToMoveLists, ToCopyLists, Zenon DEF ReplacementInv
<1>11. RollbackInv(commands[c])' /\ PgRestoreInv(commands[c])' /\ commands'[c].op = "restore"
  BY <1>1, <1>3, SMT DEF RollbackInv, PgRestoreInv
<1>12. OthersStay(c)
  BY <1>3, Zenon DEF OthersStay
<1> QED BY <1>3, <1>4, <1>8, <1>10, <1>11, <1>12, Replaced, Zenon

\* The copies of an archive are whole when the last one ends.
LEMMA EndCopyKeeps ==
  ASSUME RecoveryInv, NEW c \in Command, EndCopy(c), ~astray'
  PROVE  RecoveryInv'
<1>1. PICK cmd : cmd = commands[c]
  OBVIOUS
<1>2. PICK p : p = Head(cmd.copy)
  OBVIOUS
<1>3. /\ cmd.op = "restore" /\ cmd.todo = <<>> /\ live[p] = Partial
      /\ live' = [live EXCEPT ![p] = Installed(cmd, p)]
      /\ IF Tail(cmd.copy) = <<>>
         THEN /\ GoesOn(c, Idle) /\ aside' = aside \cup MovedBy(cmd) /\ torn' = FALSE
              /\ cmd.archive.aligned
         ELSE GoesOn(c, [cmd EXCEPT !.copy = Tail(@)]) /\ aside' = aside /\ torn' = torn
      /\ backend' = backend /\ archives' = archives /\ server' = server
      /\ born' = born /\ keysMade' = keysMade
  BY <1>1, <1>2, Zenon DEF EndCopy
<1>4. server = NotServing /\ OthersIdle(c) /\ ReplacementInv(cmd) /\ cmd \in Replacements
  BY <1>1, <1>3, WhileRestoring, CommandShapes, SMT DEF CommandInv
<1>5. live \in Places /\ cmd.copy \in ToCopy /\ cmd.archive \in Archived /\ cmd.moved \in Places
  BY <1>4, SMT DEF RecoveryInv, RecoveryTypes, Replacements
<1>6. /\ cmd.archive \in archives /\ backend = "sqlite"
      /\ Intact(Before(cmd, live), aside, born, backend, torn) /\ live.wal = Missing
      /\ cmd.copy = <<"key">> => live.key \in {Missing, Partial} /\ live.db = Installed(cmd, "db")
      /\ cmd.copy = <<"db", "key">> => live.key = Missing /\ live.db \in {Missing, Partial}
  BY <1>3, <1>4, ToCopyLists, SMT DEF ReplacementInv
<1>7. Installed(cmd, "db") = Database(0, cmd.archive.db.values) /\ Installed(cmd, "key") = cmd.archive.key
  BY SMT DEF Installed
<1>8. Database(0, cmd.archive.db.values) \in DatabaseFiles /\ cmd.archive.key \in KeyFiles
  BY <1>5, SMT DEF Archived, Database, DatabaseFiles
<1>9. CASE cmd.copy = <<"db", "key">>
  <2>1. p = "db" /\ Tail(cmd.copy) = <<"key">>
    BY <1>2, <1>9, ToCopyLists, Zenon
  <2>2. PICK next : next = [cmd EXCEPT !.copy = <<"key">>]
    OBVIOUS
  <2>3. GoesOn(c, next) /\ aside' = aside /\ torn' = torn
    <3>1. GoesOn(c, [cmd EXCEPT !.copy = Tail(@)]) /\ aside' = aside /\ torn' = torn
      BY <1>3, <2>1, ToCopyLists, Zenon
    <3>2. [cmd EXCEPT !.copy = Tail(@)] = next
      BY <2>1, <2>2, Zenon
    <3> QED BY <3>1, <3>2, Zenon
  <2>4. /\ next \in Replacements /\ next.op = "restore" /\ next.archive = cmd.archive
        /\ next.moved = cmd.moved /\ next.todo = <<>> /\ next.copy = <<"key">>
    <3>1. next \in Replacements
      BY <1>4, <2>2, Zenon DEF Replacements, ToCopy
    <3> QED BY <1>3, <1>4, <2>2, <3>1, SMT DEF Replacements
  <2>5. commands' \in [Command -> Commands] /\ commands'[c] = next /\ OthersStay(c)
    BY <2>3, <2>4, GoingOn, Zenon DEF RecoveryInv, Commands
  <2>6. /\ live' \in Places /\ live'.wal = Missing /\ live'.key = Missing
        /\ live'.db = Installed(cmd, "db")
    BY <1>3, <1>5, <1>6, <1>7, <1>8, <1>9, <2>1, SMT DEF Places
  <2>7. RecoveryTypes'
    BY <1>3, <1>6, <2>3, <2>5, <2>6, SMT DEF RecoveryInv, RecoveryTypes
  <2>8. Before(next, live') = Before(cmd, live)
    BY <1>3, <2>4, ToMoveLists, SMT DEF Before
  <2>9. ReplacementInv(commands[c])'
    <3>1. Intact(Before(next, live'), aside', born', backend', torn')
      BY <1>3, <1>6, <2>3, <2>8, Zenon
    <3>2. Installed(next, "db") = Installed(cmd, "db")
      BY <2>4, Zenon DEF Installed
    <3> QED BY <1>3, <1>6, <2>4, <2>5, <2>6, <3>1, <3>2, ToMoveLists, ToCopyLists, Zenon DEF ReplacementInv
  <2>10. RollbackInv(commands[c])' /\ PgRestoreInv(commands[c])' /\ commands'[c].op = "restore"
    BY <2>4, <2>5, SMT DEF RollbackInv, PgRestoreInv
  <2> QED BY <1>3, <1>4, <2>5, <2>7, <2>9, <2>10, Replaced, Zenon
<1>10. CASE cmd.copy = <<"key">>
  <2>1. p = "key" /\ Tail(cmd.copy) = <<>>
    BY <1>2, <1>10, ToCopyLists, Zenon
  <2>2. /\ GoesOn(c, Idle) /\ aside' = aside \cup MovedBy(cmd) /\ torn' = FALSE
        /\ cmd.archive.aligned
    BY <1>3, <2>1, Zenon
  <2>3. commands' \in [Command -> Commands] /\ commands'[c] = Idle /\ OthersStay(c)
    BY <2>2, GoingOn, Zenon DEF RecoveryInv, Commands
  <2>4. /\ live' \in Places /\ live'.wal = Missing /\ live'.key = cmd.archive.key
        /\ live'.db = Database(0, cmd.archive.db.values)
    BY <1>3, <1>5, <1>6, <1>7, <1>8, <1>10, <2>1, SMT DEF Places
  <2>5. RecoveryTypes'
    <3>1. torn' \in BOOLEAN
      BY <2>2, Zenon
    <3> QED BY <1>3, <1>6, <2>3, <2>4, <3>1, Zenon DEF RecoveryInv, RecoveryTypes
  <2>6. Covered(Nowhere, aside', born)
    <3>1. Before(cmd, Nowhere) = Before(cmd, live)
      BY <1>3, ToMoveLists, SMT DEF Before
    <3>2. \A f \in Three(Before(cmd, Nowhere)) :
            f.kind \in {"db", "key"} => f \in MovedBy(cmd) \cup Three(Nowhere)
      BY <1>3, <1>5, TakenOrInPlace, SMT
    <3>3. \A f \in Three(Before(cmd, live)) :
            f.kind \in {"db", "key"} => f \in aside' \cup Three(Nowhere)
      BY <2>2, <3>1, <3>2, Zenon
    <3>4. aside \subseteq aside' /\ Covered(Before(cmd, live), aside, born)
      BY <1>6, <2>2, Zenon DEF Intact
    <3> QED BY <3>3, <3>4, CoveredMoves, Zenon
  <2>7. Opens(cmd.archive.key, cmd.archive.db) /\ born \in Seq(SUBSET Secret)
    BY <1>6, <2>2, Zenon DEF RecoveryInv, RecoveryTypes, ArchivesInv
  <2>8. Whole(live', aside', born)
    BY <1>5, <2>4, <2>6, <2>7, InstalledIsWhole, Zenon
  <2>9. Intact(live', aside', born', backend', torn')
    BY <1>3, <2>4, <2>7, <2>8, WholeIsIntact, Zenon
  <2> QED BY <1>3, <1>4, <2>3, <2>5, <2>9, Restored, Zenon
<1> QED BY <1>5, <1>9, <1>10, Zenon DEF ToCopy

\* A restore that fails has to move back what it moved away.
LEMMA RestoreFailureKeeps ==
  ASSUME RecoveryInv, NEW c \in Command, RestoreFails(c)
  PROVE  RecoveryInv'
<1>1. PICK cmd : cmd = commands[c]
  OBVIOUS
<1>2. PICK moved : moved = cmd.moved
  OBVIOUS
<1>3. PICK next : next = [op |-> "rollback", moved |-> moved, back |-> {p \in RestorePart : moved[p] # Missing}]
  OBVIOUS
<1>4. /\ cmd.op = "restore" /\ GoesOn(c, next)
      /\ live' = IF cmd.todo = <<>> THEN [live EXCEPT !.db = Missing, !.key = Missing] ELSE live
      /\ backend' = backend /\ aside' = aside /\ archives' = archives /\ server' = server
      /\ born' = born /\ keysMade' = keysMade /\ torn' = torn
  BY <1>1, <1>2, <1>3, Zenon DEF RestoreFails
<1>5. server = NotServing /\ OthersIdle(c) /\ ReplacementInv(cmd) /\ cmd \in Replacements
  BY <1>1, <1>4, WhileRestoring, CommandShapes, SMT DEF CommandInv
<1>6. /\ live \in Places /\ moved \in Places /\ cmd.todo \in ToMove
      /\ moved["db"] = moved.db /\ moved["wal"] = moved.wal /\ moved["key"] = moved.key
  BY <1>2, <1>5, PlacesAre, SMT DEF RecoveryInv, RecoveryTypes, Replacements
<1>7. /\ next \in Rollbacks /\ next.op = "rollback" /\ next.moved = moved
      /\ \A p \in RestorePart : p \in next.back <=> moved[p] # Missing
  BY <1>3, <1>6, SMT DEF Rollbacks
<1>8. backend = "sqlite" /\ Intact(Before(cmd, live), aside, born, backend, torn)
  BY <1>4, <1>5, Zenon DEF ReplacementInv
<1>9. /\ live' \in Places
      /\ cmd.todo = <<"db", "key", "wal">> =>
           live' = live /\ moved.db = Missing /\ moved.wal = Missing /\ moved.key = Missing
      /\ cmd.todo = <<"key", "wal">> =>
           live' = live /\ live.db = Missing /\ moved.wal = Missing /\ moved.key = Missing
      /\ cmd.todo = <<"wal">> =>
           live' = live /\ live.db = Missing /\ moved.wal = Missing /\ live.key = Missing
      /\ cmd.todo = <<>> => live'.db = Missing /\ live'.wal = Missing /\ live'.key = Missing
  <2>1. CASE cmd.todo = <<>>
    <3>1. live' = [live EXCEPT !.db = Missing, !.key = Missing] /\ live.wal = Missing
      BY <1>4, <1>5, <2>1, Zenon DEF ReplacementInv
    <3>2. live' \in Places
      BY <1>6, <3>1, Zenon DEF Places
    <3>3. live'.db = Missing /\ live'.wal = Missing /\ live'.key = Missing
      BY <1>6, <3>1, SMT DEF Places
    <3> QED BY <2>1, <3>2, <3>3, ToMoveLists, Zenon
  <2>2. CASE cmd.todo # <<>>
    <3>1. live' = live /\ moved.wal = Missing
      BY <1>2, <1>4, <1>5, <2>2, Zenon DEF ReplacementInv
    <3>2. cmd.todo = <<"db", "key", "wal">> => moved.db = Missing /\ moved.key = Missing
      BY <1>2, <1>4, <1>5, Zenon DEF ReplacementInv
    <3>3. cmd.todo = <<"key", "wal">> => live.db = Missing /\ moved.key = Missing
      BY <1>2, <1>4, <1>5, ToMoveLists, Zenon DEF ReplacementInv
    <3>4. cmd.todo = <<"wal">> => live.db = Missing /\ live.key = Missing
      BY <1>2, <1>4, <1>5, ToMoveLists, Zenon DEF ReplacementInv
    <3> QED BY <1>6, <2>2, <3>1, <3>2, <3>3, <3>4, Zenon
  <2> QED BY <2>1, <2>2, Zenon
<1>10. /\ "db" \in next.back <=> moved.db # Missing
       /\ "wal" \in next.back <=> moved.wal # Missing
       /\ "key" \in next.back <=> moved.key # Missing
  BY <1>6, <1>7, Zenon DEF RestorePart
<1>11. Before(next, live') = Before(cmd, live)
  <2>1. Before(next, live') =
          [db |-> IF moved.db # Missing THEN moved.db ELSE live'.db,
           wal |-> IF moved.wal # Missing THEN moved.wal ELSE live'.wal,
           key |-> IF moved.key # Missing THEN moved.key ELSE live'.key]
    BY <1>7, <1>10, SMT DEF Before
  <2>2. Before(cmd, live) =
          [db |-> IF cmd.todo = <<"db", "key", "wal">> THEN live.db ELSE moved.db,
           wal |-> IF cmd.todo = <<>> THEN moved.wal ELSE live.wal,
           key |-> IF cmd.todo \in {<<"db", "key", "wal">>, <<"key", "wal">>}
                   THEN live.key ELSE moved.key]
    BY <1>2, <1>4, SMT DEF Before
  <2>3. CASE cmd.todo = <<"db", "key", "wal">>
    BY <1>9, <2>1, <2>2, <2>3, ToMoveLists, SMT
  <2>4. CASE cmd.todo = <<"key", "wal">>
    BY <1>9, <2>1, <2>2, <2>4, ToMoveLists, SMT
  <2>5. CASE cmd.todo = <<"wal">>
    BY <1>9, <2>1, <2>2, <2>5, ToMoveLists, SMT
  <2>6. CASE cmd.todo = <<>>
    BY <1>9, <2>1, <2>2, <2>6, ToMoveLists, SMT
  <2> QED BY <1>6, <2>3, <2>4, <2>5, <2>6, Zenon DEF ToMove
<1>12. commands' \in [Command -> Commands] /\ commands'[c] = next /\ OthersStay(c)
  BY <1>4, <1>7, GoingOn, Zenon DEF RecoveryInv, Commands
<1>13. RecoveryTypes'
  BY <1>4, <1>8, <1>9, <1>12, SMT DEF RecoveryInv, RecoveryTypes
<1>14. RollbackInv(commands[c])'
  <2>1. Intact(Before(next, live'), aside', born', backend', torn')
    BY <1>4, <1>8, <1>11, Zenon
  <2>2. /\ moved.db # Missing => live'.db = Missing
        /\ moved.wal # Missing => live'.wal = Missing
        /\ moved.key # Missing => live'.key = Missing
    BY <1>6, <1>9, Zenon DEF ToMove
  <2>3. \A p \in RestorePart : IF p \in next.back THEN next.moved[p] # Missing /\ live'[p] = Missing
                               ELSE next.moved[p] = Missing
    <3>1. live'["db"] = live'.db /\ live'["wal"] = live'.wal /\ live'["key"] = live'.key
      BY <1>9, PlacesAre, Zenon
    <3> QED BY <1>6, <1>7, <2>2, <3>1, Zenon DEF RestorePart
  <2> QED BY <1>4, <1>8, <1>12, <2>1, <2>3, Zenon DEF RollbackInv
<1>15. ReplacementInv(commands[c])' /\ PgRestoreInv(commands[c])' /\ commands'[c].op = "rollback"
  BY <1>7, <1>12, SMT DEF ReplacementInv, PgRestoreInv
<1> QED BY <1>4, <1>5, <1>12, <1>13, <1>14, <1>15, Replaced, Zenon

\* A file that is moved back is in place again.
LEMMA RollbackKeeps ==
  ASSUME RecoveryInv, NEW c \in Command, rollbackRestore(c)
  PROVE  RecoveryInv'
<1>1. PICK cmd : cmd = commands[c]
  OBVIOUS
<1>2. /\ cmd.op = "rollback"
      /\ backend' = backend /\ aside' = aside /\ archives' = archives /\ server' = server
      /\ born' = born /\ keysMade' = keysMade /\ torn' = torn
  BY <1>1, Zenon DEF rollbackRestore
<1>3. server = NotServing /\ OthersIdle(c) /\ RollbackInv(cmd) /\ cmd \in Rollbacks
  BY <1>1, <1>2, WhileRestoring, CommandShapes, SMT DEF CommandInv
<1>4. PICK moved, back : moved = cmd.moved /\ back = cmd.back
  OBVIOUS
<1>5. live \in Places /\ moved \in Places /\ back \in SUBSET RestorePart
  BY <1>3, <1>4, SMT DEF RecoveryInv, RecoveryTypes, Rollbacks
<1>6. /\ backend = "sqlite" /\ Intact(Before(cmd, live), aside, born, backend, torn)
      /\ \A p \in RestorePart : IF p \in back THEN moved[p] # Missing /\ live[p] = Missing
                                ELSE moved[p] = Missing
  BY <1>2, <1>3, <1>4, Zenon DEF RollbackInv
<1>7. CASE back = {}
  <2>1. GoesOn(c, Idle) /\ live' = live
    BY <1>1, <1>4, <1>7, Zenon DEF rollbackRestore
  <2>2. commands' \in [Command -> Commands] /\ commands'[c] = Idle /\ OthersStay(c)
    BY <2>1, GoingOn, Zenon DEF RecoveryInv, Commands
  <2>3. RecoveryTypes'
    BY <1>2, <2>1, <2>2, Zenon DEF RecoveryInv, RecoveryTypes
  <2>4. Before(cmd, live) = [db |-> live.db, wal |-> live.wal, key |-> live.key]
    BY <1>2, <1>4, <1>7, SMT DEF Before
  <2>5. Intact(live', aside', born', backend', torn')
    BY <1>2, <1>5, <1>6, <2>1, <2>4, PlacesAre, Zenon
  <2> QED BY <1>2, <1>3, <2>2, <2>3, <2>5, Restored, Zenon
<1>8. CASE back # {}
  <2>1. PICK p \in back :
          /\ live' = [live EXCEPT ![p] = moved[p]]
          /\ GoesOn(c, [cmd EXCEPT !.back = @ \ {p}, !.moved[p] = Missing])
    BY <1>1, <1>4, <1>8, Zenon DEF rollbackRestore
  <2>2. PICK places, rest : places = [moved EXCEPT ![p] = Missing] /\ rest = back \ {p}
    OBVIOUS
  <2>3. PICK next : next = [cmd EXCEPT !.back = rest, !.moved = places]
    OBVIOUS
  <2>4. GoesOn(c, next)
    <3>1. [cmd EXCEPT !.back = @ \ {p}, !.moved[p] = Missing] = next
      BY <1>3, <1>4, <2>2, <2>3, SMT DEF Rollbacks
    <3> QED BY <2>1, <3>1, Zenon
  <2>5. places \in Places /\ rest \in SUBSET RestorePart /\ p \in RestorePart
    <3>1. p \in {"db", "wal", "key"}
      BY <1>5, Zenon DEF RestorePart
    <3> QED BY <1>5, <2>2, <3>1, SMT DEF Places, RestorePart
  <2>6. next \in Rollbacks /\ next.op = "rollback" /\ next.moved = places /\ next.back = rest
    <3>1. next \in Rollbacks
      BY <1>3, <2>3, <2>5, Zenon DEF Rollbacks
    <3> QED BY <1>2, <1>3, <2>3, <3>1, SMT DEF Rollbacks
  <2>7. live' \in Places
    BY <1>5, <2>1, <2>5, SMT DEF Places, RestorePart
  <2>8. /\ DOMAIN live = RestorePart /\ DOMAIN moved = RestorePart
        /\ \A l \in Places : l["db"] = l.db /\ l["wal"] = l.wal /\ l["key"] = l.key
    BY <1>5, SMT DEF Places, RestorePart
  <2>9. \A q \in RestorePart :
          /\ live'[q] = IF q = p THEN moved[q] ELSE live[q]
          /\ places[q] = IF q = p THEN Missing ELSE moved[q]
    BY <2>1, <2>2, <2>8, Zenon
  <2>10. Before(next, live') = Before(cmd, live)
    <3>1. Before(next, live') =
            [db |-> IF "db" \in rest THEN places.db ELSE live'.db,
             wal |-> IF "wal" \in rest THEN places.wal ELSE live'.wal,
             key |-> IF "key" \in rest THEN places.key ELSE live'.key]
      BY <2>6, SMT DEF Before
    <3>2. Before(cmd, live) =
            [db |-> IF "db" \in back THEN moved.db ELSE live.db,
             wal |-> IF "wal" \in back THEN moved.wal ELSE live.wal,
             key |-> IF "key" \in back THEN moved.key ELSE live.key]
      BY <1>2, <1>4, SMT DEF Before
    <3>3. \A q \in RestorePart : (IF q \in rest THEN places[q] ELSE live'[q])
                               = (IF q \in back THEN moved[q] ELSE live[q])
      BY <2>2, <2>9, Zenon
    <3>4. "db" \in RestorePart /\ "wal" \in RestorePart /\ "key" \in RestorePart
      BY Zenon DEF RestorePart
    <3>5. /\ (IF "db" \in rest THEN places.db ELSE live'.db) = (IF "db" \in back THEN moved.db ELSE live.db)
          /\ (IF "wal" \in rest THEN places.wal ELSE live'.wal) = (IF "wal" \in back THEN moved.wal ELSE live.wal)
          /\ (IF "key" \in rest THEN places.key ELSE live'.key) = (IF "key" \in back THEN moved.key ELSE live.key)
      BY <3>3, <3>4, SMT
    <3> QED BY <3>1, <3>2, <3>5, SMT
  <2>11. commands' \in [Command -> Commands] /\ commands'[c] = next /\ OthersStay(c)
    BY <2>4, <2>6, GoingOn, Zenon DEF RecoveryInv, Commands
  <2>12. RecoveryTypes'
    BY <1>2, <1>6, <2>7, <2>11, SMT DEF RecoveryInv, RecoveryTypes
  <2>13. RollbackInv(commands[c])'
    <3>1. Intact(Before(next, live'), aside', born', backend', torn')
      BY <1>2, <1>6, <2>10, Zenon
    <3>2. \A q \in RestorePart : IF q \in rest THEN places[q] # Missing /\ live'[q] = Missing
                                 ELSE places[q] = Missing
      BY <1>6, <2>2, <2>9, Zenon
    <3> QED BY <1>2, <1>6, <2>6, <2>11, <3>1, <3>2, Zenon DEF RollbackInv
  <2>14. ReplacementInv(commands[c])' /\ PgRestoreInv(commands[c])' /\ commands'[c].op = "rollback"
    BY <2>6, <2>11, SMT DEF ReplacementInv, PgRestoreInv
  <2> QED BY <1>2, <1>3, <2>11, <2>12, <2>13, <2>14, Replaced, Zenon
<1> QED BY <1>7, <1>8, Zenon

-----------------------------------------------------------------------------
\* Restore of a PostgreSQL installation.

\* A restore into an empty database finds nothing in place.
LEMMA StageKeeps ==
  ASSUME RecoveryInv, NEW c \in Command, StagePostgreSQLFiles(c)
  PROVE  RecoveryInv'
<1>1. /\ server = NotServing /\ backend = "postgresql" /\ \A d \in Command : commands[d] = Idle
      /\ live.db = Missing /\ live.key = Missing
      /\ backend' = backend /\ live' = live /\ aside' = aside /\ archives' = archives
      /\ server' = server /\ born' = born /\ keysMade' = keysMade /\ torn' = torn
  BY Zenon DEF StagePostgreSQLFiles
<1>2. PICK a \in archives : GoesOn(c, [op |-> "pgrestore", step |-> "load", archive |-> a])
  BY Zenon DEF StagePostgreSQLFiles
<1>idle. ~Restoring /\ OthersIdle(c)
  <2>1. Idle.op \notin {"restore", "rollback", "pgrestore"}
    BY SMT DEF Idle
  <2> QED BY <1>1, <2>1, Zenon DEF Restoring, OthersIdle
<1>3. live = Nowhere /\ Intact(live, aside, born, backend, torn) /\ a \in Archived
  BY <1>1, <1>idle, PlacesAre, Zenon DEF RecoveryInv, RecoveryTypes, CalmInv, Nowhere
<1>4. PICK cmd : cmd = [op |-> "pgrestore", step |-> "load", archive |-> a]
  OBVIOUS
<1>5. cmd \in PgRestores /\ cmd.op = "pgrestore" /\ cmd.step = "load" /\ cmd.archive = a
  BY <1>3, <1>4, SMT DEF PgRestores
<1>6. commands' \in [Command -> Commands] /\ commands'[c] = cmd /\ OthersStay(c)
  BY <1>2, <1>4, <1>5, GoingOn, Zenon DEF RecoveryInv, Commands
<1>7. RecoveryTypes'
  BY <1>1, <1>6, Zenon DEF RecoveryInv, RecoveryTypes
<1>8. PgRestoreInv(commands[c])'
  BY <1>1, <1>3, <1>5, <1>6, Zenon DEF PgRestoreInv
<1>9. ReplacementInv(commands[c])' /\ RollbackInv(commands[c])' /\ commands'[c].op = "pgrestore"
  BY <1>5, <1>6, SMT DEF ReplacementInv, RollbackInv
<1> QED BY <1>1, <1>6, <1>7, <1>8, <1>9, <1>idle, Replaced, Zenon

\* A step of a PostgreSQL restore that goes on to publish its files.
LEMMA PublishGoesOn ==
  ASSUME RecoveryInv, NEW c \in Command, commands[c].op = "pgrestore",
         NEW next \in PgRestores, commands' \in [Command -> Commands], commands'[c] = next,
         OthersStay(c),
         next.step = "publish", next.archive = commands[c].archive,
         live' \in Places, live'.db = Installed(commands[c], "db"), live'.wal = Missing,
         live'.key \in {Missing, Partial}, backend' = backend, aside' = aside,
         archives' = archives, server' = server, born' = born, keysMade' = keysMade, torn' = torn
  PROVE  RecoveryInv'
<1>1. PICK cmd : cmd = commands[c]
  OBVIOUS
<1>2. server = NotServing /\ OthersIdle(c) /\ PgRestoreInv(cmd)
  BY <1>1, WhileRestoring, SMT DEF CommandInv
<1>3. cmd.archive \in archives /\ backend = "postgresql" /\ Intact(Nowhere, aside, born, backend, torn)
  BY <1>1, <1>2, Zenon DEF PgRestoreInv
<1>4. RecoveryTypes'
  BY Zenon DEF RecoveryInv, RecoveryTypes
<1>5. next.op = "pgrestore" /\ next.step # "load"
  BY SMT DEF PgRestores
<1>6. Installed(next, "db") = Installed(cmd, "db")
  BY <1>1, Zenon DEF Installed
<1>7. PgRestoreInv(commands[c])'
  <2>1. Intact(Nowhere, aside', born', backend', torn')
    BY <1>3, Zenon
  <2>2. /\ next.archive \in archives' /\ backend' = "postgresql"
        /\ live'.db = Installed(next, "db") /\ live'.key \in {Missing, Partial}
    BY <1>1, <1>3, <1>6, Zenon
  <2> QED BY <1>5, <2>1, <2>2, Zenon DEF PgRestoreInv
<1>8. ReplacementInv(commands[c])' /\ RollbackInv(commands[c])' /\ commands'[c].op = "pgrestore"
  BY <1>5, SMT DEF ReplacementInv, RollbackInv
<1> QED BY <1>2, <1>4, <1>7, <1>8, Replaced, Zenon

\* pg_restore loads the whole database or nothing of it.
LEMMA PgRestoreKeeps ==
  ASSUME RecoveryInv, NEW c \in Command, RunPgRestore(c)
  PROVE  RecoveryInv'
<1>1. PICK cmd : cmd = commands[c]
  OBVIOUS
<1>2. PICK next : next = [cmd EXCEPT !.step = "publish"]
  OBVIOUS
<1>3. /\ cmd.op = "pgrestore" /\ cmd.step = "load"
      /\ live' = [live EXCEPT !.db = Installed(cmd, "db")] /\ GoesOn(c, next)
      /\ backend' = backend /\ aside' = aside /\ archives' = archives /\ server' = server
      /\ born' = born /\ keysMade' = keysMade /\ torn' = torn
  BY <1>1, <1>2, Zenon DEF RunPgRestore
<1>4. PgRestoreInv(cmd) /\ cmd \in PgRestores
  BY <1>1, <1>3, WhileRestoring, CommandShapes, SMT DEF CommandInv
<1>5. live = Nowhere /\ live \in Places
  BY <1>3, <1>4, Zenon DEF PgRestoreInv, RecoveryInv, RecoveryTypes
<1>6. next \in PgRestores /\ next.step = "publish" /\ next.archive = cmd.archive
  BY <1>2, <1>4, SMT DEF PgRestores
<1>7. Installed(cmd, "db") \in DatabaseFiles
  BY <1>4, SMT DEF PgRestores, Archived, Installed, Database, DatabaseFiles
<1>8. PICK d : d = Installed(cmd, "db")
  OBVIOUS
<1>9. live' \in Places /\ live'.db = d /\ live'.wal = Missing /\ live'.key = Missing
  BY <1>3, <1>5, <1>7, <1>8, SMT DEF Places, Nowhere
<1>10. commands' \in [Command -> Commands] /\ commands'[c] = next /\ OthersStay(c)
  BY <1>3, <1>6, GoingOn, Zenon DEF RecoveryInv, Commands
<1> QED BY <1>1, <1>3, <1>6, <1>8, <1>9, <1>10, PublishGoesOn, SMT

\* The key file is published where nothing is.
LEMMA BeginPublishKeeps ==
  ASSUME RecoveryInv, NEW c \in Command, BeginPublish(c)
  PROVE  RecoveryInv'
<1>1. PICK cmd : cmd = commands[c]
  OBVIOUS
<1>2. /\ cmd.op = "pgrestore" /\ cmd.step = "publish" /\ live.key = Missing
      /\ live' = [live EXCEPT !.key = Partial] /\ commands' = commands
      /\ backend' = backend /\ aside' = aside /\ archives' = archives /\ server' = server
      /\ born' = born /\ keysMade' = keysMade /\ torn' = torn
  BY <1>1, Zenon DEF BeginPublish
<1>3. PgRestoreInv(cmd) /\ cmd \in PgRestores
  BY <1>1, <1>2, WhileRestoring, CommandShapes, SMT DEF CommandInv
<1>4. live.db = Installed(cmd, "db") /\ backend = "postgresql"
  BY <1>2, <1>3, SMT DEF PgRestoreInv
<1>5. live \in Places /\ live.wal = Missing /\ commands \in [Command -> Commands]
  BY <1>4, Zenon DEF RecoveryInv, RecoveryTypes
<1>6. live' \in Places /\ live'.db = live.db /\ live'.wal = Missing /\ live'.key = Partial
  BY <1>2, <1>5, SMT DEF Places
<1>7. OthersStay(c)
  BY <1>2, Zenon DEF OthersStay
<1> QED BY <1>1, <1>2, <1>3, <1>4, <1>5, <1>6, <1>7, PublishGoesOn, SMT

\* With its key file published the restored installation is whole.
LEMMA EndPublishKeeps ==
  ASSUME RecoveryInv, NEW c \in Command, EndPublish(c), ~astray'
  PROVE  RecoveryInv'
<1>1. PICK cmd : cmd = commands[c]
  OBVIOUS
<1>2. /\ cmd.op = "pgrestore" /\ cmd.step = "publish"
      /\ live' = [live EXCEPT !.key = cmd.archive.key] /\ GoesOn(c, Idle) /\ torn' = FALSE
      /\ cmd.archive.aligned
      /\ backend' = backend /\ aside' = aside /\ archives' = archives /\ server' = server
      /\ born' = born /\ keysMade' = keysMade
  BY <1>1, Zenon DEF EndPublish
<1>3. server = NotServing /\ OthersIdle(c) /\ PgRestoreInv(cmd) /\ cmd \in PgRestores
  BY <1>1, <1>2, WhileRestoring, CommandShapes, SMT DEF CommandInv
<1>4. /\ live.db = Installed(cmd, "db") /\ backend = "postgresql" /\ cmd.archive \in archives
      /\ Covered(Nowhere, aside, born)
  BY <1>2, <1>3, SMT DEF PgRestoreInv, Intact
<1>5. /\ live \in Places /\ live.wal = Missing /\ born \in Seq(SUBSET Secret)
      /\ cmd.archive \in Archived /\ Opens(cmd.archive.key, cmd.archive.db)
  BY <1>2, <1>4, Zenon DEF RecoveryInv, RecoveryTypes, ArchivesInv
<1>6. cmd.archive.key \in KeyFiles /\ Installed(cmd, "db") = Database(0, cmd.archive.db.values)
  BY <1>5, SMT DEF Archived, Installed
<1>7. /\ live' \in Places /\ live'.db = Database(0, cmd.archive.db.values) /\ live'.wal = Missing
      /\ live'.key = cmd.archive.key
  BY <1>2, <1>4, <1>5, <1>6, SMT DEF Places
<1>8. Whole(live', aside, born)
  BY <1>4, <1>5, <1>7, InstalledIsWhole, Zenon
<1>9. Intact(live', aside', born', backend', torn')
  BY <1>2, <1>5, <1>7, <1>8, WholeIsIntact, Zenon
<1>10. commands' \in [Command -> Commands] /\ commands'[c] = Idle /\ OthersStay(c)
  BY <1>2, GoingOn, Zenon DEF RecoveryInv, Commands
<1>11. torn' \in BOOLEAN
  BY <1>2, Zenon
<1>12. RecoveryTypes'
  BY <1>2, <1>7, <1>10, <1>11, Zenon DEF RecoveryInv, RecoveryTypes
<1> QED BY <1>2, <1>3, <1>9, <1>10, <1>12, Restored, Zenon

\* A PostgreSQL restore is cut short: before the load nothing has changed,
\* after it the installation is torn and all that was there before is aside.
LEMMA PgCutShortKeeps ==
  ASSUME RecoveryInv, NEW c \in Command, NEW cmd, cmd = commands[c],
         cmd.op = "pgrestore", GoesOn(c, Idle), aside \subseteq aside',
         torn' \in BOOLEAN, cmd.step = "load" => torn' = torn, cmd.step = "publish" => torn',
         backend' = backend, live' = live, archives' = archives, server' = server,
         born' = born, keysMade' = keysMade
  PROVE  RecoveryInv'
<1>1. server = NotServing /\ OthersIdle(c) /\ PgRestoreInv(cmd) /\ cmd \in PgRestores
  BY WhileRestoring, CommandShapes, SMT DEF CommandInv
<1>2. Intact(Nowhere, aside, born, backend, torn) /\ (cmd.step = "load" => live = Nowhere)
  BY <1>1, Zenon DEF PgRestoreInv
<1>3. Intact(live', aside', born', backend', torn')
  <2>1. CASE cmd.step = "load"
    <3>1. Intact(live, aside', born, backend, torn)
      BY <1>2, <2>1, AsideGrows, Zenon
    <3> QED BY <2>1, <3>1, Zenon
  <2>2. CASE cmd.step = "publish"
    <3>1. \A f \in Three(Nowhere) : f.kind \in {"db", "key"} => f \in aside' \cup Three(live)
      BY SMT DEF Three, Nowhere, Missing
    <3>2. Covered(live, aside', born)
      BY <1>2, <3>1, CoveredMoves, Zenon DEF Intact
    <3> QED BY <2>2, <3>2, Zenon DEF Intact
  <2> QED BY <1>1, <2>1, <2>2, SMT DEF PgRestores
<1>4. commands' \in [Command -> Commands] /\ commands'[c] = Idle /\ OthersStay(c)
  BY GoingOn, Zenon DEF RecoveryInv, Commands
<1>5. RecoveryTypes'
  BY <1>4, Zenon DEF RecoveryInv, RecoveryTypes
<1> QED BY <1>1, <1>3, <1>4, <1>5, Restored, Zenon

\* A PostgreSQL restore that fails retains its staging directory.
LEMMA PgFailureKeeps ==
  ASSUME RecoveryInv, NEW c \in Command, PgRestoreFails(c)
  PROVE  RecoveryInv'
<1>1. PICK cmd : cmd = commands[c]
  OBVIOUS
<1>2. /\ cmd.op = "pgrestore" /\ GoesOn(c, Idle) /\ aside' = aside \cup {cmd.archive.key}
      /\ torn' = (torn \/ cmd.step = "publish")
      /\ backend' = backend /\ live' = live /\ archives' = archives /\ server' = server
      /\ born' = born /\ keysMade' = keysMade
  BY <1>1, Zenon DEF PgRestoreFails
<1>3. /\ torn' \in BOOLEAN /\ (cmd.step = "load" => torn' = torn) /\ (cmd.step = "publish" => torn')
      /\ aside \subseteq aside'
  <2>1. torn \in BOOLEAN
    BY Zenon DEF RecoveryInv, RecoveryTypes
  <2> QED BY <1>2, <2>1, Zenon
<1> QED BY <1>1, <1>2, <1>3, PgCutShortKeeps, SMT

\* The process of a command ends between two steps.
LEMMA CrashKeeps ==
  ASSUME RecoveryInv, NEW c \in Command, CommandCrash(c)
  PROVE  RecoveryInv'
<1>1. PICK cmd : cmd = commands[c]
  OBVIOUS
<1>2. /\ cmd # Idle /\ GoesOn(c, Idle)
      /\ backend' = backend /\ live' = live /\ archives' = archives /\ server' = server
      /\ born' = born /\ keysMade' = keysMade
  BY <1>1, Zenon DEF CommandCrash
<1>3. torn' = \/ torn
              \/ cmd.op \in {"restore", "rollback"} /\ MovedBy(cmd) # {}
              \/ cmd.op = "pgrestore" /\ cmd.step = "publish"
  BY <1>1, Zenon DEF CommandCrash
<1>4. torn \in BOOLEAN /\ cmd \in Commands
  BY <1>1, Zenon DEF RecoveryInv, RecoveryTypes
<1>5. torn' \in BOOLEAN /\ (torn => torn')
  BY <1>3, <1>4, Zenon
<1>6. CASE cmd.op \in {"restore", "rollback"}
  <2>1. aside' = aside \cup MovedBy(cmd)
    BY <1>1, <1>6, Zenon DEF CommandCrash
  <2>2. MovedBy(cmd) # {} => torn'
    BY <1>3, <1>6, Zenon
  <2>3. cmd.op = "restore" /\ cmd.moved.db # Missing => torn'
    <3>1. SUFFICES ASSUME cmd.op = "restore", cmd.moved.db # Missing PROVE torn'
      BY Zenon
    <3>2. cmd \in Replacements
      BY <1>4, <3>1, CommandShapes, Zenon
    <3>3. cmd.moved["db"] = cmd.moved.db
      BY <3>2, PlacesAre, SMT DEF Replacements
    <3>4. cmd.moved.db \in MovedBy(cmd)
      BY <3>1, <3>3, Zenon DEF MovedBy, RestorePart
    <3> QED BY <2>2, <3>4, Zenon
  <2> QED BY <1>1, <1>2, <1>5, <1>6, <2>1, <2>2, <2>3, CutShortKeeps, SMT
<1>7. CASE cmd.op = "pgrestore"
  <2>1. aside' = aside \cup {cmd.archive.key}
    BY <1>1, <1>7, SMT DEF CommandCrash
  <2>2. cmd.op \notin {"restore", "rollback"}
    BY <1>7, SMT
  <2>3. (cmd.step = "load" => torn' = torn) /\ (cmd.step = "publish" => torn') /\ aside \subseteq aside'
    BY <1>3, <1>4, <1>7, <2>1, <2>2, Zenon
  <2> QED BY <1>1, <1>2, <1>5, <1>7, <2>3, PgCutShortKeeps, SMT
<1>8. CASE cmd.op \in {"backup", "rotate"}
  <2>1. aside' = aside
    BY <1>1, <1>8, SMT DEF CommandCrash
  <2>2. cmd.op \notin {"restore", "rollback"} /\ cmd.op # "pgrestore"
    BY <1>8, SMT
  <2>3. torn' = torn
    BY <1>3, <1>4, <2>2, Zenon
  <2>4. ArchivesInv' /\ archives' \in SUBSET Archived
    BY <1>2, Zenon DEF RecoveryInv, RecoveryTypes, ArchivesInv
  <2> QED BY <1>1, <1>2, <1>8, <2>1, <2>3, <2>4, CommandEnding, Zenon
<1> QED
  <2>1. cmd.op \in {"backup", "rotate", "restore", "rollback", "pgrestore"}
    BY <1>2, <1>4, SMT DEF Commands, Snapshots, Rotations, Replacements, Rollbacks, PgRestores
  <2> QED BY <1>6, <1>7, <1>8, <2>1, Zenon

-----------------------------------------------------------------------------
\* The theorems.

\* An installation of an earlier release: a database with one legacy
\* ciphertext, and the raw key that opens it.
LEMMA InitKeeps ==
  ASSUME RecoveryInit
  PROVE  RecoveryInv
<1>1. PICK old : /\ old = Database(1, [s \in Secret |-> IF s = CHOOSE t \in Secret : TRUE
                                          THEN [key |-> 1, envelope |-> FALSE] ELSE NoValue])
                 /\ live = [db |-> old, wal |-> Missing, key |-> KeyRing({1}, 1, 1)]
                 /\ born = <<Stored(old)>>
  BY Zenon DEF RecoveryInit
<1>2. /\ backend \in {"sqlite", "postgresql"} /\ aside = {} /\ archives = {} /\ server = NotServing
      /\ keysMade = 1 /\ commands = [c \in Command |-> Idle] /\ torn = FALSE
  BY Zenon DEF RecoveryInit
<1>3. old \in DatabaseFiles /\ old.lineage = 1
  <2>1. [key |-> 1, envelope |-> FALSE] \in Ciphertexts /\ NoValue \in Ciphertexts
    BY SMT DEF NoValue, Ciphertexts
  <2> QED BY <1>1, <2>1, SMT DEF Database, DatabaseFiles
<1>4. \A s \in Stored(old) : old.values[s] = [key |-> 1, envelope |-> FALSE]
  <2>1. old.values = [s \in Secret |-> IF s = CHOOSE t \in Secret : TRUE
                                       THEN [key |-> 1, envelope |-> FALSE] ELSE NoValue]
    BY <1>1, SMT DEF Database
  <2> QED BY <2>1, Zenon DEF Stored
<1>5. PICK ring : ring = KeyRing({1}, 1, 1)
  OBVIOUS
<1>6. ring \in KeyFiles /\ 1 \in ring.keys /\ ring.legacy = 1
  BY <1>5, SMT DEF KeyRing, KeyFiles
<1>7. Opens(ring, old)
  <2>1. \A s \in Stored(old) : old.values[s].key = 1 /\ ~old.values[s].envelope
    BY <1>4, SMT
  <2> QED BY <1>6, <2>1, Zenon DEF Opens, Decrypts, ciphertextKey
<1>8. live \in Places /\ live.db = old /\ live.wal = Missing /\ live.key = ring
  BY <1>1, <1>3, <1>5, <1>6, SMT DEF Places
<1>9. born \in Seq(SUBSET Secret) /\ DOMAIN born = {1} /\ born[1] = Stored(old)
  <2>1. Stored(old) \in SUBSET Secret
    BY Zenon DEF Stored
  <2> QED BY <1>1, <2>1, SMT
<1>10. Whole(live, aside, born)
  <2>1. Rows(live) = old
    BY <1>8, Zenon DEF Rows
  <2> QED BY <1>3, <1>6, <1>7, <1>8, <1>9, <2>1, Zenon DEF Whole
<1>11. CalmInv
  BY <1>8, <1>9, <1>10, WholeIsIntact, Zenon DEF CalmInv
<1>12. \A c \in Command : CommandInv(commands[c])
  <2>1. \A c \in Command : commands[c] = Idle
    BY <1>2, Zenon
  <2> QED BY <2>1, IdleCommand, Zenon
<1>13. ServingInv /\ ArchivesInv /\ ApartInv
  <2>1. Idle.op = "idle" /\ "idle" # "rotate"
    BY SMT DEF Idle
  <2>2. \A c \in Command : commands[c] = Idle
    BY <1>2, Zenon
  <2> QED BY <1>2, <2>1, <2>2, Zenon DEF ServingInv, ArchivesInv, ApartInv
<1>14. RecoveryTypes
  <2>1. commands \in [Command -> Commands]
    BY <1>2, Zenon DEF Commands
  <2>2. keysMade \in Nat
    BY <1>2, SMT
  <2>3. torn \in BOOLEAN
    BY <1>2, Zenon
  <2> QED BY <1>2, <1>8, <1>9, <2>1, <2>2, <2>3, Zenon DEF RecoveryTypes
<1> QED BY <1>11, <1>12, <1>13, <1>14, Zenon DEF RecoveryInv

\* What has gone astray stays astray.
LEMMA AstrayStays ==
  ASSUME astray, [RecoveryNext]_recoveryVars
  PROVE  astray'
<1>1. CASE \/ StartServer \/ StopServer \/ ServerCrash \/ NewInstallation
           \/ \E s \in Secret : StoreSecret(s)
  BY <1>1, Zenon DEF StartServer, StopServer, ServerCrash, NewInstallation, StoreSecret
<1>2. ASSUME NEW c \in Command,
             \/ \E op \in {"backup", "rotate"} : BeginCommand(c, op)
             \/ WriteArchive(c) \/ CommandFails(c) \/ BeginIdentityKeyRotation(c)
             \/ RotateIdentityCiphertexts(c) \/ FinalizeIdentityKeyRotation(c)
      PROVE  astray'
  BY <1>2, Zenon DEF BeginCommand, WriteArchive, CommandFails, BeginIdentityKeyRotation,
     RotateIdentityCiphertexts, FinalizeIdentityKeyRotation
<1>3. ASSUME NEW c \in Command,
             \/ BeginRestore(c) \/ Preserve(c) \/ PreserveMkdirFails(c) \/ BeginCopy(c) \/ EndCopy(c)
             \/ RestoreFails(c) \/ rollbackRestore(c)
      PROVE  astray'
  BY <1>3, Zenon DEF BeginRestore, Preserve, PreserveMkdirFails, BeginCopy, EndCopy,
     RestoreFails, rollbackRestore
<1>4. ASSUME NEW c \in Command,
             \/ StagePostgreSQLFiles(c) \/ RunPgRestore(c) \/ BeginPublish(c) \/ EndPublish(c)
             \/ PgRestoreFails(c) \/ CommandCrash(c)
      PROVE  astray'
  BY <1>4, Zenon DEF StagePostgreSQLFiles, RunPgRestore, BeginPublish, EndPublish,
     PgRestoreFails, CommandCrash
<1>5. CASE UNCHANGED recoveryVars
  BY <1>5, Zenon DEF recoveryVars
<1> QED BY <1>1, <1>2, <1>3, <1>4, <1>5, Zenon DEF RecoveryNext

\* Every step of the server and of its commands keeps the invariant or leads
\* astray.
LEMMA NextKeeps ==
  ASSUME RecoveryInv, [RecoveryNext]_recoveryVars, ~astray'
  PROVE  RecoveryInv'
<1>1. ASSUME NEW s \in Secret, StoreSecret(s) PROVE RecoveryInv'
  BY <1>1, StoreKeeps, Zenon
<1>2. CASE StartServer \/ StopServer \/ ServerCrash \/ NewInstallation
  BY <1>2, StartKeeps, StopKeeps, NewKeeps, Zenon
<1>3. ASSUME NEW c \in Command,
             \/ \E op \in {"backup", "rotate"} : BeginCommand(c, op)
             \/ WriteArchive(c) \/ CommandFails(c) \/ BeginIdentityKeyRotation(c)
             \/ RotateIdentityCiphertexts(c) \/ FinalizeIdentityKeyRotation(c)
      PROVE  RecoveryInv'
  BY <1>3, BeginKeeps, ArchiveKeeps, FailureKeeps, BeginRotationKeeps, CiphertextsKeep,
     FinalizeKeeps, Zenon
<1>4. ASSUME NEW c \in Command,
             \/ BeginRestore(c) \/ Preserve(c) \/ PreserveMkdirFails(c) \/ BeginCopy(c) \/ EndCopy(c)
             \/ RestoreFails(c) \/ rollbackRestore(c)
      PROVE  RecoveryInv'
  BY <1>4, BeginRestoreKeeps, PreserveKeeps, MkdirFailureKeeps, BeginCopyKeeps, EndCopyKeeps,
     RestoreFailureKeeps, RollbackKeeps, Zenon
<1>5. ASSUME NEW c \in Command,
             \/ StagePostgreSQLFiles(c) \/ RunPgRestore(c) \/ BeginPublish(c) \/ EndPublish(c)
             \/ PgRestoreFails(c) \/ CommandCrash(c)
      PROVE  RecoveryInv'
  BY <1>5, StageKeeps, PgRestoreKeeps, BeginPublishKeeps, EndPublishKeeps, PgFailureKeeps,
     CrashKeeps, Zenon
<1>6. CASE UNCHANGED recoveryVars
  BY <1>6, Zenon DEF recoveryVars, RecoveryInv, RecoveryTypes, ServingInv, CalmInv, ArchivesInv,
     ApartInv, CommandInv, MaintenanceInv, ReplacementInv, RollbackInv, PgRestoreInv, Restoring,
     Rotating, CurrentRows
<1> QED BY <1>1, <1>2, <1>3, <1>4, <1>5, <1>6, Zenon DEF RecoveryNext

\* The invariant, with any number of commands at once, as long as nothing has
\* gone astray: when no restore is under way the installation is whole, vacant
\* or torn; a restore holds or has left in place all that it found; and every
\* database that came into being is kept somewhere with its key.
THEOREM RecoveryInvariance == RecoverySpec => []CourseInv
<1>1. RecoveryInit => CourseInv
  BY InitKeeps, Zenon DEF CourseInv
<1>2. CourseInv /\ [RecoveryNext]_recoveryVars => CourseInv'
  BY NextKeeps, AstrayStays, Zenon DEF CourseInv
<1> QED BY <1>1, <1>2, PTL DEF RecoverySpec

\* What the invariant says of the secrets.
LEMMA InvariantReads ==
  ASSUME CourseInv
  PROVE  SecretsReadable
<1>1. SUFFICES ASSUME RecoveryInv
               PROVE  /\ ~torn /\ ~Restoring /\ live.db # Missing /\ live.key # Missing =>
                           Opens(live.key, CurrentRows)
                      /\ server # NotServing => Opens(server, CurrentRows)
                      /\ \A a \in archives : a.aligned => Opens(a.key, a.db)
  BY Zenon DEF SecretsReadable, CourseInv
<1>2. ASSUME ~torn, ~Restoring, live.db # Missing PROVE Opens(live.key, CurrentRows)
  <2>1. Whole(live, aside, born)
    BY <1>1, <1>2, WholeInService, Zenon
  <2>2. CurrentRows = Rows(live)
    BY <1>1, <2>1, RowsInService, Zenon DEF RecoveryInv
  <2> QED BY <2>1, <2>2, Zenon DEF Whole
<1>3. ASSUME server # NotServing PROVE Opens(server, CurrentRows)
  <2>1. ~torn /\ ~Restoring /\ InService(live) /\ server = live.key
    BY <1>1, <1>3, Zenon DEF RecoveryInv, ServingInv
  <2>2. live.db # Missing
    BY <2>1, SMT DEF InService, DatabaseFiles, Missing
  <2> QED BY <1>2, <2>1, <2>2, Zenon
<1>4. \A a \in archives : a.aligned => Opens(a.key, a.db)
  BY <1>1, Zenon DEF RecoveryInv, ArchivesInv
<1> QED BY <1>2, <1>3, <1>4, Zenon

\* Wherever any number of backups, a rotation and a restore stop, an
\* installation that has not gone astray and is not torn has a key file that
\* decrypts every secret of its database, as the running server has and every
\* archive that no rotation was finished across.
THEOREM SecretsStayReadable == RecoverySpec => []SecretsReadable
<1>1. CourseInv => SecretsReadable
  BY InvariantReads, Zenon
<1> QED BY <1>1, RecoveryInvariance, PTL

\* What the invariant says of the files.
LEMMA InvariantKeeps ==
  ASSUME CourseInv, ~astray
  PROVE  NothingLost
<1>0. RecoveryInv
  BY Zenon DEF CourseInv
<1>1. ASSUME NEW l, Covered(l, aside, born),
             \A f \in Three(l) : f.kind \in {"db", "key"} => f \in OnDisk
      PROVE  NothingLost
  <2>1. aside \subseteq OnDisk
    BY Zenon DEF OnDisk
  <2>2. \A f \in aside \cup Three(l) : f.kind \in {"db", "key"} => f \in OnDisk
    BY <1>1, <2>1, Zenon
  <2>3. \A n \in DOMAIN born : Kept(n, born[n], OnDisk)
    BY <1>1, <2>2, KeptMoves, Zenon DEF Covered
  <2> QED BY <2>3, Zenon DEF NothingLost, Kept, Databases, Keys
<1>2. Three(live) \subseteq OnDisk
  BY Zenon DEF OnDisk, Three
<1>3. CASE ~Restoring
  BY <1>1, <1>2, <1>3, <1>0, Zenon DEF RecoveryInv, CalmInv, Intact
<1>4. CASE Restoring
  <2>1. PICK c \in Command : commands[c].op \in {"restore", "rollback", "pgrestore"}
    BY <1>4, Zenon DEF Restoring
  <2>2. PICK cmd : cmd = commands[c]
    OBVIOUS
  <2>3. CommandInv(cmd) /\ cmd \in Commands
    BY <1>0, <2>1, <2>2, WhileRestoring, SMT
  <2>4. CASE cmd.op = "pgrestore"
    <3>1. Covered(Nowhere, aside, born)
      BY <2>3, <2>4, Zenon DEF CommandInv, PgRestoreInv, Intact
    <3>2. \A f \in Three(Nowhere) : f.kind \notin {"db", "key"}
      BY SMT DEF Three, Nowhere, Missing
    <3> QED BY <1>1, <3>1, <3>2, Zenon
  <2>5. CASE cmd.op \in {"restore", "rollback"}
    <3>1. Covered(Before(cmd, live), aside, born)
      BY <2>3, <2>5, Zenon DEF CommandInv, ReplacementInv, RollbackInv, Intact
    <3>2. cmd.moved \in Places
      <4>1. cmd \in Replacements \cup Rollbacks
        BY <2>3, <2>5, CommandShapes, SMT
      <4> QED BY <4>1, SMT DEF Replacements, Rollbacks
    <3>3. \A f \in Three(Before(cmd, live)) :
            f.kind \in {"db", "key"} => f \in MovedBy(cmd) \cup Three(live)
      BY <2>5, <3>2, TakenOrInPlace, SMT
    <3>4. MovedBy(cmd) \subseteq OnDisk
      <4>1. InUse(c) = MovedBy(cmd)
        BY <2>2, <2>5, Zenon DEF InUse
      <4> QED BY <4>1, Zenon DEF OnDisk
    <3> QED BY <1>1, <1>2, <3>1, <3>3, <3>4, Zenon
  <2> QED BY <2>1, <2>2, <2>4, <2>5, Zenon
<1> QED BY <1>3, <1>4, Zenon

\* Wherever a restore stops, every database that ever served here is on disk
\* with all that was stored in it, and with a key file that opens it, unless
\* something has gone astray.
THEOREM NothingIsLost == RecoverySpec => []NothingLost
<1>1. CourseInv => NothingLost
  BY InvariantKeeps, Zenon DEF NothingLost
<1> QED BY <1>1, RecoveryInvariance, PTL
=============================================================================
