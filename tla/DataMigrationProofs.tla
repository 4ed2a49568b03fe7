------------------------ MODULE DataMigrationProofs -------------------------
(***************************************************************************)
(* The SQLite file is migrated in turn whoever opens it (SourceInv), and   *)
(* the copy into PostgreSQL is whole and overwrites nothing whoever opens  *)
(* and copies the databases (DestinationInv), for any processes and any    *)
(* versions the databases start with.                                      *)
(***************************************************************************)
EXTENDS DataMigration, TLAPS

\* The tables and the columns of statements that start from nothing.
LEMMA MigratedFromNothing ==
  ASSUME NEW S
  PROVE  /\ DOMAIN Migrated(NoTables, S) = TablesCreated(S)
         /\ \A t \in TablesCreated(S) :
              Migrated(NoTables, S)[t] = [columns |-> ColumnsOn(S, t),
                                          parents |-> ParentsOn(S, t)]
<1>1. DOMAIN NoTables = {}
  BY Zenon DEF NoTables
<1>2. ASSUME NEW X PROVE {} \cup X = X
  OBVIOUS
<1>3. DOMAIN NoTables \cup TablesCreated(S) = TablesCreated(S)
  BY <1>1, Zenon
<1> DEFINE none == [columns |-> {}, parents |-> {}]
<1>4. none.columns = {} /\ none.parents = {}
  OBVIOUS
<1>5. Migrated(NoTables, S) =
        [t \in TablesCreated(S) |->
          [columns |-> (IF t \in TablesCreated(S) THEN none ELSE NoTables[t]).columns
                         \cup ColumnsOn(S, t),
           parents |-> (IF t \in TablesCreated(S) THEN none ELSE NoTables[t]).parents
                         \cup ParentsOn(S, t)]]
  BY <1>3, Zenon DEF Migrated
<1> HIDE DEF none
<1>6. ASSUME NEW t \in TablesCreated(S)
      PROVE  Migrated(NoTables, S)[t] = [columns |-> ColumnsOn(S, t),
                                         parents |-> ParentsOn(S, t)]
  <2>1. Migrated(NoTables, S)[t] =
          [columns |-> none.columns \cup ColumnsOn(S, t),
           parents |-> none.parents \cup ParentsOn(S, t)]
    BY <1>5, <1>6, Zenon
  <2> QED BY <1>2, <1>4, <2>1, Zenon
<1> QED BY <1>5, <1>6, Zenon

\* What two sets of statements name.
LEMMA NamedInTurn ==
  ASSUME NEW S, NEW T, NEW t, NEW U, \A s : s \in U <=> s \in S \/ s \in T
  PROVE  \A x : /\ x \in ColumnsOn(U, t) <=> x \in ColumnsOn(S, t) \/ x \in ColumnsOn(T, t)
                /\ x \in ParentsOn(U, t) <=> x \in ParentsOn(S, t) \/ x \in ParentsOn(T, t)
<1>1. \A s : s \in On(U, t) <=> s \in On(S, t) \/ s \in On(T, t)
  BY Zenon DEF On
<1>2. \A X, x : x \in ColumnsOn(X, t) <=> \E s \in On(X, t) : x \in s.columns
  BY Zenon DEF ColumnsOn
<1>3. \A X, x : x \in ParentsOn(X, t) <=> \E s \in On(X, t) : x \in s.parents
  BY Zenon DEF ParentsOn
<1>4. ASSUME NEW x PROVE x \in ColumnsOn(U, t) <=> x \in ColumnsOn(S, t) \/ x \in ColumnsOn(T, t)
  BY <1>1, <1>2, Zenon
<1>5. ASSUME NEW x PROVE x \in ParentsOn(U, t) <=> x \in ParentsOn(S, t) \/ x \in ParentsOn(T, t)
  BY <1>1, <1>3, Zenon
<1> QED BY <1>4, <1>5, Zenon

\* Two sets of statements in turn are their union, if the first adds columns
\* only to tables it creates and the second creates none of those again.
LEMMA MigratedInTurn ==
  ASSUME NEW S, NEW T,
         \A s \in S : s.op = "add" => s.table \in TablesCreated(S),
         \A s \in T : s.op = "create" => s.table \notin TablesCreated(S)
  PROVE  Migrated(Migrated(NoTables, S), T) = Migrated(NoTables, S \cup T)
<1>1. PICK M, U : M = Migrated(NoTables, S) /\ U = S \cup T
  OBVIOUS
<1>2. /\ DOMAIN M = TablesCreated(S)
      /\ \A t \in TablesCreated(S) : /\ M[t].columns = ColumnsOn(S, t)
                                     /\ M[t].parents = ParentsOn(S, t)
  <2>1. DOMAIN M = TablesCreated(S)
    BY <1>1, MigratedFromNothing, Zenon
  <2>2. ASSUME NEW t \in TablesCreated(S)
        PROVE  /\ M[t].columns = ColumnsOn(S, t)
               /\ M[t].parents = ParentsOn(S, t)
    <3>1. PICK x, y : x = ColumnsOn(S, t) /\ y = ParentsOn(S, t)
      OBVIOUS
    <3>2. M[t] = [columns |-> x, parents |-> y]
      BY <1>1, <3>1, MigratedFromNothing, Zenon
    <3>3. M[t].columns = x /\ M[t].parents = y
      BY <3>2, SMT
    <3> QED BY <3>1, <3>3, Zenon
  <2> QED BY <2>1, <2>2, Zenon
<1>3. TablesCreated(U) = TablesCreated(S) \cup TablesCreated(T)
  BY <1>1, Zenon DEF TablesCreated
<1>4. \A t : t \in TablesCreated(T) => t \notin TablesCreated(S)
  BY Zenon DEF TablesCreated
<1>5. \A t : t \notin TablesCreated(S) => On(S, t) = {}
  <2>1. ASSUME NEW t, NEW s \in On(S, t) PROVE t \in TablesCreated(S)
    <3>1. s \in S /\ s.table = t /\ (s.op = "create" \/ s.op = "add")
      BY Zenon DEF On
    <3>2. s.op = "create" => t \in TablesCreated(S)
      BY <3>1, Zenon DEF TablesCreated
    <3> QED BY <3>1, <3>2, Zenon
  <2> QED BY <2>1, Zenon
<1> DEFINE none == [columns |-> {}, parents |-> {}]
           old(t) == IF t \in TablesCreated(T) THEN none ELSE M[t]
<1>7. none.columns = {} /\ none.parents = {}
  OBVIOUS
<1>8. Migrated(M, T) =
        [t \in DOMAIN M \cup TablesCreated(T) |->
          [columns |-> old(t).columns \cup ColumnsOn(T, t),
           parents |-> old(t).parents \cup ParentsOn(T, t)]]
  BY Zenon DEF Migrated
<1>9. ASSUME NEW t \in TablesCreated(S) \cup TablesCreated(T)
      PROVE  /\ old(t).columns = ColumnsOn(S, t)
             /\ old(t).parents = ParentsOn(S, t)
  <2>1. CASE t \in TablesCreated(T)
    <3>1. On(S, t) = {} /\ old(t) = none
      BY <1>4, <1>5, <2>1, Zenon
    <3>2. ColumnsOn(S, t) = {} /\ ParentsOn(S, t) = {}
      BY <3>1, SMT DEF ColumnsOn, ParentsOn
    <3> HIDE DEF none
    <3> QED BY <1>7, <3>1, <3>2, Zenon
  <2>2. CASE t \notin TablesCreated(T)
    BY <1>2, <2>2, Zenon
  <2> QED BY <2>1, <2>2, Zenon
<1> HIDE DEF none, old
<1>10. Migrated(M, T) =
         [t \in TablesCreated(U) |->
           [columns |-> ColumnsOn(U, t),
            parents |-> ParentsOn(U, t)]]
  <2>1. DOMAIN M \cup TablesCreated(T) = TablesCreated(U)
    BY <1>2, <1>3, Zenon
  <2>2. ASSUME NEW t \in TablesCreated(U)
        PROVE  /\ old(t).columns \cup ColumnsOn(T, t)
                    = ColumnsOn(U, t)
               /\ old(t).parents \cup ParentsOn(T, t)
                    = ParentsOn(U, t)
    <3>1. t \in TablesCreated(S) \cup TablesCreated(T)
      BY <1>3, Zenon
    <3>2. /\ old(t).columns = ColumnsOn(S, t)
          /\ old(t).parents = ParentsOn(S, t)
      BY <1>9, <3>1, Zenon
    <3>3. \A x : /\ x \in ColumnsOn(U, t) <=> x \in ColumnsOn(S, t) \/ x \in ColumnsOn(T, t)
                 /\ x \in ParentsOn(U, t) <=> x \in ParentsOn(S, t) \/ x \in ParentsOn(T, t)
      <4>1. \A s : s \in U <=> s \in S \/ s \in T
        BY <1>1, Zenon
      <4> QED BY <4>1, NamedInTurn, Zenon
    <3> QED BY <3>2, <3>3, Zenon
  <2> QED BY <1>8, <2>1, <2>2, Zenon
<1>11. Migrated(NoTables, U) =
         [t \in TablesCreated(U) |->
           [columns |-> ColumnsOn(U, t),
            parents |-> ParentsOn(U, t)]]
  <2>1. PICK f : f = Migrated(NoTables, U)
    OBVIOUS
  <2>2. DOMAIN f = TablesCreated(U)
    BY <2>1, MigratedFromNothing, Zenon
  <2>3. f = [t \in DOMAIN f |-> f[t]]
    BY <2>1, Zenon DEF Migrated
  <2>4. \A t \in TablesCreated(U) :
          f[t] = [columns |-> ColumnsOn(U, t),
                  parents |-> ParentsOn(U, t)]
    BY <2>1, MigratedFromNothing, Zenon
  <2> QED BY <2>1, <2>2, <2>3, <2>4, Zenon
<1> QED BY <1>1, <1>10, <1>11, Zenon

\* The migrations as they are written: each fits the tables before it, so the
\* catalog of a version is the one before it, migrated.
LEMMA NextCatalog ==
  ASSUME NEW v \in 1..schemaVersion
  PROVE  Migrated(Catalogs[v - 1], Range(SqliteMigrations[v])) = Catalogs[v]
<1>1. \A w \in 0..schemaVersion :
        Catalogs[w] = Migrated(NoTables, Statements(SqliteMigrations, w))
  BY Zenon DEF Catalogs
<1>2. v - 1 \in 0..schemaVersion /\ v \in 0..schemaVersion /\ 1..v = (1..(v - 1)) \cup {v}
  BY SchemasAssumption, SMT
<1>3. PICK S, T : S = Statements(SqliteMigrations, v - 1) /\ T = Range(SqliteMigrations[v])
  OBVIOUS
<1>4. Statements(SqliteMigrations, v) = S \cup T
  BY <1>2, <1>3, Zenon DEF Statements
<1>5. ASSUME NEW w \in 1..v, NEW s \in Range(SqliteMigrations[w])
      PROVE  /\ s.op = "create" => s.table \notin TablesCreated(Statements(SqliteMigrations, w - 1))
             /\ s.op = "add" => s.table \in TablesCreated(Statements(SqliteMigrations, w))
  <2>1. PICK m : m = SqliteMigrations[w]
    OBVIOUS
  <2>2. /\ w \in 1..schemaVersion /\ w - 1 \in 0..schemaVersion
        /\ 1..(w - 1) \subseteq 1..w /\ w \in 1..w
    BY SchemasAssumption, SMT
  <2>3. /\ Len(m) \in Nat /\ DOMAIN m = 1..Len(m)
        /\ MigrationFits(Catalogs[w - 1], m)
    BY <2>1, <2>2, SchemasAssumption, Zenon
  <2>4. PICK i \in DOMAIN m : s = m[i]
    BY <2>1, Zenon DEF Range
  <2>5. DOMAIN Catalogs[w - 1] = TablesCreated(Statements(SqliteMigrations, w - 1))
    BY <1>1, <2>2, MigratedFromNothing, Zenon
  <2>6. PICK P : P = {m[j] : j \in 1..(i - 1)}
    OBVIOUS
  <2>7. P \subseteq Range(m)
    <3>1. \A j \in 1..(i - 1) : j \in DOMAIN m
      BY <2>3, <2>4, SMT
    <3> QED BY <2>6, <3>1, Zenon DEF Range
  <2>8. PICK before : before = DOMAIN Catalogs[w - 1] \cup TablesCreated(P)
    OBVIOUS
  <2>9. /\ s.op = "create" => s.table \notin before
        /\ s.op = "add" => s.table \in before
    BY <2>3, <2>4, <2>6, <2>8, SMT DEF MigrationFits
  <2>10. /\ Statements(SqliteMigrations, w - 1) \subseteq Statements(SqliteMigrations, w)
         /\ P \subseteq Statements(SqliteMigrations, w)
    BY <2>1, <2>2, <2>7, Zenon DEF Statements
  <2>11. /\ TablesCreated(Statements(SqliteMigrations, w - 1)) \subseteq before
         /\ before \subseteq TablesCreated(Statements(SqliteMigrations, w))
    BY <2>5, <2>8, <2>10, Zenon DEF TablesCreated
  <2> QED BY <2>9, <2>11, Zenon
<1>6. \A s \in S : s.op = "add" => s.table \in TablesCreated(S)
  <2>1. SUFFICES ASSUME NEW s \in S, s.op = "add" PROVE s.table \in TablesCreated(S)
    BY Zenon
  <2>2. PICK w \in 1..(v - 1) : s \in Range(SqliteMigrations[w])
    BY <1>3, Zenon DEF Statements
  <2>3. w \in 1..v /\ 1..w \subseteq 1..(v - 1)
    BY SMT
  <2>4. Statements(SqliteMigrations, w) \subseteq S
    BY <1>3, <2>3, Zenon DEF Statements
  <2>5. s.table \in TablesCreated(Statements(SqliteMigrations, w))
    BY <1>5, <2>1, <2>2, <2>3, Zenon
  <2> QED BY <2>4, <2>5, Zenon DEF TablesCreated
<1>7. \A s \in T : s.op = "create" => s.table \notin TablesCreated(S)
  <2>1. v \in 1..v
    BY <1>2, SMT
  <2> QED BY <1>3, <1>5, <2>1, Zenon
<1>8. Migrated(Migrated(NoTables, S), T) = Migrated(NoTables, S \cup T)
  BY <1>6, <1>7, MigratedInTurn, Zenon
<1> QED BY <1>1, <1>2, <1>3, <1>4, <1>8, Zenon

-----------------------------------------------------------------------------
\* The SQLite file.

\* It records the versions up to one, its tables are those of that version,
\* and nobody who migrates it is ahead of the record by more than one.
OpenStates == {"off", "migrating", "running", "failed"}
SourceInv ==
  /\ opening \in [Server -> [pc : OpenStates, next : Nat]]
  /\ \E r \in Nat :
       /\ source.applied = 1..r
       /\ r <= schemaVersion => source.tables = Catalogs[r]
       /\ \A s \in Server : opening[s].pc = "migrating" => opening[s].next \in 1..(r + 1)

\* The recorded version is the last one.
LEMMA RecordedIs ==
  ASSUME NEW r \in Nat, source.applied = 1..r
  PROVE  Recorded = r
<1>1. CASE r = 0
  <2>1. 1..r = {}
    BY <1>1, SMT
  <2> QED BY <1>1, <2>1, Zenon DEF Recorded
<1>2. CASE r # 0
  <2>1. r \in 1..r /\ 1..r \subseteq 1..r
    BY <1>2, SMT
  <2>2. source.applied # {} /\ \E v \in source.applied : source.applied \subseteq 1..v
    BY <2>1, Zenon
  <2>3. Recorded = CHOOSE v \in source.applied : source.applied \subseteq 1..v
    BY <2>2, Zenon DEF Recorded
  <2>4. Recorded \in source.applied /\ source.applied \subseteq 1..Recorded
    BY <2>2, <2>3, Zenon
  <2>5. PICK v : v = Recorded
    OBVIOUS
  <2>6. v \in 1..r /\ r \in 1..v
    BY <2>1, <2>4, <2>5, Zenon
  <2>7. v = r
    BY <2>6, SMT
  <2> QED BY <2>5, <2>7, Zenon
<1> QED BY <1>1, <1>2, Zenon

\* A file of some version is opened by nobody yet.
LEMMA SourceInit ==
  ASSUME MigrationInit
  PROVE  SourceInv
<1>1. PICK setup \in Setup :
        source = [applied |-> 1..setup[1],
                  tables |-> Catalogs[IF setup[1] > schemaVersion THEN schemaVersion ELSE setup[1]]]
  BY Zenon DEF MigrationInit
<1>2. PICK r : r = setup[1]
  OBVIOUS
<1>3. r \in Nat
  BY <1>2, MigrationAssumption, SMT
<1>4. source.applied = 1..r /\ source.tables = Catalogs[IF r > schemaVersion THEN schemaVersion ELSE r]
  BY <1>1, <1>2, SMT
<1>5. r <= schemaVersion => ~(r > schemaVersion)
  BY <1>3, SchemasAssumption, SMT
<1>6. opening = [s \in Server |-> [pc |-> "off", next |-> 0]]
  BY Zenon DEF MigrationInit
<1>7. opening \in [Server -> [pc : OpenStates, next : Nat]] /\ \A s \in Server : opening[s].pc # "migrating"
  BY <1>6, SMT DEF OpenStates
<1> QED BY <1>3, <1>4, <1>5, <1>7, Zenon DEF SourceInv

\* Every step: a migration is applied by one process, others only read.
LEMMA SourceNext ==
  ASSUME SourceInv, [MigrationNext]_migrationVars
  PROVE  SourceInv'
<1>1. PICK r \in Nat :
        /\ source.applied = 1..r
        /\ r <= schemaVersion => source.tables = Catalogs[r]
        /\ \A s \in Server : opening[s].pc = "migrating" => opening[s].next \in 1..(r + 1)
  BY Zenon DEF SourceInv
<1>2. opening \in [Server -> [pc : OpenStates, next : Nat]]
  BY Zenon DEF SourceInv
<1>3. CASE source' = source /\ opening' = opening
  BY <1>3, Zenon DEF SourceInv
<1>4. ASSUME NEW s \in Server, NEW x \in [pc : OpenStates, next : Nat],
             opening' = [opening EXCEPT ![s] = x], source' = source,
             x.pc = "migrating" => x.next \in 1..(r + 1)
      PROVE  SourceInv'
  <2>1. opening' \in [Server -> [pc : OpenStates, next : Nat]]
    BY <1>2, <1>4, Zenon
  <2>2. \A u \in Server : opening'[u] = IF u = s THEN x ELSE opening[u]
    BY <1>2, <1>4, Zenon
  <2>3. \A u \in Server : opening'[u].pc = "migrating" => opening'[u].next \in 1..(r + 1)
    BY <1>1, <1>4, <2>2, Zenon
  <2> QED BY <1>1, <1>4, <2>1, <2>3, Zenon DEF SourceInv
<1>5. ASSUME NEW s \in Server, ReadVersion(s) PROVE SourceInv'
  <2>1. Recorded = r
    BY <1>1, RecordedIs, Zenon
  <2>2. PICK x : x = IF r > schemaVersion THEN [pc |-> "failed", next |-> 0]
                     ELSE [pc |-> "migrating", next |-> r + 1]
    OBVIOUS
  <2>3. opening' = [opening EXCEPT ![s] = x] /\ source' = source
    BY <1>5, <2>1, <2>2, Zenon DEF ReadVersion
  <2>4. x \in [pc : OpenStates, next : Nat] /\ (x.pc = "migrating" => x.next = r + 1)
    BY <1>1, <2>2, SMT DEF OpenStates
  <2>5. r + 1 \in 1..(r + 1)
    BY <1>1, SMT
  <2> QED BY <1>4, <2>3, <2>4, <2>5, Zenon
<1>6. ASSUME NEW s \in Server, ServerStops(s) PROVE SourceInv'
  <2>1. PICK x : x = [pc |-> "off", next |-> 0]
    OBVIOUS
  <2>2. opening' = [opening EXCEPT ![s] = x] /\ source' = source
    BY <1>6, <2>1, Zenon DEF ServerStops
  <2>3. x \in [pc : OpenStates, next : Nat] /\ x.pc # "migrating"
    BY <2>1, SMT DEF OpenStates
  <2> QED BY <1>4, <2>2, <2>3, Zenon
<1>7. ASSUME NEW s \in Server, NEW pc \in OpenStates, pc # "migrating", source' = source,
             opening' = [opening EXCEPT ![s].pc = pc]
      PROVE  SourceInv'
  <2>1. PICK x : x = [opening[s] EXCEPT !.pc = pc]
    OBVIOUS
  <2>2. opening' = [opening EXCEPT ![s] = x]
    BY <1>7, <2>1, Zenon
  <2>3. x \in [pc : OpenStates, next : Nat] /\ x.pc = pc
    BY <1>2, <1>7, <2>1, SMT
  <2> QED BY <1>4, <1>7, <2>2, <2>3, Zenon
<1>8. ASSUME NEW s \in Server, Opened(s) PROVE SourceInv'
  <2>1. source' = source /\ opening' = [opening EXCEPT ![s].pc = "running"]
    BY <1>8, Zenon DEF Opened
  <2>2. "running" # "migrating" /\ "running" \in OpenStates
    BY SMT DEF OpenStates
  <2> QED BY <1>7, <2>1, <2>2, Zenon
<1>9. ASSUME NEW s \in Server, ApplyMigration(s) PROVE SourceInv'
  <2>1. PICK v : v = opening[s].next
    OBVIOUS
  <2>2. /\ opening[s].pc = "migrating" /\ v <= schemaVersion
        /\ IF v \in source.applied \/ ~MigrationFits(source.tables, SqliteMigrations[v])
           THEN opening' = [opening EXCEPT ![s].pc = "failed"] /\ source' = source
           ELSE /\ source' = [applied |-> source.applied \cup {v},
                              tables |-> Migrated(source.tables, Range(SqliteMigrations[v]))]
                /\ opening' = [opening EXCEPT ![s].next = v + 1]
    BY <1>9, <2>1, Zenon DEF ApplyMigration
  <2>3. v \in 1..(r + 1)
    BY <1>1, <2>1, <2>2, Zenon
  <2>4. CASE opening' = [opening EXCEPT ![s].pc = "failed"] /\ source' = source
    <3>1. "failed" # "migrating" /\ "failed" \in OpenStates
      BY SMT DEF OpenStates
    <3> QED BY <1>7, <2>4, <3>1, Zenon
  <2>5. CASE /\ v \notin source.applied
             /\ source' = [applied |-> source.applied \cup {v},
                           tables |-> Migrated(source.tables, Range(SqliteMigrations[v]))]
             /\ opening' = [opening EXCEPT ![s].next = v + 1]
    <3>1. v = r + 1 /\ r \in Nat /\ v \in Nat /\ v - 1 = r /\ v \in 1..schemaVersion
      BY <1>1, <2>2, <2>3, <2>5, SchemasAssumption, SMT
    <3>2. source.tables = Catalogs[v - 1]
      BY <1>1, <2>2, <3>1, SchemasAssumption, SMT
    <3>3. source'.tables = Catalogs[v]
      <4>1. source'.tables = Migrated(source.tables, Range(SqliteMigrations[v]))
        BY <2>5, SMT
      <4> QED BY <3>1, <3>2, <4>1, NextCatalog, Zenon
    <3>4. source'.applied = 1..v
      <4>1. source'.applied = source.applied \cup {v}
        BY <2>5, SMT
      <4> QED BY <1>1, <3>1, <4>1, SMT
    <3>5. opening' \in [Server -> [pc : OpenStates, next : Nat]]
      <4>1. PICK x : x = [opening[s] EXCEPT !.next = v + 1]
        OBVIOUS
      <4>2. x \in [pc : OpenStates, next : Nat]
        BY <1>2, <3>1, <4>1, SMT
      <4>3. opening' = [opening EXCEPT ![s] = x]
        BY <2>5, <4>1, Zenon
      <4> QED BY <1>2, <4>2, <4>3, Zenon
    <3>6. ASSUME NEW u \in Server, opening'[u].pc = "migrating" PROVE opening'[u].next \in 1..(v + 1)
      <4>1. CASE u = s
        <5>1. opening'[u].next = v + 1
          BY <1>2, <2>5, <4>1, SMT
        <5> QED BY <3>1, <5>1, SMT
      <4>2. CASE u # s
        <5>1. opening'[u] = opening[u]
          BY <1>2, <2>5, <4>2, Zenon
        <5>2. opening[u].next \in 1..(r + 1)
          BY <1>1, <3>6, <5>1, Zenon
        <5> QED BY <3>1, <5>1, <5>2, SMT
      <4> QED BY <4>1, <4>2, Zenon
    <3> QED BY <3>1, <3>3, <3>4, <3>5, <3>6, Zenon DEF SourceInv
  <2> QED BY <2>2, <2>4, <2>5, Zenon
<1>10. ASSUME NEW s \in Server, EditSource(s) PROVE SourceInv'
  BY <1>3, <1>10, Zenon DEF EditSource
<1>11. ASSUME NEW p \in PgServer, PgInitialize(p) \/ PgCommit(p) \/ PgFails(p) \/ PgWrites(p)
       PROVE  source' = source /\ opening' = opening /\ edits' = edits /\ copier' = copier
  BY <1>11, Zenon DEF PgInitialize, PgCommit, PgFails, PgWrites, sqliteSide
<1>12. ASSUME NEW c \in Copier,
              \/ PreflightSource(c) \/ PreflightDestination(c) \/ OpenSnapshot(c) \/ LockTarget(c)
              \/ PrepareTarget(c) \/ CopyTables(c) \/ CommitCopy(c) \/ CopyFails(c) \/ CopyAgain(c)
       PROVE  source' = source /\ opening' = opening
  BY <1>12, Zenon DEF PreflightSource, PreflightDestination, OpenSnapshot, LockTarget,
     PrepareTarget, CopyTables, CommitCopy, CopyFails, CopyAgain, sqliteSide
<1>13. CASE UNCHANGED migrationVars
  BY <1>3, <1>13, Zenon DEF migrationVars
<1> QED BY <1>3, <1>5, <1>6, <1>8, <1>9, <1>10, <1>11, <1>12, <1>13, Zenon DEF MigrationNext

\* The tables of a SQLite file are those of the versions it records, however
\* many processes migrate it and wherever one of them stops.
THEOREM SchemaFollowsRecord == MigrationSpec => []SchemaMatchesRecord
<1>1. MigrationInit => SourceInv
  BY SourceInit, Zenon
<1>2. SourceInv /\ [MigrationNext]_migrationVars => SourceInv'
  BY SourceNext, Zenon
<1>3. SourceInv => SchemaMatchesRecord
  <2>1. SUFFICES ASSUME SourceInv PROVE SchemaMatchesRecord
    BY Zenon
  <2>2. PICK r \in Nat : source.applied = 1..r /\ (r <= schemaVersion => source.tables = Catalogs[r])
    BY <2>1, Zenon DEF SourceInv
  <2>3. Recorded = r
    BY <2>2, RecordedIs, Zenon
  <2> QED BY <2>2, <2>3, Zenon DEF SchemaMatchesRecord
<1> QED BY <1>1, <1>2, <1>3, PTL DEF MigrationSpec

-----------------------------------------------------------------------------
\* The PostgreSQL database.

\* The schema of a version, with rows that nobody copied, or the last schema
\* with every table as it was at one moment of the source; servers write to
\* one of the tables.
SoundDatabase(db, e) ==
  /\ DOMAIN db = {"version", "contents"} /\ db.version \in Nat
  /\ DOMAIN db.contents = DOMAIN PgCatalogs[Known(db.version)]
  /\ \A t \in DOMAIN db.contents : db.contents[t] = Used => t = "users"
  /\ \/ \A t \in DOMAIN db.contents : db.contents[t] \in {None, Default, Used}
     \/ /\ db.version = postgresFoundationSchemaVersion
        /\ \E n \in 0..e : \A t \in DOMAIN db.contents : db.contents[t] \in {Copy(n), Used}

\* One database has the rows of another.
Carries(new, old) ==
  \A t \in DOMAIN old.contents : t \in DOMAIN new.contents /\ new.contents[t] = old.contents[t]

\* A process that opens the database, with the lock l, the committed database
\* db, the transaction w of the holder of the lock and e writes of the source.
PgStates == {"off", "stopped", "initialized", "failed", "running"}
PgServerInv(pc, p, l, db, w, e) ==
  /\ pc = "initialized" =>
       /\ l = p /\ SoundDatabase(w, e) /\ w.version = postgresFoundationSchemaVersion
       /\ Carries(w, db)
  /\ pc = "running" => db.version = postgresFoundationSchemaVersion

\* A migration utility, likewise.
CopierStates == {"unused", "off", "refused", "destination", "snapshot", "lock", "occupied",
                 "initialize", "copy", "verified", "failed"}
Copiers ==
  [pc : CopierStates, version : Nat, snapshot : Nat, done : SUBSET DOMAIN PgTables]
CopierInv(x, c, l, db, w, e) ==
  /\ x.snapshot \in 0..e
  /\ x.pc \in {"destination", "snapshot", "lock", "initialize", "copy"} => x.version = schemaVersion
  /\ x.pc \in {"destination", "snapshot", "lock", "initialize"} => x.done = {}
  /\ x.pc \in {"initialize", "copy"} => l = c /\ db = Empty
  /\ x.pc = "copy" =>
       /\ DOMAIN w = {"version", "contents"} /\ w.version = postgresFoundationSchemaVersion
       /\ DOMAIN w.contents = DOMAIN PgTables
       /\ \A t \in x.done : w.contents[t] = Copy(x.snapshot)

DestinationInv ==
  /\ edits \in Nat /\ SoundDatabase(target, edits)
  /\ pgserver \in [PgServer -> PgStates] /\ copier \in [Copier -> Copiers]
  /\ \A p \in PgServer : PgServerInv(pgserver[p], p, lock, target, work, edits)
  /\ \A c \in Copier : CopierInv(copier[c], c, lock, target, work, edits)

\* The kinds of rows are different.
LEMMA RowsDiffer ==
  ASSUME NEW n
  PROVE  None # Used /\ Default # Used /\ Copy(n) # Used
BY SMT DEF None, Default, Used, Copy

\* The versions of the schema.
LEMMA Versions ==
  /\ postgresFoundationSchemaVersion \in 0..postgresFoundationSchemaVersion
  /\ 0 \in 0..postgresFoundationSchemaVersion /\ postgresFoundationSchemaVersion # 0
  /\ PgTables = PgCatalogs[postgresFoundationSchemaVersion]
  /\ postgresFoundationSchemaVersion \in Nat /\ 0 \in Nat
  /\ \A v \in 0..postgresFoundationSchemaVersion : v \in Nat /\ Known(v) = v
  /\ \A v \in Nat : /\ Known(v) \in 0..postgresFoundationSchemaVersion
                    /\ v <= postgresFoundationSchemaVersion => v \in 0..postgresFoundationSchemaVersion
BY SchemasAssumption, SMT DEF PgTables, Known

\* A schema without rows of its own is sound.
LEMMA SchemaIsSound ==
  ASSUME NEW v \in Nat, NEW e \in Nat
  PROVE  /\ SoundDatabase(PgSchema(v), e) /\ PgSchema(v).version = v
         /\ DOMAIN PgSchema(v).contents = DOMAIN PgCatalogs[Known(v)]
         /\ \A t \in DOMAIN PgCatalogs[Known(v)] : PgSchema(v).contents[t] \in {None, Default}
<1>1. PICK db : db = PgSchema(v)
  OBVIOUS
<1> DEFINE rows == [t \in DOMAIN PgCatalogs[Known(v)] |->
                      IF t \in PgSeeds(Known(v)) THEN Default ELSE None]
<1>2. /\ DOMAIN rows = DOMAIN PgCatalogs[Known(v)]
      /\ \A t \in DOMAIN PgCatalogs[Known(v)] : rows[t] \in {None, Default}
  BY Zenon
<1>3. db = [version |-> v, contents |-> rows]
  BY <1>1, Zenon DEF PgSchema
<1> HIDE DEF rows
<1>4. DOMAIN db = {"version", "contents"} /\ db.version = v /\ db.contents = rows
  BY <1>3, SMT
<1>5. \A t \in DOMAIN db.contents : db.contents[t] # Used /\ db.contents[t] \in {None, Default, Used}
  BY <1>2, <1>4, RowsDiffer, Zenon
<1>6. SoundDatabase(db, e)
  BY <1>2, <1>4, <1>5, Zenon DEF SoundDatabase
<1> QED BY <1>1, <1>2, <1>4, <1>6, Zenon

\* The tables of a version are among those of the last.
LEMMA TablesGrow ==
  ASSUME NEW v \in 0..postgresFoundationSchemaVersion
  PROVE  DOMAIN PgCatalogs[v] \subseteq DOMAIN PgTables
<1>1. \A w \in 0..postgresFoundationSchemaVersion :
        DOMAIN PgCatalogs[w] = TablesCreated(Statements(PostgresMigrations, w))
  BY Zenon DEF PgCatalogs
<1>2. 1..v \subseteq 1..postgresFoundationSchemaVersion
  BY SchemasAssumption, SMT
<1>3. Statements(PostgresMigrations, v)
        \subseteq Statements(PostgresMigrations, postgresFoundationSchemaVersion)
  BY <1>2, Zenon DEF Statements
<1>4. DOMAIN PgTables = TablesCreated(Statements(PostgresMigrations, postgresFoundationSchemaVersion))
  BY <1>1, Versions, Zenon
<1>5. \A A, B : A \subseteq B => TablesCreated(A) \subseteq TablesCreated(B)
  BY Zenon DEF TablesCreated
<1> QED BY <1>1, <1>3, <1>4, <1>5, Zenon

\* The first schema has no tables.
LEMMA EmptyIs == Empty.version = 0 /\ DOMAIN Empty.contents = {}
<1>1. DOMAIN PgCatalogs[0] = TablesCreated(Statements(PostgresMigrations, 0))
  BY Versions, Zenon DEF PgCatalogs
<1>2. 1..0 = {}
  BY SMT
<1>3. Statements(PostgresMigrations, 0) = {}
  BY <1>2, SMT DEF Statements
<1>4. TablesCreated({}) = {}
  BY SMT DEF TablesCreated
<1>5. 0 \in Nat
  BY SMT
<1> QED BY <1>1, <1>3, <1>4, <1>5, SchemaIsSound, Versions, Zenon DEF Empty

\* The source is written: what was sound stays sound.
LEMMA SoundLater ==
  ASSUME NEW db, NEW e \in Nat, NEW f \in Nat, e <= f, SoundDatabase(db, e)
  PROVE  SoundDatabase(db, f)
<1>1. 0..e \subseteq 0..f
  BY SMT
<1> QED BY <1>1, Zenon DEF SoundDatabase

\* InitializePostgreSQLTransaction brings a sound database to the last
\* schema and keeps its rows.
LEMMA InitializedIsSound ==
  ASSUME NEW db, NEW e \in Nat, SoundDatabase(db, e), db.version <= postgresFoundationSchemaVersion
  PROVE  /\ SoundDatabase(InitializeTransaction(db), e)
         /\ InitializeTransaction(db).version = postgresFoundationSchemaVersion
         /\ Carries(InitializeTransaction(db), db)
<1>1. PICK F : F = postgresFoundationSchemaVersion
  OBVIOUS
<1>2. PICK new : new = PgSchema(F).contents
  OBVIOUS
<1>3. /\ DOMAIN new = DOMAIN PgTables
      /\ \A t \in DOMAIN PgTables : new[t] \in {None, Default}
  BY <1>1, <1>2, SchemaIsSound, Versions, SMT
<1>4. db.version \in 0..F /\ DOMAIN db.contents = DOMAIN PgCatalogs[db.version]
  BY <1>1, Versions, Zenon DEF SoundDatabase
<1>5. DOMAIN db.contents \cup DOMAIN new = DOMAIN PgTables
  BY <1>1, <1>3, <1>4, TablesGrow, Zenon
<1> DEFINE rows == [t \in DOMAIN db.contents \cup DOMAIN new |->
                      IF t \in DOMAIN db.contents THEN db.contents[t] ELSE new[t]]
<1>6. PICK d : d = InitializeTransaction(db)
  OBVIOUS
<1>7. d = [version |-> F, contents |-> rows]
  BY <1>1, <1>2, <1>6, Zenon DEF InitializeTransaction
<1>8. DOMAIN rows = DOMAIN PgTables /\ \A t \in DOMAIN PgTables :
        rows[t] = IF t \in DOMAIN db.contents THEN db.contents[t] ELSE new[t]
  BY <1>5, Zenon
<1> HIDE DEF rows
<1>9. DOMAIN d = {"version", "contents"} /\ d.version = F /\ d.contents = rows
  BY <1>7, SMT
<1>10. Carries(d, db)
  BY <1>5, <1>8, <1>9, Zenon DEF Carries
<1>11. \A t \in DOMAIN rows : rows[t] = Used => t = "users"
  BY <1>3, <1>8, RowsDiffer, Zenon DEF SoundDatabase
<1>12. \/ \A t \in DOMAIN rows : rows[t] \in {None, Default, Used}
       \/ \E n \in 0..e : \A t \in DOMAIN rows : rows[t] \in {Copy(n), Used}
  <2>1. CASE \A t \in DOMAIN db.contents : db.contents[t] \in {None, Default, Used}
    BY <1>3, <1>8, <2>1, Zenon
  <2>2. CASE /\ db.version = F
             /\ \E n \in 0..e : \A t \in DOMAIN db.contents : db.contents[t] \in {Copy(n), Used}
    <3>1. DOMAIN db.contents = DOMAIN PgTables
      BY <1>1, <1>4, <2>2, Versions, Zenon
    <3> QED BY <1>8, <2>2, <3>1, Zenon
  <2> QED BY <1>1, <2>1, <2>2, Zenon DEF SoundDatabase
<1>13. SoundDatabase(d, e)
  BY <1>1, <1>8, <1>9, <1>11, <1>12, Versions, Zenon DEF SoundDatabase
<1> QED BY <1>1, <1>6, <1>9, <1>10, <1>13, Zenon

\* A store call writes to one table of the last schema.
LEMMA WrittenIsSound ==
  ASSUME NEW db, NEW e, SoundDatabase(db, e), db.version = postgresFoundationSchemaVersion,
         NEW d, d = [db EXCEPT !.contents["users"] = Used]
  PROVE  /\ SoundDatabase(d, e) /\ d.version = postgresFoundationSchemaVersion
         /\ DOMAIN d.contents = DOMAIN db.contents
         /\ \A t \in DOMAIN db.contents : d.contents[t] = IF t = "users" THEN Used ELSE db.contents[t]
<1>1. PICK rows : rows = [db.contents EXCEPT !["users"] = Used]
  OBVIOUS
<1>2. d = [db EXCEPT !.contents = rows]
  BY <1>1, Zenon
<1>3. DOMAIN db = {"version", "contents"}
  BY Zenon DEF SoundDatabase
<1>4. DOMAIN d = {"version", "contents"} /\ d.version = db.version /\ d.contents = rows
  BY <1>2, <1>3, SMT
<1>5. DOMAIN rows = DOMAIN db.contents /\
      \A t \in DOMAIN db.contents : rows[t] = IF t = "users" THEN Used ELSE db.contents[t]
  BY <1>1, Zenon
<1>6. SoundDatabase(d, e)
  <2>1. \A t \in DOMAIN rows : rows[t] = Used => t = "users"
    BY <1>5, Zenon DEF SoundDatabase
  <2>2. \/ \A t \in DOMAIN rows : rows[t] \in {None, Default, Used}
        \/ \E n \in 0..e : \A t \in DOMAIN rows : rows[t] \in {Copy(n), Used}
    BY <1>5, Zenon DEF SoundDatabase
  <2> QED BY <1>4, <1>5, <2>1, <2>2, Zenon DEF SoundDatabase
<1> QED BY <1>4, <1>5, <1>6, Zenon

INSTANCE WellFoundedInduction

\* When nothing is left that could be copied, everything is copied: the
\* foreign keys of the destination form no cycle.
LEMMA NothingLeft ==
  ASSUME NEW done \in SUBSET DOMAIN PgTables,
         Ready(DestinationCopyOrder(Catalogs[schemaVersion], PgTables), done) = {}
  PROVE  done = DOMAIN PgTables
<1>1. PICK order : order = DestinationCopyOrder(Catalogs[schemaVersion], PgTables)
  OBVIOUS
<1>2. DOMAIN order = DOMAIN PgTables /\ \A t \in DOMAIN PgTables : order[t] = PgTables[t].parents
  BY <1>1, Zenon DEF DestinationCopyOrder
<1>3. \A t \in DOMAIN PgTables \ done : \E parent \in PgTables[t].parents \ {t} : parent \notin done
  BY <1>1, <1>2, Zenon DEF Ready
<1>4. \A t \in DOMAIN PgTables \ done : /\ CopyRank[t] \in Nat
                                        /\ \E u \in DOMAIN PgTables \ done : CopyRank[u] < CopyRank[t]
  BY <1>3, SchemasAssumption, Zenon
<1>5. PICK ranks : ranks = {CopyRank[t] : t \in DOMAIN PgTables \ done}
  OBVIOUS
<1>6. ranks \subseteq Nat /\ \A m \in ranks : \E k \in ranks : k < m
  BY <1>4, <1>5, Zenon
<1>7. ranks = {}
  <2>1. SUFFICES ASSUME ranks # {} PROVE FALSE
    BY Zenon
  <2>2. PICK m \in ranks : \A k \in ranks : ~(<<k, m>> \in OpToRel(<, Nat))
    BY <1>6, <2>1, WFMin, NatLessThanWellFounded, Zenon
  <2>3. PICK k \in ranks : k < m
    BY <1>6, Zenon
  <2>4. k \in Nat /\ m \in Nat
    BY <1>6, Zenon
  <2>5. <<k, m>> \in OpToRel(<, Nat)
    BY <2>3, <2>4 DEF OpToRel
  <2> QED BY <2>2, <2>5, Zenon
<1>8. DOMAIN PgTables \ done = {}
  BY <1>5, <1>7, Zenon
<1> QED BY <1>8, Zenon

-----------------------------------------------------------------------------
\* Holders of the lock.

\* With the lock free nobody is in a transaction.
LEMMA LockFree ==
  ASSUME DestinationInv, lock = Nobody
  PROVE  /\ \A p \in PgServer : pgserver[p] # "initialized"
         /\ \A c \in Copier : copier[c].pc \notin {"initialize", "copy"}
BY MigrationAssumption, Zenon DEF DestinationInv, PgServerInv, CopierInv

\* Nobody else is in a transaction.
LEMMA LockHeld ==
  ASSUME DestinationInv, NEW h, lock = h
  PROVE  /\ \A p \in PgServer : pgserver[p] = "initialized" => p = h
         /\ \A c \in Copier : copier[c].pc \in {"initialize", "copy"} => c = h
         /\ h \in PgServer => \A c \in Copier : copier[c].pc \notin {"initialize", "copy"}
         /\ h \in Copier => \A p \in PgServer : pgserver[p] # "initialized"
BY MigrationAssumption, Zenon DEF DestinationInv, PgServerInv, CopierInv

\* A process that is not in a transaction does not mind what others do, as
\* long as the database does not go back.
LEMMA OpenerOutside ==
  ASSUME NEW pc, NEW p, NEW l, NEW db, NEW w, NEW e, PgServerInv(pc, p, l, db, w, e),
         pc # "initialized", NEW m, NEW d, NEW x, NEW f,
         db.version = postgresFoundationSchemaVersion => d.version = postgresFoundationSchemaVersion
  PROVE  PgServerInv(pc, p, m, d, x, f)
BY Zenon DEF PgServerInv

\* Nor does a migration utility.
LEMMA CopierOutside ==
  ASSUME NEW y, NEW c, NEW l, NEW db, NEW w, NEW e, CopierInv(y, c, l, db, w, e),
         y.pc \notin {"initialize", "copy"}, NEW m, NEW d, NEW x
  PROVE  CopierInv(y, c, m, d, x, e)
BY Zenon DEF CopierInv

\* A process that opens the database takes a step while nobody else is in a
\* transaction.
LEMMA OpenerStep ==
  ASSUME DestinationInv, NEW p \in PgServer, NEW pc \in PgStates,
         pgserver' = [pgserver EXCEPT ![p] = pc], copier' = copier, edits' = edits,
         SoundDatabase(target', edits),
         target.version = postgresFoundationSchemaVersion =>
           target'.version = postgresFoundationSchemaVersion,
         \A q \in PgServer \ {p} : pgserver[q] # "initialized",
         \A c \in Copier : copier[c].pc \notin {"initialize", "copy"},
         PgServerInv(pc, p, lock', target', work', edits)
  PROVE  DestinationInv'
<1>1. pgserver' \in [PgServer -> PgStates] /\ \A q \in PgServer : pgserver'[q] = IF q = p THEN pc ELSE pgserver[q]
  BY Zenon DEF DestinationInv
<1>2. \A q \in PgServer : PgServerInv(pgserver'[q], q, lock', target', work', edits')
  <2>1. ASSUME NEW q \in PgServer, q # p PROVE PgServerInv(pgserver[q], q, lock', target', work', edits)
    <3>1. PgServerInv(pgserver[q], q, lock, target, work, edits) /\ pgserver[q] # "initialized"
      BY <2>1, Zenon DEF DestinationInv
    <3> QED BY <3>1, OpenerOutside, Zenon
  <2> QED BY <1>1, <2>1, Zenon
<1>3. \A c \in Copier : CopierInv(copier'[c], c, lock', target', work', edits')
  <2>1. ASSUME NEW c \in Copier PROVE CopierInv(copier[c], c, lock', target', work', edits)
    <3>1. CopierInv(copier[c], c, lock, target, work, edits)
      BY Zenon DEF DestinationInv
    <3> QED BY <3>1, CopierOutside, Zenon
  <2> QED BY <2>1, Zenon
<1> QED BY <1>1, <1>2, <1>3, Zenon DEF DestinationInv

\* A migration utility does.
LEMMA CopierStep ==
  ASSUME DestinationInv, NEW c \in Copier, NEW x \in Copiers,
         copier' = [copier EXCEPT ![c] = x], pgserver' = pgserver, edits' = edits,
         SoundDatabase(target', edits),
         target.version = postgresFoundationSchemaVersion =>
           target'.version = postgresFoundationSchemaVersion,
         \A p \in PgServer : pgserver[p] # "initialized",
         \A d \in Copier \ {c} : copier[d].pc \notin {"initialize", "copy"},
         CopierInv(x, c, lock', target', work', edits)
  PROVE  DestinationInv'
<1>1. copier' \in [Copier -> Copiers] /\ \A d \in Copier : copier'[d] = IF d = c THEN x ELSE copier[d]
  BY Zenon DEF DestinationInv
<1>2. \A d \in Copier : CopierInv(copier'[d], d, lock', target', work', edits')
  <2>1. ASSUME NEW d \in Copier, d # c PROVE CopierInv(copier[d], d, lock', target', work', edits)
    <3>1. CopierInv(copier[d], d, lock, target, work, edits) /\ copier[d].pc \notin {"initialize", "copy"}
      BY <2>1, Zenon DEF DestinationInv
    <3> QED BY <3>1, CopierOutside, Zenon
  <2> QED BY <1>1, <2>1, Zenon
<1>3. \A p \in PgServer : PgServerInv(pgserver'[p], p, lock', target', work', edits')
  <2>1. ASSUME NEW p \in PgServer PROVE PgServerInv(pgserver[p], p, lock', target', work', edits)
    <3>1. PgServerInv(pgserver[p], p, lock, target, work, edits)
      BY Zenon DEF DestinationInv
    <3> QED BY <3>1, OpenerOutside, Zenon
  <2> QED BY <2>1, Zenon
<1> QED BY <1>1, <1>2, <1>3, Zenon DEF DestinationInv

\* A migration utility takes a step that the others do not see.
LEMMA CopierAlone ==
  ASSUME DestinationInv, NEW c \in Copier, NEW x \in Copiers,
         copier' = [copier EXCEPT ![c] = x], pgserver' = pgserver, edits' = edits,
         lock' = lock, target' = target, work' = work,
         CopierInv(x, c, lock, target, work, edits)
  PROVE  DestinationInv'
<1>1. copier' \in [Copier -> Copiers] /\ \A d \in Copier : copier'[d] = IF d = c THEN x ELSE copier[d]
  BY Zenon DEF DestinationInv
<1>2. \A d \in Copier : CopierInv(copier'[d], d, lock', target', work', edits')
  BY <1>1, Zenon DEF DestinationInv
<1> QED BY <1>1, <1>2, Zenon DEF DestinationInv

\* Only the state of a utility changes.
LEMMA CopierMoves ==
  ASSUME DestinationInv, NEW c \in Copier, NEW pc \in CopierStates, CopierGoes(c, pc)
  PROVE  \E x \in Copiers :
           /\ copier' = [copier EXCEPT ![c] = x]
           /\ x.pc = pc /\ x.version = copier[c].version /\ x.snapshot = copier[c].snapshot
           /\ x.done = copier[c].done
<1>1. PICK y \in Copiers : y = copier[c]
  BY Zenon DEF DestinationInv
<1>2. PICK x : x = [y EXCEPT !.pc = pc]
  OBVIOUS
<1>3. x \in Copiers /\ x.pc = pc /\ x.version = y.version /\ x.snapshot = y.snapshot /\ x.done = y.done
  BY <1>2, SMT DEF Copiers
<1>4. copier' = [copier EXCEPT ![c] = x]
  BY <1>1, <1>2, Zenon DEF CopierGoes
<1> QED BY <1>1, <1>3, <1>4, Zenon

-----------------------------------------------------------------------------
\* The processes that open the PostgreSQL database.

\* OpenPostgreSQL takes the lock and migrates.
LEMMA PgInitializeKeeps ==
  ASSUME DestinationInv, NEW p \in PgServer, PgInitialize(p)
  PROVE  DestinationInv' /\ target' = target
<1>1. /\ lock = Nobody /\ lock' = p
      /\ target' = target /\ copier' = copier /\ edits' = edits
  BY Zenon DEF PgInitialize, LockSchema, sqliteSide
<1>2. edits \in Nat /\ SoundDatabase(target, edits)
  BY Zenon DEF DestinationInv
<1>3. PICK pc \in {"initialized", "failed"} :
        /\ pgserver' = [pgserver EXCEPT ![p] = pc]
        /\ pc = "initialized" => /\ target.version <= postgresFoundationSchemaVersion
                                 /\ work' = InitializeTransaction(target)
  BY Zenon DEF PgInitialize
<1>4. PgServerInv(pc, p, lock', target', work', edits)
  BY <1>1, <1>2, <1>3, InitializedIsSound, Zenon DEF PgServerInv
<1>5. pc \in PgStates
  BY Zenon DEF PgStates
<1> QED BY <1>1, <1>2, <1>3, <1>4, <1>5, LockFree, OpenerStep, Zenon

\* It commits.
LEMMA PgCommitKeeps ==
  ASSUME DestinationInv, NEW p \in PgServer, PgCommit(p)
  PROVE  DestinationInv' /\ Carries(target', target)
<1>1. /\ pgserver[p] = "initialized" /\ lock = p /\ target' = work
      /\ copier' = copier /\ edits' = edits /\ pgserver' = [pgserver EXCEPT ![p] = "running"]
  BY Zenon DEF PgCommit, Commit, sqliteSide
<1>2. /\ SoundDatabase(work, edits) /\ work.version = postgresFoundationSchemaVersion
      /\ Carries(work, target)
  BY <1>1, Zenon DEF DestinationInv, PgServerInv
<1>3. PgServerInv("running", p, lock', target', work', edits)
  BY <1>1, <1>2, Zenon DEF PgServerInv
<1>4. "running" \in PgStates
  BY Zenon DEF PgStates
<1>5. /\ \A q \in PgServer \ {p} : pgserver[q] # "initialized"
      /\ \A c \in Copier : copier[c].pc \notin {"initialize", "copy"}
  BY <1>1, LockHeld, Zenon
<1>6. SoundDatabase(target', edits) /\ target'.version = postgresFoundationSchemaVersion
  BY <1>1, <1>2, Zenon
<1>7. DestinationInv'
  BY <1>1, <1>3, <1>4, <1>5, <1>6, OpenerStep, Zenon
<1> QED BY <1>1, <1>2, <1>7, Zenon

\* It fails, and the transaction is rolled back.
LEMMA PgFailsKeeps ==
  ASSUME DestinationInv, NEW p \in PgServer, PgFails(p)
  PROVE  DestinationInv' /\ target' = target
<1>1. /\ lock = p /\ target' = target /\ copier' = copier /\ edits' = edits
      /\ pgserver' = [pgserver EXCEPT ![p] = "stopped"]
  BY Zenon DEF PgFails, RollBack, sqliteSide
<1>2. PgServerInv("stopped", p, lock', target', work', edits) /\ "stopped" \in PgStates
  BY Zenon DEF PgServerInv, PgStates
<1>3. /\ \A q \in PgServer \ {p} : pgserver[q] # "initialized"
      /\ \A c \in Copier : copier[c].pc \notin {"initialize", "copy"}
  BY <1>1, LockHeld, Zenon
<1>4. SoundDatabase(target', edits)
  BY <1>1, Zenon DEF DestinationInv
<1> QED BY <1>1, <1>2, <1>3, <1>4, OpenerStep, Zenon

\* A running server writes without the lock; a copy is not in progress then,
\* and the rows are kept by a process that is about to commit.
LEMMA PgWritesKeeps ==
  ASSUME DestinationInv, NEW p \in PgServer, PgWrites(p)
  PROVE  /\ DestinationInv' /\ DOMAIN target'.contents = DOMAIN target.contents
         /\ \A t \in DOMAIN target.contents : target'.contents[t] \in {target.contents[t], Used}
<1>1. /\ lock' = lock /\ pgserver' = pgserver /\ copier' = copier /\ edits' = edits
      /\ target' = [target EXCEPT !.contents["users"] = Used]
      /\ work' = [work EXCEPT !.contents["users"] = Used]
  BY Zenon DEF PgWrites, sqliteSide
<1>2. target.version = postgresFoundationSchemaVersion /\ SoundDatabase(target, edits)
  BY Zenon DEF DestinationInv, PgServerInv, PgWrites
<1>3. target # Empty
  BY <1>2, EmptyIs, Versions, Zenon
<1>4. /\ SoundDatabase(target', edits) /\ target'.version = postgresFoundationSchemaVersion
      /\ DOMAIN target'.contents = DOMAIN target.contents
      /\ \A t \in DOMAIN target.contents :
           target'.contents[t] = IF t = "users" THEN Used ELSE target.contents[t]
  BY <1>1, <1>2, WrittenIsSound, Zenon
<1>5. \A c \in Copier : CopierInv(copier[c], c, lock, target', work', edits)
  <2>1. ASSUME NEW c \in Copier PROVE CopierInv(copier[c], c, lock, target', work', edits)
    <3>1. CopierInv(copier[c], c, lock, target, work, edits)
      BY Zenon DEF DestinationInv
    <3>2. copier[c].pc \notin {"initialize", "copy"}
      BY <1>3, <3>1, Zenon DEF CopierInv
    <3> QED BY <3>1, <3>2, CopierOutside, Zenon
  <2> QED BY <2>1, Zenon
<1>6. \A q \in PgServer : PgServerInv(pgserver[q], q, lock, target', work', edits)
  <2>1. ASSUME NEW q \in PgServer PROVE PgServerInv(pgserver[q], q, lock, target', work', edits)
    <3>1. PgServerInv(pgserver[q], q, lock, target, work, edits)
      BY Zenon DEF DestinationInv
    <3>2. CASE pgserver[q] # "initialized"
      BY <1>4, <3>1, <3>2, OpenerOutside, Zenon
    <3>3. CASE pgserver[q] = "initialized"
      <4>1. /\ lock = q /\ SoundDatabase(work, edits) /\ Carries(work, target)
            /\ work.version = postgresFoundationSchemaVersion
        BY <3>1, <3>3, Zenon DEF PgServerInv
      <4>2. /\ SoundDatabase(work', edits) /\ work'.version = postgresFoundationSchemaVersion
            /\ DOMAIN work'.contents = DOMAIN work.contents
            /\ \A t \in DOMAIN work.contents :
                 work'.contents[t] = IF t = "users" THEN Used ELSE work.contents[t]
        BY <1>1, <4>1, WrittenIsSound, Zenon
      <4>3. Carries(work', target')
        BY <1>4, <4>1, <4>2, Zenon DEF Carries
      <4> QED BY <1>4, <3>3, <4>1, <4>2, <4>3, Zenon DEF PgServerInv
    <3> QED BY <3>2, <3>3, Zenon
  <2> QED BY <2>1, Zenon
<1>7. DestinationInv'
  BY <1>1, <1>4, <1>5, <1>6, Zenon DEF DestinationInv
<1> QED BY <1>4, <1>7, Zenon

-----------------------------------------------------------------------------
\* The migration utilities.

\* A step of a server on the source.
LEMMA SourceStepKeeps ==
  ASSUME DestinationInv, edits' \in Nat, edits <= edits', UNCHANGED <<postgresSide, copier>>
  PROVE  DestinationInv' /\ target' = target
<1>1. lock' = lock /\ target' = target /\ work' = work /\ pgserver' = pgserver /\ copier' = copier
  BY Zenon DEF postgresSide
<1>2. edits \in Nat /\ SoundDatabase(target, edits)
  BY Zenon DEF DestinationInv
<1>3. SoundDatabase(target, edits')
  BY <1>2, SoundLater, Zenon
<1>4. ASSUME NEW p \in PgServer PROVE PgServerInv(pgserver[p], p, lock, target, work, edits')
  <2>1. PgServerInv(pgserver[p], p, lock, target, work, edits)
    BY Zenon DEF DestinationInv
  <2>2. SoundDatabase(work, edits) => SoundDatabase(work, edits')
    BY <1>2, SoundLater, Zenon
  <2> QED BY <2>1, <2>2, Zenon DEF PgServerInv
<1>5. ASSUME NEW c \in Copier PROVE CopierInv(copier[c], c, lock, target, work, edits')
  <2>1. CopierInv(copier[c], c, lock, target, work, edits)
    BY Zenon DEF DestinationInv
  <2>2. 0..edits \subseteq 0..edits'
    BY <1>2, SMT
  <2> QED BY <2>1, <2>2, Zenon DEF CopierInv
<1> QED BY <1>1, <1>3, <1>4, <1>5, Zenon DEF DestinationInv

\* A utility goes to a state in which it has no transaction on the
\* destination and nothing that depends on it.
LEMMA CopierLeaves ==
  ASSUME DestinationInv, NEW c \in Copier,
         NEW pc \in {"off", "refused", "occupied", "verified", "failed"}, CopierGoes(c, pc)
  PROVE  \E x \in Copiers :
           /\ copier' = [copier EXCEPT ![c] = x]
           /\ \A l, db, w : CopierInv(x, c, l, db, w, edits)
<1>1. pc \in CopierStates
  BY Zenon DEF CopierStates
<1>2. PICK x \in Copiers :
        /\ copier' = [copier EXCEPT ![c] = x]
        /\ x.pc = pc /\ x.version = copier[c].version /\ x.snapshot = copier[c].snapshot
        /\ x.done = copier[c].done
  BY <1>1, CopierMoves, Zenon
<1>3. copier[c].snapshot \in 0..edits
  BY Zenon DEF DestinationInv, CopierInv
<1>4. \A l, db, w : CopierInv(x, c, l, db, w, edits)
  BY <1>2, <1>3, Zenon DEF CopierInv
<1> QED BY <1>2, <1>4, Zenon

\* PreflightSQLiteSource.
LEMMA PreflightSourceKeeps ==
  ASSUME DestinationInv, NEW c \in Copier, PreflightSource(c)
  PROVE  DestinationInv' /\ target' = target
<1>1. /\ lock' = lock /\ target' = target /\ work' = work /\ pgserver' = pgserver
      /\ edits' = edits
  BY Zenon DEF PreflightSource, sqliteSide, postgresSide
<1>2. CASE CopierGoes(c, "refused")
  <2>1. PICK x \in Copiers : /\ copier' = [copier EXCEPT ![c] = x]
                             /\ \A l, db, w : CopierInv(x, c, l, db, w, edits)
    BY <1>2, CopierLeaves, Zenon
  <2> QED BY <1>1, <2>1, CopierAlone, Zenon
<1>3. CASE /\ Recorded = schemaVersion
           /\ copier' = [copier EXCEPT ![c] = [pc |-> "destination", version |-> Recorded,
                                               snapshot |-> 0, done |-> {}]]
  <2>1. PICK x : x = [pc |-> "destination", version |-> schemaVersion, snapshot |-> 0, done |-> {}]
    OBVIOUS
  <2>2. x.pc = "destination" /\ x.version = schemaVersion /\ x.snapshot = 0 /\ x.done = {}
    BY <2>1, SMT
  <2>3. 0 \in Nat /\ 0 \in 0..edits /\ schemaVersion \in Nat
    BY SchemasAssumption, SMT DEF DestinationInv
  <2>4. x \in Copiers
    <3>1. "destination" \in CopierStates
      BY Zenon DEF CopierStates
    <3> QED BY <2>1, <2>3, <3>1, Zenon DEF Copiers
  <2>5. CopierInv(x, c, lock, target, work, edits)
    BY <2>2, <2>3, Zenon DEF CopierInv
  <2>6. copier' = [copier EXCEPT ![c] = x]
    BY <1>3, <2>1, Zenon
  <2> QED BY <1>1, <2>4, <2>5, <2>6, CopierAlone, Zenon
<1> QED BY <1>2, <1>3, Zenon DEF PreflightSource

\* PreflightPostgreSQLDestination.
LEMMA PreflightDestinationKeeps ==
  ASSUME DestinationInv, NEW c \in Copier, PreflightDestination(c)
  PROVE  DestinationInv' /\ target' = target
<1>1. /\ lock' = lock /\ target' = target /\ work' = work /\ pgserver' = pgserver
      /\ edits' = edits
  BY Zenon DEF PreflightDestination, sqliteSide, postgresSide
<1>2. CASE CopierGoes(c, "refused")
  <2>1. PICK x \in Copiers : /\ copier' = [copier EXCEPT ![c] = x]
                             /\ \A l, db, w : CopierInv(x, c, l, db, w, edits)
    BY <1>2, CopierLeaves, Zenon
  <2> QED BY <1>1, <2>1, CopierAlone, Zenon
<1>3. CASE CopierGoes(c, "snapshot")
  <2>1. "snapshot" \in CopierStates
    BY Zenon DEF CopierStates
  <2>2. PICK x \in Copiers :
          /\ copier' = [copier EXCEPT ![c] = x]
          /\ x.pc = "snapshot" /\ x.version = copier[c].version /\ x.snapshot = copier[c].snapshot
          /\ x.done = copier[c].done
    BY <1>3, <2>1, CopierMoves, Zenon
  <2>3. CopierInv(copier[c], c, lock, target, work, edits) /\ copier[c].pc = "destination"
    BY Zenon DEF DestinationInv, PreflightDestination
  <2>4. CopierInv(x, c, lock, target, work, edits)
    BY <2>2, <2>3, Zenon DEF CopierInv
  <2> QED BY <1>1, <2>2, <2>4, CopierAlone, Zenon
<1> QED BY <1>2, <1>3, Zenon DEF PreflightDestination

\* The transaction that reads the source: one moment of the source.
LEMMA OpenSnapshotKeeps ==
  ASSUME DestinationInv, NEW c \in Copier, OpenSnapshot(c)
  PROVE  DestinationInv' /\ target' = target
<1>1. /\ lock' = lock /\ target' = target /\ work' = work /\ pgserver' = pgserver
      /\ edits' = edits
  BY Zenon DEF OpenSnapshot, sqliteSide, postgresSide
<1>2. PICK y \in Copiers : y = copier[c]
  BY Zenon DEF DestinationInv
<1>3. PICK pc \in {"lock", "refused"} :
        copier' = [copier EXCEPT ![c].pc = pc, ![c].snapshot = edits]
  BY Zenon DEF OpenSnapshot
<1>4. PICK x : x = [y EXCEPT !.pc = pc, !.snapshot = edits]
  OBVIOUS
<1>5. edits \in Nat /\ edits \in 0..edits /\ pc \in CopierStates
  <2>1. edits \in Nat
    BY Zenon DEF DestinationInv
  <2>2. edits \in 0..edits
    BY <2>1, SMT
  <2> QED BY <2>1, <2>2, Zenon DEF CopierStates
<1>6. x \in Copiers
  BY <1>4, <1>5, Zenon DEF Copiers
<1>7. x.pc = pc /\ x.snapshot = edits /\ x.version = y.version /\ x.done = y.done
  BY <1>4, SMT DEF Copiers
<1>8. copier' = [copier EXCEPT ![c] = x]
  BY <1>2, <1>3, <1>4, Zenon DEF DestinationInv
<1>9. CopierInv(y, c, lock, target, work, edits) /\ y.pc = "snapshot"
  BY <1>2, Zenon DEF DestinationInv, OpenSnapshot
<1>10. CopierInv(x, c, lock, target, work, edits)
  BY <1>5, <1>7, <1>9, Zenon DEF CopierInv
<1> QED BY <1>1, <1>6, <1>8, <1>10, CopierAlone, Zenon

\* The lock, and the second look at the destination.
LEMMA LockTargetKeeps ==
  ASSUME DestinationInv, NEW c \in Copier, LockTarget(c)
  PROVE  DestinationInv' /\ target' = target
<1>1. /\ lock = Nobody /\ lock' = c /\ target' = target /\ pgserver' = pgserver
      /\ edits' = edits
  BY Zenon DEF LockTarget, LockSchema, sqliteSide
<1>2. SoundDatabase(target', edits)
  BY <1>1, Zenon DEF DestinationInv
<1>3. /\ \A p \in PgServer : pgserver[p] # "initialized"
      /\ \A d \in Copier \ {c} : copier[d].pc \notin {"initialize", "copy"}
  BY <1>1, LockFree, Zenon
<1>4. CASE CopierGoes(c, "occupied")
  <2>1. PICK x \in Copiers : /\ copier' = [copier EXCEPT ![c] = x]
                             /\ \A l, db, w : CopierInv(x, c, l, db, w, edits)
    BY <1>4, CopierLeaves, Zenon
  <2>2. CopierInv(x, c, lock', target', work', edits)
    BY <2>1, Zenon
  <2> QED BY <1>1, <1>2, <1>3, <2>1, <2>2, CopierStep, Zenon
<1>5. CASE target = Empty /\ CopierGoes(c, "initialize")
  <2>1. "initialize" \in CopierStates
    BY Zenon DEF CopierStates
  <2>2. PICK x \in Copiers :
          /\ copier' = [copier EXCEPT ![c] = x]
          /\ x.pc = "initialize" /\ x.version = copier[c].version /\ x.snapshot = copier[c].snapshot
          /\ x.done = copier[c].done
    BY <1>5, <2>1, CopierMoves, Zenon
  <2>3. CopierInv(copier[c], c, lock, target, work, edits) /\ copier[c].pc = "lock"
    BY Zenon DEF DestinationInv, LockTarget
  <2>4. CopierInv(x, c, lock', target', work', edits)
    BY <1>1, <1>5, <2>2, <2>3, Zenon DEF CopierInv
  <2> QED BY <1>1, <1>2, <1>3, <2>2, <2>4, CopierStep, Zenon
<1> QED BY <1>4, <1>5, Zenon DEF LockTarget

\* The schema of the destination and its validation, which never fails.
LEMMA PrepareTargetKeeps ==
  ASSUME DestinationInv, NEW c \in Copier, PrepareTarget(c)
  PROVE  DestinationInv' /\ target' = target
<1>1. /\ copier[c].pc = "initialize" /\ lock = c /\ lock' = lock /\ target' = target
      /\ pgserver' = pgserver /\ edits' = edits
  BY Zenon DEF PrepareTarget, sqliteSide
<1>2. CopierInv(copier[c], c, lock, target, work, edits) /\ copier[c].version = schemaVersion
  BY <1>1, Zenon DEF DestinationInv, CopierInv
<1>3. /\ work' = [InitializeTransaction(target) EXCEPT !.contents = [t \in DOMAIN PgTables |-> None]]
      /\ CopierGoes(c, "copy")
  BY <1>2, SchemasAssumption, Zenon DEF PrepareTarget
<1>4. edits \in Nat /\ SoundDatabase(target, edits) /\ target.version <= postgresFoundationSchemaVersion
  <2>1. target = Empty
    BY <1>1, <1>2, Zenon DEF CopierInv
  <2>2. 0 <= postgresFoundationSchemaVersion
    BY Versions, SMT
  <2> QED BY <2>1, <2>2, EmptyIs, Zenon DEF DestinationInv
<1>5. PICK d : d = InitializeTransaction(target)
  OBVIOUS
<1>6. DOMAIN d = {"version", "contents"} /\ d.version = postgresFoundationSchemaVersion
  BY <1>4, <1>5, InitializedIsSound, Zenon DEF SoundDatabase
<1>7. PICK rows : rows = [t \in DOMAIN PgTables |-> None]
  OBVIOUS
<1>8. DOMAIN rows = DOMAIN PgTables
  BY <1>7, Zenon
<1>9. work' = [d EXCEPT !.contents = rows]
  BY <1>3, <1>5, <1>7, Zenon
<1>10. /\ DOMAIN work' = {"version", "contents"} /\ work'.version = postgresFoundationSchemaVersion
       /\ work'.contents = rows
  BY <1>6, <1>9, SMT
<1>11. "copy" \in CopierStates
  BY Zenon DEF CopierStates
<1>12. PICK x \in Copiers :
         /\ copier' = [copier EXCEPT ![c] = x]
         /\ x.pc = "copy" /\ x.version = copier[c].version /\ x.snapshot = copier[c].snapshot
         /\ x.done = copier[c].done
  BY <1>3, <1>11, CopierMoves, Zenon
<1>13. CopierInv(x, c, lock', target', work', edits)
  BY <1>1, <1>2, <1>8, <1>10, <1>12, Zenon DEF CopierInv
<1>14. SoundDatabase(target', edits)
  BY <1>1, <1>4, Zenon
<1>15. /\ \A p \in PgServer : pgserver[p] # "initialized"
       /\ \A d2 \in Copier \ {c} : copier[d2].pc \notin {"initialize", "copy"}
  BY <1>1, LockHeld, Zenon
<1> QED BY <1>1, <1>12, <1>13, <1>14, <1>15, CopierStep, Zenon

\* Tables are copied: the rows of the moment the snapshot was opened.
LEMMA CopyTablesKeeps ==
  ASSUME DestinationInv, NEW c \in Copier, CopyTables(c)
  PROVE  DestinationInv' /\ target' = target
<1>1. /\ copier[c].pc = "copy" /\ lock = c /\ lock' = lock /\ target' = target
      /\ pgserver' = pgserver /\ edits' = edits
  BY Zenon DEF CopyTables, sqliteSide
<1>2. PICK y \in Copiers : y = copier[c]
  BY Zenon DEF DestinationInv
<1>3. /\ CopierInv(y, c, lock, target, work, edits) /\ y.version = schemaVersion /\ y.pc = "copy"
      /\ DOMAIN work = {"version", "contents"} /\ work.version = postgresFoundationSchemaVersion
      /\ DOMAIN work.contents = DOMAIN PgTables
      /\ \A t \in y.done : work.contents[t] = Copy(y.snapshot)
  BY <1>1, <1>2, Zenon DEF DestinationInv, CopierInv
<1>4. PICK next : next = Ready(DestinationCopyOrder(Catalogs[y.version], PgTables), y.done)
  OBVIOUS
<1>5. next \subseteq DOMAIN PgTables
      /\ \A t \in next : \A parent \in PgTables[t].parents \ {t} : parent \in y.done
  BY <1>4, Zenon DEF Ready, DestinationCopyOrder
<1>6. /\ work' = [work EXCEPT !.contents =
                   [t \in DOMAIN @ |-> IF t \in next THEN Copied(c) ELSE @[t]]]
      /\ copier' = [copier EXCEPT ![c].done = @ \cup next]
  BY <1>2, <1>4, <1>5, Zenon DEF CopyTables
<1>7. PICK rows : rows = [t \in DOMAIN work.contents |->
                           IF t \in next THEN Copy(y.snapshot) ELSE work.contents[t]]
  OBVIOUS
<1>8. /\ DOMAIN rows = DOMAIN PgTables
      /\ \A t \in DOMAIN PgTables : rows[t] = IF t \in next THEN Copy(y.snapshot) ELSE work.contents[t]
  BY <1>3, <1>7, Zenon
<1>9. work' = [work EXCEPT !.contents = rows]
  BY <1>2, <1>6, <1>7, Zenon DEF Copied
<1>10. /\ DOMAIN work' = {"version", "contents"} /\ work'.version = work.version
       /\ work'.contents = rows
  BY <1>3, <1>9, SMT
<1>11. PICK x : x = [y EXCEPT !.done = y.done \cup next]
  OBVIOUS
<1>12. y.done \subseteq DOMAIN PgTables
  BY SMT DEF Copiers
<1>13. x \in Copiers
  BY <1>5, <1>11, <1>12, Zenon DEF Copiers
<1>14. x.pc = y.pc /\ x.version = y.version /\ x.snapshot = y.snapshot /\ x.done = y.done \cup next
  BY <1>11, SMT DEF Copiers
<1>15. copier' = [copier EXCEPT ![c] = x]
  BY <1>2, <1>6, <1>11, Zenon
<1>16. \A t \in x.done : rows[t] = Copy(x.snapshot)
  BY <1>3, <1>5, <1>8, <1>12, <1>14, Zenon
<1>17. CopierInv(x, c, lock', target', work', edits)
  BY <1>1, <1>3, <1>8, <1>10, <1>14, <1>16, Zenon DEF CopierInv
<1>18. SoundDatabase(target', edits)
  BY <1>1, Zenon DEF DestinationInv
<1>19. /\ \A p \in PgServer : pgserver[p] # "initialized"
       /\ \A d \in Copier \ {c} : copier[d].pc \notin {"initialize", "copy"}
  BY <1>1, LockHeld, Zenon
<1> QED BY <1>1, <1>13, <1>15, <1>17, <1>18, <1>19, CopierStep, Zenon

\* The copy commits: every table is there, as of one moment.
LEMMA CommitCopyKeeps ==
  ASSUME DestinationInv, NEW c \in Copier, CommitCopy(c)
  PROVE  DestinationInv' /\ target = Empty
<1>1. /\ copier[c].pc = "copy" /\ lock = c /\ pgserver' = pgserver /\ edits' = edits
  BY Zenon DEF CommitCopy, sqliteSide
<1>2. PICK y \in Copiers : y = copier[c]
  BY Zenon DEF DestinationInv
<1>3. /\ y.snapshot \in 0..edits /\ y.version = schemaVersion /\ target = Empty
      /\ DOMAIN work = {"version", "contents"} /\ work.version = postgresFoundationSchemaVersion
      /\ DOMAIN work.contents = DOMAIN PgTables
      /\ \A t \in y.done : work.contents[t] = Copy(y.snapshot)
  BY <1>1, <1>2, Zenon DEF DestinationInv, CopierInv
<1>4. y.done \in SUBSET DOMAIN PgTables
  BY SMT DEF Copiers
<1>5. y.done = DOMAIN PgTables
  <2>1. Ready(DestinationCopyOrder(Catalogs[y.version], PgTables), y.done) = {}
    BY <1>2, Zenon DEF CommitCopy
  <2>2. Ready(DestinationCopyOrder(Catalogs[schemaVersion], PgTables), y.done) = {}
    BY <1>3, <2>1, Zenon
  <2> QED BY <1>4, <2>2, NothingLeft, Zenon
<1>6. target' = work /\ CopierGoes(c, "verified")
  BY <1>2, <1>5, Zenon DEF CommitCopy, Commit
<1>7. \A t \in DOMAIN PgTables : work.contents[t] = Copy(y.snapshot)
  BY <1>3, <1>5, Zenon
<1>8. SoundDatabase(work, edits)
  BY <1>3, <1>7, RowsDiffer, Versions, Zenon DEF SoundDatabase
<1>9. PICK x \in Copiers : /\ copier' = [copier EXCEPT ![c] = x]
                           /\ \A l, db, w : CopierInv(x, c, l, db, w, edits)
  BY <1>6, CopierLeaves, Zenon
<1>10. CopierInv(x, c, lock', target', work', edits)
  BY <1>9, Zenon
<1>11. /\ \A p \in PgServer : pgserver[p] # "initialized"
       /\ \A d \in Copier \ {c} : copier[d].pc \notin {"initialize", "copy"}
  BY <1>1, LockHeld, Zenon
<1>12. SoundDatabase(target', edits) /\ target'.version = postgresFoundationSchemaVersion
  BY <1>3, <1>6, <1>8, Zenon
<1>13. DestinationInv'
  BY <1>1, <1>9, <1>10, <1>11, <1>12, CopierStep, Zenon
<1> QED BY <1>3, <1>13, Zenon

\* The copy fails and is rolled back.
LEMMA CopyFailsKeeps ==
  ASSUME DestinationInv, NEW c \in Copier, CopyFails(c)
  PROVE  DestinationInv' /\ target' = target
<1>1. /\ lock = c /\ target' = target /\ pgserver' = pgserver /\ edits' = edits
      /\ CopierGoes(c, "failed")
  BY Zenon DEF CopyFails, RollBack, sqliteSide
<1>2. PICK x \in Copiers : /\ copier' = [copier EXCEPT ![c] = x]
                           /\ \A l, db, w : CopierInv(x, c, l, db, w, edits)
  BY <1>1, CopierLeaves, Zenon
<1>3. CopierInv(x, c, lock', target', work', edits)
  BY <1>2, Zenon
<1>4. SoundDatabase(target', edits)
  BY <1>1, Zenon DEF DestinationInv
<1>5. /\ \A p \in PgServer : pgserver[p] # "initialized"
      /\ \A d \in Copier \ {c} : copier[d].pc \notin {"initialize", "copy"}
  BY <1>1, LockHeld, Zenon
<1> QED BY <1>1, <1>2, <1>3, <1>4, <1>5, CopierStep, Zenon

\* The utility is run again.
LEMMA CopyAgainKeeps ==
  ASSUME DestinationInv, NEW c \in Copier, CopyAgain(c)
  PROVE  DestinationInv' /\ target' = target
<1>1. /\ lock' = lock /\ target' = target /\ work' = work /\ pgserver' = pgserver
      /\ edits' = edits /\ CopierGoes(c, "off")
  BY Zenon DEF CopyAgain, sqliteSide, postgresSide
<1>2. PICK x \in Copiers : /\ copier' = [copier EXCEPT ![c] = x]
                           /\ \A l, db, w : CopierInv(x, c, l, db, w, edits)
  BY <1>1, CopierLeaves, Zenon
<1> QED BY <1>1, <1>2, CopierAlone, Zenon

-----------------------------------------------------------------------------
\* The databases before the first step.
LEMMA DestinationInit ==
  ASSUME MigrationInit
  PROVE  DestinationInv
<1>1. PICK setup \in Setup :
        /\ target = PgSchema(setup[2])
        /\ pgserver = [p \in PgServer |-> IF setup[3] THEN "off" ELSE "stopped"]
        /\ copier = [c \in Copier |-> [pc |-> IF setup[3] THEN "off" ELSE "unused", version |-> 0,
                                       snapshot |-> 0, done |-> {}]]
  BY Zenon DEF MigrationInit
<1>2. setup[2] \in Nat
  BY MigrationAssumption, SMT
<1>3. edits = 0 /\ edits \in Nat /\ 0 \in Nat /\ 0 \in 0..edits
  BY SMT DEF MigrationInit
<1>4. SoundDatabase(target, edits)
  BY <1>1, <1>2, <1>3, SchemaIsSound, Zenon
<1>5. \A p \in PgServer : pgserver[p] \in {"off", "stopped"}
  BY <1>1, Zenon
<1>6. pgserver \in [PgServer -> PgStates]
  BY <1>1, Zenon DEF PgStates
<1>7. \A p \in PgServer : PgServerInv(pgserver[p], p, lock, target, work, edits)
  BY <1>5, Zenon DEF PgServerInv
<1>8. PICK pc \in {"off", "unused"} : pc = IF setup[3] THEN "off" ELSE "unused"
  BY Zenon
<1>9. PICK x : x = [pc |-> pc, version |-> 0, snapshot |-> 0, done |-> {}]
  OBVIOUS
<1>10. x \in Copiers
  <2>1. pc \in CopierStates
    BY Zenon DEF CopierStates
  <2> QED BY <1>3, <1>9, <2>1, Zenon DEF Copiers
<1>11. x.pc = pc /\ x.snapshot = 0
  BY <1>9, SMT
<1>12. copier = [c \in Copier |-> x]
  BY <1>1, <1>8, <1>9, Zenon
<1>13. \A c \in Copier : CopierInv(copier[c], c, lock, target, work, edits)
  BY <1>3, <1>11, <1>12, Zenon DEF CopierInv
<1>14. copier \in [Copier -> Copiers]
  BY <1>10, <1>12, Zenon
<1> QED BY <1>3, <1>4, <1>6, <1>7, <1>13, <1>14, Zenon DEF DestinationInv

\* What a step leaves of the destination: the invariant, and what was copied
\* or written.
Preserved ==
  \A t \in DOMAIN target.contents :
    target.contents[t] \notin {None, Default} => target'.contents[t] \in {target.contents[t], Used}

\* Every step.
LEMMA DestinationNext ==
  ASSUME DestinationInv, [MigrationNext]_migrationVars
  PROVE  DestinationInv' /\ Preserved
<1>0. (target' = target) => Preserved
  BY Zenon DEF Preserved
<1>1. edits \in Nat /\ edits <= edits
  BY SMT DEF DestinationInv
<1>2. ASSUME NEW s \in Server,
             ReadVersion(s) \/ ApplyMigration(s) \/ Opened(s) \/ EditSource(s) \/ ServerStops(s)
      PROVE  DestinationInv' /\ Preserved
  <2>1. UNCHANGED <<postgresSide, copier>>
    BY <1>2, Zenon DEF ReadVersion, ApplyMigration, Opened, EditSource, ServerStops
  <2>2. edits' = edits \/ edits' = edits + 1
    BY <1>2, Zenon DEF ReadVersion, ApplyMigration, Opened, EditSource, ServerStops
  <2>3. edits' \in Nat /\ edits <= edits'
    BY <1>1, <2>2, SMT
  <2> QED BY <1>0, <2>1, <2>3, SourceStepKeeps, Zenon
<1>3. ASSUME NEW p \in PgServer, PgInitialize(p) \/ PgFails(p)
      PROVE  DestinationInv' /\ Preserved
  BY <1>0, <1>3, PgInitializeKeeps, PgFailsKeeps, Zenon
<1>4. ASSUME NEW p \in PgServer, PgCommit(p)
      PROVE  DestinationInv' /\ Preserved
  BY <1>4, PgCommitKeeps, Zenon DEF Carries, Preserved
<1>5. ASSUME NEW p \in PgServer, PgWrites(p)
      PROVE  DestinationInv' /\ Preserved
  BY <1>5, PgWritesKeeps, Zenon DEF Preserved
<1>6. ASSUME NEW c \in Copier, CommitCopy(c)
      PROVE  DestinationInv' /\ Preserved
  <2>1. DestinationInv' /\ target = Empty
    BY <1>6, CommitCopyKeeps, Zenon
  <2> QED BY <2>1, EmptyIs, Zenon DEF Preserved
<1>7. ASSUME NEW c \in Copier,
             PreflightSource(c) \/ PreflightDestination(c) \/ OpenSnapshot(c) \/ LockTarget(c)
      PROVE  DestinationInv' /\ Preserved
  BY <1>0, <1>7, PreflightSourceKeeps, PreflightDestinationKeeps, OpenSnapshotKeeps,
     LockTargetKeeps, Zenon
<1>8. ASSUME NEW c \in Copier,
             PrepareTarget(c) \/ CopyTables(c) \/ CopyFails(c) \/ CopyAgain(c)
      PROVE  DestinationInv' /\ Preserved
  BY <1>0, <1>8, PrepareTargetKeeps, CopyTablesKeeps, CopyFailsKeeps, CopyAgainKeeps, Zenon
<1>9. CASE UNCHANGED migrationVars
  <2>1. /\ edits' = edits /\ target' = target
        /\ UNCHANGED <<postgresSide, copier>>
    BY <1>9, Zenon DEF migrationVars, postgresSide
  <2> QED BY <1>0, <1>1, <2>1, SourceStepKeeps, Zenon
<1> QED BY <1>2, <1>3, <1>4, <1>5, <1>6, <1>7, <1>8, <1>9, Zenon DEF MigrationNext

\* The destination invariant holds in every state, whatever the schemas the
\* databases start with and however many processes open and copy them.
THEOREM DestinationInvariance == MigrationSpec => []DestinationInv
<1>1. MigrationInit => DestinationInv
  BY DestinationInit, Zenon
<1>2. DestinationInv /\ [MigrationNext]_migrationVars => DestinationInv'
  BY DestinationNext, Zenon
<1> QED BY <1>1, <1>2, PTL DEF MigrationSpec

\* CopySQLiteToPostgreSQL copies all or nothing, and never refuses a current
\* source because of the schemas (CopyWhole).
THEOREM CopyIsWhole == MigrationSpec => []CopyWhole
<1>1. DestinationInv => CopyWhole
  <2> SUFFICES ASSUME DestinationInv PROVE CopyWhole
    BY Zenon
  <2>1. SchemasAgree
    <3>1. ASSUME NEW c \in Copier PROVE copier[c].pc \notin {"incompatible", "orphan", "cyclic"}
      <4>1. PICK y \in Copiers : y = copier[c]
        BY Zenon DEF DestinationInv
      <4>2. y.pc \in CopierStates
        BY SMT DEF Copiers
      <4> QED BY <4>1, <4>2, Zenon DEF CopierStates
    <3> QED BY <3>1, Zenon DEF SchemasAgree
  <2>2. PICK rows : rows = target.contents
    OBVIOUS
  <2>3. PICK unwritten : unwritten = {t \in DOMAIN rows : rows[t] # Used}
    OBVIOUS
  <2>4. /\ DOMAIN rows = DOMAIN PgCatalogs[Known(target.version)]
        /\ \A t \in DOMAIN rows : rows[t] = Used => t = "users"
        /\ \/ \A t \in DOMAIN rows : rows[t] \in {None, Default, Used}
           \/ \E n \in 0..edits : \A t \in DOMAIN rows : rows[t] \in {Copy(n), Used}
    BY <2>2, Zenon DEF DestinationInv, SoundDatabase
  <2>5. DOMAIN rows \ unwritten \subseteq {"users"}
    BY <2>3, <2>4, Zenon
  <2>6. \/ \A t \in unwritten : rows[t] \in {None, Default}
        \/ \E n \in 0..edits : \A t \in unwritten : rows[t] = Copy(n)
    BY <2>3, <2>4, Zenon
  <2> QED BY <2>1, <2>2, <2>3, <2>4, <2>5, <2>6, Zenon DEF CopyWhole
<1> QED BY <1>1, DestinationInvariance, PTL

\* No step removes what was copied or written before (NothingOverwritten).
THEOREM NothingIsOverwritten == MigrationSpec => NothingOverwritten
<1>1. DestinationInv /\ [MigrationNext]_migrationVars =>
        [\A t \in DOMAIN target.contents :
           target.contents[t] \notin {None, Default} =>
             target'.contents[t] \in {target.contents[t], Used}]_migrationVars
  BY DestinationNext, Zenon DEF Preserved
<1> QED BY <1>1, DestinationInvariance, PTL DEF MigrationSpec, NothingOverwritten
=============================================================================
