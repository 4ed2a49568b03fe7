CONSTANTS
  Session = {"s1", "s2"}
  ScanOrder <- StoreKeys
  Program <- StoreProgram
  Reference <- StoreCall
  KnownDeadlocks <- MCKnownDeadlocks
  Excluded <- MCExcluded
  Server = {s1, s2}
  PgServer = {p1}
  Copier = {c1}
  Nobody = Nobody
  Setup <- MCSetup
  MaxEdits = 1
  MaxDowns = 1
  Secret = {x1, x2}
  Command = {m1, m2}
  MaxKey = 3
  MaxLineage = 3
  MaxArchives = 2
  MaxAside = 4
SPECIFICATION ServerSideSpec
CONSTRAINT OnCourse
INVARIANTS
  SerializableAsSqlite
  DeadlocksKnown
  SchemaMatchesRecord
  CopyWhole
  SecretsReadable
  NothingLost
PROPERTIES
  NothingOverwritten
CHECK_DEADLOCK FALSE
