SPECIFICATION AgentSideSpec
CONSTANTS
  NoUpdate = NoUpdate
  MaxVersion = 3
  HealthTimeout = 1
  ManifestLife = 3
  Helper = {h1}
  MaxTime = 2
  MaxStops = 1
  NoIdentity = NoIdentity
  Agent = {a1}
  TokenLife = 1
  CertLife = 2
  RenewLead = 1
  MissedAfter = 1
  StaleAfter = 2
  Backdate = 1
  WindowLimit = 2
  MaxKeys = 2
  MaxSequence = 3
  Fingerprint = {0, 1}
  MaxFlights = 2
  LastTime = 2
  f1 = f1
  f2 = f2
  Frame = {f1, f2}
  Kind <- MCKind
  Size <- MCSize
  Uploader = {u1, u2}
  Unclaimed = Unclaimed
  MaxItems = 2
  MaxBytes = 3
  MaxAge = 1
  FrameLife = 2
  Skew = 0
  LeaseTime = 1
  MaxSent = 3
  MaxRejected = 1
  MaxRowid = 4
  Routes <- MCRoutes
  Stranger = "stranger"
  NoRoute = "none"
  FailureThreshold = 2
  MaxObservations = 3
  DayLength = 3
  WeekLength = 3
  MaxGrace = 3
  MaxDrift = 1
  WindowSets <- MCWindowSets
  PolicySets <- MCPolicySets
  FirstTime = 12
  EndTime = 21
INVARIANTS
  Recoverable
  JournalTruthful
  EnrolledOnce
  IntegrityChain
  SilenceShows
  FramesAccounted
  PurgeUnblocksClaim
  RoutesServed
  WindowsRight
PROPERTIES
  ImplementsInstalledAgent
  RevokedFrozen
CHECK_DEADLOCK FALSE
