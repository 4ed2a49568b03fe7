SPECIFICATION OneJobSpec
CONSTANTS
  w1 = w1
  w2 = w2
  j1 = j1
  c1 = c1
  c2 = c2
  Null = Null
  Worker <- MCWorker
  Job <- MCJob
  Check <- MCCheck
  Batches <- MCBatches
  Receipts <- MCReceipts
  Slots <- MCSlots
  Demand <- MCDemand
  JobLifetimes <- MCJobLifetimes
  MaxAttempts = 2
  LeaseLifetime = 2
  MaxDelay = 1
  MaxTime = 4
INVARIANTS
  LeasesSound
  AttemptsBounded
  EvidenceContiguous
  SuccessIsProven
  ManifestSound
  CompletedScanIsComplete
PROPERTIES
  TerminalStable
  LiveLeaseKept
  ReassignmentExact
