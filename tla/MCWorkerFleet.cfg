SPECIFICATION TwoJobsSpec
CONSTANTS
  w1 = w1
  w2 = w2
  j1 = j1
  j2 = j2
  c1 = c1
  Null = Null
  Worker <- MCWorker
  Job <- MCJob
  Check <- MCCheck
  Batches <- MCBatches
  Receipts <- MCReceipts
  Slots <- MCSlots
  Demand <- MCDemand
  JobLifetimes <- MCJobLifetimes
  MaxAttempts = 2
  LeaseLifetime = 1
  MaxDelay = 0
  MaxTime = 3
INVARIANTS
  QuarantineFinal
  CapacityRespected
