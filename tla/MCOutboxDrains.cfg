SPECIFICATION WorkSpec
CONSTANTS
  w1 = w1
  j1 = j1
  c1 = c1
  c2 = c2
  Null = Null
  Worker <- MCWorker
  Job <- MCJob
  Check <- MCCheck
  Batches <- MCBatches
  Receipts <- MCReceipts
  Slots <- MCSlots
  Demand <- MCDemand
  JobLifetimes <- MCJobLifetimes
  MaxAttempts = 2
  LeaseLifetime = 1
  MaxDelay = 0
  MaxTime = 2
  MaxItems = 8
  PausePercent = 75
  MaxFaults = 2
PROPERTIES
  OutboxDrains
