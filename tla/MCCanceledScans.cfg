SPECIFICATION FairSpec
CONSTANTS
  Null = Null
  Scan = {policyScan}
  Scheduled = {policyScan}
  Windowed = {policyScan}
  c1 = c1
  c2 = c2
  policyScan = policyScan
  manualScan = manualScan
  Checks <- MCChecks
  Canceling = {policyScan}
  QueueSize = 1
  MaxConcurrent = 2
  MaxClock = 2
  MaxRestarts = 1
PROPERTIES
  CancelIsFinal
CHECK_DEADLOCK FALSE
