CONSTANTS
  Session = {"s1", "s2"}
  ScanOrder <- StoreKeys
  Program <- StoreProgram
  Reference <- StoreCall
  KnownDeadlocks <- MCKnownDeadlocks
  Excluded <- MCNothing
SPECIFICATION MCHandoverSpec
INVARIANT HandoverExact
