SPECIFICATION FairSpec
CONSTANTS
  N = 3
  MaxRecords = 6
  Faults = {"slowStart"}
INVARIANTS OverwrittenOnlyWhenFull TestedDataIsThere AcceptedIsKept
PROPERTIES FifoSpec AcceptedIsTaken StopReturns
