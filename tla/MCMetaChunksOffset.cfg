SPECIFICATION Spec
CONSTANTS
  Hours = {1, 2}
  ChunkSize = 2
  MaxRecords = 3
  MaxMsgs = 3
  Faults = {}
INVARIANT FirstPointerIsOk
