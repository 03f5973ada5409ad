SPECIFICATION Spec
CONSTANTS
  Hours = {1, 2}
  ChunkSize = 3
  MaxRecords = 4
  MaxMsgs = 2
  Faults = {"open"}
INVARIANTS ForwardChangeStartsChunk WritesHitOpenFile NothingLeftBehind FiledUnderItsHour IndexIsWhole
PROPERTY StoreSpec
