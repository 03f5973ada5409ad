SPECIFICATION FairSpec
CONSTANTS
  MaxTime = 3
  Locations = {"vdownload"}
  StageLocations = {"vdownload"}
  Unreadable = {}
  Untimed = {2}
  Offset <- MCOffset
  CurrentOffset = 1
  Faults = {"destination", "open", "size", "copy", "read", "encrypt", "zip"}
INVARIANTS ArchiveIsWhole FilesAreClosed SegmentsMatch OffsetIsOwn
PROPERTY RequestIsAnswered
