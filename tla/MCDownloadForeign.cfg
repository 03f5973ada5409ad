SPECIFICATION Spec
CONSTANTS
  MaxTime = 2
  Locations = {"usb"}
  StageLocations = {}
  Unreadable = {}
  Untimed = {}
  Offset <- MCOffset
  CurrentOffset = 1
  Faults = {}
INVARIANT ForeignFilesStay
