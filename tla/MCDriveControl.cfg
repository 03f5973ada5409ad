SPECIFICATION FairSpec
CONSTANTS
  PsonEvery = 3
  ChmEvery = 2
  MaxThreads = 2
  Faults = {"chm", "power", "mount", "reading"}
INVARIANTS OneMountThread ReadyIsMounted PowerLossIsFinal ChmLossIsTold
PROPERTIES DriveComesBack DriveIsReleased
