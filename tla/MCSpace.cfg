SPECIFICATION FairSpec
CONSTANTS
  Cameras = {c1, c2}
  Writers <- MCWriters
  TimeBased <- MCTimeBased
  Lengths = {1, 2}
  MediaMaxAge = 999999
  UnitPercent = 30
  TicksPerHour = 2
  HoursPerDay = 2
  MaxTimeT = 100
  MaxNow = 2
  Faults = {"ctrl"}
  c1 = c1
  c2 = c2
INVARIANTS OldestIsChosen ChosenIsThere WritersKeepDirectory
PROPERTIES RemovedForAReason FootageIsKept DrivesGetGroomed
