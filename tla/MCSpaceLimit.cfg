SPECIFICATION Spec
CONSTANTS
  Cameras = {c1, c2}
  Writers <- MCWriters
  TimeBased <- MCTimeBased
  MediaMaxAge = 48
  Lengths = {1, 2}
  UnitPercent = 30
  TicksPerHour = 2
  HoursPerDay = 2
  MaxTimeT = 100
  MaxNow = 4
  Faults = {}
  c1 = c1
  c2 = c2
PROPERTY RemovedForAReason
