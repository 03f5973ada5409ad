SPECIFICATION Spec
CONSTANTS
  c1 = c1
  c2 = c2
  Cameras = {c1}
  Configs <- RemovableCamera
  Essential = {c1}
  Audio = {}
  MaxAge = {}
  DriveSets <- AllDrives
  SettingsMsgs = {}
  CamonTTL = 1
  MaxRetries = 1
  MaxLost = 1
  Faults = {"recorder"}
INVARIANT NoRemnants
