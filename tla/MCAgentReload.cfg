SPECIFICATION Spec
CONSTANTS
  c1 = c1
  c2 = c2
  Cameras = {c1}
  Configs <- RemovableCamera
  Essential = {}
  Audio = {}
  MaxAge = {}
  DriveSets = {{}, {"CHM"}}
  SettingsMsgs <- AllSettings
  CamonTTL = 1
  MaxRetries = 1
  MaxLost = 1
  Faults = {"recorder", "fork"}
INVARIANT CountNeverLow
PROPERTY GivenUpForGood
