SPECIFICATION Spec
CONSTANTS
  c1 = c1
  c2 = c2
  Cameras = {c1, c2}
  Configs <- TwoCameras
  Essential = {c1, c2}
  Audio = {}
  MaxAge = {}
  DriveSets = {{}, {"CHM"}}
  SettingsMsgs = {}
  CamonTTL = 1
  MaxRetries = 0
  MaxLost = 1
  Faults = {"recorder"}
INVARIANT CountMatchesRecorders
