SPECIFICATION FairSpec
CONSTANTS
  c1 = c1
  c2 = c2
  Cameras = {c1}
  Configs <- OneCamera
  Essential = {}
  Audio = {}
  MaxAge = {c1}
  DriveSets = {{}, {"CHM", "SSD"}}
  SettingsMsgs = {}
  CamonTTL = 1
  MaxRetries = 0
  MaxLost = 1
  Faults = {"recorder", "meta", "space", "fork"}
INVARIANTS TypeOK StatusHasRecorder RecordersOnlyForAssigned
PROPERTIES PausedStaysStopped PoolSpec DeadRecorderNoticed LostRecorderRestarted HelpersReturn
