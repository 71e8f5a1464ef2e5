SPECIFICATION FairSpec
CONSTANTS
  Threads <- MCThreads
  NoOwner = NoOwner
  KeyOrder <- MCKeysOne
  Readings = {1, 9}
  OtherTyped = {9}
  Starts <- MCOneStart
  SensorNames <- MCOne
  Faults = {"lost", "partial"}
  Scenes <- MCNoScenes
  UserButtons = {}
  MaxDepth = 3
PROPERTIES Terminates Announces FirstReport
