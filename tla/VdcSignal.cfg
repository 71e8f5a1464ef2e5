SPECIFICATION Spec
CONSTANTS
  Threads <- MCThreads
  NoOwner = NoOwner
  KeyOrder <- MCKeysOne
  Readings = {1, 2}
  OtherTyped = {}
  Starts <- MCOneStart
  SensorNames <- MCOne
  Faults = {}
  Scenes <- MCNoScenes
  UserButtons = {}
  MaxDepth = 3
PROPERTY SignalStays
