SPECIFICATION Spec
CONSTANTS
  Threads <- MCThreads
  NoOwner = NoOwner
  KeyOrder <- MCKeys
  Readings = {0}
  OtherTyped = {}
  Starts <- MCOneStart
  SensorNames <- MCNone
  Faults = {}
  Scenes <- MCSleepScenes
  UserButtons = {}
  MaxDepth = 2
INVARIANT SleepSceneSleeps
