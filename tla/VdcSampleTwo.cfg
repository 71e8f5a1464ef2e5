SPECIFICATION Spec
CONSTANTS
  Threads <- MCThreads
  NoOwner = NoOwner
  KeyOrder <- MCKeys
  Readings = {0}
  OtherTyped = {}
  Starts <- MCStarts
  SensorNames <- MCNone
  Faults = {}
  Scenes <- MCSampleScenes
  UserButtons = {}
  MaxDepth = 2
INVARIANTS SampleSceneTwo
