SPECIFICATION Spec
CONSTANTS
  Threads <- MCThreads
  NoOwner = NoOwner
  KeyOrder <- MCKeys
  Readings = {0}
  OtherTyped = {}
  Starts <- MCOneStart
  SensorNames <- MCNone
  Faults = {"lost"}
  Scenes <- MCMixedScenes
  UserButtons = {5}
  MaxDepth = 1
INVARIANTS SceneReached
