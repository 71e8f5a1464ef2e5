SPECIFICATION Spec
CONSTANTS
  Threads <- MCThreads
  NoOwner = NoOwner
  KeyOrder <- MCKeysOne
  Readings = {1}
  OtherTyped = {}
  Starts <- MCOneStart
  SensorNames <- MCOne
  Faults = {"malformed", "partial"}
  Scenes <- MCReadScene
  UserButtons = {}
  MaxDepth = 3
INVARIANTS TypeOK MutexSafe AnnouncedIsCurrent NoLostSignal
PROPERTIES ToldInOrder
