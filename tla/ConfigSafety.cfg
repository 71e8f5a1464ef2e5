SPECIFICATION Spec
CONSTANTS
  d1 = d1
  d2 = d2
  d3 = d3
  d4 = d4
  None = None
  MaxScenes = 3
  MaxSensors = 2
  Dsuids <- MCDsuids
  UserFiles <- MCUserFiles
  Requests <- MCRequests
  CalledScenes <- MCCalledScenes
  IntWidth <- MCIntWidth
  WriteFaults = {"open", "write", "rename"}
  Junk <- MCJunk
INVARIANTS TypeOK RunsAsStored AckedZoneStored LookupEnds
PROPERTIES NeverTorn IdentityKept
SYMMETRY MCSymmetry
