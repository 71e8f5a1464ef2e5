SPECIFICATION FairSpec
CONSTANTS
  Threads <- MCThreads
  NoOwner = NoOwner
  MaxSensors = 2
  Active = 2
  Requests <- MCRequests
  Unnamed = Unnamed
  MaxDepth = 1
  MaxPolls = 2
INVARIANTS TypeOK Released AnsweredOnce CodeTells  AgeFits
PROPERTY Ends
