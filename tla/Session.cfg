SPECIFICATION FairSpec
CONSTANTS
  MaxJoins = 3
  MaxLookups = 2
INVARIANTS
  TypeOK
  TimersAreOwned
  JoinOutcome
  ConnectedIsAnnounced
PROPERTIES
  ConnectEnds
  JoinEnds
CHECK_DEADLOCK FALSE
