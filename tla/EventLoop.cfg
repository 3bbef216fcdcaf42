SPECIFICATION FairLoopSpec
CONSTANTS
  MaxJoins = 1
  MaxLookups = 1
  HelloInterval = 3
  RetransCheck = 1
  RoominfoInterval = 2
  ServconnLimit = 2
  JoinLimit = 2
  TicksPerSecond = 2
INVARIANTS
  ListIsOrdered
  SleepIsBounded
PROPERTIES
  ImplementsSession
  PeriodicForever
  ProcessReturns
CHECK_DEADLOCK FALSE
