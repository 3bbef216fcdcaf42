SPECIFICATION FairSpec
CONSTANTS
  a = a
  b = b
  Clients = {a, b}
  Initiators = {a}
  Repeats = TRUE
  ConnIds = 1
  MaxStays = 2
  MaxConns = 1
  MaxToggles = 1
CONSTRAINTS
  IdsDiffer
  SwitchesAreApart
INVARIANTS
  TypeOK
  MembersFollow
  ConnsHaveMembers
  TwoIsBothWays
PROPERTY Meet
CHECK_DEADLOCK FALSE
