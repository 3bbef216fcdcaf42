SPECIFICATION Spec
CONSTANTS
  a = a
  b = b
  Clients = {a, b}
  Initiators = {a, b}
  Repeats = FALSE
  ConnIds = 2
  MaxStays = 1
  MaxConns = 2
  MaxToggles = 0
INVARIANT IdIdentifies
CHECK_DEADLOCK FALSE
