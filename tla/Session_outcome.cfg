SPECIFICATION Spec
CONSTANTS
  MaxJoins = 1
  MaxLookups = 1
INVARIANT SuccessIsFinal
CHECK_DEADLOCK FALSE
