SPECIFICATION FairSpec
CONSTANTS
  Header = 2
  MaxSize = 4
  Block = 2
  Bodies = {0, 2}
  MaxMsgs = 3
INVARIANTS
  InOrder
  LossIsReal
PROPERTIES
  LossIsNoticed
  AllHandled
CHECK_DEADLOCK FALSE
