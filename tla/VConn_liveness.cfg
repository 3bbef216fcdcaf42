SPECIFICATION FairSpec
CONSTANTS
  Initiator = Initiator
  Acceptor = Acceptor
  MaxSendq = 2
  MaxInTransit = 2
  MaxUndelivered = 1
  ConnTimeout = 1
  Lens = {0, 1}
  MaxMsgs <- MsgBound
  MaxRefusals = 0
  InitMsgs = 2
  AccMsgs = 1
PROPERTIES QueueDrains CloseEnds
CHECK_DEADLOCK FALSE
