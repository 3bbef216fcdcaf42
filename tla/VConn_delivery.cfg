SPECIFICATION PromptSpec
CONSTANTS
  Initiator = Initiator
  Acceptor = Acceptor
  MaxSendq = 2
  MaxInTransit = 2
  MaxUndelivered = 1
  ConnTimeout = 1
  Lens = {1}
  MaxMsgs <- MsgBound
  MaxRefusals = 0
  InitMsgs = 3
  AccMsgs = 1
PROPERTY AllDelivered
CHECK_DEADLOCK FALSE
