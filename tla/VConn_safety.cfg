SPECIFICATION Spec
CONSTANTS
  Initiator = Initiator
  Acceptor = Acceptor
  MaxSendq = 2
  MaxInTransit = 2
  MaxUndelivered = 1
  ConnTimeout = 0
  Lens = {2}
  MaxMsgs <- MsgBound
  MaxRefusals = 2
  InitMsgs = 3
  AccMsgs = 1
INVARIANTS
  TypeOK
  PrefixDelivered
  NoSilentLoss
  ToldOnce
  BufferBound
  AckNumberReached
  OldestIsQueued
  QueuedIsTransmitted
PROPERTY ImplementsStream
CHECK_DEADLOCK FALSE
