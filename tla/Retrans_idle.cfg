SPECIFICATION Spec
CONSTANTS
  Chans = 2
  MaxSendq = 2
  MaxInTransit = 2
  InitRto = 1
  LBound = 1
  UBound = 3
  ConnTimeout = 3
  RetransCheck = 1
  MaxLate = 0
  MaxSends <- SendBound
  FirstSends = 1
  SecondSends = 2
PROPERTY
  RetransmittedBeforeDrop
