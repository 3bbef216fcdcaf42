SPECIFICATION Spec
CONSTANTS
  Chans = 2
  MaxSendq = 2
  MaxInTransit = 2
  InitRto = 1
  LBound = 1
  UBound = 3
  ConnTimeout = 4
  RetransCheck = 1
  MaxLate = 1
  MaxSends <- SendBound
  FirstSends = 1
  SecondSends = 2
INVARIANTS
  RetransmitInTime
  GivesUp
PROPERTY
  EstimateIsKept
