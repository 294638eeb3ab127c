SPECIFICATION FairSpec
CONSTANTS
  Request = {"r1", "b1"}
  KindOf <- LiveKind
  SenderOf <- LiveSender
  Sender <- Senders
  None = None
  Cost = 2
  GlobalBurst = 1
  SenderBurst = 1
  SenderRate = 1
  MaxSenders = 1
  QueueMax = 2
  QueueWait = 2
  RetryWindow = 2
  BatchGap = 1
  BatchMax = 3
  MaxRequests = 3
  Horizon = 4
PROPERTIES QueueMoves OwnerLeaves StopDrains
