SPECIFICATION MixedSpec
CONSTANTS
  Request = {"r1", "r2", "a1", "b1", "t1", "l1", "p1"}
  KindOf <- RequestKinds
  SenderOf <- RequestSenders
  Sender <- Senders
  None = None
  Cost = 2
  GlobalBurst = 2
  SenderBurst = 1
  SenderRate = 1
  MaxSenders = 1
  QueueMax = 2
  QueueWait = 2
  RetryWindow = 1
  BatchGap = 1
  BatchMax = 3
  MaxRequests = 3
  Horizon = 3
INVARIANTS TypeOK FreshReservation OneOwner QueueConsistent HeldBucketKept
PROPERTIES SpendsBudget NoStaleSend NoOvertaking
