CONSTANTS
  Sender <- OneSender
  Message = {"m1", "m2", "m3", "m4"}
  SenderOf <- FourSender
  KindOf <- AllDirect
  RouteOf <- AllRedirect
  None = None
  Limit = 2
  ResetAfter = 2
  MaxPeople = 2
  Horizon = 1
SPECIFICATION Spec
INVARIANTS AnswersBounded
CHECK_DEADLOCK FALSE
