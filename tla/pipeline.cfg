CONSTANTS
  Sender <- TwoSenders
  Message = {"m1", "m2", "m3", "m4", "p1", "p2", "p3"}
  SenderOf <- AnnAndBob
  KindOf <- MentionsDirect
  RouteOf <- AllChecked
  None = None
  Limit = 1
  ResetAfter = 1
  MaxPeople = 1
  Horizon = 3
  Scripts <- MixedScripts
  Shorten = 1
  ModelTimeout = 2
  SearchTimeout = 1
  Trip = 2
  Cooldown = 1
  TopicFor = 1
  ValidFor = 1
  Corridor = {"EB", "WB"}
  NoReport = NoReport
  MaxReportAge = 2
  Corrections <- ClockErrors
  OutcomesKept = 2
SPECIFICATION PipelineSpec
INVARIANTS LoopBounded DeadlineKept UsableOnly RememberedHonestly
PROPERTIES FactsFresh Ends
CHECK_DEADLOCK FALSE
