CONSTANTS
  Bot = {"b1", "b2"}
  Sender = {"ann", "bob"}
  Request = {"q1", "q2", "q3"}
  BotOf <- OneRun
  SenderOf <- AnnAndBob
  Screened = {"q2"}
  Rounds = 2
  MaxPeople = 1
  MaxAge = 1
  Unsaved = Unsaved
  MaxFailures = 1
  MaxCrashes = 1
  MaxOther = 3
  Horizon = 2
SPECIFICATION Spec
VIEW Distinguished
INVARIANTS ForgottenForGood
PROPERTIES NoLostUpdate AgeRespected
CHECK_DEADLOCK FALSE
