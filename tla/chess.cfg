CONSTANTS
  Player = {"ann", "bob"}
  Packet = {"n1", "n2", "y1", "m1", "d1", "r1", "b1"}
  SenderOf <- Players
  KeyOf <- Keys
  CommandOf <- Commanded
  ColorOf <- Asked
  CopiesOf <- Copies
  Wire = {"n1", "n2", "y1", "d1", "r1", "b1"}
  None = None
  ReceiptLimit = 2
  RepeatWindow = 1
  ConfirmWindow = 0
  MaxGames = 1
  Horizon = 1
SPECIFICATION Spec
INVARIANTS PlayedOnce ScoredOnce ToldIsSaved
PROPERTIES NoSilentRestart
CHECK_DEADLOCK FALSE
