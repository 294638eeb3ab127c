CONSTANTS
  Air <- MixedAir
  Delays = {1, 5}
  Window = 4
  DutyLow = 10
  DutyHigh = 20
  TxBudget = 10
SPECIFICATION FairSpec
PROPERTIES Steady Recovers
CHECK_DEADLOCK FALSE
