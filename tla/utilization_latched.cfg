CONSTANTS
  Air <- PlainAir
  Delays = {1}
  Window = 4
  DutyLow = 10
  DutyHigh = 20
  TxBudget = 10
SPECIFICATION FairSpec
PROPERTIES NotLatched
CHECK_DEADLOCK FALSE
