CONSTANTS
  Event = {"e1", "e2", "e3"}
  Report = {"a", "b", "c", "d", "f"}
  EventOf <- Events
  PrintOf <- Prints
  KeyOf <- Keys
  FullOf <- Fulls
  LanesOf <- Lanes
  HazardsOf <- Hazards
  EndOf <- Ends
  PriorityOf <- Priorities
  AlertOf <- Alerts
  AboutOf <- Abouts
  Closure = {"e1", "e2", "works", "m1", "m2", "m3"}
  Worlds <- TheWorlds
  Person = {"p"}
  AskerOf <- Askers
  CommandOf <- Commands
  PageMax = 2
  None = None
  Day = 1
  Week = 3
  OpenEnded = 5
  Ahead = 9
  Shift = 2
  AnnounceExisting = FALSE
  FreshFor = 2
  Gap = 2
  MaxCrashes = 1
  Horizon = 4
SPECIFICATION ChannelSpec
INVARIANTS NothingSkipped
PROPERTIES OnlyNews CityNews CancelledToTold NoRevival OneList
CHECK_DEADLOCK FALSE
