CONSTANTS
  Cost = 3
  Burst = 1
  FollowUps = 2
  Horizon = 8
SPECIFICATION SpacingSpec
INVARIANTS RateBound
PROPERTIES Spaced
CHECK_DEADLOCK FALSE
