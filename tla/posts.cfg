CONSTANTS
  Process = {"p1", "p2", "p3", "p4"}
  Controller = {"p3"}
  None = None
  Grace = 1
  KillWait = 0
  Worlds <- TheWorlds
  DayLength = 4
  Morning = 1
  Evening = 3
  FortuneTime = 1
  Jitter = 1
  Window = 2
  Cutoff = 1
  Winter = 7
  Tip = {"w1", "s1", "b1", "b2"}
  TopicOf <- Topical
  Topics <- InTurn
  Recent = 10
  Voice = {"usual", "pirate", "formal"}
  Default = "usual"
  Timeout = 2
SPECIFICATION FairSpec
INVARIANTS OneRadio AttemptedOnce TipsRotate
PROPERTIES WaiterSpared VoiceKept Handover
CHECK_DEADLOCK FALSE
