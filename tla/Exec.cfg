SPECIFICATION FairSpec
CONSTANTS
  Size = 4
  TmpSize = 3
  Timeout = 1
  TicksPerSec = 2
  MaxOutput = 4
  MaxCalls = 2
INVARIANT OutputExact
INVARIANT ExecOnTime
INVARIANT SignalsHonoured
PROPERTY ExecEnds
CHECK_DEADLOCK FALSE
