\* Two ticks a millisecond: truncated differences let order errors add up.
CONSTANTS
    Timer = {t1, t2, t3}
    Delay <- SubMsDelays
    NsPerMs = 2
    MsPerSec = 4
    HugeSecs = 10
    MaxTime = 7
    MaxDepth = 1
SPECIFICATION OrderSpec
PROPERTIES OverdueCollected
CHECK_DEADLOCK FALSE
