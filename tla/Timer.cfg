\* Sub-millisecond time: two ticks a millisecond, two milliseconds a second.
CONSTANTS
    Timer = {t1, t2, t3}
    Delay <- ZeroDelays
    NsPerMs = 2
    MsPerSec = 2
    HugeSecs = 10
    MaxTime = 6
    MaxDepth = 1
SPECIFICATION FairSpec
INVARIANTS TypeOK ListsExact
PROPERTIES CheckTerminates ImplementsService CalledInOrder CollectedInOrder
