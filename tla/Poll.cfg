\* The discipline of the library's own handlers: a callback removes only its
\* own descriptor and does not call af_poll_run.
CONSTANTS
    Fd = {3, 4, 5, 6}
    Ctx = {k1, k2}
    MaxFds = 3
    MaxDepth = 1
    OwnFdOnly = TRUE
SPECIFICATION FairSpec
INVARIANTS TypeOK UniqueFds NothingUnpolled PendingRegistered
PROPERTIES CallsRegistered ReportedIsCalled ImplementsDispatch
