SPECIFICATION PidSpec
CONSTANTS
  Pid = {p1, p2, p3}
  LongPid = {p3}
INVARIANT PidTypeOK
INVARIANT OneUnlessExcused
PROPERTY GuardHolds
