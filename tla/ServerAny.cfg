\* Callbacks disconnect, stop and start whatever they like.
CONSTANTS
    Server = {s1}
    Cnx = {c1, c2}
    NumFds = 6
    MaxFds = 4
    MaxCnx = 2
    MaxBacklog = 1
    MaxStack = 4
    LingerFails = TRUE
    OwnCnxOnly = FALSE
SPECIFICATION Spec
INVARIANTS CnxLists DescriptorsOwned PollExact
CHECK_DEADLOCK FALSE
