\* One server with room for two connections, three blocks of memory for them.
CONSTANTS
    Server = {s1}
    Cnx = {c1, c2, c3}
    NumFds = 7
    MaxFds = 4
    MaxCnx = 2
    MaxBacklog = 1
    MaxStack = 4
    LingerFails = FALSE
    OwnCnxOnly = TRUE
SPECIFICATION FairSpec
INVARIANT NoFault
PROPERTIES ClientsServed StopTerminates ImplementsPoll
