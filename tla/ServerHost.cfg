SPECIFICATION HostFairSpec
CONSTANTS
    Servers = {p1, p2, p3}
    Free = Free
    Waiting = {p1, p2}
INVARIANTS
    ServerReachable
    UnlinksDeadSocket
PROPERTIES
    StartAndStopEnd
