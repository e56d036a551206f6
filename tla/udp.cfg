SPECIFICATION Spec
CONSTANTS
    MaxConnects = 1
    MaxTraffic = 3
    MaxFaults = 1
    MaxFlight = 2
    BufSize = 1
    PingRounds = 1
    Retransmit = 0
    Users = {u1, u2}
INVARIANTS AckInWindow StreamIntact
PROPERTIES RelayedInOrder HeardInOrder
CHECK_DEADLOCK FALSE
