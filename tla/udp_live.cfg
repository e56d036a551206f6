SPECIFICATION LiveSpec
CONSTANTS
    MaxConnects = 2
    MaxTraffic = 2
    MaxFaults = 1
    MaxFlight = 1
    BufSize = 1
    PingRounds = 1
    Retransmit = 1
    Users = {u1}
INVARIANTS TypeOK ReadsOwnBattle
PROPERTIES HandshakeEnds WindowDrains
CHECK_DEADLOCK FALSE
