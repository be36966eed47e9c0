\* Two lines, a switch and a host, one port that fails, one command lost.
CONSTANTS
    Nodes = {"s1", "h1"}
    Switches = {"s1"}
    PortNum <- MCPortNum
    MaxFaults = 1
    Lines <- MCLines
    MaxLines = 2
    MaxLost = 1
    MaxClock = 2
SPECIFICATION ControlSpec
INVARIANTS
    TypeOK
    ObeysInOrder
    NewestReachesAll
    EndsAtFirstStop
PROPERTIES
    EachTurnCounts
    EveryCommandTried
CHECK_DEADLOCK FALSE
