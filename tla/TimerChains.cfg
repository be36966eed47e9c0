\* Two run commands, in time or late; a port and the monitor.
CONSTANTS
    Cells = 8
    Addresses <- MCAddresses
    Ports = {"port0"}
    MaxCommands = 2
    MaxTimers = 10
SPECIFICATION Spec
INVARIANTS
    TypeOK
    TickersArmed
    OneChainEach
CHECK_DEADLOCK FALSE
