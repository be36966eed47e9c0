\* One run command whose start time has come when start() arms it.
CONSTANTS
    Cells = 5
    Addresses <- MCAddresses
    Ports = {"port0"}
    MaxCommands = 1
    MaxTimers = 9
SPECIFICATION Spec
INVARIANTS
    CallsLiveTicker
CHECK_DEADLOCK FALSE
