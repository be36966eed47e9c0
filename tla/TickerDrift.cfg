\* Delays up to a whole interval and beyond, and a clock that is set once.
CONSTANTS
    NsPerSec = 4
    UnitsPerSec = 2
    Chains <- MCChains
    FirstTime = 7
    MaxDelay = 3
    MaxWork = 1
    Steps <- MCSteps
    MaxSteps = 1
    MaxChanges = 5
SPECIFICATION Spec
INVARIANTS
    TypeOK
    OnlyWorkAccumulates
    BreaksOnlyWhenLate
CHECK_DEADLOCK FALSE
