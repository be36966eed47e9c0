\* Both selection algorithms, two queues of two frames each, three frames received.
CONSTANTS
    NumQueues = 2
    Length = 3
    Gcl <- MCGcl
    Streams <- MCStreams
    Algorithms = {"ErrorTolerance", "PriorityStrict"}
    Capacity = 5
    FrameBytes = 2
    MaxArrivals = 3
SPECIFICATION Spec
INVARIANTS
    TypeOK
    Accounting
    ScanInBounds
    Conservation
    PassIsComplete
    OnlyScheduledAgeOut
PROPERTIES
    PassEnds
    ImplementsChannel
