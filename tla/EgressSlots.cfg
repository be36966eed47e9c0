CONSTANTS
    NumQueues = 2
    Length = 3
    Gcl <- MCGcl
    Streams <- MCStreams
    Algorithms = {"ErrorTolerance", "PriorityStrict"}
    Capacity = 5
    FrameBytes = 2
    MaxArrivals = 2
    SlotWork = 10
SPECIFICATION SlotSpec
PROPERTY ScheduledFrameLeaves
