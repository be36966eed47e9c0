\* A match behind an early frame.
CONSTANTS
    NumQueues = 2
    Length = 3
    Gcl <- MCGcl
    Streams <- MCStreams
    Algorithms = {"ErrorTolerance"}
    Capacity = 5
    FrameBytes = 2
    MaxArrivals = 3
SPECIFICATION Spec
INVARIANT TakesMatchedFrame
