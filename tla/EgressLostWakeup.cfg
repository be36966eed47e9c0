\* A tick between the last gate test and the disabling of EPOLLOUT.
CONSTANTS
    NumQueues = 2
    Length = 3
    Gcl <- MCGcl
    Streams <- MCStreams
    Algorithms = {"ErrorTolerance"}
    Capacity = 5
    FrameBytes = 2
    MaxArrivals = 3
SPECIFICATION Spec
INVARIANT NothingToBeSent
