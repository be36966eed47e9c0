\* Two flows of different size, three tickers, one frame received; the tags of the frames.
CONSTANTS
    FlowNum = 2
    Size <- MCSize
    Mtu = 20
    DataLen = 20
    MaxPayload = 18
    Profiles <- MCProfiles
    MaxTicks = 3
    MaxReceived = 1
SPECIFICATION PathSpec
INVARIANTS
    PathTypeOK
    TagsArrive
    ReachesUnlessFolded
    BurstWithinOneFrame
    NumberedInOrder
    CountBounded
PROPERTY ComesToRest
CHECK_DEADLOCK FALSE
