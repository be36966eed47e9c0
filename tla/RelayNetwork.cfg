\* The diamond and the ring, three frames of one flow, one fault.
CONSTANTS
    Flows = {f1}
    Nodes <- DeviceNodes
    Hosts <- DeviceHosts
    Ports <- DevicePorts
    Owner <- PortOwner
    Peer <- PortPeer
    Source <- TalkerPort
    Profiles <- DeviceProfiles
    Routes <- DeviceRoutes
    MaxFrames = 3
    MaxFaults = 1
SPECIFICATION FairSpec
INVARIANTS
    TypeOK
    GoodPathDelivers
    DeliveredOnce
    SinglePathEliminatesNothing
PROPERTIES
    EachCopyIsNew
    TrafficDies
CHECK_DEADLOCK FALSE
