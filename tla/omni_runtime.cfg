SPECIFICATION RuntimeSpec
CONSTANTS
    bike = bike
    iot = iot
    x1 = x1
    x2 = x2
    c1 = c1
    c2 = c2
    d1 = d1
    d2 = d2
    None = None
    Profiles = {bike, iot}
    Devices = {x1, x2}
    ProfileOf <- AllBike
    Conns = {c1}
    Dispatches = {d1, d2}
    TargetOf <- ToX1
    FrameSize = 1
    MaxConnections = 1
    PeerFrames <- FewFrames
    Managed = {x1}
INVARIANTS
    MessagesFaithful
PROPERTIES
    ShutdownCompletes
    DispatchEnds
CHECK_DEADLOCK FALSE
