SPECIFICATION Spec
CONSTANTS
    bike = bike
    iot = iot
    x1 = x1
    x2 = x2
    c1 = c1
    c2 = c2
    d1 = d1
    d2 = d2
    None = None
    Profiles = {bike}
    Devices = {x1}
    ProfileOf <- AllBike
    Conns = {c1, c2}
    Dispatches = {d1, d2}
    TargetOf <- ToX1
    FrameSize = 2
    MaxConnections = 2
    PeerFrames <- OwnFrames
    Managed = {}
SYMMETRY ConnSymmetry
INVARIANTS
    TypeOK
    UniqueWhileWriting
    FramesContiguous
    UnsentMeansNoByte
    Bookkeeping
CHECK_DEADLOCK FALSE
