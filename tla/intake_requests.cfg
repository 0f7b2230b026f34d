SPECIFICATION FairSpec
CONSTANTS
    root = root
    ann = ann
    bob = bob
    p1 = p1
    p2 = p2
    lock1 = lock1
    lock2 = lock2
    k1 = k1
    k2 = k2
    r1 = r1
    r2 = r2
    r3 = r3
    Users = {root, ann, bob}
    Admin = root
    Projects = {p1, p2}
    Devices = {lock1, lock2}
    IdempotencyKeys = {k1, k2}
    Requests = {r1, r2, r3}
    Scenarios <- Contention
    InitialManager <- Managers
    InitialDevices <- OneDevice
    Unsupported <- NoUnlock
    Rank <- Order
INVARIANTS
    TypeOK
    EventsTellLifecycle
    KeyNamesOneCommand
PROPERTIES
    CommandsWellFounded
    RequestsAnswered
CHECK_DEADLOCK FALSE
