SPECIFICATION FairSpec
CONSTANTS
    root = root
    ann = ann
    bob = bob
    eve = eve
    p1 = p1
    p2 = p2
    r1 = r1
    r2 = r2
    r3 = r3
    ip1 = ip1
    Users = {root, ann, bob, eve}
    Admin = root
    Projects = {p1, p2}
    Requests = {r1, r2, r3}
    Scenarios <- Contention
    InitialUsers = {root, ann, bob}
    InitialManager <- AnnsProject
    Rank <- Order
    Addresses = {ip1}
    EmailIPLimit = 1
    IPLimit = 2
    Window = 1
    MaxTransfers = 2
    MaxClock = 1
INVARIANTS
    TypeOK
    ManagersAccounted
    AuthorisedAtCommit
    EndedSessionsStayEnded
    FailuresWithinLimits
PROPERTIES
    RequestsAnswered
CHECK_DEADLOCK FALSE
