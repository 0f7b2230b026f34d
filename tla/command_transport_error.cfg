SPECIFICATION Spec
CONSTANTS
    c1 = c1
    c2 = c2
    w1 = w1
    w2 = w2
    k1 = k1
    k2 = k2
    Commands = {c1}
    Workers = {w1}
    OnlineOnly = {c1}
    ProviderOf <- WwtiotOnly
    ResultKeys = {}
    DispatchDeadline = 3
    ResultTimeout = 2
    LeaseDuration = 1
    DispatchLease = 1
    Skew = 0
    LastCreate = 1
    MaxClock = 4
INVARIANTS
    TransportErrorIsUnsent
