SPECIFICATION Spec
CONSTANTS
    p1 = p1
    p2 = p2
    r1 = r1
    r2 = r2
    d1 = d1
    d2 = d2
    i1 = i1
    i2 = i2
    i3 = i3
    i4 = i4
    Processes = {p1, p2}
    Requests = {r1}
    Dirs = {d1, d2}
    DirOf <- OwnDirectory
    Prior <- PriorConfigs
    Ids = {i1, i2, i3, i4}
    Migrations = 1
    OmniConfigured = {p1}
    SyncFaults = {"backup", "env", "phase", "restore", "clean", "marker"}
    MaxFaults = 1
PROPERTIES
    InstallationIsFinal
