SPECIFICATION DeviceSpec
CONSTANTS
    i1 = i1
    i2 = i2
    w = w
    Contents = {1, 2}
    Names = {1, 2}
    Size <- MCSize
    Asked <- MCAsked
    Cap = 1
    Imports = {i1, i2}
    Opens = {w}
    Scans = {s}
    Deletes = {d}
    MaxTrouble = 1
    q1 = q1
    q2 = q2
    MaxRange = 2
    Sizes = {0, 1, 2, 3, 4}
    Requests = {q1, q2}
    Asks <- MCAsks
    Keys = {k1, k2, k3}
    Commands = {c1, c2}
    MaxFaults = 2
INVARIANTS
    WindowsAreExact
    OneIdentity
    CommittedWithinCap
    ReportedIsKept
CHECK_DEADLOCK FALSE
