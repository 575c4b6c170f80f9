SPECIFICATION Spec
CONSTANTS
    a1 = a1
    a2 = a2
    b1 = b1
    c1 = c1
    off1 = off1
    east = east
    west = west
    north = north
    Undefined = Undefined
    Orphan = Orphan
    NoLock = NoLock
    Instances = {a1, a2, b1}
    AZs = {east, west}
    AZName <- SharedZone
    ZkFaults = FALSE
    SessionFaults = FALSE
INVARIANT OneZoneFailsOver
