SPECIFICATION Spec
CONSTANTS
    r1 = r1
    r2 = r2
    r3 = r3
    r4 = r4
    k1 = k1
    NoKey = NoKey
    NoBuffer = NoBuffer
    NoRequest = NoRequest
    b1 = b1
    b2 = b2
    b3 = b3
    Requests = {r1, r2, r3, r4}
    Keys = {k1}
    Bucket <- BusyBucket
    QueueSize = 1
    Buffers = {b1, b2, b3}
INVARIANT TypeOK
PROPERTY TalliesOnce
INVARIANT AtMostOneLost
SYMMETRY Interchangeable
CHECK_DEADLOCK FALSE
