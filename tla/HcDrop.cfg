SPECIFICATION Spec
CONSTANTS
    MaxRate = 8
    DropOff = 50
    ErrRate = 25
INVARIANT DropIsReportedOnce
INVARIANT LossIsReported
