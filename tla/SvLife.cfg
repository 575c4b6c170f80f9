SPECIFICATION FairSpec
CONSTANTS
    MaxVersion = 2
    Sensitive <- SampleSensitive
    Hosts <- SampleHosts
    Requests = {"r1"}
    Inputs <- SampleInputs
    InAWS = TRUE
INVARIANT TypeOK
INVARIANT VerdictIsOfOneTable
PROPERTY FilterFollows
PROPERTY AddressFollows
PROPERTY KillReturns
PROPERTY StoppedMeansStopped
