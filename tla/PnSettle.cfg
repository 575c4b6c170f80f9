SPECIFICATION FairSpec
CONSTANTS
    Nil = Nil
    Buckets = 1
    Hash <- NoHash
    HostMap <- NoHash
    Regions = {"eu", "us", "ap"}
    History <- SampleHistory
    App = "customer"
    City = "LON"
    MaxRestarts = 1
INVARIANT TypeOK
PROPERTY RoamsForward
PROPERTY Settles
