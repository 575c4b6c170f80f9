SPECIFICATION FairSpec
CONSTANTS
    Nil = Nil
    Buckets = 3
    Hash <- SampleHash
    HostMap <- SampleHostMap
    Requests = {"r1"}
    Inputs <- SampleInputs
    Configs <- SampleConfigs
    UrlNames = {"api", "hms"}
    Admins = {"s1"}
    H1Statuses <- SampleH1Statuses
    H2Replies <- SampleH2Replies
INVARIANT TypeOK
INVARIANT BestRuleWins
INVARIANT TimestampMatchesUrls
INVARIANT PinsOnlineRegion
INVARIANT BackendAsRouted
INVARIANT HobReachesBackend
INVARIANT OneSession
INVARIANT CountedOnce
PROPERTY EveryRequestAnswered
