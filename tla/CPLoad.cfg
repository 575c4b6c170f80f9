SPECIFICATION FairSpec
CONSTANTS
    a = a
    b = b
    secA = secA
    secB = secB
    Empty = Empty
    Torn = Torn
    Invalid = Invalid
    Nothing = Nothing
    Section <- SampleSections
    Sections = {secA, secB}
    Raw = {a, b, Empty}
    Tied = {secB}
    IOFaults = TRUE
    MaxCrashes = 2
INVARIANT TypeOK
INVARIANT LastGoodIsGood
INVARIANT RestartsFromLastGood
INVARIANT QuietMeansLoaded
PROPERTY ReplacedAsAWhole
PROPERTY NotifiedChangeLoads
PROPERTY SubscriberStops
