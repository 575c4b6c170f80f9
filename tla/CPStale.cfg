SPECIFICATION FairSpec
CONSTANTS
    a = a
    b = b
    secA = secA
    secB = secB
    Empty = Empty
    Torn = Torn
    Invalid = Invalid
    Nothing = Nothing
    Section <- SampleSections
    Sections = {secA, secB}
    Raw = {a, b, Empty}
    Tied = {}
    IOFaults = FALSE
    MaxCrashes = 0
PROPERTY NewestStaysLoaded
