SPECIFICATION FairSpec
CONSTANTS
    Requests = {r1, r2}
    MaxConcurrent = 1
    Providers = {heeding, heedless}
    Heeding = {heeding}
    NoProvider = NoProvider
    Wired = TRUE
PROPERTY ResolveBounded
CHECK_DEADLOCK FALSE
