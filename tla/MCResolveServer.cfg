SPECIFICATION FairSpec
CONSTANTS
    Requests = {r1, r2}
    MaxConcurrent = 1
    Providers = {heeding, heedless}
    Heeding = {heeding}
    NoProvider = NoProvider
    Wired = TRUE
INVARIANTS Inv MaterialBounded
PROPERTIES SlotsImplemented RequestsEnd ShutdownCompletes
CHECK_DEADLOCK FALSE
