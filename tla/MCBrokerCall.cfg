SPECIFICATION FairSpec
CONSTANTS
    Endpoints <- SomeEndpoints
    MaxRetries = 3
    MaxRedirects = 3
INVARIANTS Inv IssuedOnce AnsweredInTime
PROPERTIES NoMintAfterAnswer CallEnds
CHECK_DEADLOCK FALSE
