SPECIFICATION Spec
CONSTANTS
    Threads = {t1, t2}
    k1 = k1
    k2 = k2
    Kids = {k1, k2}
    Served <- SomeDocuments
    Tokens <- DatedTokens
    NoThread = NoThread
    NoToken = NoToken
    TTL = 3
    MinInterval = 1
    FetchTimeout = 1
    Skew = 1
    MaxLifetime = 2
    MaxClock = 5
    MaxVersion = 2
SYMMETRY AlikeThreads
INVARIANT Inv
PROPERTIES AcceptedKeyFresh RotationObserved VerdictsJustified
