SPECIFICATION Spec
CONSTANTS
    Threads = {t1, t2}
    k1 = k1
    k2 = k2
    Kids = {k1, k2}
    Served <- SomeDocuments
    Tokens <- GoodTokens
    NoThread = NoThread
    NoToken = NoToken
    TTL = 3
    MinInterval = 2
    FetchTimeout = 1
    Skew = 1
    MaxLifetime = 8
    MaxClock = 2
    MaxVersion = 2
PROPERTY ForcedFetchThrottled
