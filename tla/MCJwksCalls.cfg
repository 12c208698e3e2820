SPECIFICATION FairSpec
CONSTANTS
    Threads = {t1, t2}
    k1 = k1
    k2 = k2
    Kids = {k1, k2}
    Served <- SomeDocuments
    Tokens <- MixedTokens
    NoThread = NoThread
    NoToken = NoToken
    TTL = 1
    MinInterval = 1
    FetchTimeout = 1
    Skew = 1
    MaxLifetime = 8
    MaxClock = 1
    MaxVersion = 2
PROPERTIES KeySetsInOrder ExpiryCoalesced ForcedFetchSpacing KnownKidNotBlocked CallsReturn
