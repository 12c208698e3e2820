SPECIFICATION FairSpec
CONSTANTS
    cap1 = cap1
    cap2 = cap2
    vault = vault
    keepersm = keepersm
    exec = exec
    key = key
    bootstrap = bootstrap
    v1 = v1
    v2 = v2
    Capabilities = {cap1, cap2}
    Providers = {vault, keepersm, exec}
    Registered = {vault, keepersm}
    Keys = {key, bootstrap}
    Values = {v1, v2, blank}
    Blank = blank
    BaseEnv <- Ambient
    Omit <- Omits
    Requests <- AllRequests
    Bindings <- AllBindings
    Materials <- SomeMaterials
    Nothing = Nothing
    MaxClock = 3
INVARIANTS Inv ChildEnvironment
PROPERTIES CredentialsScoped RunEnds
CHECK_DEADLOCK FALSE
