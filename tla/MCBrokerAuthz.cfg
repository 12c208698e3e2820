SPECIFICATION Spec
CONSTANTS
    Names <- AllNames
    Hosts <- AllHosts
    Paths <- AllPaths
    Deployments <- AllDeployments
    BearerTokens <- SomeTokens
    Capabilities <- SomeCapabilities
    DefaultJWKS = "cursorKeys"
INVARIANTS
    Inv
    GrantJustified
    NoDeadRule
CHECK_DEADLOCK FALSE
