SPECIFICATION Spec
CONSTANTS
    a = a
    b = b
    lead = lead
    cont = cont
    Bytes = {a, b, lead, cont}
    Continuation = {cont}
    SecretSets <- SomeSecrets
    Chunks <- Pieces
    MaxInput = 5
INVARIANT SplitValuesRedacted
CHECK_DEADLOCK FALSE
