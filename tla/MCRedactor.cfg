SPECIFICATION Spec
CONSTANTS
    a = a
    b = b
    lead = lead
    cont = cont
    Bytes = {a, b, lead, cont}
    Continuation = {cont}
    SecretSets <- SomeSecrets
    Chunks <- Pieces
    MaxInput = 5
INVARIANTS Inv WholeSecretsHidden OnlySecretsHidden SplitIndependent
CHECK_DEADLOCK FALSE
