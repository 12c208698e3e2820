SPECIFICATION FairSpec
CONSTANTS
    r1 = r1
    r2 = r2
    Refs <- TwoRefs
    Limit = 1
    PipeSize = 2
    Printed <- SomeLengths
    Screens <- SomeScreens
    Documents <- SomeDocuments
    Ambients <- SomeAmbients
INVARIANTS Inv MaterialComplete
PROPERTIES FallbackDecided ProgramNeverStuck ResolveEnds
CHECK_DEADLOCK FALSE
