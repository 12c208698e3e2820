SPECIFICATION Spec
CONSTANTS
    cap1 = cap1
    cap2 = cap2
    Capabilities = {cap1, cap2}
    blankName = blankName
    Blank = blankName
    Configs <- SomeConfigs
    Manifests <- SomeManifests
    Requests <- SomeRequests
    Malformed = malformed
    Absent = absent
    MaxChanges = 1
INVARIANTS Inv LoadedUsable PlanForetells
CHECK_DEADLOCK FALSE
