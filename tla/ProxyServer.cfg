SPECIFICATION Spec
CONSTANTS
    c1 = c1
    c2 = c2
    None = None
    Unparsable = Unparsable
    NoHost = NoHost
    OwnVia = "1.1 squiddish"
    MaxWord = 1023
    SizeUnits <- MCSizeUnits
    DurationUnits <- MCDurationUnits
    PortNumber <- MCPortNumber
    Clients = {c1, c2}
    Environments <- MCEnvironments
    Requests <- MCRequests
INVARIANTS
    TypeOK
    PermitsAccounted
    OnlyPermittedTargets
    LoopsAreCut
    ServesAsConfigured
PROPERTIES
    NobodyWaitsInQueue
    PermitsComeBack
CHECK_DEADLOCK FALSE
