SPECIFICATION Spec
CONSTANTS
    g1 = g1
    g2 = g2
    gzip = gzip
    None = None
    Unparsable = Unparsable
    AptEnabled = TRUE
    PackageTTL = 3
    ListTTL = 1
    OtherTTL = 0
    DefaultTTL = 2
    Gets = {g1, g2}
    Asks <- PageAndAptFiles
    Responses <- MCResponses
    MaxTime = 2
    MaxDownloads = 2
CONSTRAINTS
    OneKeyInUse
    OtherAptFilesOnce
SYMMETRY GetSymmetry
INVARIANTS
    TypeOK
    AnswersFresh
    StoredAsDocumented
PROPERTIES
    ImplementsFreshCache
CHECK_DEADLOCK FALSE
