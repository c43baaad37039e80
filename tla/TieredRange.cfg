SPECIFICATION Spec
CONSTANTS
    g1 = g1
    g2 = g2
    gzip = gzip
    None = None
    Unparsable = Unparsable
    AptEnabled = TRUE
    PackageTTL = 3
    ListTTL = 1
    OtherTTL = 1
    DefaultTTL = 0
    Gets = {g1, g2}
    Asks <- WholeAndPart
    Responses <- MCResponses
    MaxTime = 2
    MaxDownloads = 2
SYMMETRY GetSymmetry
INVARIANT AnswerFitsRequest
CHECK_DEADLOCK FALSE
