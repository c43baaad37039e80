SPECIFICATION StallSpec
CONSTANTS
    r1 = r1
    r2 = r2
    r3 = r3
    k1 = k1
    None = None
    Requests = {r1, r2}
    Keys = {k1}
    KeyOf <- KeyOfOne
    MaxChunks = 1
    Capacity = 1
PROPERTY JoinersSettle
