SPECIFICATION Spec
CONSTANTS
    k1 = k1
    k2 = k2
    r1 = r1
    Keys = {k1, k2}
    Readers = {r1}
    Sizes <- MCSizes
    Times = {0, 1}
    MetaSize = 1
    MaxSize = 4
    MaxPuts = 2
    MaxFaults = 1
    None = None
INVARIANT NoGhosts
CHECK_DEADLOCK FALSE
