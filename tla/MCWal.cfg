CONSTANTS
    MapSize = 4
    HeaderLen = 1
    Payloads = {0, 1, 2}
    Fsync = TRUE
    None = None
    Readers = {r1, r2}
    Maps = {m1, m2, m3, m4}
    MaxEntries = 3
    MaxLosses = 1
SPECIFICATION Spec
SYMMETRY ReaderSymmetry
CHECK_DEADLOCK FALSE
INVARIANTS
    ReplayIsExact
    
    OneMap
