CONSTANTS
    MapSize = 5
    HeaderLen = 2
    Payloads = {0, 1, 2}
    Fsync = TRUE
    None = None
    Readers = {}
    Maps = {}
    MaxEntries = 3
    MaxLosses = 0
SPECIFICATION Spec
CHECK_DEADLOCK FALSE
INVARIANT IteratesAll
