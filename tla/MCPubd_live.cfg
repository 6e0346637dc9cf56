SPECIFICATION SpecFairReliable
CONSTANTS
    Client = {c1}
    URI = {u1}
    Der = {d1}
    None = None
    Interval = 0
    MaxPDUs = 2
    MaxSerial = 3
    MaxNow = 1
INVARIANTS
    NotifyContiguous
PROPERTIES
    QueryAnswered
    RsyncAgrees
CHECK_DEADLOCK FALSE
