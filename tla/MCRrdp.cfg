SPECIFICATION RrdpSpec
CONSTANTS
    Client = {c1}
    URI = {u1, u2}
    Der = {d1, d2}
    None = None
    Interval = 0
    MaxPDUs = 1
    MaxSerial = 3
    MaxNow = 1
    MaxKilled = 1
SYMMETRY Symmetric
INVARIANTS
    RpInSync
    SuccessMeansComplete
PROPERTIES
    ImplementsReplica
CHECK_DEADLOCK FALSE
