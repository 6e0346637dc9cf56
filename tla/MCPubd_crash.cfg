SPECIFICATION Spec
CONSTANTS
    Client = {c1, c2}
    URI = {u1, u2}
    Der = {d1, d2}
    None = None
    Interval = 0
    MaxPDUs = 1
    MaxSerial = 2
    MaxNow = 1
SYMMETRY Symmetric
INVARIANTS
    TypeOK
    NotifyIntact
PROPERTIES
    NotifyMonotone
    AnsweredMeansAnnounced
    ClientIsolation
    ImplementsRepository
CHECK_DEADLOCK FALSE
