SPECIFICATION LiveSpec
CONSTANTS
    d1 = d1
    d2 = d2
    u1 = u1
    u2 = u2
    Proc = {p1}
    Task = {p1}
    Detail = {d1, d2}
    Product = {u1, u2}
    DetailOf <- IssuedByTwo
    Listed <- TwoDetails
    Failures = {"request", "reply", "rollback"}
    MaxFailures = 2
    MaxVersion = 4
INVARIANTS
    QueueExact
    ManifestComplete
PROPERTIES
    ResyncRepairs
    EventuallyAgrees
CHECK_DEADLOCK FALSE
