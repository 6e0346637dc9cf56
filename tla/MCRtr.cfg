SPECIFICATION LiveSpec
CONSTANTS
    Prefix = {p1}
    Serial <- Clock
    Modulus = 16
    Day = 3
    MaxRuns = 3
    MaxCrashes = 1
INVARIANTS
    CurrentIsServable
    RouterInSync
PROPERTIES
    RouterCatchesUp
CHECK_DEADLOCK FALSE
