SPECIFICATION Spec
CONSTANTS
    Width = 4
    Precision = 3
    Sets <- SmallSets
    Raw <- ShortLists
    RoaSets <- PrefixLists
INVARIANTS
    SetOpsAreRight
    ChopIsRight
CHECK_DEADLOCK FALSE
