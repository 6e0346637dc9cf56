SPECIFICATION LiveSpec
CONSTANTS
    Instance = {i1, i2}
    TaskClasses <- Classes
    Items = 2
    MaxChanges = 2
INVARIANTS
    RunNowMeansDone
PROPERTIES
    GivesWay
    RunNowAnswered
