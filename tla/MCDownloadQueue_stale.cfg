SPECIFICATION Spec
CONSTANTS
    Ids = {a, b}
    Tasks = {t1, t2}
    NoTask = NoTask
    NoId = NoId
    MaxQueue = 1
    Chunks = 2
    CreateMayFail = TRUE
    MaxGeneration = 6
PROPERTIES
    StaleResultIsHarmless
