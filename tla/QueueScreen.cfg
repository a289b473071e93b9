SPECIFICATION ScreenSpec
CONSTANTS
    Ids = {a}
    Tasks = {t1}
    NoTask = NoTask
    NoId = NoId
    MaxQueue = 2
    Chunks = 1
    CreateMayFail = FALSE
    MaxGeneration = 6
INVARIANTS
    PolledRowsAreCurrent
    PolledFilesAreCurrent
