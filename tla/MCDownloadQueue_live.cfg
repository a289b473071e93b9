SPECIFICATION FairSpec
CONSTANTS
    Ids = {a, b}
    Tasks = {t1, t2}
    NoTask = NoTask
    NoId = NoId
    MaxQueue = 1
    Chunks = 1
    CreateMayFail = TRUE
    MaxGeneration = 3
PROPERTIES
    QueueDrains
    IdleWorkerLeaves
