SPECIFICATION Spec
CONSTANTS
    Ids = {a, b}
    Tasks = {t1, t2}
    NoTask = NoTask
    NoId = NoId
    MaxQueue = 2
    Chunks = 2
    CreateMayFail = TRUE
    MaxGeneration = 5
SYMMETRY Symmetry
INVARIANTS
    OneDownload
    QueueShape
    CancelSticks
    StopsAtChunkBoundary
    NoTruncatedBook
PROPERTIES
    ChangesAreCounted
    CompletionMeansFile
    FlagFollowsFile
    FifoSpec
