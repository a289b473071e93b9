SPECIFICATION ShelfSpec
CONSTANTS
    Ids = {1, 2}
    AtFirst = {2}
    Wanted = {2}
    MaxPath = 2
    PageLimit = 1
    MaxClock = 2
    MaxEdits = 2
    MaxFaults = 1
    LocalCap = 1
    RemoteCap = 1
INVARIANTS
    NothingMissed
    FlagTracksFile
PROPERTIES
    SyncHeals
    LocalsSurvive
    AnnouncedOnce
    NoGhosts
