SPECIFICATION FairSpec
CONSTANTS
    Books = {b1, b2}
    Shared = {b1}
    None = None
    MaxPos = 2
    MaxRows = 2
    MaxFaults = 1
INVARIANTS
    AnswerFitsBook
    RadioGivenBack
    MarkerIsAcknowledged
PROPERTIES
    UnsentIsRetried
    NotAskedTwice
    SlotComesBack
