SPECIFICATION Spec
CONSTANTS
    MaxQueue = 2
INVARIANTS
    StartNeverBlocks
