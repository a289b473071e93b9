SPECIFICATION Spec
CONSTANTS
    Chunks = 2
    MaxSeq = 5
INVARIANTS
    AlwaysBoots
    SelectionIsWhole
    UpdateTakesEffect
