SPECIFICATION FairSpec
CONSTANTS
    MaxDepth = 1
INVARIANTS
    SettledPanelIsCurrent
    ResultsReachTheAsker
    WakeupsPair
PROPERTIES
    UpdatesAreShown
    WaitEnds
