SPECIFICATION HomeFairSpec
CONSTANTS
    MaxSkip = 1
    BootInterval = 1
    Revisions = {1}
    MaxGeneration = 3
    MaxBoots = 1
INVARIANTS
    OncePerBoot
    DiscoveredOnce
    BannerIsCurrent
PROPERTIES
    SyncIsHandedOver
    WorkerEnds
