SPECIFICATION FairSpec
CONSTANTS
    Names = {walk, idle}
    EmptyName = EmptyName
    None = None
    Duration = 3
    FadeOut = 1
    MaxLoads = 2
    MaxCalls = 4
    ReloadPlaying = TRUE
CHECK_DEADLOCK FALSE
INVARIANTS
    TypeOK
    LoopIsLoaded
PROPERTIES
    StaysStopped
    LoopResumes
    PlaysOnce
