SPECIFICATION Spec
CONSTANTS
    Names = {walk, idle}
    EmptyName = EmptyName
    None = None
    Duration = 2
    FadeOut = 1
    MaxLoads = 2
    MaxCalls = 2
    ReloadPlaying = TRUE
CHECK_DEADLOCK FALSE
INVARIANTS
    NoUseAfterDelete
