SPECIFICATION FairSpec
CONSTANTS
    Documents <- DocumentsConsidered
    TextureCount = 2
    DefaultNames = {"default 1", "default 2"}
    IdleNames = {"idle"}
    DefaultEyes = {"default eyes"}
    NoName = NoName
    MaxCalls = 2
INVARIANTS
    Ownership
    LostOnlyByFiles
    Complete
    StartedStays
    StackBounded
PROPERTIES
    LoadEnds
CHECK_DEADLOCK FALSE
