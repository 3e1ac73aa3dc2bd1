SPECIFICATION FramesSpec
CONSTANTS
    Parameter = Parameter
    OtherParameter = OtherParameter
    MaxAdded = 2
    Names = {walk}
    EmptyName = EmptyName
    None = None
    Duration = 2
    FadeOut = 1
    MaxLoads = 1
    MaxCalls = 2
INVARIANTS
    TypeOK
    SavedIsClean
PROPERTIES
    NoDrift
    PostOnce
    AnimationOff
    NoBlinkInMotion
