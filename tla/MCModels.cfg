SPECIFICATION Spec
CONSTANTS
    Nil = Nil
    NoName = NoName
    newShader = newShader
    newMesh = newMesh
    NameOrder <- TwoNames
    MaxRef = 7
    ModelIds = {m1, m2}
    Meshes = 1
    MaxSessions = 2
SYMMETRY Symmetry
INVARIANTS
    TypeOK
    OwnRefs
    Collected
    NamesResolve
PROPERTIES
    UsesRefData
