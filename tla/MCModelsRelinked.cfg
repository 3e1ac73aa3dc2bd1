SPECIFICATION Spec
CONSTANTS
    Nil = Nil
    NoName = NoName
    newShader = newShader
    newMesh = newMesh
    NameOrder <- TwoNames
    MaxRef = 5
    ModelIds = {m1}
    Meshes = 1
    MaxSessions = 2
INVARIANTS
    StencilHeld
