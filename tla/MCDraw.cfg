SPECIFICATION Spec
CONSTANTS
    Meshes = 4
    Pixels = {1, 2}
    ModelShapes <- ModelsConsidered
    RenderOrders <- OrdersConsidered
    GameBlends = {"normal", "screen"}
    GameShaders = {"default", "own"}
    GameTests <- TestsConsidered
INVARIANTS
    TypeOK
    Clipped
    OwnBlend
    PaintersOrder
PROPERTIES
    Restored
