SPECIFICATION Spec
SYMMETRY ImageSymmetry
CONSTANTS
    Drawables = {"over", "shade", "face"}
    Multiply = {"shade"}
    TextureOf <- TextureOfDrawable
    Images = {skin, hair}
    OtherThreads = TRUE
    MaxDepth = 3
INVARIANTS
    Textured
    GraphicsKept
