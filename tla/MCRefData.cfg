SPECIFICATION Spec
CONSTANTS
    Objects = {o1, o2}
    Nil = Nil
    MaxRef = 5
    Names = {n1, n2}
    NoName = NoName
SYMMETRY Symmetry
INVARIANTS
    TypeOK
    FreeListOK
    OwnersDisjoint
    NoLeak
PROPERTIES
    GrowsOnlyWhenFull
    StoreSpec
