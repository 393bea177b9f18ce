CONSTANTS
    v = v
    w = w
    Arrays = {v, w}
    ElemSize <- ArrayElemSize
    Requests = {0, 5, 24, 40, 110, 125}
    SizeMax = 127
    Header = 24
    DefaultChunk = 32
    FirstCapacity = 2
    MaxBlocks = 5
    MaxAppends = 5
SPECIFICATION Spec
INVARIANTS
    TypeOK
    BlocksDisjoint
    ArraysFit
    NothingDropped
    NothingLeaks
