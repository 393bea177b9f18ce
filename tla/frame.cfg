CONSTANTS
    a = a
    b = b
    c = c
    d = d
    e = e
    u = u
    Names = {a, b, c, d, e, u}
    Width <- WidthOf
    InitialCapacity = 2
SPECIFICATION Spec
INVARIANTS
    TypeOK
    SlotsDisjoint
    SlotsInFrame
    OneSlotEach
