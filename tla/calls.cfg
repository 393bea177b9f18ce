CONSTANTS
    main = main
    seven = seven
    eight = eight
    one = one
    Functions = {main, seven, eight, one}
    Main = main
    Sizes <- TheSizes
    ParamCount <- TheParamCount
    Assigned <- TheAssigned
    CallSites <- TheCallSites
    Top = 256
    MaxDepth = 3
SPECIFICATION Spec
INVARIANTS
    FramesIntact
    LinksIntact
    StackAligned
