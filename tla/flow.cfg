CONSTANTS
    x = x
    y = y
    Names = {x, y}
    Constant = Constant
    NoValue = NoValue
    MaxSize = 5
    MaxNesting = 3
    NestedFunctions = FALSE
    PushFaults = TRUE
    SaveFaults = FALSE
SYMMETRY VariableNames
SPECIFICATION Spec
INVARIANTS
    TypeOK
    FlowIsSound
PROPERTIES
    FunctionsReturn
    VariablesKeepTheirScope
