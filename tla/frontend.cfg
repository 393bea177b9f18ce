CONSTANTS
    NumberBits = 8
    MaxValue = 8
    PathSize = 12
    FirstCapacity = 4
    TopLevelVariables = TRUE
    Null = Null
    Inputs <- MCInputs
SPECIFICATION Spec
INVARIANTS
    TokensAreTheText
    ParsesTheLanguage
PROPERTIES
    MovesForward
