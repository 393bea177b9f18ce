CONSTANTS
    Root = "root"
    Modules <- MCModules
    Programs <- MCPrograms
    Library <- MCLibrary
    MainName <- MCMain
    Digits <- MCDigits
    Characters <- MCCharacters
SPECIFICATION Spec
INVARIANTS
    AcceptedProgramsLink
    CallsReachTheirFunction
    OneBodyEach
