CONSTANTS
    main = main
    a = a
    b = b
    f = f
    Root = Root
    NotFound = NotFound
    Main = main
    Files <- MCFiles
    Names = {f}
    Programs <- MCPrograms
SPECIFICATION Spec
INVARIANTS
    IInv
    InProgressIsOnStack
    DoneIsAcyclic
    ImportsAreDirect
    AnalysisSeesLoadedModules
    VerdictIsLogged
PROPERTIES
    LoadedOnce
    Terminates
    ImplementsContract
